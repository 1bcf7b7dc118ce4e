CONSTANTS
  Ids = {i1}
  Old = old
  NoId = none
  Hosts <- MCHosts
  LoopbackHosts <- MCLoopback
  NoHost = nohost
  Ports = {80, 443}
  Targets <- MCTargets
  Configs <- MCConfigs
  MaxRequests = 1
  MaxFaults = 1
  MaxForgets = 1
  MaxHops = 2
SPECIFICATION FairSpec
INVARIANTS
  StatusTruthful
  OneAgentPerMachine
  RunsOnlyConfirmed
  Confined
PROPERTIES
  DeadlinesBind
  RetrySettles
