CONSTANTS
  Requests = {r1, r2, r3}
  NoRequest = none
SPECIFICATION Spec
INVARIANTS
  OnePending
  SurvivesDisconnect
PROPERTY
  NoShutdownAfterClose
CHECK_DEADLOCK FALSE
