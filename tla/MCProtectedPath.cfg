CONSTANTS
  Procs = {service, repair}
  Service = service
  NoProc = none
  Absent = absent
  RuntimeRoot <- R
  InstallRoot <- I
  Data <- D
  BadNames = {}
  Objects <- MCObjects
  Files <- MCFiles
  Order <- MCOrder
  LockFile <- L
  Tampered <- MCTampered
  Downloads <- DL
  AllowLists <- MCAllowLists
  Destinations <- MCDestinations
  MaxEvents = 2
SPECIFICATION FairSpec
INVARIANTS
  GateHolds
  LandsWhereChecked
  StaysOutside
PROPERTIES
  RepairsOnlySafe
  Recovers
CHECK_DEADLOCK FALSE
