CONSTANTS
  Backups = 2
  Limit = 2
  MaxWrites = 6
  MaxFailures = 3
SPECIFICATION LogFairSpec
PROPERTIES
  LogIntact
  WritesRecover
