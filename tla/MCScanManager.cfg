CONSTANTS
  Scans = {s1, s2, s3, bad}
  NoScan = none
  Invalid = {bad}
SPECIFICATION FairSpec
INVARIANTS
  OneScan
  AnsweredOnce
PROPERTIES
  ImplementsBoard
CHECK_DEADLOCK FALSE
