CONSTANTS
  Ids = {a, b, c}
  NoId = none
  QueueSize = 1
  ResultSize = 2
  MaxSubmits = 5
SPECIFICATION AppsFairSpec
INVARIANTS
  DuplicatesTracked
PROPERTIES
  RequestsAnswered
CHECK_DEADLOCK FALSE
