CONSTANTS
  Jobs = {"j1"}
  Urls = {"u1", "u2"}
  Dests = {"d1"}
  Commands <- MCCommands
  NoCommand = NoCommand
  Malformed <- MCMalformed
  Workers = {w1, w2}
  QueueSize = 1
  CacheSize = 1
  MaxAttempts = 2
SPECIFICATION FairSpec
INVARIANTS
  TypeOK
  ActiveTracksJobs
  CacheConsistent
  CompletedIsPublished
PROPERTIES
  ImplementsBoard
  AttemptsSettle
