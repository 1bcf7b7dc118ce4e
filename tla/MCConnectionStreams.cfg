CONSTANTS
  MaxStarts = 2
  MaxCommands = 4
SPECIFICATION FairSpec
INVARIANTS
  OneStream
  StopMeansStopped
  LatestStateWins

  
