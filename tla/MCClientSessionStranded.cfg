CONSTANTS
  Results = {r1}
  Transients = {}
  None = None
  PendingSize = 1
  MaxConns = 2
SPECIFICATION FairSpec
PROPERTY QueuedIsSent
