CONSTANTS
  Results = {r1, r2}
  Transients = {t1}
  None = None
  PendingSize = 1
  MaxConns = 2
SPECIFICATION FairSpec
INVARIANTS
  InitialFirst
  QueuedOnce
PROPERTY RunTerminates
