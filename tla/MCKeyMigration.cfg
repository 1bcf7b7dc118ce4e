CONSTANTS
  MaxFaults = 3
  MaxEdits = 2
SPECIFICATION FairSpec
INVARIANTS
  BackupCoversReplacement
  VerdictTruthful
  EditNotOverwritten
PROPERTY Converges
