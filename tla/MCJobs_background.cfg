SPECIFICATION FairSpec
CONSTANTS
  JOB_TABLE_MAX = 3
  MaxPid = 2
  MaxPipe = 0
  MaxDepth = 1
  MaxStop = 2
  MaxSig = 1
  Codes = {0}
  WaitArgs <- ChildPids
  KillSignals = {9, 15, 18, 19}
INVARIANTS
  StateIsTrue
PROPERTIES
  WaitTerminates
