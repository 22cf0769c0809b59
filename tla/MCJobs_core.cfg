SPECIFICATION Spec
CONSTANTS
  JOB_TABLE_MAX = 2
  MaxPid = 3
  MaxPipe = 2
  MaxDepth = 1
  MaxStop = 1
  MaxSig = 0
  Codes = {0, 3}
  WaitArgs <- ChildPids
  KillSignals = {}
INVARIANTS
  TypeOK
  ReapOwnership
  DoneIsTrue
  RefsOK
  WaitNeverStarves
