SPECIFICATION Spec
CONSTANTS
  JOB_TABLE_MAX = 1
  MaxPid = 2
  MaxPipe = 2
  MaxDepth = 2
  MaxStop = 0
  MaxSig = 1
  Codes = {3}
  WaitArgs <- AnyWaitArg
  KillSignals = {9, 15, 18, 19}
INVARIANTS
  DoneIsTrue
