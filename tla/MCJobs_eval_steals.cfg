SPECIFICATION FairSpec
CONSTANTS
  JOB_TABLE_MAX = 1
  MaxPid = 1
  MaxPipe = 0
  MaxDepth = 2
  MaxStop = 0
  MaxSig = 0
  Codes = {0}
  WaitArgs <- ChildPids
  KillSignals = {}
PROPERTIES
  WaitTerminates
