SPECIFICATION Spec
CONSTANTS
  MAX_SESSIONS = 1
  MAX_OUTPUT_SIZE = 2
  PIPE_SIZE = 2
  Streams = {"stdout"}
  MaxCreate = 2
  MaxCmd = 2
  MaxOut = 1
  Sizes = {"missing", "small", "big", "huge"}
  Signals = {"kill", "stop", "cont"}
  Background = TRUE
INVARIANTS
  TypeOK
  OwnStatus
  CompleteOutput
  NoLateOutput
  SessionsOwnShells
