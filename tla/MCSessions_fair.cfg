SPECIFICATION FairSpec
CONSTANTS
  MAX_SESSIONS = 2
  MAX_OUTPUT_SIZE = 1
  PIPE_SIZE = 1
  Streams = {"stdout"}
  MaxCreate = 2
  MaxCmd = 1
  MaxOut = 1
  Sizes = {"small", "big"}
  Signals = {"kill", "stop"}
  Background = TRUE
INVARIANTS
  SessionsOwnShells
  QuietBetweenRequests
PROPERTIES
  RequestReturns
  ShellsEnd
