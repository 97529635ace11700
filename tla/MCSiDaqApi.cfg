SPECIFICATION Spec
CONSTANTS
  MaxRuns = 2
  MaxChunks = 2
  Handles = {h1}
  INVALID_SOCKET = INVALID_SOCKET
  RecvLimit = 1
  FrameLimit = 2
  ClientWaits = TRUE
INVARIANTS TypeOK NoLoss InOrder RestFlushed StoppingClosed LimitEndsReceiving
PROPERTIES  ThreadsRunOut 
CHECK_DEADLOCK FALSE
