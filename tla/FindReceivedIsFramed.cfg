SPECIFICATION Spec
CONSTANTS
  MaxRuns = 1
  MaxChunks = 1
  Handles = {h1, h2}
  INVALID_SOCKET = INVALID_SOCKET
  RecvLimit = 0
  FrameLimit = 0
  ClientWaits = TRUE
INVARIANT ReceivedIsFramed
SYMMETRY HandleSymmetry
CHECK_DEADLOCK FALSE
