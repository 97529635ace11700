SPECIFICATION Spec
CONSTANTS
  MaxRuns = 2
  MaxChunks = 2
  Handles = {h1, h2}
  INVALID_SOCKET = INVALID_SOCKET
  RecvLimit = 0
  FrameLimit = 0
  ClientWaits = TRUE
INVARIANT FramesOfOneRun
SYMMETRY HandleSymmetry
CHECK_DEADLOCK FALSE
