SPECIFICATION FairSpec
CONSTANTS
  MaxRuns = 1
  MaxChunks = 1
  Handles = {h1}
  INVALID_SOCKET = INVALID_SOCKET
  RecvLimit = 0
  FrameLimit = 0
  ClientWaits = TRUE
PROPERTY StoppingEnds
CHECK_DEADLOCK FALSE
