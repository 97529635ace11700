SPECIFICATION FairSpec
CONSTANTS
  MaxRuns = 1
  MaxChunks = 2
  Handles = {h1}
  INVALID_SOCKET = INVALID_SOCKET
  RecvLimit = 1
  FrameLimit = 2
  ClientWaits = TRUE
PROPERTIES StopEndsSocketThread NotRunningEndsFramer
CHECK_DEADLOCK FALSE
