SPECIFICATION FairSpec
CONSTANTS
  Apps = {"mfc", "cs"}
  MaxRuns = 2
  MaxChunks = 2
INVARIANTS TypeOK FilesInOrder IdleIsQuiet FramerAlone PausedByWriter
INVARIANT FramesHaveReader
 
CHECK_DEADLOCK FALSE
