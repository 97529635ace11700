SPECIFICATION Spec
CONSTANTS
  Bytes = {0, 1, 2}
  Base = 4
  IntBytes = 3
  HeaderLen = 3
  HasLengthFunc = TRUE
  LengthFunc <- GetFrameLength
  FixedLen = 0
  MaxFrameLen = 5
  BuffSize = 5
  MaxRecv = 5
  QueueLimit = 0
  MaxBytes = 5
INVARIANT EventStart
CHECK_DEADLOCK FALSE
