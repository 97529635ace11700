SPECIFICATION Spec
CONSTANTS
  Bytes = {0, 1, 3}
  Base = 4
  IntBytes = 2
  HeaderLen = 2
  HasLengthFunc = TRUE
  LengthFunc <- GetFrameLength
  FixedLen = 0
  MaxFrameLen = 6
  BuffSize = 4
  MaxRecv = 4
  QueueLimit = 2
  MaxBytes = 7
INVARIANTS TypeOK Conserved NoCompleteEventHeld HeaderIsLength
 
CHECK_DEADLOCK FALSE
