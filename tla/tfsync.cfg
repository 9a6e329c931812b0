SPECIFICATION FairSpec
CONSTANTS
  FrameSize = 4
  TrailerSize = 2
  Byte = {64, 1, 0}
  MaxChunk = 5
  MaxInput = 9
INVARIANTS SentAreFrames NoFrameMissed BufferStaysShort
PROPERTIES MessageWorkedOff
CHECK_DEADLOCK FALSE
