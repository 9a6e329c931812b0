SPECIFICATION FairSpec
CONSTANTS
  ReadSize = 2
  PipeCap = 1
  TcpCap = 1
  MaxBytes = 3
INVARIANTS BytesInOrder CleanEndIsComplete
PROPERTIES EitherCloseEnds
CHECK_DEADLOCK FALSE
