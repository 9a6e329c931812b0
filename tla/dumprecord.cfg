SPECIFICATION Spec
CONSTANTS
  MaxFrames = 4
  MaxPieces = 6
INVARIANTS FileIsReplayable EchoedIsRecorded CleanExitIsComplete
CHECK_DEADLOCK FALSE
