SPECIFICATION FairSpec
CONSTANTS
  MaxBody = 2
  MinTcTf = 2
  InCap = 1
  OutCap = 3
  MaxOwn = 2
  Sizes = {1, 2, 3}
  MaxFed = 4
INVARIANTS OkMeansAllIsWritten
PROPERTIES FilterSpec ReturnMeansExit CloseEndsPlug ShutdownReturns
CHECK_DEADLOCK FALSE
