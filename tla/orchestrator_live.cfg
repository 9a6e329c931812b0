SPECIFICATION FairSpec
CONSTANTS
  a = a
  b = b
  NoPlug = NoPlug
  Plug = {a,b}
  Process = {a}
  Unkillable = {}
  Plain = {a,b}
  Configs <- TwoWayConfigs
  Cap = 1
  MaxFrames = 2
PROPERTIES CloseIsBounded TearDownCompletes FramesArrive
CHECK_DEADLOCK FALSE
