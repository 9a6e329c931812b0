SPECIFICATION FairSpec
CONSTANTS
  a = a
  b = b
  NoPlug = NoPlug
  Plug = {a,b}
  Process = {a}
  Unkillable = {}
  Plain = {a,b}
  Configs <- SeparateConfigs
  Cap = 1
  MaxFrames = 2
PROPERTIES OneEndClosesAll
CHECK_DEADLOCK FALSE
