SPECIFICATION Spec
CONSTANTS
  a = a
  b = b
  NoPlug = NoPlug
  Plug = {a,b}
  Process = {a,b}
  Unkillable = {}
  Plain = {}
  Configs <- LinkedConfigs
  Cap = 1
  MaxFrames = 1
INVARIANTS EveryChildReapedOrKilled
CHECK_DEADLOCK FALSE
