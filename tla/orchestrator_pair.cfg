SPECIFICATION Spec
CONSTANTS
  a = a
  b = b
  NoPlug = NoPlug
  Plug = {a, b}
  Process = {a}
  Unkillable = {a}
  Plain = {b}
  Configs <- AllConfigs
  Cap = 1
  MaxFrames = 2
INVARIANTS Conservation LostOnlyToAClosedPlug EndpointsReturned PanicOnlyWithoutLinks ResultIsEarned
PROPERTIES CloseIsLast RelaySpec
CHECK_DEADLOCK FALSE
