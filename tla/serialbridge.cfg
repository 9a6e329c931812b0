SPECIFICATION FairSpec
CONSTANTS
  Client = {alice, bob}
  NoClient = none
  ReadSize = 1
  PortCap = 1
  SocketCap = 1
  MaxFed = 3
  MaxSaid = 2
INVARIANTS WireIsApart HeardOnce CleanEndReachesDevice
PROPERTIES PortComesFree
CHECK_DEADLOCK FALSE
