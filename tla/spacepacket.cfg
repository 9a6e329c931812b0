SPECIFICATION Spec
CONSTANTS
  M_PDU_DATA_ZONE_SIZE = 6
  MIN_SPACE_PACKET_SIZE = 3
  FHP_NO_HDR = 7
  CountLimit = 8
  VcfcLimit = 4
  Lengths = {0, 2, 3, 4, 5, 6, 7, 8, 9, 10, 11, 12, 13}
  MaxPackets = 3
INVARIANTS FramesWellFormed StreamIsUnbroken EveryPacketSent NeverPanics FewestFrames
CHECK_DEADLOCK FALSE
