SPECIFICATION FairReplaySpec
CONSTANTS
  MaxStamp = 3
  MaxRecords = 3
  Dumps <- SmallDumps
  Starts = {2, 4}
  MaxTime = 6
INVARIANTS PaceIsKept
PROPERTIES ReplayEnds
CHECK_DEADLOCK FALSE
