\* Three names: a shared sink, a link to a missing plug and a good link can
\* meet in one configuration, in every iteration order.
SPECIFICATION FairLaunchSpec
CONSTANTS
  a = a
  b = b
  c = c
  Name = {a, b, c}
  NoName = NoName
  Endpoints <- Worlds
INVARIANTS DialsOnlyWellFormed FailsForAReason
PROPERTIES JoinedAcceptsMeet DialEnds
CHECK_DEADLOCK FALSE
