SPECIFICATION FairSpec
CONSTANTS
  Items = {i1, i2}
  Channels = {c1}
  Channel <- SameChannel
  Procs = {p, q}
  MaxSends = 2
  MaxLoad = 3
  MaxTroubles = 1
INVARIANTS
  SentOnce
  NothingIsDropped
  WorkGoesOn
PROPERTIES
  EveryMessageLeaves
CHECK_DEADLOCK FALSE
