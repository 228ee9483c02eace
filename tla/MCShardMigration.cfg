SPECIFICATION FairSpec
CONSTANTS
  a = a
  b = b
  c = c
  Nodes = {a, b, c}
  Shards = {0, 1}
  Newcomers = {}
  Placements <- OnOneNode
  SlowOpen = FALSE
  BusyTargets = FALSE
  MaxOps = 3
  MaxEvents = 2
  MaxDrops = 0
INVARIANTS
  ViewsAgree
PROPERTIES
  ResumesWithAllState
  ResumesNewestSession
  MigrationEnds
  OwnsShards
CHECK_DEADLOCK FALSE
