SPECIFICATION FSpec
CONSTANTS
  a = a
  b = b
  c = c
  d = d
  Nodes = {a, b, c, d}
  Shards = {0, 1}
  Newcomers = {c, d}
  Placements <- OnTwoNodes
  SlowOpen = FALSE
  BusyTargets = FALSE
  MaxOps = 4
  MaxEvents = 0
  MaxDrops = 1
  EarlyPicks = TRUE
  MaxJobs = 1
INVARIANTS
  NoShardLost
  OneGatewayPerShard
PROPERTIES
  ShutsDownEmptyNode
  UndisturbedMigrationEnds
CHECK_DEADLOCK FALSE
