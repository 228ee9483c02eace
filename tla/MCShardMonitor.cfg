SPECIFICATION MSpec
CONSTANTS
  a = a
  b = b
  c = c
  d = d
  Nodes = {a, b, c}
  Shards = {0, 1, 2}
  Newcomers = {c}
  Placements <- Either
  Responsible = {0, 1, 2}
  MaxShardsPerNode = 2
  ShardBucketSize = 2
  BucketsPerNode = 1
  Downtime = 1
  Cooldown = 1
  Migrates = TRUE
  MaxDoubled = 1
  SlowOpen = FALSE
  BusyTargets = FALSE
  MaxOps = 1
  MaxEvents = 0
  MaxDrops = 1
INVARIANTS
  OneGatewayPerShard
  SlotsAreApart
PROPERTIES
  ShardsRunAgain
CHECK_DEADLOCK FALSE
