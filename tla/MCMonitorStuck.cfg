SPECIFICATION MSpec
CONSTANTS
  a = a
  b = b
  c = c
  d = d
  Nodes = {a, b}
  Shards = {0}
  Newcomers = {}
  Placements <- Warm
  Responsible = {0}
  MaxShardsPerNode = 1
  ShardBucketSize = 1
  BucketsPerNode = 1
  Downtime = 1
  Cooldown = 1
  Migrates = TRUE
  MaxDoubled = 1
  SlowOpen = FALSE
  BusyTargets = FALSE
  MaxOps = 1
  MaxEvents = 0
  MaxDrops = 1
PROPERTIES
  AllShardsRun
CHECK_DEADLOCK FALSE
