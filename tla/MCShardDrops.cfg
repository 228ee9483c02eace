SPECIFICATION Spec
CONSTANTS
  a = a
  b = b
  c = c
  Nodes = {a, b, c}
  Shards = {0, 1}
  Newcomers = {c}
  Placements <- OnOneNode
  SlowOpen = FALSE
  BusyTargets = TRUE
  MaxOps = 1
  MaxEvents = 2
  MaxDrops = 2
INVARIANTS
  OneGatewayPerShard
  RunningIsKnown
CHECK_DEADLOCK FALSE
