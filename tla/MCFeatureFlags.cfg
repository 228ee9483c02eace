SPECIFICATION Spec
CONSTANTS
  web = web
  node = node
  w1 = w1
  a = a
  b = b
  m = m
  s = s
  Guilds = {g, h}
  Procs = {web, node}
  Web = {w1}
  Worker = worker
  ProcOf <- MCProcOf
  Plugins = {m, s}
  FlagsOf <- MCFlagsOf
  None = None
  Settings <- MCSettings
  MaxChanges = 2
  MaxTroubles = 1
  MaxFetches = 2
  MaxLoad = 2
  Watched = {g}
CHECK_DEADLOCK FALSE
INVARIANTS
  FlagsFollowSettings
PROPERTIES
  UpdatesEnd
  CachesRefine
