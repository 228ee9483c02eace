SPECIFICATION FairSpec
CONSTANTS
  Keys = {k1, k2}
  Callers = {p1, p2, p3}
  TTLs = {0, 2}
  Timeouts = {1}
  MaxCalls = 4
INVARIANTS
  MutualExclusion
PROPERTIES
  OnlyTheOwnerReleases
  LockReturns
