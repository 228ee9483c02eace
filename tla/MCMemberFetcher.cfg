SPECIFICATION Spec
CONSTANTS
  big = big
  small = small
  m1 = m1
  m2 = m2
  m3 = m3
  Callers = {c, d}
  Guilds = {big, small}
  Members = {m1, m2, m3}
  GuildOf <- MCGuildOf
  Many = 1
  MaxAsked = 1
  Foreign <- MCForeign
  MaxBatches = 2
  MaxLeaves = 1
  MaxLoad = 2
CHECK_DEADLOCK FALSE
INVARIANTS
  WaitersAreQueued
  NobodyComesBack
PROPERTIES
  EveryRequestIsAnswered
  MissingWasAskedFor
