SPECIFICATION FairSpec
CONSTANTS
  Events = {e1}
  Procs = {p, q}
  MaxTries = 2
  MaxTasks = 2
  MaxFaults = 1
  MaxBreaks = 1
INVARIANTS
  RunsOnce
  NothingIsDropped
PROPERTIES
  EventsEnd
CHECK_DEADLOCK FALSE
