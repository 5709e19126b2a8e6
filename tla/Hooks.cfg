SPECIFICATION MCSpec
CONSTANTS
  Keys = {"k", "l"}
  Stages = {"before", "after"}
  DebounceTime = 2
  MaxTime = 3
  MaxCalls = 2
  Flags = {"f"}
  Sends = {s1, s2}
  MaxInits = 2
  MaxFailures = 2
  Names = {"p", "q"}
  Asks <- MCAsks
  Requests = {1, 2}
  Ttl = 1
  Size = 1
  MaxClock = 2
  MaxWrites = 1
INVARIANTS
  EventsConserved
  CachedIsRecent
PROPERTIES
  StagesDebounced
CHECK_DEADLOCK FALSE
