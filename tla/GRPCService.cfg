SPECIFICATION FairSpec
CONSTANTS
  Keys = {k1, k2}
  Calls = {c1, c2}
  CacheEnabled = TRUE
  MaxCacheSize = 1
  MaxVersion = 1
  MaxFaults = 2
  MaxInbox = 2
  NoEntry = NoEntry
INVARIANTS
  RetriesSound
  OutageTracked
  CoveredEntriesCurrent
PROPERTIES
  ImplementsLifecycle
  OutageEnds
CHECK_DEADLOCK FALSE
