SPECIFICATION MCSpec
CONSTANTS
  alice = alice
  bob = bob
  Contexts <- MCContexts
  targetingKey <- MCTargetingKey
  Options <- MCOptions
  Tasks = {t1, t2}
  None = None
  MaxContextChanges <- MCMaxContextChanges
  MaxVersion = 1
  MaxFaults = 1
  MaxEvents = 3
SYMMETRY Symmetry
INVARIANTS
  PollingTracked
  WatchesUncached
PROPERTIES
  
  QuietAfterClose
CHECK_DEADLOCK FALSE
