SPECIFICATION Spec
CONSTANTS
  Keys = {k1}
  Definitions = {d1, d2}
  MaxFaults = 2
  MaxInbox = 2
  MaxPushes = 2
INVARIANT
  ChangesAnnounced
CHECK_DEADLOCK FALSE
