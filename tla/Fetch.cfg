SPECIFICATION MCSpec
CONSTANTS
  Keys = {k1, k2}
  Definitions = {d1, d2}
  MaxFaults = 2
  MaxInbox = 2
  MaxPushes = 2
  FileContents <- MCContents
  Reads = {r1, r2}
  MaxWrites = 2
INVARIANTS
  FileFollowed
  StorageFollowsServer
  ChangesAnnouncedOnceInitialized
PROPERTIES
  Converges
CHECK_DEADLOCK FALSE
