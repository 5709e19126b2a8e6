SPECIFICATION MCSpec
CONSTANTS
  alice = alice
  bob = bob
  Contexts <- MCContexts
  targetingKey <- MCTargetingKey
  Options <- MCOptions
  Tasks = {t1, t2}
  None = None
  MaxContextChanges <- MCMoreContextChanges
  MaxVersion = 1
  MaxFaults = 1
  MaxEvents = 4
PROPERTY
  FlagsFollowContext
CHECK_DEADLOCK FALSE
