SPECIFICATION MCSpec
CONSTANTS
  HashRange = 12
  MaxWeight = 6
  FlagKeys = {"a", "b"}
  Configurations <- MCConfigurations
  EvalContexts <- MCEvalContexts
  Numbers = {0, 1}
  Rollouts <- MCRollouts
  VersionTexts <- MCVersions
  Environments <- MCEnvironments
  Options <- MCOptions
  Contexts = {c1, c2}
  Fetches = {f1, f2}
  MaxRetries = 1
  MaxDelay = 3
  MaxVersion = 1
  MaxFaults = 2
  MaxInbox = 2
INVARIANTS
  FlagsAnswer
  OperatorsHold
  SettingsHold
  KeepsUp
PROPERTY
  StreamComesBack
CHECK_DEADLOCK FALSE
