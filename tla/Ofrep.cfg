SPECIFICATION MCSpec
CONSTANTS
  Urls = {u1, u2}
  Generations = 2
  MaxConnects = 4
  MaxErrors = 3
  Calls = {c1, c2}
  Types = {"boolean", "string"}
  MaxPause = 2
  lower <- MCLower
  NaN = "NaN"
  EnvInputs <- MCEnvInputs
  OptionInputs <- MCOptionInputs
INVARIANTS
  ConnectedOnce
  AskedAndAnswered
PROPERTIES
  PauseFollowsServer
  NothingLeftPending
CHECK_DEADLOCK FALSE
