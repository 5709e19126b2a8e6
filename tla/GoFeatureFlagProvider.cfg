SPECIFICATION MCSpec
CONSTANTS
  Events = {e1, e2}
  MaxPendingEvents = 2
  MaxFaults = 1
  MaxVersion = 2
  MaxLoadFaults = 1
  AddressBits = 2
  ValueTypes = {"boolean", "array", "null"}
  ErrorCodes = {"none", "odd"}
  asks_boolean = asks_boolean
  asks_object = asks_object
  Calls = {asks_boolean, asks_object}
  Asked <- MCAsked
  WasmPlacements <- MCPlacements
INVARIANTS EventsConserved ClosedCleanly EvaluationsSound
PROPERTIES NeverBackwards Converges
CHECK_DEADLOCK FALSE
