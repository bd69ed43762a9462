SPECIFICATION MCSpec
CONSTANTS
  Nothing = Nothing
  Callers <- MCCallers
  Priority <- MCPriority
  MaxQueue = 3
  Polls = 2
  Tasks <- MCTasks
  Call <- MCCall
  SupportsCompact = FALSE
  IdSpace = 3
  MaxBackends = 1
  MaxFaults = 2
  MaxCancels = 1
CHECK_DEADLOCK FALSE
INVARIANTS
  NobodyForgotten
  NothingLeft
  OwnResponse
  SessionsOwned
PROPERTIES
  BondsTrue
  CallsReturn
