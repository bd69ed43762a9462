SPECIFICATION MCSpec
CONSTANTS
  Nothing = Nothing
  A = A
  B = B
  pA = pA
  pB = pB
  c1 = c1
  c2 = c2
  Samples = {1, 2}
  Capacity = 2
  MaxRevision = 1
  MaxFaults = 1
CHECK_DEADLOCK FALSE
INVARIANTS
  RecordsAnswered
PROPERTIES
  WaitingEnds
  DisconnectHolds
  Recovers
