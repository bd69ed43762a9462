SPECIFICATION MCSpec
CONSTANTS
  None = None
  Scenes <- MCScenes
  Calls = {"c1", "c2"}
  NoCall = None
  MaxFaults = 1
CHECK_DEADLOCK FALSE
INVARIANTS
  SharedScan
  NothingRemains
PROPERTIES
  DecisionsStand
  CallsEnd
