SPECIFICATION MCSpec
CHECK_DEADLOCK FALSE
CONSTANTS
  Devices = {"a", "b"}
  NoDevice = "none"
  Unenrolled = {"b"}
  MaxOps = 2
  MaxCalls = 3
  Commands = {"on", "off"}
  Wanted <- MCWanted
  MaxSlot = 3
  MaxFaults = 1
  MaxSwitches = 1
  Sensors = {1, 2}
  Capacity = 3
  SeqSpace = 16
  FirstSeq = 12
  InitialCount = 4
  ChunkSize = 2
  Retries = 1
  MaxCount = 7
  MaxBroken = 3
  Second = 5
  PollPhase = 2
  HistoryPhase = 4
  BatchSize = 1
  Stores <- MCStores
INVARIANTS
  NoSampleLost
  RecordsTrue
  TransfersTracked
PROPERTIES
  SamplesOnlyGain
  TransfersEnd
