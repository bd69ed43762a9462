SPECIFICATION Spec
CONSTANTS
  HistoryCapacity = 2
  Sensors <- MCSensors
  Temperatures <- MCTemperatures
  FailedReadLimit = 1
  SuccessfulReadLimit = 1
  CounterMax = 1
  SequenceModulus = 3
  QueueCapacity = 1
  Users <- MCBle
  HotPlug <- MCNone
  Switchable <- MCNone
  MaxLate = 1
  MaxBoots = 0
INVARIANTS
  TypeOK
  HistoryContiguous
  AnnouncedRangeServed
PROPERTIES
  ImplementsHistoryLog
