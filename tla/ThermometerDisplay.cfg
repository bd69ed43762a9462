SPECIFICATION DisplaySpec
CONSTANTS
  HistoryCapacity = 1
  Sensors <- MCOneSensor
  Temperatures <- MCTemperatures
  FailedReadLimit = 1
  SuccessfulReadLimit = 1
  CounterMax = 1
  SequenceModulus = 2
  QueueCapacity = 1
  Users <- MCUsers
  HotPlug <- MCOneSensor
  Switchable <- MCOneSensor
  MaxLate = 1
  MaxBoots = 1
PROPERTIES
  ViewsConverge
  FaultPreservesDisplay
