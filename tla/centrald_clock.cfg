SPECIFICATION Spec
CONSTANTS
  roof = roof
  NoDevice = NoDevice
  Device <- MCDevice
  OpenSequence <- MCSequence
  RequiredSets <- MCRequired
  Statuses <- MCStatuses
  MaxTimers = 1
  MaxQueue = 1
  SolarEvents <- MCSolar
  ManualPeriods <- MCPeriods
INVARIANT TypeOK
PROPERTY OnlyCommandsRaise
