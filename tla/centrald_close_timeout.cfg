SPECIFICATION Spec
VIEW MCView
CONSTANTS
  roof = roof
  tel = tel
  NoDevice = NoDevice
  Device <- MCDevice
  OpenSequence <- MCSequence
  RequiredSets <- MCRequired
  Statuses <- MCStatuses
  SolarEvents <- MCSolar
  ManualPeriods <- MCPeriods
  MaxTimers = 2
  MaxQueue = 2
INVARIANT CloseHasTimeout
