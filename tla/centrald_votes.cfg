SPECIFICATION Spec
VIEW MCView
CONSTANTS
  rain = rain
  wind = wind
  roof = roof
  NoDevice = NoDevice
  Device <- MCDevice
  OpenSequence <- MCSequence
  RequiredSets <- MCRequired
  Statuses <- MCStatuses
  SolarEvents <- MCSolar
  ManualPeriods <- MCPeriods
  MaxTimers = 1
  MaxQueue = 2
INVARIANTS NoBadVoteInGoodWeather NoStopVoteWhileMoving
PROPERTIES GoodWeatherNeedsRequired RequiredLossEndsGoodWeather FirstReporterKept
