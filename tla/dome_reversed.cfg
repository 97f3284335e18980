SPECIFICATION Spec
CONSTANTS
  IsOpened <- BartIsOpened
  IsClosed <- BartIsClosed
  StartOpen <- BartStartOpen
  StartClose <- BartStartClose
  EndOpen <- BartEndOpen
  EndClose <- BartEndClose
  StopRoof <- BartStop
  FoundOpen <- BartFoundOpen
  FirstState <- BartFirstState
  Reboot <- BartReboot
  Travel <- BartTravel
  Timeout <- BartTimeout
  ByHand <- BartByHand
  RoofStates <- BartRoofs
  RoofInit <- BartStart
  AutoClose = TRUE
  Masters <- OnOff
  WeatherOpens = FALSE
  MayIgnore = FALSE
  MaxRestarts = 0
  MaxRetries = 1
  LineFails = TRUE
  DeadSwitches = {}
  Jams = FALSE
  Hands = FALSE
PROPERTIES OpensOnlyInGoodWeather

