SPECIFICATION Spec
CONSTANTS
  IsOpened <- BartIsOpened
  IsClosed <- BartIsClosed
  StartOpen <- BartStartOpen
  StartClose <- BartStartClose
  EndOpen <- BartEndOpen
  EndClose <- BartEndClose
  StopRoof <- BartStop
  FoundOpen <- BartFoundOpen
  FirstState <- BartFirstState
  Reboot <- BartReboot
  Travel <- BartTravel
  Timeout <- BartTimeout
  ByHand <- BartByHand
  RoofStates <- BartRoofs
  RoofInit <- BartStart
  AutoClose = TRUE
  Masters <- Waking
  WeatherOpens = TRUE
  MayIgnore = TRUE
  MaxRestarts = 1
  MaxRetries = 1
  LineFails = FALSE
  DeadSwitches = {}
  Jams = TRUE
  Hands = TRUE
INVARIANTS TypeOK DirectionMatchesState OpeningBlocksMoves
PROPERTIES OpensOnlyInGoodWeather

