SPECIFICATION FairSpec
CONSTANTS
  Targets <- MCTargets
  Low <- MCLow
  Nowhere = "NaN"
  NoImage = NoImage
  StoppedIsFailed = TRUE
  StopFails = TRUE
  BlockOnStandby = FALSE
  MaxMoves = 2
  MaxImages = 2
INVARIANTS TypeOK CompletedMeansReached MovesBlockExposures
PROPERTIES StillAtRest CorrectsWhatItSaw CorrectionSettled
