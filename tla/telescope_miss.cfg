SPECIFICATION Spec
CONSTANTS
  Targets <- MCTargets
  Low <- MCLow
  Nowhere = "NaN"
  NoImage = NoImage
  StoppedIsFailed = TRUE
  StopFails = FALSE
  BlockOnStandby = FALSE
  MaxMoves = 2
  MaxImages = 2
PROPERTY CorrectionsFromTarget
