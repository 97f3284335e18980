SPECIFICATION Spec
CONSTANTS
  wide = wide
  narrow = narrow
  star = star
  field = field
  Targets <- MCTargets
  CameraOrder <- MCCameras
  Scripts <- MCScripts
  MaxObjects = 2
  MaxCommands = 2
  MaxMoves = 1
  MaxInputs = 3
PROPERTY DisabledStartsNothing
CHECK_DEADLOCK FALSE
