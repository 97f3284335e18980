SPECIFICATION FairSpec
CONSTANTS
  wide = wide
  narrow = narrow
  star = star
  field = field
  Targets <- MCTargets
  CameraOrder <- MCCameras
  Scripts <- MCScripts
  MaxObjects = 2
  MaxCommands = 2
  MaxMoves = 1
  MaxInputs = 3
INVARIANTS TypeOK ScriptsFollowTarget TargetsAlive NoScriptForgotten TargetWorkedOn
PROPERTIES ObservationsClosed QueueServed
CHECK_DEADLOCK FALSE
