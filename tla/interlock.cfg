CONSTANTS
  Mount = mount
  Cameras = {camera}
  Others = {roof}
  MaxCommands = 3
  MaxOther = 0
  MaxLost = 1
SPECIFICATION Spec
INVARIANT ExclusionUnlessEarly
PROPERTY QueueKeepsOrder
CHECK_DEADLOCK FALSE
CONSTRAINT NotEarly
