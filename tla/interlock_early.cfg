CONSTANTS
  Mount = mount
  Cameras = {camera}
  Others = {}
  MaxCommands = 3
  MaxOther = 0
  MaxLost = 0
SPECIFICATION Spec
INVARIANT Exclusion
CHECK_DEADLOCK FALSE
