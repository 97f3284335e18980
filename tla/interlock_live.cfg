CONSTANTS
  Mount = mount
  Cameras = {camera}
  Others = {roof}
  MaxCommands = 1
  MaxOther = 1
  MaxLost = 1
SPECIFICATION FairSpec
INVARIANTS TypeOK ViewsSettle
PROPERTY AllAnswered 
CHECK_DEADLOCK FALSE
