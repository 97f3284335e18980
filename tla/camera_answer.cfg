CONSTANTS
  Clients = {k1}
  NoClient = none
  MaxExposures = 1
  MaxChanges = 1
  StartFails = FALSE
SPECIFICATION Spec
CHECK_DEADLOCK FALSE
INVARIANT Answered
