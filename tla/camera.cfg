CONSTANTS
  Clients = {k1, k2}
  NoClient = none
  MaxExposures = 1
  MaxChanges = 2
  StartFails = TRUE
SPECIFICATION Spec
SYMMETRY ClientSymmetry
CHECK_DEADLOCK FALSE
INVARIANTS TypeOK InOrder NothingForgotten HoldsTheMount SettingsHold
PROPERTY StartsUnblocked
