SPECIFICATION Spec
CONSTANTS
  Runs = {r1, r2}
  Prunes = {}
  Old = {o1}
  Settings = {private}
  None = None
  NoSettings = NoSettings
  MaxStamp = 2
  Keeps = {1}
  MaxLosses = 0
  SharedNames = TRUE
SYMMETRY Symmetry
INVARIANT FinishedNamesAreWhole
CHECK_DEADLOCK FALSE
