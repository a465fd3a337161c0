SPECIFICATION Spec
CONSTANTS
  Runs = {r1, r2}
  Prunes = {}
  Old = {o1}
  Settings = {private, bare}
  None = None
  NoSettings = NoSettings
  MaxStamp = 3
  Keeps = {1}
  MaxLosses = 0
  SharedNames = FALSE
SYMMETRY Symmetry
PROPERTY StandsInOnlyForEqualSettings
CHECK_DEADLOCK FALSE
