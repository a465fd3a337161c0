SPECIFICATION Spec
CONSTANTS
  Runs = {r1, r2}
  Prunes = {}
  Old = {o1}
  Settings = {private}
  None = None
  NoSettings = NoSettings
  MaxStamp = 3
  Keeps = {1}
  MaxLosses = 1
  SharedNames = FALSE
SYMMETRY Symmetry
INVARIANTS
  FinishedNamesAreWhole
  NotesAreTrue
PROPERTIES
  KeepsItsPromises
CHECK_DEADLOCK FALSE
