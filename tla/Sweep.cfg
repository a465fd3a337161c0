SPECIFICATION Spec
CONSTANTS
  Runs = {r1}
  Prunes = {p1}
  Old = {o1, o2}
  Settings = {private, bare}
  None = None
  NoSettings = NoSettings
  MaxStamp = 3
  Keeps = {1, 2}
  MaxLosses = 0
  SharedNames = FALSE
SYMMETRY Symmetry
INVARIANTS
  NewestCompleteKept
PROPERTIES
  DeletesOnlyWithStandIn
  RunKeepsItsOwnArchive
CHECK_DEADLOCK FALSE
