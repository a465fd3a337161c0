SPECIFICATION Spec
CONSTANTS
  Runs = {r1, r2}
  A = A
  B = B
  H = H
  None = None
  Ids <- MCIds
  Archives <- MCArchives
  Homes <- MCHomes
  MaxKept = 3
  Together = FALSE
  User = {}
INVARIANTS
  NotesTellTheTruth
CHECK_DEADLOCK FALSE
