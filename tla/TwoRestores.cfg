SPECIFICATION Spec
CONSTANTS
  Runs = {r1, r2}
  A = A
  B = B
  H = H
  None = None
  Ids <- MCIds
  Archives <- MCArchives
  Homes <- MCHomes
  MaxKept = 2
  Together = TRUE
  User = {}
INVARIANTS
  KeysSurvive
CHECK_DEADLOCK FALSE
