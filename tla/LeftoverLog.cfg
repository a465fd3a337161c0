SPECIFICATION Spec
CONSTANTS
  Runs = {r1}
  A = A
  B = B
  H = H
  None = None
  Ids <- MCIds
  Archives <- MCArchives
  Homes <- MCHomes
  MaxKept = 2
  Together = FALSE
  User = {}
INVARIANTS
  LogsBelong
CHECK_DEADLOCK FALSE
