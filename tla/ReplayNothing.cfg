SPECIFICATION Spec
CONSTANTS
  Runs = {r1}
  A = A
  B = B
  H = H
  None = None
  Ids <- MCIds
  Archives <- MCArchives
  Homes <- MCHomes
  MaxKept = 2
  Together = FALSE
  User = {}
PROPERTIES
  PoliciesAreNotDropped
CHECK_DEADLOCK FALSE
