SPECIFICATION Spec
CONSTANTS
  Moves = {m1, m2}
  Elsewhere = {e1}
  Source = here
  None = None
  MaxSigned = 2
INVARIANTS
  RetiredAgainstAnArchive
  SafeOnlyOnceMoved
  NothingSignedSince
PROPERTIES
  KeyChangesHandsInOrder
CHECK_DEADLOCK FALSE
