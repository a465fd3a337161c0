SPECIFICATION Spec
CONSTANTS
  Hands <- MCHands
  MaxLen = 2
  MaxEntry = 1
  MaxManifest = 5
  MaxChanges = 2
INVARIANT FinishedOpens
CHECK_DEADLOCK FALSE
