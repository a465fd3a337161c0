SPECIFICATION Spec
CONSTANTS
  Moves = {m1}
  Elsewhere = {e1}
  Source = here
  None = None
  MaxSigned = 0
\* Each of the three is violated, one at a time.
INVARIANT RetiredWhenSaid
\* PROPERTY RetiredAgainstAWholeArchive
\* PROPERTY RetiredUnderNoNode
CHECK_DEADLOCK FALSE
