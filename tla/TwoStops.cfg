SPECIFICATION NodeSpec
CONSTANTS
  Backups = {b1, b2}
  StopNode = {b1, b2}
  Restores = {}
  ByHand = FALSE
INVARIANT ExactCopyWhoeverElse
CHECK_DEADLOCK FALSE
