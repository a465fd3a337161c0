SPECIFICATION NodeSpec
CONSTANTS
  Backups = {}
  StopNode = {}
  Restores = {r1}
  ByHand = FALSE
INVARIANT RestoreLeavesItDown
CHECK_DEADLOCK FALSE
