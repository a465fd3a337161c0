SPECIFICATION NodeSpec
CONSTANTS
  Backups = {b1}
  StopNode = {b1}
  Restores = {}
  ByHand = FALSE
INVARIANT EveryWayOutRestarts
CHECK_DEADLOCK FALSE
