SPECIFICATION NodeSpec
CONSTANTS
  Backups = {b1, b2}
  StopNode = {b1}
  Restores = {r1}
  ByHand = TRUE
INVARIANTS
  ExactCopy
  InstallsOverNoNode
PROPERTIES
  StoppedNodeComesBack
  StartedNodeGoesDown
CHECK_DEADLOCK FALSE
