SPECIFICATION Spec
CONSTANTS
  r1 = r1
  r2 = r2
  Repos = {r1, r2}
  MaxHead = 3
  MaxRuns = 2
  Asks = {1}
  Manifests <- MCManifests
  Copies <- MCCopies
  Leftovers <- MCLeftovers
  Past <- MCPast
  Elsewhere <- MCElsewhere
INVARIANTS
  RecordIsHeld
  NoShellOfItsOwn
  ForksAreNamed
  AheadOnFreshWord
  CleanExitIsEarned
PROPERTIES
  CopiesSurvive
  RunsEnd
CHECK_DEADLOCK FALSE
