CONSTANTS
  r1 = r1
  r2 = r2
  Repos = {r1, r2}
  Private <- MCPrivate
  Own <- MCOwn
  Alone <- MCAlone
  Sole = {r1}
  Stale = 30
  Selections = {"private", "mine", "all"}
  Sights <- MCSights
  Facts <- MCFacts
  MaxRuns = 1
  MaxWork = 2
  MaxChanges = 2
SPECIFICATION Spec
INVARIANTS
  NoteAndExitAreTrue
  DiffMissesNoWork
  NoFalseAlarm
  VerdictsAreEarned
