SPECIFICATION ListingSpec
CONSTANTS
  private = private
  bare = bare
  NoSettings = NoSettings
  Settings <- MCSettings
  Keeps <- MCKeeps
  MaxArchives = 5
INVARIANTS
  NewestCompleteOutlivesRetention
  SparesExactlyThePossible
  NextSweepTakesOnlyTheUnsaid
CHECK_DEADLOCK FALSE
