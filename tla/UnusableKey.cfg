SPECIFICATION Spec
CONSTANTS
  free = free
  locked1 = locked1
  locked2 = locked2
  ecdsa = ecdsa
  pem = pem
  public_half = public_half
  KeyFiles = {free, locked1, locked2, ecdsa, pem, public_half}
  kind <- MCKind
  lock <- MCLock
  Asks <- MCAsks
  Hands <- MCHands
  Offers <- MCOffers
  Works = {10, 21, 24}
  Target = 16
INVARIANT FailIsOfTheArchive
