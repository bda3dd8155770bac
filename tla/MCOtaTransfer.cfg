CONSTANTS
  r1 = r1
  r2 = r2
  small = small
  large = large
  Robots = {r1, r2}
  Broadcast = Broadcast
  Images = {small, large}
  OldImage = OldImage
  Erased = Erased
  Garbage = Garbage
  NSlots = 2
  PageSlots = 2
  Size <- MCSize
  Settings <- MCSettings
  Targets <- MCTargets
  MaxRetries = 1
  MaxFlashes = 2
  MaxInFlight = 1
  SessionGap = TRUE
SPECIFICATION FairSpec
INVARIANTS SuccessMeansFlashed AckedIsFlashed SuccessMeansStartable
PROPERTIES UnicastIsolates FlashEnds

