CONSTANTS
  Slot = 2
  Starts <- MCStarts
  Zones = {0, 1}
  MaxDelay = 2
  Horizon = 6
  Issues = 2
SPECIFICATION ReservationSpec
INVARIANTS
  ExclusiveSlot
  ShowsOwnToken
PROPERTIES
  ExpiryIsShown
CHECK_DEADLOCK FALSE
