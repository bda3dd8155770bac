SPECIFICATION Spec
CONSTANTS
  NSlots = 2
  PageSlots = 1
  Payload <- MCPayload
  Erased = "erased"
  Garbage = "garbage"
  OldImage <- MCOld
  Requests <- MCRequests
  Counters = {0, 2}
  Pacing = {TRUE, FALSE}
INVARIANTS
  PacedNeverCorrupt
PROPERTIES
  ImplementsStore
