SPECIFICATION FairSpec
CONSTANTS
  NSlots = 2
  PageSlots = 1
  Payload <- Payload2
  Erased = "erased"
  Garbage = "garbage"
  OldImage <- Old2
  Requests <- FreeRequests
  StopAndWait = FALSE
INVARIANTS
  StatusAgrees StartAckMeansErased
PROPERTIES
  FlashFrozenWhileRunning StopCompletes  
