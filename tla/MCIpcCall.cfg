SPECIFICATION FairSpec
CONSTANTS
  Request <- Requests4
  Argument = {"pdu1", "pdu2"}
  None = None
INVARIANT ExecutesTheCall
PROPERTIES ImplementsCall 
CHECK_DEADLOCK FALSE
