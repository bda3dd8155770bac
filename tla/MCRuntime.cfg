CONSTANTS
  Images <- AllImages
  Calibrated <- OnLh2
  Payload = {v1, v2}
SPECIFICATION Spec
INVARIANTS LogsAreWhole
PROPERTIES DeadlockEnds HangEnds 
