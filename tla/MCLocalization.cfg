CONSTANTS
  Slots = 3
  Copies = 2
  Uploads = 1
  PowerLosses = 1
  NetId = "0x1200"
  Fixes <- MCFixes
  Threshold = 1
SPECIFICATION Spec
INVARIANTS
  OneSession
  NetIdKept
PROPERTIES
  NoJump
  
  CaptureAnswered
