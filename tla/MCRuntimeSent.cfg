CONSTANTS
  Images <- OnlySample
  Calibrated <- Nobody
  Payload = {v1}
SPECIFICATION Spec
INVARIANT SentIsHanded
