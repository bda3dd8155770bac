CONSTANTS
  Clients = {c1, c2, c3}
  None = None
  Default = Default
  Overrides = {o1, o2}
  MaxFlashes = 3
SPECIFICATION FairSpec
INVARIANTS  OverrideInForce SettingsRestored
PROPERTIES Answered
