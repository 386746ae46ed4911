SPECIFICATION Spec
CONSTANTS
  Source <- MCSource
  Ratchet = TRUE
  Destroyable = {"sender", "receiver"}
  MaxFaults = 0
  MaxChannel = 3
PROPERTIES DestroyedRefuses
