SPECIFICATION Spec
CONSTANTS
  Source <- MCSource
  Ratchet = TRUE
  Destroyable = {}
  MaxFaults = 1
  MaxChannel = 3
INVARIANTS DropIsNoticed
