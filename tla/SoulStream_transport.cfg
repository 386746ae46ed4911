SPECIFICATION FairSpec
CONSTANTS
  Source <- MCSource
  Ratchet = TRUE
  Destroyable = {"sender", "receiver"}
  MaxFaults = 2
  MaxChannel = 3
INVARIANTS TypeOK DeliveredInOrder PastIsSafe InSync
PROPERTIES ImplementsPipe EventuallyDelivered
