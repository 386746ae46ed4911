SPECIFICATION Spec
CONSTANTS
  alice = alice
  bob = bob
  None = None
  Short = Short
  Stranger = Stranger
  Parties = {alice, bob}
  Peer <- MCPeer
  PublishFirst = FALSE
  MaxFaults = 0
INVARIANTS PublicKeyForTheAsking
