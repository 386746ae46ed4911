SPECIFICATION FairTalk
CONSTANTS
  alice = alice
  bob = bob
  None = None
  Short = Short
  Stranger = Stranger
  Parties = {alice, bob}
  Peer <- MCPeer
  PublishFirst = TRUE
  MaxFaults = 2
  Openers = {alice}
  MaxSteps = 3
INVARIANTS ConversationTypeOK PrivateOrShared KeysAgree Agreement CanCatchUp NothingCrosses
PROPERTIES OnceOnly EventuallyDone ImplementsPipes AllSaid
