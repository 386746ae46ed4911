--------------------------- MODULE MCConversation ---------------------------
(* Instances of Conversation.tla for TLC. *)
EXTENDS Conversation, TLC

CONSTANTS alice, bob

MCPeer == (alice :> bob) @@ (bob :> alice)
=============================================================================
