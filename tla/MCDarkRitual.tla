---------------------------- MODULE MCDarkRitual ----------------------------
(* Instances of DarkRitual.tla for TLC. *)
EXTENDS DarkRitual, TLC

CONSTANTS alice, bob

MCPeer == (alice :> bob) @@ (bob :> alice)
=============================================================================
