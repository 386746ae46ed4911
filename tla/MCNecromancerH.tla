--------------------------- MODULE MCNecromancerH ---------------------------
(* Instances of NecromancerH.tla for TLC. *)
EXTENDS MCNecromancer, NecromancerH
=============================================================================
