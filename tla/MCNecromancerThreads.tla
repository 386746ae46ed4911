------------------------ MODULE MCNecromancerThreads ------------------------
(* Instances of NecromancerThreads.tla for TLC. *)
EXTENDS NecromancerThreads

CONSTANTS t1, t2
=============================================================================
