--------------------------- MODULE MCDoppelganger ---------------------------
(* Instances of Doppelganger.tla for TLC. *)
EXTENDS Doppelganger, TLC

CONSTANTS k1, k2, h0, h1

MCMaskOf == (k1 :> "other") @@ (k2 :> "other")

KeySymmetry == Permutations({k1, k2})
=============================================================================
