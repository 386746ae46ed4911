----------------------------- MODULE LastRites -----------------------------
(***************************************************************************)
(* How the key of a Necromancer comes to its end, whoever brings it about: *)
(* it is wiped for a reason, then dropped, and then the instance is dead,  *)
(* in this order, once, with no way back.                                  *)
(***************************************************************************)
EXTENDS Integers

CONSTANT Limit   \* failing verdicts it takes at the least

VARIABLES
  phase,    \* "alive", "wiped", "keyless" or "dead"
  strikes,  \* failing verdicts so far, up to Limit
  pilled    \* a poison pill has come

vars == <<phase, strikes, pilled>>

Init == phase = "alive" /\ strikes = 0 /\ pilled = FALSE

Strike == strikes < Limit /\ strikes' = strikes + 1 /\ UNCHANGED <<phase, pilled>>

Pill == ~pilled /\ pilled' = TRUE /\ UNCHANGED <<phase, strikes>>

Moves(from, to) == phase = from /\ phase' = to /\ UNCHANGED <<strikes, pilled>>

Wipe == (pilled \/ strikes = Limit) /\ Moves("alive", "wiped")

Drop == Moves("wiped", "keyless")

Bury == Moves("keyless", "dead")

Next == Strike \/ Pill \/ Wipe \/ Drop \/ Bury

Spec == Init /\ [][Next]_vars
=============================================================================
