---------------------------- MODULE NecromancerH ----------------------------
(***************************************************************************)
(* Necromancer.tla with a history of what AES-GCM said to each instance,   *)
(* and the kill switch of KillSwitch.tla as what it implements.            *)
(***************************************************************************)
EXTENDS Necromancer, Sequences

CONSTANT MaxTrail   \* bound: verdicts per instance

ASSUME HistoryAssumption == MaxTrail \in Nat

VARIABLE trail   \* history: the verdicts of aes_decrypt, in order

varsH == <<vars, trail>>

InitH == Init /\ trail = [m \in Mages |-> << >>]

NextH ==
  /\ Next
  /\ trail' = IF call'.mac = "none" THEN trail
              ELSE [trail EXCEPT ![call'.mage] = Append(@, call'.mac)]
  /\ \A m \in Mages : Len(trail'[m]) <= MaxTrail

SpecH == InitH /\ [][NextH]_varsH

KS == INSTANCE KillSwitch WITH dead <- {m \in Mages : destroyed[m]}

\* The counter, its reset and the destroyed flag implement the promise "after 3
\* consecutive MAC failures" (core.py:29-30): an instance dies on exactly the
\* verdict that completes such a run, whatever else it was called for between
\* the failures, or on a poison pill; dead, it never consults its key again.
ImplementsKillSwitch == KS!Spec

\* The counter of a living instance is the length of the run of failures its
\* history ends with (core.py:160-161, "consecutive MAC failures").
CountsConsecutive ==
  \A m \in Mages : ~destroyed[m] =>
    LET n == tamper_count[m]
        l == Len(trail[m])
    IN /\ n <= l
       /\ \A i \in l - n + 1 .. l : trail[m][i] = "fail"
       /\ n < l => trail[m][l - n] = "pass"
=============================================================================
