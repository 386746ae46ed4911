----------------------------- MODULE KillSwitch -----------------------------
(***************************************************************************)
(* What the kill switch promises (core.py:29-30, 160-162), with no counter *)
(* in sight: an instance dies exactly when the last MaxTamper verdicts of  *)
(* AES-GCM on what it tried to open were all failures, or when it swallows *)
(* a poison pill; and from then on it passes no further verdict.           *)
(***************************************************************************)
EXTENDS Integers, Sequences

CONSTANTS Mages, MaxTamper

VARIABLES
  trail,   \* the verdicts of each instance since it was constructed
  dead     \* the instances whose key is wiped

\* A threshold below 1 is met by the first failure, like a threshold of 1.
Threshold(m) == IF MaxTamper[m] < 1 THEN 1 ELSE MaxTamper[m]

\* The last Threshold(m) verdicts of s are all failures.
Fatal(m, s) ==
  /\ Len(s) >= Threshold(m)
  /\ \A i \in Len(s) - Threshold(m) + 1 .. Len(s) : s[i] = "fail"

Init ==
  /\ trail = [m \in Mages |-> << >>]
  /\ dead = {}

Verdict(m, v) ==
  /\ m \notin dead
  /\ trail' = [trail EXCEPT ![m] = Append(@, v)]
  /\ dead' = IF Fatal(m, Append(trail[m], v)) THEN dead \cup {m} ELSE dead

Swallow(m) ==
  /\ dead' = dead \cup {m}
  /\ UNCHANGED trail

Next == \E m \in Mages : Swallow(m) \/ \E v \in {"pass", "fail"} : Verdict(m, v)

Spec == Init /\ [][Next]_<<trail, dead>>
=============================================================================
