------------------------- MODULE NecromancerHProofs -------------------------
(***************************************************************************)
(* Necromancer implements KillSwitch: for any number of instances, any     *)
(* thresholds and any history of verdicts.                                 *)
(***************************************************************************)
EXTENDS NecromancerH, NecromancerProofs, SequenceTheorems

Verdicts == {"pass", "fail"}

TrailOK == trail \in [Mages -> Seq(Verdicts)]

\* The inductive invariant.
HInv == IInv /\ TrailOK /\ CountsConsecutive

-----------------------------------------------------------------------------
(* What a step does, seen from the trail.                                  *)

\* Only a revive that got as far as GCM writes to the trail, and then one
\* verdict of its own instance.
LEMMA QuietSteps ==
  ASSUME IInv, Next, call'.mac = "none"
  PROVE  \/ UNCHANGED <<tamper_count, destroyed>>
         \/ \E m \in Mages : SelfDestruct(m) /\ UNCHANGED tamper_count
<1>1. CASE World
  BY <1>1 DEF World, Tick, Watch, Damage
<1>2. CASE \E m \in Mages, k \in KillArgs(Ttls) : Kill(m, k) \/ KillRaises(m, k)
  BY <1>2 DEF Kill, KillRaises
<1>3. CASE \E m \in Mages, c \in wire \cup {PoisonPill}, a \in ReviveArgs : Revive(m, c, a)
  <2>1. PICK m \in Mages, c \in wire \cup {PoisonPill}, a \in ReviveArgs : Revive(m, c, a)
    BY <1>3
  <2>2. ~ReviveTampered(m, c, a)
    BY DEF ReviveTampered, Call
  <2>3. ~ReviveOpened(m, c, a)
    BY DEF ReviveOpened, Call
  <2>4. QED
    BY <2>1, <2>2, <2>3 DEF Revive, ReviveTrapped, ReviveDead, ReviveRefused,
                            RevivePoisoned
<1>4. QED
  BY <1>1, <1>2, <1>3 DEF Next

\* A step with a verdict is a counted failure or a forgiving success of one living
\* instance.
LEMMA VerdictSteps ==
  ASSUME IInv, Next, call'.mac # "none"
  PROVE  \E m \in Mages :
           /\ call'.mage = m /\ ~destroyed[m]
           /\ \/ /\ call'.mac = "fail"
                 /\ RecordTamper(m)
              \/ /\ call'.mac = "pass"
                 /\ ResetTamper(m)
                 /\ UNCHANGED destroyed
<1>1. PICK m \in Mages, c \in wire \cup {PoisonPill}, a \in ReviveArgs : Revive(m, c, a)
  <2>1. World => call' = NoCall
    BY DEF World, Tick, Watch, Damage
  <2>2. NoCall.mac = "none"
    BY DEF NoCall, Call
  <2>3. QED
    BY <2>1, <2>2 DEF Next, Kill, KillRaises, Call
<1>2. ReviveTampered(m, c, a) \/ ReviveOpened(m, c, a)
  BY <1>1 DEF Revive, ReviveTrapped, RevivePoisoned, ReviveDead, ReviveRefused, Call
<1>3. CASE ReviveTampered(m, c, a)
  BY <1>3 DEF ReviveTampered, Reads, Call
<1>4. CASE ReviveOpened(m, c, a)
  <2>1. PICK r : call' = Call("revive", m, c, a, "pass", r)
    BY <1>4 DEF ReviveOpened
  <2>2. call'.mage = m /\ call'.mac = "pass"
    BY <2>1 DEF Call
  <2>3. QED
    BY <1>4, <2>2 DEF ReviveOpened, Reads
<1>5. QED
  BY <1>2, <1>3, <1>4

-----------------------------------------------------------------------------
(* The counter against the history, for one instance.                      *)

\* s ends with a run of n failures, and no longer one.
EndsWithRun(s, n) ==
  /\ n <= Len(s)
  /\ \A i \in Len(s) - n + 1 .. Len(s) : s[i] = "fail"
  /\ n < Len(s) => s[Len(s) - n] = "pass"

\* One more failure, one more in the run.
LEMMA RunGrows ==
  ASSUME NEW s \in Seq(Verdicts), NEW n \in Nat, EndsWithRun(s, n)
  PROVE  EndsWithRun(Append(s, "fail"), n + 1)
<1> DEFINE t == Append(s, "fail")
<1>1. /\ Len(s) \in Nat /\ Len(t) = Len(s) + 1
      /\ \A i \in 1 .. Len(s) : t[i] = s[i]
      /\ t[Len(s) + 1] = "fail"
  BY AppendProperties, LenProperties DEF Verdicts
<1>2. n + 1 <= Len(t)
  BY <1>1 DEF EndsWithRun
<1>3. ASSUME NEW i \in Len(t) - (n + 1) + 1 .. Len(t) PROVE t[i] = "fail"
  <2>1. i = Len(s) + 1 \/ (i \in Len(s) - n + 1 .. Len(s) /\ i \in 1 .. Len(s))
    BY <1>1 DEF EndsWithRun
  <2>2. QED
    BY <1>1, <2>1 DEF EndsWithRun
<1>4. n + 1 < Len(t) => t[Len(t) - (n + 1)] = "pass"
  <2> SUFFICES ASSUME n + 1 < Len(t) PROVE t[Len(t) - (n + 1)] = "pass"
    OBVIOUS
  <2>1. /\ n < Len(s) /\ Len(t) - (n + 1) = Len(s) - n
        /\ Len(s) - n \in 1 .. Len(s)
    BY <1>1
  <2>2. QED
    BY <1>1, <2>1 DEF EndsWithRun
<1>5. QED
  BY <1>2, <1>3, <1>4 DEF EndsWithRun

\* A success ends the run.
LEMMA RunEnds ==
  ASSUME NEW s \in Seq(Verdicts)
  PROVE  EndsWithRun(Append(s, "pass"), 0)
<1> DEFINE t == Append(s, "pass")
<1>1. Len(s) \in Nat /\ Len(t) = Len(s) + 1 /\ t[Len(s) + 1] = "pass"
  BY AppendProperties, LenProperties DEF Verdicts
<1>2. QED
  BY <1>1 DEF EndsWithRun

\* A history is fatal exactly when the run it ends with is long enough.
LEMMA FatalRun ==
  ASSUME NEW m \in Mages, NEW s \in Seq(Verdicts), NEW n \in Nat, EndsWithRun(s, n)
  PROVE  KS!Fatal(m, s) <=> n >= KS!Threshold(m)
<1> DEFINE T == KS!Threshold(m)
<1>1. T \in Nat /\ T >= 1 /\ Len(s) \in Nat
  BY NecromancerAssumption, LenProperties DEF KS!Threshold
<1> HIDE DEF T
<1>2. KS!Fatal(m, s) <=> /\ Len(s) >= T
                         /\ \A i \in Len(s) - T + 1 .. Len(s) : s[i] = "fail"
  BY DEF KS!Fatal, T
<1>3. ASSUME n >= T
      PROVE  Len(s) >= T /\ \A i \in Len(s) - T + 1 .. Len(s) : s[i] = "fail"
  BY <1>1, <1>3 DEF EndsWithRun
<1>4. ASSUME n < T, Len(s) >= T
      PROVE  \E i \in Len(s) - T + 1 .. Len(s) : s[i] # "fail"
  <2>1. Len(s) - n \in Len(s) - T + 1 .. Len(s) /\ n < Len(s)
    BY <1>1, <1>4
  <2>2. s[Len(s) - n] = "pass"
    BY <2>1 DEF EndsWithRun
  <2>3. QED
    BY <2>1, <2>2
<1>5. n >= T \/ n < T
  BY <1>1
<1>6. (Len(s) >= T /\ \A i \in Len(s) - T + 1 .. Len(s) : s[i] = "fail") <=> n >= T
  BY <1>1, <1>3, <1>4, <1>5
<1>7. QED
  BY <1>2, <1>6 DEF T

-----------------------------------------------------------------------------
(* The invariant and the refinement.                                       *)

\* What a verdict does to the instance it is about: the history and the counter
\* grow together, and the instance dies exactly when its history is fatal.
LEMMA VerdictKept ==
  ASSUME HInv, NextH, call'.mac # "none"
  PROVE  /\ TrailOK' /\ CountsConsecutive'
         /\ \E m \in Mages :
              /\ ~destroyed[m]
              /\ trail' = [trail EXCEPT ![m] = Append(@, call'.mac)]
              /\ call'.mac \in Verdicts
              /\ \A x \in Mages : destroyed'[x] <=>
                   destroyed[x] \/ (x = m /\ KS!Fatal(m, Append(trail[m], call'.mac)))
<1>1. PICK m \in Mages :
        /\ call'.mage = m /\ ~destroyed[m]
        /\ \/ call'.mac = "fail" /\ RecordTamper(m)
           \/ call'.mac = "pass" /\ ResetTamper(m) /\ UNCHANGED destroyed
  BY VerdictSteps DEF HInv, NextH
<1> DEFINE n == tamper_count[m]
           s == trail[m]
           t == Append(s, call'.mac)
<1>2. trail' = [trail EXCEPT ![m] = t] /\ call'.mac \in Verdicts
  BY <1>1 DEF NextH, Verdicts
<1>3. s \in Seq(Verdicts) /\ n \in Nat /\ EndsWithRun(s, n)
  BY <1>1 DEF HInv, IInv, TypeOK, TrailOK, CountsConsecutive, EndsWithRun
<1>4. t \in Seq(Verdicts)
  BY <1>2, <1>3, AppendProperties
<1>5. TrailOK'
  BY <1>2, <1>4 DEF HInv, TrailOK
<1>6. /\ tamper_count' \in [Mages -> Nat]
      /\ destroyed \in [Mages -> BOOLEAN] /\ destroyed' \in [Mages -> BOOLEAN]
  BY NextIInv DEF HInv, NextH, IInv, TypeOK
<1>7. /\ EndsWithRun(t, tamper_count'[m])
      /\ destroyed'[m] <=> KS!Fatal(m, t)
      /\ \A x \in Mages \ {m} : /\ destroyed'[x] = destroyed[x]
                                /\ tamper_count'[x] = tamper_count[x]
  <2>1. n = 0 \/ n < MaxTamper[m]
    BY <1>1 DEF HInv, IInv, KeyInv
  <2>2. CASE call'.mac = "fail" /\ RecordTamper(m)
    <3>1. tamper_count' = [tamper_count EXCEPT ![m] = n + 1]
      BY <2>2 DEF RecordTamper
    <3>2. EndsWithRun(t, n + 1) /\ n + 1 \in Nat
      BY <1>3, <2>2, RunGrows
    <3>3. KS!Fatal(m, t) <=> n + 1 >= KS!Threshold(m)
      BY <1>3, <1>4, <3>2, FatalRun
    <3>4. n + 1 >= KS!Threshold(m) <=> n + 1 >= MaxTamper[m]
      BY <1>3, NecromancerAssumption DEF KS!Threshold
    <3>5. destroyed' = IF n + 1 >= MaxTamper[m] THEN [destroyed EXCEPT ![m] = TRUE]
                       ELSE destroyed
      BY <2>2 DEF RecordTamper, LastStrike, SelfDestruct
    <3>6. tamper_count \in [Mages -> Nat]
      BY DEF HInv, IInv, TypeOK
    <3>7. QED
      BY <1>1, <1>6, <3>1, <3>2, <3>3, <3>4, <3>5, <3>6
  <2>3. CASE call'.mac = "pass" /\ ResetTamper(m) /\ UNCHANGED destroyed
    <3>1. tamper_count' = [tamper_count EXCEPT ![m] = 0]
      BY <2>3 DEF ResetTamper
    <3>2. EndsWithRun(t, 0)
      BY <1>3, <2>3, RunEnds
    <3>3. KS!Fatal(m, t) <=> 0 >= KS!Threshold(m)
      BY <1>4, <3>2, FatalRun
    <3>4. ~(0 >= KS!Threshold(m))
      BY NecromancerAssumption DEF KS!Threshold
    <3>5. tamper_count \in [Mages -> Nat]
      BY DEF HInv, IInv, TypeOK
    <3>6. QED
      BY <1>1, <2>3, <3>1, <3>2, <3>3, <3>4, <3>5
  <2>4. QED
    BY <1>1, <2>2, <2>3
<1>8. CountsConsecutive'
  <2> SUFFICES ASSUME NEW x \in Mages, ~destroyed'[x]
               PROVE  EndsWithRun(trail'[x], tamper_count'[x])
    BY DEF CountsConsecutive, EndsWithRun
  <2>1. CASE x = m
    BY <1>2, <1>7, <2>1 DEF HInv, TrailOK
  <2>2. CASE x # m
    <3>1. ~destroyed[x] /\ trail'[x] = trail[x] /\ tamper_count'[x] = tamper_count[x]
      BY <1>2, <1>7, <2>2 DEF HInv, TrailOK
    <3>2. EndsWithRun(trail[x], tamper_count[x])
      BY <3>1 DEF HInv, CountsConsecutive, EndsWithRun
    <3>3. QED
      BY <3>1, <3>2
  <2>3. QED
    BY <2>1, <2>2
<1>9. \A x \in Mages : destroyed'[x] <=> destroyed[x] \/ (x = m /\ KS!Fatal(m, t))
  BY <1>1, <1>7
<1>10. QED
  BY <1>1, <1>2, <1>5, <1>8, <1>9

\* A step without a verdict leaves trail and counters alone.
LEMMA QuietKept ==
  ASSUME HInv, NextH, call'.mac = "none"
  PROVE  /\ TrailOK' /\ CountsConsecutive' /\ trail' = trail
         /\ \/ destroyed' = destroyed
            \/ \E m \in Mages : destroyed' = [destroyed EXCEPT ![m] = TRUE]
<1>1. trail' = trail
  BY DEF NextH
<1>2. /\ tamper_count' = tamper_count
      /\ \/ destroyed' = destroyed
         \/ \E m \in Mages : destroyed' = [destroyed EXCEPT ![m] = TRUE]
  BY QuietSteps DEF HInv, NextH, SelfDestruct
<1>3. \A x \in Mages : destroyed[x] => destroyed'[x]
  BY <1>2 DEF HInv, IInv, TypeOK
<1>4. QED
  BY <1>1, <1>2, <1>3 DEF HInv, TrailOK, CountsConsecutive

\* Every step with its history keeps the invariant.
LEMMA NextHInv ==
  ASSUME HInv, [NextH]_varsH
  PROVE  HInv'
<1>1. CASE UNCHANGED varsH
  BY <1>1, NextIInv DEF varsH, vars, HInv, TrailOK, CountsConsecutive
<1>2. CASE NextH
  BY <1>2, NextIInv, VerdictKept, QuietKept DEF NextH, HInv
<1>3. QED
  BY <1>1, <1>2

\* Nobody has had a verdict yet.
LEMMA InitHInv == InitH => HInv
<1> SUFFICES ASSUME InitH PROVE HInv
  OBVIOUS
<1>1. IInv
  BY InitIInv DEF InitH
<1>2. TrailOK /\ CountsConsecutive
  BY EmptySeq DEF InitH, Init, TrailOK, CountsConsecutive
<1>3. QED
  BY <1>1, <1>2 DEF HInv

\* Every reachable state, history included, satisfies the inductive invariant.
THEOREM HistoryInductive == SpecH => []HInv
<1>1. HInv /\ [NextH]_varsH => HInv'
  BY NextHInv
<1>2. QED
  BY InitHInv, <1>1, PTL DEF SpecH

\* The counter of a living instance counts the failures since the last success
\* (core.py:160-161, 216-227).
THEOREM CountsConsecutiveHolds == SpecH => []CountsConsecutive
<1>1. HInv => CountsConsecutive
  BY DEF HInv
<1>2. QED
  BY HistoryInductive, <1>1, PTL

Dead == {m \in Mages : destroyed[m]}

\* Every step of the code is a verdict, a pill or a stutter of the promise.
LEMMA SwitchStep ==
  ASSUME HInv, NextH
  PROVE  KS!Next \/ UNCHANGED <<trail, Dead>>
<1>1. CASE call'.mac = "none"
  <2>1. /\ trail' = trail
        /\ \/ destroyed' = destroyed
           \/ \E m \in Mages : destroyed' = [destroyed EXCEPT ![m] = TRUE]
    BY <1>1, QuietKept
  <2>2. CASE destroyed' = destroyed
    BY <2>1, <2>2 DEF Dead
  <2>3. CASE \E m \in Mages : destroyed' = [destroyed EXCEPT ![m] = TRUE]
    <3>1. PICK m \in Mages : destroyed' = [destroyed EXCEPT ![m] = TRUE]
      BY <2>3
    <3>2. Dead' = Dead \cup {m}
      BY <3>1 DEF Dead, HInv, IInv, TypeOK
    <3>3. \E x \in Mages : Dead' = Dead \cup {x} /\ UNCHANGED trail
      BY <2>1, <3>2
    <3>4. QED
      BY <3>3 DEF KS!Next, KS!Swallow, Dead
  <2>4. QED
    BY <2>1, <2>2, <2>3
<1>2. CASE call'.mac # "none"
  <2>1. PICK m \in Mages :
          /\ ~destroyed[m]
          /\ trail' = [trail EXCEPT ![m] = Append(@, call'.mac)]
          /\ call'.mac \in Verdicts
          /\ \A x \in Mages : destroyed'[x] <=>
               destroyed[x] \/ (x = m /\ KS!Fatal(m, Append(trail[m], call'.mac)))
    BY <1>2, VerdictKept
  <2> DEFINE v == call'.mac
             f == KS!Fatal(m, Append(trail[m], v))
  <2>2. m \notin Dead
    BY <2>1 DEF Dead
  <2>3. Dead' = IF f THEN Dead \cup {m} ELSE Dead
    BY <2>1 DEF Dead
  <2>4. \E x \in Mages, w \in {"pass", "fail"} :
          /\ x \notin Dead
          /\ trail' = [trail EXCEPT ![x] = Append(@, w)]
          /\ Dead' = IF KS!Fatal(x, Append(trail[x], w)) THEN Dead \cup {x} ELSE Dead
    BY <2>1, <2>2, <2>3 DEF Verdicts
  <2>5. QED
    BY <2>4 DEF KS!Next, KS!Verdict, Dead
<1>3. QED
  BY <1>1, <1>2

\* The counter, its reset and the destroyed flag implement "after 3 consecutive
\* MAC failures", for every threshold (core.py:29-30, 203-227, 376-415).
THEOREM KillSwitchImplemented == SpecH => ImplementsKillSwitch
<1>1. InitH => KS!Init
  BY DEF InitH, Init, KS!Init
<1>2. HInv /\ [NextH]_varsH => [KS!Next]_<<trail, Dead>>
  <2>1. UNCHANGED varsH => UNCHANGED <<trail, Dead>>
    BY DEF varsH, vars, Dead
  <2>2. QED
    BY <2>1, SwitchStep
<1>3. QED
  BY <1>1, <1>2, HistoryInductive, PTL DEF SpecH, ImplementsKillSwitch, KS!Spec, Dead
=============================================================================
