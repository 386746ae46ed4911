---------------------- MODULE NecromancerThreadsProofs ----------------------
(***************************************************************************)
(* Theorems about NecromancerThreads.tla: for any finite set of threads    *)
(* and any threshold.                                                      *)
(***************************************************************************)
EXTENDS NecromancerThreads, FiniteSetTheorems, TLAPS

USE ThreadsAssumption

\* Threads whose failing verdict is not in the counter yet.
Pending == {t \in Threads : pc[t] \in {"read", "write"}}

\* Who is where in _self_destruct, and what has become of the key by then.
Rite ==
  /\ RitesAttended
  /\ key = "None" => buffer = "zero"
  /\ \A t \in Threads : /\ pc[t] = "flag" => key = "None"
                        /\ pc[t] = "drop" => buffer = "zero"

\* What a call that came after the death can still be at.
Late ==
  /\ DeadStaysDead
  /\ \A t \in late : destroyed /\ pc[t] \in {"kill", "gate1", "gate3", "test", "flag"}

\* Nobody comes to _self_destruct without a reason.
Reason ==
  \A t \in Threads :
    /\ pc[t] \in {"read", "write", "compare"} => strikes >= 1
    /\ pc[t] \in {"test", "wipe", "drop", "flag"} => pilled \/ strikes = Limit

\* n, and the verdicts that are yet to be counted, do not exceed those there were.
Covered(n) == strikes = Limit \/ n + Cardinality(Pending) <= strikes

\* Neither the counter nor what a thread has read of it runs ahead.
Count == Covered(tamper_count) /\ \A t \in Threads : pc[t] = "write" => Covered(tmp[t])

\* The inductive invariant.
IInv == TypeOK /\ Rite /\ Late /\ Reason /\ Count

-----------------------------------------------------------------------------
(* Type correctness                                                        *)

\* The threshold in effect is a positive number.
LEMMA LimitType == Limit \in Nat /\ Limit >= 1
BY DEF Limit

\* The types of what the threads share, and of what each has for itself.
SharedType ==
  /\ buffer \in {"secret", "zero"} /\ key \in {"buffer", "None"}
  /\ tamper_count \in Nat /\ destroyed \in BOOLEAN
  /\ strikes \in 0 .. Limit /\ streak \in Nat /\ pilled \in BOOLEAN
OwnType ==
  /\ pc \in [Threads -> Places]
  /\ corpse \in [Threads -> Corpses \cup {"none"}]
  /\ tmp \in [Threads -> Nat]
  /\ late \subseteq Threads /\ posthumous \subseteq Results
  /\ overlapped \in BOOLEAN

LEMMA TypeParts == TypeOK <=> SharedType /\ OwnType
BY DEF TypeOK, SharedType, OwnType

LEMMA InitType == Init => TypeOK
<1> SUFFICES ASSUME Init
             PROVE  SharedType /\ OwnType
  BY TypeParts
<1>1. SharedType
  <2>1. strikes \in 0 .. Limit /\ tamper_count \in Nat /\ streak \in Nat
    BY LimitType DEF Init
  <2>2. QED
    BY <2>1 DEF Init, SharedType
<1>2. OwnType
  BY DEF Init, OwnType, Places
<1>3. QED
  BY <1>1, <1>2

\* A thread that goes on, or whose call ends, keeps its own types.
LEMMA GoesType ==
  ASSUME OwnType, NEW t \in Threads, NEW from, NEW to \in Places, Goes(t, from, to)
  PROVE  OwnType'
BY DEF OwnType, Goes, At

LEMMA EndsType ==
  ASSUME OwnType, NEW t \in Threads, NEW from, NEW r \in Results, Ends(t, from, r)
  PROVE  OwnType'
<1>1. pc' \in [Threads -> Places] /\ corpse' \in [Threads -> Corpses \cup {"none"}]
  BY DEF OwnType, Ends, At, Places
<1>2. tmp' \in [Threads -> Nat] /\ late' \subseteq Threads
  BY DEF OwnType, Ends
<1>3. posthumous' \subseteq Results
  <2>1. CASE t \in late
    BY <2>1 DEF OwnType, Ends
  <2>2. CASE t \notin late
    BY <2>2 DEF OwnType, Ends
  <2>3. QED
    BY <2>1, <2>2
<1>4. overlapped' \in BOOLEAN
  BY DEF OwnType, Ends
<1>5. QED
  BY <1>1, <1>2, <1>3, <1>4 DEF OwnType

\* Every step of every thread keeps its own types.
LEMMA NextOwnType ==
  ASSUME OwnType, SharedType, [Next]_vars
  PROVE  OwnType'
<1> USE DEF Places, Results
<1>1. ASSUME NEW t \in Threads, KillBegins(t) \/ ReviveBegins(t)
      PROVE  OwnType'
  <2>1. PICK to \in {"kill", "gate1"}, c \in Corpses \cup {"none"} : Begins(t, to, c)
    BY <1>1 DEF KillBegins, ReviveBegins
  <2>2. late' \subseteq Threads
    <3>1. CASE destroyed
      BY <2>1, <3>1 DEF OwnType, Begins
    <3>2. CASE ~destroyed
      BY <2>1, <3>2 DEF OwnType, Begins
    <3>3. QED
      BY <3>1, <3>2
  <2>3. QED
    BY <2>1, <2>2 DEF OwnType, Begins, At
<1>2. ASSUME NEW t \in Threads, KillChecks(t)
      PROVE  OwnType'
  BY <1>2, GoesType, EndsType DEF KillChecks, CheckDestroyed
<1>3. ASSUME NEW t \in Threads, KillLoads(t)
      PROVE  OwnType'
  BY <1>3, GoesType, EndsType DEF KillLoads, Load
<1>4. ASSUME NEW t \in Threads, KillSeals(t)
      PROVE  OwnType'
  BY <1>4, GoesType, EndsType DEF KillSeals
<1>5. ASSUME NEW t \in Threads, KillMasks(t)
      PROVE  OwnType'
  <2>1. CASE key = "None"
    BY <1>5, <2>1, EndsType DEF KillMasks
  <2>2. CASE key # "None"
    BY <1>5, <2>2, EndsType DEF KillMasks
  <2>3. QED
    BY <2>1, <2>2
<1>6. ASSUME NEW t \in Threads, ReviveTrapped(t)
      PROVE  OwnType'
  BY <1>6, EndsType DEF ReviveTrapped
<1>7. ASSUME NEW t \in Threads, Gate1Passed(t)
      PROVE  OwnType'
  <2>1. CASE corpse[t] = "pill"
    BY <1>7, <2>1, GoesType DEF Gate1Passed
  <2>2. CASE corpse[t] # "pill"
    BY <1>7, <2>2, GoesType DEF Gate1Passed
  <2>3. QED
    BY <2>1, <2>2
<1>8. ASSUME NEW t \in Threads, Gate3(t)
      PROVE  OwnType'
  BY <1>8, GoesType, EndsType DEF Gate3, CheckDestroyed
<1>9. ASSUME NEW t \in Threads, ReviveRefused(t)
      PROVE  OwnType'
  BY <1>9, EndsType DEF ReviveRefused
<1>10. ASSUME NEW t \in Threads, ReviveLoads(t)
       PROVE  OwnType'
  BY <1>10, GoesType, EndsType DEF ReviveLoads, Load
<1>11. ASSUME NEW t \in Threads, ReviveDecrypts(t)
       PROVE  OwnType'
  BY <1>11, GoesType DEF ReviveDecrypts
<1>12. ASSUME NEW t \in Threads, ReviveFails(t)
       PROVE  OwnType'
  BY <1>12, GoesType DEF ReviveFails
<1>13. ASSUME NEW t \in Threads, ResetTamper(t)
       PROVE  OwnType'
  BY <1>13, EndsType DEF ResetTamper
<1>14. ASSUME NEW t \in Threads, CountRead(t)
       PROVE  OwnType'
  BY <1>14 DEF CountRead, OwnType, SharedType, At
<1>15. ASSUME NEW t \in Threads, CountWrite(t)
       PROVE  OwnType'
  BY <1>15, GoesType DEF CountWrite
<1>16. ASSUME NEW t \in Threads, Compare(t)
       PROVE  OwnType'
  BY <1>16, GoesType, EndsType DEF Compare
<1>17. ASSUME NEW t \in Threads, TestKey(t)
       PROVE  OwnType'
  <2>1. CASE key = "None"
    BY <1>17, <2>1, GoesType DEF TestKey
  <2>2. CASE key # "None"
    BY <1>17, <2>2, GoesType DEF TestKey
  <2>3. QED
    BY <2>1, <2>2
<1>18. ASSUME NEW t \in Threads, Wipe(t)
       PROVE  OwnType'
  BY <1>18, GoesType, EndsType DEF Wipe
<1>19. ASSUME NEW t \in Threads, Drop(t)
       PROVE  OwnType'
  BY <1>19, GoesType DEF Drop
<1>20. ASSUME NEW t \in Threads, Flag(t)
       PROVE  OwnType'
  BY <1>20, EndsType DEF Flag
<1>21. CASE UNCHANGED vars
  BY <1>21 DEF vars, OwnType
<1>22. QED
  BY <1>1, <1>2, <1>3, <1>4, <1>5, <1>6, <1>7, <1>8, <1>9, <1>10, <1>11, <1>12, <1>13,
     <1>14, <1>15, <1>16, <1>17, <1>18, <1>19, <1>20, <1>21 DEF Next, Runs

\* Every step of every thread keeps the types of what they share.
LEMMA NextSharedType ==
  ASSUME OwnType, SharedType, [Next]_vars
  PROVE  SharedType'
<1> USE DEF SharedType, attributes, history
<1>1. ASSUME NEW t \in Threads, KillChecks(t) \/ KillLoads(t) \/ KillSeals(t) \/ KillMasks(t)
      PROVE  SharedType'
  BY <1>1 DEF KillChecks, KillLoads, Load, KillSeals, KillMasks
<1>2. ASSUME NEW t \in Threads, ReviveTrapped(t) \/ Gate3(t) \/ ReviveRefused(t) \/ ReviveLoads(t)
      PROVE  SharedType'
  BY <1>2 DEF ReviveTrapped, Gate3, ReviveRefused, ReviveLoads, Load
<1>3. ASSUME NEW t \in Threads, ReviveDecrypts(t) \/ CountRead(t) \/ Compare(t) \/ TestKey(t)
      PROVE  SharedType'
  BY <1>3 DEF ReviveDecrypts, CountRead, Compare, TestKey
<1>4. ASSUME NEW t \in Threads, KillBegins(t) \/ ReviveBegins(t)
      PROVE  SharedType'
  BY <1>4 DEF KillBegins, ReviveBegins, Begins
<1>5. ASSUME NEW t \in Threads, Gate1Passed(t)
      PROVE  SharedType'
  BY <1>5 DEF Gate1Passed
<1>6. ASSUME NEW t \in Threads, ReviveFails(t)
      PROVE  SharedType'
  BY <1>6, LimitType DEF ReviveFails
<1>7. ASSUME NEW t \in Threads, ResetTamper(t)
      PROVE  SharedType'
  BY <1>7 DEF ResetTamper
<1>8. ASSUME NEW t \in Threads, CountWrite(t)
      PROVE  SharedType'
  BY <1>8 DEF CountWrite, OwnType
<1>9. ASSUME NEW t \in Threads, Wipe(t)
      PROVE  SharedType'
  BY <1>9 DEF Wipe
<1>10. ASSUME NEW t \in Threads, Drop(t)
       PROVE  SharedType'
  BY <1>10 DEF Drop
<1>11. ASSUME NEW t \in Threads, Flag(t)
       PROVE  SharedType'
  BY <1>11 DEF Flag
<1>12. CASE UNCHANGED vars
  BY <1>12 DEF vars
<1>13. QED
  BY <1>1, <1>2, <1>3, <1>4, <1>5, <1>6, <1>7, <1>8, <1>9, <1>10, <1>11, <1>12 DEF Next, Runs

\* Every step keeps every type.
LEMMA NextType == TypeOK /\ [Next]_vars => TypeOK'
<1> SUFFICES ASSUME TypeOK, [Next]_vars
             PROVE  TypeOK'
  OBVIOUS
<1>1. SharedType /\ OwnType
  BY TypeParts
<1>2. SharedType' /\ OwnType'
  BY <1>1, NextSharedType, NextOwnType
<1>3. QED
  BY <1>2, TypeParts DEF TypeOK, SharedType, OwnType

-----------------------------------------------------------------------------
(* The rest of the invariant, step by step                                 *)

LEMMA InitRest == Init => Rite /\ Late /\ Reason /\ Count
<1> SUFFICES ASSUME Init
             PROVE  Rite /\ Late /\ Reason /\ Count
  OBVIOUS
<1>1. Pending = {}
  BY DEF Init, Pending
<1>2. Count
  BY <1>1, FS_EmptySet, LimitType DEF Init, Count, Covered
<1>3. QED
  BY <1>2 DEF Init, Rite, RitesAttended, Late, DeadStaysDead, Reason

\* A step outside _self_destruct, or into it, leaves the rites as they are.
LEMMA RiteKept ==
  ASSUME OwnType, Rite, NEW t \in Threads, NEW from, NEW to, At(t, from, to),
         from \notin {"drop", "flag"}, to # "drop", to = "flag" => key = "None",
         UNCHANGED <<buffer, key, destroyed>>
  PROVE  Rite'
<1>1. \A u \in Threads : pc[u] \in {"drop", "flag"} => pc'[u] = pc[u]
  BY DEF OwnType, At
<1>2. \A u \in Threads :
        pc'[u] \in {"drop", "flag"} => pc'[u] = pc[u] \/ (key = "None" /\ pc'[u] = "flag")
  BY DEF OwnType, At
<1>3. RitesAttended'
  <2>1. ASSUME key = "None", ~destroyed
        PROVE  \E u \in Threads : pc'[u] = "flag"
    <3>1. PICK u \in Threads : pc[u] = "flag"
      BY <2>1 DEF Rite, RitesAttended
    <3>2. QED
      BY <1>1, <3>1
  <2>2. ASSUME key # "None", buffer = "zero"
        PROVE  \E u \in Threads : pc'[u] = "drop"
    <3>1. PICK u \in Threads : pc[u] = "drop"
      BY <2>2 DEF Rite, RitesAttended
    <3>2. QED
      BY <1>1, <3>1
  <2>3. destroyed' => key' = "None"
    BY DEF Rite, RitesAttended
  <2>4. key' = "None" /\ ~destroyed' => \E u \in Threads : pc'[u] = "flag"
    BY <2>1
  <2>5. buffer' = "zero" /\ key' # "None" => \E u \in Threads : pc'[u] = "drop"
    BY <2>2
  <2>6. QED
    BY <2>3, <2>4, <2>5 DEF RitesAttended
<1>4. QED
  BY <1>2, <1>3 DEF Rite

LEMMA NextRite ==
  ASSUME OwnType, SharedType, Rite, [Next]_vars
  PROVE  Rite'
<1> USE DEF attributes, Goes, Ends
<1>1. ASSUME NEW t \in Threads, KillBegins(t) \/ ReviveBegins(t)
      PROVE  Rite'
  BY <1>1, RiteKept DEF KillBegins, ReviveBegins, Begins
<1>2. ASSUME NEW t \in Threads, KillChecks(t)
      PROVE  Rite'
  BY <1>2, RiteKept DEF KillChecks, CheckDestroyed
<1>3. ASSUME NEW t \in Threads, KillLoads(t)
      PROVE  Rite'
  BY <1>3, RiteKept DEF KillLoads, Load
<1>4. ASSUME NEW t \in Threads, KillSeals(t)
      PROVE  Rite'
  BY <1>4, RiteKept DEF KillSeals
<1>5. ASSUME NEW t \in Threads, KillMasks(t)
      PROVE  Rite'
  BY <1>5, RiteKept DEF KillMasks
<1>6. ASSUME NEW t \in Threads, ReviveTrapped(t)
      PROVE  Rite'
  BY <1>6, RiteKept DEF ReviveTrapped
<1>7. ASSUME NEW t \in Threads, Gate1Passed(t)
      PROVE  Rite'
  BY <1>7, RiteKept DEF Gate1Passed
<1>8. ASSUME NEW t \in Threads, Gate3(t)
      PROVE  Rite'
  BY <1>8, RiteKept DEF Gate3, CheckDestroyed
<1>9. ASSUME NEW t \in Threads, ReviveRefused(t)
      PROVE  Rite'
  BY <1>9, RiteKept DEF ReviveRefused
<1>10. ASSUME NEW t \in Threads, ReviveLoads(t)
       PROVE  Rite'
  BY <1>10, RiteKept DEF ReviveLoads, Load
<1>11. ASSUME NEW t \in Threads, ReviveDecrypts(t)
       PROVE  Rite'
  BY <1>11, RiteKept DEF ReviveDecrypts
<1>12. ASSUME NEW t \in Threads, ReviveFails(t)
       PROVE  Rite'
  BY <1>12, RiteKept DEF ReviveFails
<1>13. ASSUME NEW t \in Threads, ResetTamper(t)
       PROVE  Rite'
  BY <1>13, RiteKept DEF ResetTamper
<1>14. ASSUME NEW t \in Threads, CountRead(t)
       PROVE  Rite'
  BY <1>14, RiteKept DEF CountRead
<1>15. ASSUME NEW t \in Threads, CountWrite(t)
       PROVE  Rite'
  BY <1>15, RiteKept DEF CountWrite
<1>16. ASSUME NEW t \in Threads, Compare(t)
       PROVE  Rite'
  BY <1>16, RiteKept DEF Compare
<1>17. ASSUME NEW t \in Threads, TestKey(t)
       PROVE  Rite'
  BY <1>17, RiteKept DEF TestKey
<1>18. ASSUME NEW t \in Threads, Wipe(t)
       PROVE  Rite'
  <2>1. CASE key = "None"
    BY <1>18, <2>1, RiteKept DEF Wipe
  <2>2. CASE key # "None"
    <3>1. pc'[t] = "drop" /\ buffer' = "zero" /\ key' # "None" /\ destroyed' = destroyed
      BY <1>18, <2>2 DEF Wipe, OwnType, At
    <3>2. \A u \in Threads : u # t => pc'[u] = pc[u]
      BY <1>18 DEF Wipe, OwnType, At
    <3>3. QED
      BY <2>2, <3>1, <3>2 DEF Rite, RitesAttended
  <2>3. QED
    BY <2>1, <2>2
<1>19. ASSUME NEW t \in Threads, Drop(t)
       PROVE  Rite'
  <2>1. /\ pc[t] = "drop" /\ pc'[t] = "flag" /\ key' = "None"
        /\ buffer' = buffer /\ destroyed' = destroyed
    BY <1>19 DEF Drop, OwnType, At
  <2>2. \A u \in Threads : u # t => pc'[u] = pc[u]
    BY <1>19 DEF Drop, OwnType, At
  <2>3. QED
    BY <2>1, <2>2 DEF Rite, RitesAttended
<1>20. ASSUME NEW t \in Threads, Flag(t)
       PROVE  Rite'
  <2>1. /\ pc[t] = "flag" /\ pc'[t] = "idle" /\ destroyed'
        /\ buffer' = buffer /\ key' = key
    BY <1>20 DEF Flag, OwnType, At
  <2>2. \A u \in Threads : u # t => pc'[u] = pc[u]
    BY <1>20 DEF Flag, OwnType, At
  <2>3. QED
    BY <2>1, <2>2 DEF Rite, RitesAttended
<1>21. CASE UNCHANGED vars
  BY <1>21 DEF vars, Rite, RitesAttended
<1>22. QED
  BY <1>1, <1>2, <1>3, <1>4, <1>5, <1>6, <1>7, <1>8, <1>9, <1>10, <1>11,
     <1>12, <1>13, <1>14, <1>15, <1>16, <1>17, <1>18, <1>19, <1>20, <1>21 DEF Next, Runs

\* Where a call that came after the death can be.
Posthumous == {"kill", "gate1", "gate3", "test", "flag"}

LEMMA LateGoes ==
  ASSUME OwnType, Late, NEW t \in Threads, NEW from, NEW to, Goes(t, from, to),
         from \in Posthumous /\ destroyed => to \in Posthumous,
         destroyed => destroyed'
  PROVE  Late'
BY DEF OwnType, Late, DeadStaysDead, Goes, At, Posthumous

LEMMA LateEnds ==
  ASSUME OwnType, Late, NEW t \in Threads, NEW from, NEW r, Ends(t, from, r),
         from \in Posthumous /\ destroyed => r \in {"SoulTrappedError", "SelfDestructError"},
         destroyed => destroyed'
  PROVE  Late'
<1>1. \A u \in late' : destroyed' /\ pc'[u] \in {"kill", "gate1", "gate3", "test", "flag"}
  BY DEF OwnType, Late, Ends, At
<1>2. DeadStaysDead'
  <2>1. CASE t \in late
    BY <2>1 DEF OwnType, Late, DeadStaysDead, Ends, At, Posthumous
  <2>2. CASE t \notin late
    BY <2>2 DEF Late, DeadStaysDead, Ends
  <2>3. QED
    BY <2>1, <2>2
<1>3. QED
  BY <1>1, <1>2 DEF Late

LEMMA NextLate ==
  ASSUME OwnType, SharedType, Rite, Late, [Next]_vars
  PROVE  Late'
<1> USE DEF attributes, Posthumous
<1>1. ASSUME NEW t \in Threads, KillBegins(t) \/ ReviveBegins(t)
      PROVE  Late'
  <2>1. PICK to \in {"kill", "gate1"}, c \in Corpses \cup {"none"} : Begins(t, to, c)
    BY <1>1 DEF KillBegins, ReviveBegins
  <2>2. CASE destroyed
    BY <2>1, <2>2 DEF Begins, At, OwnType, Late, DeadStaysDead
  <2>3. CASE ~destroyed
    BY <2>1, <2>3 DEF Begins, At, OwnType, Late, DeadStaysDead
  <2>4. QED
    BY <2>2, <2>3
<1>2. ASSUME NEW t \in Threads, KillChecks(t)
      PROVE  Late'
  BY <1>2, LateGoes, LateEnds DEF KillChecks, CheckDestroyed
<1>3. ASSUME NEW t \in Threads, KillLoads(t)
      PROVE  Late'
  BY <1>3, LateGoes, LateEnds DEF KillLoads, Load
<1>4. ASSUME NEW t \in Threads, KillSeals(t)
      PROVE  Late'
  BY <1>4, LateGoes, LateEnds DEF KillSeals
<1>5. ASSUME NEW t \in Threads, KillMasks(t)
      PROVE  Late'
  BY <1>5, LateGoes, LateEnds DEF KillMasks
<1>6. ASSUME NEW t \in Threads, ReviveTrapped(t)
      PROVE  Late'
  BY <1>6, LateGoes, LateEnds DEF ReviveTrapped
<1>7. ASSUME NEW t \in Threads, Gate1Passed(t)
      PROVE  Late'
  BY <1>7, LateGoes, LateEnds DEF Gate1Passed
<1>8. ASSUME NEW t \in Threads, Gate3(t)
      PROVE  Late'
  BY <1>8, LateGoes, LateEnds DEF Gate3, CheckDestroyed
<1>9. ASSUME NEW t \in Threads, ReviveRefused(t)
      PROVE  Late'
  BY <1>9, LateGoes, LateEnds DEF ReviveRefused
<1>10. ASSUME NEW t \in Threads, ReviveLoads(t)
       PROVE  Late'
  BY <1>10, LateGoes, LateEnds DEF ReviveLoads, Load
<1>11. ASSUME NEW t \in Threads, ReviveDecrypts(t)
       PROVE  Late'
  BY <1>11, LateGoes, LateEnds DEF ReviveDecrypts
<1>12. ASSUME NEW t \in Threads, ReviveFails(t)
       PROVE  Late'
  BY <1>12, LateGoes, LateEnds DEF ReviveFails
<1>13. ASSUME NEW t \in Threads, ResetTamper(t)
       PROVE  Late'
  BY <1>13, LateGoes, LateEnds DEF ResetTamper
<1>14. ASSUME NEW t \in Threads, CountRead(t)
       PROVE  Late'
  BY <1>14 DEF CountRead, At, OwnType, Late, DeadStaysDead
<1>15. ASSUME NEW t \in Threads, CountWrite(t)
       PROVE  Late'
  BY <1>15, LateGoes, LateEnds DEF CountWrite
<1>16. ASSUME NEW t \in Threads, Compare(t)
       PROVE  Late'
  BY <1>16, LateGoes, LateEnds DEF Compare
<1>17. ASSUME NEW t \in Threads, TestKey(t)
       PROVE  Late'
  BY <1>17, LateGoes DEF TestKey, Rite, RitesAttended
<1>18. ASSUME NEW t \in Threads, Wipe(t)
       PROVE  Late'
  BY <1>18, LateGoes, LateEnds DEF Wipe
<1>19. ASSUME NEW t \in Threads, Drop(t)
       PROVE  Late'
  BY <1>19, LateGoes DEF Drop
<1>20. ASSUME NEW t \in Threads, Flag(t)
       PROVE  Late'
  BY <1>20, LateEnds DEF Flag
<1>21. CASE UNCHANGED vars
  BY <1>21 DEF vars, Late, DeadStaysDead
<1>22. QED
  BY <1>1, <1>2, <1>3, <1>4, <1>5, <1>6, <1>7, <1>8, <1>9, <1>10, <1>11,
     <1>12, <1>13, <1>14, <1>15, <1>16, <1>17, <1>18, <1>19, <1>20, <1>21 DEF Next, Runs

\* A step keeps everybody's reason if it brings its own thread no further than
\* there is one.
LEMMA ReasonKept ==
  ASSUME OwnType, SharedType, SharedType', Reason,
         NEW t \in Threads, NEW from, NEW to, At(t, from, to),
         strikes <= strikes', pilled => pilled',
         to \in {"read", "write", "compare"} => strikes' >= 1,
         to \in {"test", "wipe", "drop", "flag"} => pilled' \/ strikes' = Limit
  PROVE  Reason'
<1>1. strikes \in 0 .. Limit /\ strikes' \in 0 .. Limit
  BY DEF SharedType
<1>2. \A u \in Threads : u # t => pc'[u] = pc[u]
  BY DEF OwnType, At
<1>3. pc'[t] = to
  BY DEF OwnType, At
<1>4. QED
  BY <1>1, <1>2, <1>3, LimitType DEF Reason

\* Neither end of a step that is not about the counter changes who is pending.
LEMMA PendingKept ==
  ASSUME OwnType, NEW t \in Threads, NEW from, NEW to, At(t, from, to),
         from \in {"read", "write"} <=> to \in {"read", "write"}
  PROVE  Pending' = Pending
BY DEF OwnType, At, Pending

LEMMA PendingFinite == IsFiniteSet(Pending) /\ Cardinality(Pending) \in Nat
<1>1. Pending \subseteq Threads
  BY DEF Pending
<1>2. QED
  BY <1>1, FS_Subset, FS_CardinalityType DEF ThreadsAssumption

LEMMA CountKept ==
  ASSUME OwnType, SharedType, Count, NEW t \in Threads, NEW from, NEW to, At(t, from, to),
         from \in {"read", "write"} <=> to \in {"read", "write"}, to # "write",
         strikes' = strikes, tamper_count' \in {0, tamper_count},
         \A u \in Threads : u # t => tmp'[u] = tmp[u]
  PROVE  Count'
<1>1. Pending' = Pending
  BY PendingKept
<1>2. strikes \in Nat /\ tamper_count \in Nat
  BY LimitType DEF SharedType
<1>3. Cardinality(Pending) \in Nat
  BY PendingFinite
<1>4. Covered(tamper_count)'
  BY <1>1, <1>2, <1>3, LimitType DEF Count, Covered
<1>5. ASSUME NEW u \in Threads, pc'[u] = "write"
      PROVE  Covered(tmp[u])'
  <2>1. u # t /\ pc[u] = "write" /\ tmp'[u] = tmp[u]
    BY <1>5 DEF OwnType, At
  <2>2. QED
    BY <1>1, <2>1 DEF Count, Covered
<1>6. QED
  BY <1>4, <1>5 DEF Count

LEMMA NextReason ==
  ASSUME OwnType, SharedType, SharedType', Reason, Count, [Next]_vars
  PROVE  Reason'
<1>0. /\ strikes \in 0 .. Limit /\ strikes' \in 0 .. Limit
      /\ strikes \in Nat /\ strikes' \in Nat
  BY LimitType DEF SharedType
<1> USE <1>0, LimitType DEF history, Goes, Ends
<1>1. ASSUME NEW t \in Threads, KillBegins(t) \/ ReviveBegins(t)
      PROVE  Reason'
  BY <1>1, ReasonKept DEF KillBegins, ReviveBegins, Begins
<1>2. ASSUME NEW t \in Threads, KillChecks(t)
      PROVE  Reason'
  BY <1>2, ReasonKept DEF KillChecks, CheckDestroyed
<1>3. ASSUME NEW t \in Threads, KillLoads(t)
      PROVE  Reason'
  <2>1. PICK to \in {"seal", "idle"} : At(t, "load", to)
    BY <1>3 DEF KillLoads, Load
  <2>2. strikes' = strikes /\ pilled' = pilled
    BY <1>3 DEF KillLoads, Load
  <2>3. strikes <= strikes' /\ (pilled => pilled')
    BY <2>2
  <2>4. QED
    BY <2>1, <2>3, ReasonKept
<1>4. ASSUME NEW t \in Threads, KillSeals(t)
      PROVE  Reason'
  BY <1>4, ReasonKept DEF KillSeals
<1>5. ASSUME NEW t \in Threads, KillMasks(t)
      PROVE  Reason'
  BY <1>5, ReasonKept DEF KillMasks
<1>6. ASSUME NEW t \in Threads, ReviveTrapped(t)
      PROVE  Reason'
  BY <1>6, ReasonKept DEF ReviveTrapped
<1>7. ASSUME NEW t \in Threads, Gate1Passed(t)
      PROVE  Reason'
  <2>1. strikes' = strikes /\ pilled' = (pilled \/ corpse[t] = "pill")
    BY <1>7 DEF Gate1Passed
  <2>2. CASE corpse[t] = "pill"
    <3>1. pilled' /\ At(t, "gate1", "test")
      BY <1>7, <2>1, <2>2 DEF Gate1Passed
    <3>2. QED
      BY <2>1, <3>1, ReasonKept
  <2>3. CASE corpse[t] # "pill"
    <3>1. (pilled => pilled') /\ At(t, "gate1", "gate3")
      BY <1>7, <2>1, <2>3 DEF Gate1Passed
    <3>2. QED
      BY <2>1, <3>1, ReasonKept
  <2>4. QED
    BY <2>2, <2>3
<1>8. ASSUME NEW t \in Threads, Gate3(t)
      PROVE  Reason'
  BY <1>8, ReasonKept DEF Gate3, CheckDestroyed
<1>9. ASSUME NEW t \in Threads, ReviveRefused(t)
      PROVE  Reason'
  BY <1>9, ReasonKept DEF ReviveRefused
<1>10. ASSUME NEW t \in Threads, ReviveLoads(t)
       PROVE  Reason'
  BY <1>10, ReasonKept DEF ReviveLoads, Load
<1>11. ASSUME NEW t \in Threads, ReviveDecrypts(t)
       PROVE  Reason'
  BY <1>11, ReasonKept DEF ReviveDecrypts
<1>12. ASSUME NEW t \in Threads, ReviveFails(t)
       PROVE  Reason'
  BY <1>12, ReasonKept DEF ReviveFails
<1>13. ASSUME NEW t \in Threads, ResetTamper(t)
       PROVE  Reason'
  BY <1>13, ReasonKept DEF ResetTamper
<1>14. ASSUME NEW t \in Threads, CountRead(t)
       PROVE  Reason'
  BY <1>14, ReasonKept DEF CountRead, At, Reason
<1>15. ASSUME NEW t \in Threads, CountWrite(t)
       PROVE  Reason'
  BY <1>15, ReasonKept DEF CountWrite, At, Reason
<1>16. ASSUME NEW t \in Threads, Compare(t)
       PROVE  Reason'
  <2>1. At(t, "compare", "test") \/ At(t, "compare", "idle")
    BY <1>16 DEF Compare
  <2>2. CASE At(t, "compare", "idle")
    BY <1>16, <2>2, ReasonKept DEF Compare
  <2>3. CASE ThresholdReached
    <3>1. strikes >= 1
      BY <1>16 DEF Compare, Reason, At
    <3>2. strikes = Limit \/ tamper_count <= strikes
      BY PendingFinite DEF Count, Covered, SharedType
    <3>3. strikes = Limit
      BY <2>3, <3>1, <3>2, ThreadsAssumption DEF ThresholdReached, Limit, SharedType
    <3>4. strikes' = Limit /\ pilled' = pilled
      BY <1>16, <3>3 DEF Compare
    <3>5. QED
      BY <2>1, <2>2, <3>4, <3>3, ReasonKept
  <2>4. CASE ~ThresholdReached
    BY <1>16, <2>2, <2>4 DEF Compare
  <2>5. QED
    BY <2>3, <2>4
<1>17. ASSUME NEW t \in Threads, TestKey(t)
       PROVE  Reason'
  <2>1. pilled \/ strikes = Limit
    BY <1>17 DEF TestKey, Reason, At
  <2>2. PICK to \in {"flag", "wipe"} : At(t, "test", to)
    BY <1>17 DEF TestKey
  <2>3. strikes' = strikes /\ pilled' = pilled
    BY <1>17 DEF TestKey
  <2>4. QED
    BY <2>1, <2>2, <2>3, ReasonKept
<1>18. ASSUME NEW t \in Threads, Wipe(t)
       PROVE  Reason'
  <2>1. pilled \/ strikes = Limit
    BY <1>18 DEF Wipe, Reason, At
  <2>2. PICK to \in {"drop", "idle"} : At(t, "wipe", to)
    BY <1>18 DEF Wipe
  <2>3. strikes' = strikes /\ pilled' = pilled
    BY <1>18 DEF Wipe
  <2>4. QED
    BY <2>1, <2>2, <2>3, ReasonKept
<1>19. ASSUME NEW t \in Threads, Drop(t)
       PROVE  Reason'
  <2>1. pilled \/ strikes = Limit
    BY <1>19 DEF Drop, Reason, At
  <2>2. QED
    BY <1>19, <2>1, ReasonKept DEF Drop
<1>20. ASSUME NEW t \in Threads, Flag(t)
       PROVE  Reason'
  BY <1>20, ReasonKept DEF Flag
<1>21. CASE UNCHANGED vars
  BY <1>21 DEF vars, Reason
<1>22. QED
  BY <1>1, <1>2, <1>3, <1>4, <1>5, <1>6, <1>7, <1>8, <1>9, <1>10, <1>11,
     <1>12, <1>13, <1>14, <1>15, <1>16, <1>17, <1>18, <1>19, <1>20, <1>21 DEF Next, Runs

LEMMA NextCount ==
  ASSUME OwnType, SharedType, Count, [Next]_vars
  PROVE  Count'
<1>0. strikes \in Nat /\ tamper_count \in Nat /\ Cardinality(Pending) \in Nat
  BY LimitType, PendingFinite DEF SharedType
<1> USE DEF attributes, history, Goes, Ends, OwnType
<1>1. ASSUME NEW t \in Threads, KillBegins(t) \/ ReviveBegins(t)
      PROVE  Count'
  BY <1>1, CountKept DEF KillBegins, ReviveBegins, Begins
<1>2. ASSUME NEW t \in Threads, KillChecks(t)
      PROVE  Count'
  BY <1>2, CountKept DEF KillChecks, CheckDestroyed
<1>3. ASSUME NEW t \in Threads, KillLoads(t)
      PROVE  Count'
  BY <1>3, CountKept DEF KillLoads, Load
<1>4. ASSUME NEW t \in Threads, KillSeals(t)
      PROVE  Count'
  BY <1>4, CountKept DEF KillSeals
<1>5. ASSUME NEW t \in Threads, KillMasks(t)
      PROVE  Count'
  BY <1>5, CountKept DEF KillMasks
<1>6. ASSUME NEW t \in Threads, ReviveTrapped(t)
      PROVE  Count'
  BY <1>6, CountKept DEF ReviveTrapped
<1>7. ASSUME NEW t \in Threads, Gate1Passed(t)
      PROVE  Count'
  BY <1>7, CountKept DEF Gate1Passed
<1>8. ASSUME NEW t \in Threads, Gate3(t)
      PROVE  Count'
  BY <1>8, CountKept DEF Gate3, CheckDestroyed
<1>9. ASSUME NEW t \in Threads, ReviveRefused(t)
      PROVE  Count'
  BY <1>9, CountKept DEF ReviveRefused
<1>10. ASSUME NEW t \in Threads, ReviveLoads(t)
       PROVE  Count'
  BY <1>10, CountKept DEF ReviveLoads, Load
<1>11. ASSUME NEW t \in Threads, ReviveDecrypts(t)
       PROVE  Count'
  BY <1>11, CountKept DEF ReviveDecrypts
<1>12. ASSUME NEW t \in Threads, ReviveFails(t)
       PROVE  Count'
  <2>1. Pending' = Pending \cup {t} /\ t \notin Pending
    BY <1>12 DEF ReviveFails, At, Pending
  <2>2. Cardinality(Pending') = Cardinality(Pending) + 1
    BY <2>1, PendingFinite, FS_AddElement
  <2>3. (strikes = Limit /\ strikes' = Limit) \/ (strikes < Limit /\ strikes' = strikes + 1)
    BY <1>12, LimitType DEF ReviveFails, SharedType
  <2>4. Covered(tamper_count)'
    BY <1>12, <1>0, <2>2, <2>3 DEF ReviveFails, Count, Covered
  <2>5. ASSUME NEW u \in Threads, pc'[u] = "write"
        PROVE  Covered(tmp[u])'
    <3>1. pc[u] = "write" /\ tmp'[u] = tmp[u] /\ tmp[u] \in Nat
      BY <1>12, <2>5 DEF ReviveFails, At
    <3>2. strikes = Limit \/ tmp[u] + Cardinality(Pending) <= strikes
      BY <3>1 DEF Count, Covered
    <3>3. strikes' = Limit \/ tmp[u] + Cardinality(Pending') <= strikes'
      <4>1. CASE strikes = Limit /\ strikes' = Limit
        BY <4>1
      <4>2. CASE strikes < Limit /\ strikes' = strikes + 1
        BY <1>0, <2>2, <3>1, <3>2, <4>2, LimitType
      <4>3. QED
        BY <2>3, <4>1, <4>2
    <3>4. QED
      BY <3>1, <3>3 DEF Covered
  <2>6. QED
    BY <2>4, <2>5 DEF Count
<1>13. ASSUME NEW t \in Threads, ResetTamper(t)
       PROVE  Count'
  BY <1>13, CountKept DEF ResetTamper
<1>14. ASSUME NEW t \in Threads, CountRead(t)
       PROVE  Count'
  <2>1. Pending' = Pending
    BY <1>14, PendingKept DEF CountRead
  <2>2. ASSUME NEW u \in Threads, pc'[u] = "write"
        PROVE  Covered(tmp[u])'
    <3>1. CASE u = t
      BY <1>14, <2>1, <3>1 DEF CountRead, Count, Covered
    <3>2. CASE u # t
      BY <1>14, <2>1, <2>2, <3>2 DEF CountRead, At, Count, Covered
    <3>3. QED
      BY <3>1, <3>2
  <2>3. QED
    BY <1>14, <2>1, <2>2 DEF CountRead, Count, Covered
<1>15. ASSUME NEW t \in Threads, CountWrite(t)
       PROVE  Count'
  <2>1. Pending' = Pending \ {t} /\ t \in Pending
    BY <1>15 DEF CountWrite, At, Pending
  <2>2. Cardinality(Pending') = Cardinality(Pending) - 1
    BY <2>1, PendingFinite, FS_RemoveElement
  <2>3. Covered(tmp[t]) /\ tmp[t] \in Nat
    BY <1>15 DEF CountWrite, At, Count
  <2>4. Covered(tamper_count)'
    BY <1>15, <1>0, <2>2, <2>3 DEF CountWrite, Covered
  <2>5. ASSUME NEW u \in Threads, pc'[u] = "write"
        PROVE  Covered(tmp[u])'
    <3>1. pc[u] = "write" /\ tmp'[u] = tmp[u] /\ tmp[u] \in Nat /\ strikes' = strikes
      BY <1>15, <2>5 DEF CountWrite, At
    <3>2. QED
      BY <1>0, <2>2, <3>1 DEF Count, Covered
  <2>6. QED
    BY <2>4, <2>5 DEF Count
<1>16. ASSUME NEW t \in Threads, Compare(t)
       PROVE  Count'
  BY <1>16, CountKept DEF Compare
<1>17. ASSUME NEW t \in Threads, TestKey(t)
       PROVE  Count'
  BY <1>17, CountKept DEF TestKey
<1>18. ASSUME NEW t \in Threads, Wipe(t)
       PROVE  Count'
  BY <1>18, CountKept DEF Wipe
<1>19. ASSUME NEW t \in Threads, Drop(t)
       PROVE  Count'
  BY <1>19, CountKept DEF Drop
<1>20. ASSUME NEW t \in Threads, Flag(t)
       PROVE  Count'
  BY <1>20, CountKept DEF Flag
<1>21. CASE UNCHANGED vars
  BY <1>21 DEF vars, Count, Covered, Pending
<1>22. QED
  BY <1>1, <1>2, <1>3, <1>4, <1>5, <1>6, <1>7, <1>8, <1>9, <1>10, <1>11,
     <1>12, <1>13, <1>14, <1>15, <1>16, <1>17, <1>18, <1>19, <1>20, <1>21 DEF Next, Runs

-----------------------------------------------------------------------------
(* Theorems                                                                *)

\* IInv holds to begin with, and every step keeps it.
THEOREM ThreadsInductive == Spec => []IInv
<1>1. Init => IInv
  BY InitType, InitRest DEF IInv
<1>2. IInv /\ [Next]_vars => IInv'
  <2> SUFFICES ASSUME IInv, [Next]_vars
               PROVE  IInv'
    OBVIOUS
  <2>1. SharedType /\ OwnType /\ Rite /\ Late /\ Reason /\ Count
    BY TypeParts DEF IInv
  <2>2. TypeOK' /\ SharedType'
    BY <2>1, NextType, NextSharedType DEF IInv
  <2>3. Rite' /\ Late' /\ Reason' /\ Count'
    BY <2>1, <2>2, NextRite, NextLate, NextReason, NextCount
  <2>4. QED
    BY <2>2, <2>3 DEF IInv
<1>3. QED
  BY <1>1, <1>2, PTL DEF Spec

\* Type correctness, for any number of threads.
THEOREM ThreadsTypeCorrect == Spec => []TypeOK
BY ThreadsInductive, PTL DEF IInv

\* No thread leaves an instance half dead (core.py:203-208).
THEOREM RitesAttendedHolds == Spec => []RitesAttended
<1>1. IInv => RitesAttended
  BY DEF IInv, Rite
<1>2. QED
  BY <1>1, ThreadsInductive, PTL

\* A call that comes after the death gets nothing (core.py:210-214).
THEOREM DeadStaysDeadHolds == Spec => []DeadStaysDead
<1>1. IInv => DeadStaysDead
  BY DEF IInv, Late
<1>2. QED
  BY <1>1, ThreadsInductive, PTL
-----------------------------------------------------------------------------
(* Refinement                                                              *)

\* Every step of a thread is a step of LastRites or none.
LEMMA NextRites ==
  ASSUME IInv, [Next]_vars
  PROVE  [Rites!Next]_Rites!vars
<1>0. SharedType /\ OwnType /\ Rite /\ Reason
  BY TypeParts DEF IInv
<1> USE DEF Rites!Next, Rites!vars, attributes, history
<1>1. ASSUME UNCHANGED <<attributes, strikes, pilled>>
      PROVE  [Rites!Next]_Rites!vars
  BY <1>1
<1>2. ASSUME NEW t \in Threads, Gate1Passed(t)
      PROVE  [Rites!Next]_Rites!vars
  <2>1. UNCHANGED <<attributes, strikes>>
    BY <1>2 DEF Gate1Passed
  <2>2. pilled' = pilled \/ (~pilled /\ pilled' = TRUE)
    BY <1>2, <1>0 DEF Gate1Passed, SharedType
  <2>3. QED
    BY <2>1, <2>2 DEF Rites!Pill
<1>3. ASSUME NEW t \in Threads, ReviveFails(t)
      PROVE  [Rites!Next]_Rites!vars
  BY <1>3 DEF ReviveFails, Rites!Strike
<1>4. ASSUME NEW t \in Threads, ResetTamper(t) \/ CountWrite(t)
      PROVE  [Rites!Next]_Rites!vars
  BY <1>4 DEF ResetTamper, CountWrite
<1>5. ASSUME NEW t \in Threads, Wipe(t)
      PROVE  [Rites!Next]_Rites!vars
  <2>1. pilled \/ strikes = Limit
    BY <1>5, <1>0 DEF Wipe, Goes, Ends, At, Reason
  <2>2. UNCHANGED <<key, destroyed, strikes, pilled>>
    BY <1>5 DEF Wipe
  <2>3. CASE key = "None" \/ buffer = "zero"
    BY <1>5, <2>2, <2>3 DEF Wipe
  <2>4. CASE key # "None" /\ buffer # "zero"
    <3>1. ~destroyed /\ buffer' = "zero"
      BY <1>0, <1>5, <2>4 DEF Wipe, Rite, RitesAttended
    <3>2. QED
      BY <2>1, <2>2, <2>4, <3>1 DEF Rites!Wipe, Rites!Moves
  <2>5. QED
    BY <2>3, <2>4
<1>6. ASSUME NEW t \in Threads, Drop(t)
      PROVE  [Rites!Next]_Rites!vars
  <2>1. buffer = "zero"
    BY <1>0, <1>6 DEF Drop, Goes, At, Rite
  <2>2. key' = "None" /\ UNCHANGED <<buffer, destroyed, strikes, pilled>>
    BY <1>6 DEF Drop
  <2>3. CASE destroyed \/ key = "None"
    BY <2>2, <2>3
  <2>4. CASE ~destroyed /\ key # "None"
    BY <2>1, <2>2, <2>4 DEF Rites!Drop, Rites!Moves
  <2>5. QED
    BY <2>3, <2>4
<1>7. ASSUME NEW t \in Threads, Flag(t)
      PROVE  [Rites!Next]_Rites!vars
  <2>1. key = "None"
    BY <1>0, <1>7 DEF Flag, Ends, At, Rite
  <2>2. destroyed' = TRUE /\ UNCHANGED <<buffer, key, strikes, pilled>>
    BY <1>7 DEF Flag
  <2>3. CASE destroyed
    BY <2>2, <2>3
  <2>4. CASE ~destroyed
    BY <2>1, <2>2, <2>4 DEF Rites!Bury, Rites!Moves
  <2>5. QED
    BY <2>3, <2>4
<1>8. ASSUME NEW t \in Threads,
             \/ KillBegins(t) \/ ReviveBegins(t) \/ KillChecks(t) \/ KillLoads(t)
             \/ KillSeals(t) \/ KillMasks(t) \/ ReviveTrapped(t) \/ Gate3(t)
             \/ ReviveRefused(t) \/ ReviveLoads(t) \/ ReviveDecrypts(t)
             \/ CountRead(t) \/ Compare(t) \/ TestKey(t)
      PROVE  [Rites!Next]_Rites!vars
  <2>1. UNCHANGED <<attributes, strikes, pilled>>
    BY <1>8 DEF KillBegins, ReviveBegins, Begins, KillChecks, KillLoads, Load, KillSeals,
       KillMasks, ReviveTrapped, Gate3, ReviveRefused, ReviveLoads, ReviveDecrypts,
       CountRead, Compare, TestKey
  <2>2. QED
    BY <2>1, <1>1
<1>9. CASE UNCHANGED vars
  BY <1>9, <1>1 DEF vars
<1>10. QED
  BY <1>2, <1>3, <1>4, <1>5, <1>6, <1>7, <1>8, <1>9 DEF Next, Runs

\* Whatever any number of threads do, the key goes the way of LastRites, and for no
\* fewer failing verdicts than max_tamper asks for (core.py:203-208, 216-224).
THEOREM ThreadsImplementLastRites == Spec => ImplementsLastRites
<1>1. Init => Rites!Init
  BY DEF Init, Rites!Init
<1>2. IInv /\ [Next]_vars => [Rites!Next]_Rites!vars
  BY NextRites
<1>3. QED
  BY <1>1, <1>2, ThreadsInductive, PTL DEF Spec, ImplementsLastRites, Rites!Spec
-----------------------------------------------------------------------------
(* Steps that leave the counter alone                                      *)

InRites(t) == pc[t] \in {"test", "wipe", "drop", "flag"}

\* A step of t outside the counter's steps and _self_destruct, or into the latter
\* with a pill.
Aside(t) ==
  /\ \A u \in Threads : u # t => pc'[u] = pc[u] /\ tmp'[u] = tmp[u]
  /\ pc[t] \notin {"reset", "read", "write", "compare"} /\ ~InRites(t)
  /\ pc'[t] \notin {"write", "compare", "wipe", "drop", "flag"}
  /\ UNCHANGED <<tamper_count, streak, destroyed>>
  /\ pilled => pilled'
  /\ pc'[t] = "test" => pilled'
  /\ destroyed /\ pc[t] \in Posthumous \cup {"idle"} => pc'[t] \in Posthumous \cup {"idle"}
  /\ IF pc[t] = "idle"
     THEN overlapped' = (overlapped \/ \E u \in Threads \ {t} : pc[u] # "idle")
     ELSE UNCHANGED overlapped

LEMMA AsideGoes ==
  ASSUME OwnType, SharedType, NEW t \in Threads, NEW from, NEW to, Goes(t, from, to),
         from \notin {"idle", "reset", "read", "write", "compare",
                      "test", "wipe", "drop", "flag"},
         to \notin {"write", "compare", "wipe", "drop", "flag"},
         UNCHANGED <<tamper_count, streak, destroyed>>,
         pilled => pilled', to = "test" => pilled',
         destroyed /\ from \in Posthumous => to \in Posthumous
  PROVE  Aside(t)
BY DEF OwnType, Goes, At, Aside, InRites, Posthumous

LEMMA AsideEnds ==
  ASSUME OwnType, SharedType, NEW t \in Threads, NEW from, NEW r, Ends(t, from, r),
         from \notin {"idle", "reset", "read", "write", "compare",
                      "test", "wipe", "drop", "flag"},
         UNCHANGED <<tamper_count, streak, destroyed, pilled>>
  PROVE  Aside(t)
BY DEF OwnType, Ends, At, Aside, InRites, Posthumous

\* What begins a call, seals, or comes before the verdict of GCM, and the verdict.
LEMMA AsideSteps ==
  ASSUME OwnType, SharedType, NEW t \in Threads,
         \/ KillBegins(t) \/ ReviveBegins(t)
         \/ KillChecks(t) \/ KillLoads(t) \/ KillSeals(t) \/ KillMasks(t)
         \/ ReviveTrapped(t) \/ Gate1Passed(t) \/ Gate3(t) \/ ReviveRefused(t)
         \/ ReviveLoads(t) \/ ReviveDecrypts(t) \/ ReviveFails(t)
  PROVE  Aside(t)
<1> USE DEF attributes, history, Posthumous
<1>1. CASE KillBegins(t) \/ ReviveBegins(t)
  <2>1. PICK to \in {"kill", "gate1"}, c \in Corpses \cup {"none"} : Begins(t, to, c)
    BY <1>1 DEF KillBegins, ReviveBegins
  <2>2. QED
    BY <2>1 DEF Begins, At, OwnType, Aside, InRites
<1>2. CASE KillChecks(t) \/ KillLoads(t)
  BY <1>2, AsideGoes, AsideEnds DEF KillChecks, CheckDestroyed, KillLoads, Load
<1>3. CASE KillSeals(t)
  BY <1>3, AsideGoes, AsideEnds DEF KillSeals
<1>4. CASE KillMasks(t)
  BY <1>4, AsideEnds DEF KillMasks
<1>5. CASE ReviveTrapped(t) \/ ReviveRefused(t)
  BY <1>5, AsideEnds DEF ReviveTrapped, ReviveRefused
<1>6. CASE Gate1Passed(t)
  <2>1. CASE corpse[t] = "pill"
    BY <1>6, <2>1, AsideGoes DEF Gate1Passed
  <2>2. CASE corpse[t] # "pill"
    BY <1>6, <2>2, AsideGoes DEF Gate1Passed, SharedType
  <2>3. QED
    BY <2>1, <2>2
<1>7. CASE Gate3(t) \/ ReviveLoads(t)
  BY <1>7, AsideGoes, AsideEnds DEF Gate3, CheckDestroyed, ReviveLoads, Load
<1>8. CASE ReviveDecrypts(t) \/ ReviveFails(t)
  BY <1>8, AsideGoes DEF ReviveDecrypts, ReviveFails
<1>9. QED
  BY <1>1, <1>2, <1>3, <1>4, <1>5, <1>6, <1>7, <1>8

-----------------------------------------------------------------------------
(* Calls in turn                                                           *)

\* As long as no two calls were under way at a time, the counter and whoever
\* increments it are exact, and the last failure of a row is on its way to the end.
InTurn ==
  ~overlapped =>
    /\ \A t, u \in Threads : t # u => pc[t] = "idle" \/ pc[u] = "idle"
    /\ tamper_count = streak /\ streak <= Limit
    /\ \A t \in Threads : /\ pc[t] = "write" => tmp[t] = streak
                          /\ pc[t] = "compare" => streak >= 1
                          /\ InRites(t) => pilled \/ streak = Limit
    /\ destroyed => /\ pilled \/ streak = Limit
                    /\ \A t \in Threads : pc[t] \in Posthumous \cup {"idle"}
    /\ streak = Limit => destroyed \/ \E t \in Threads : pc[t] = "compare" \/ InRites(t)

\* What the steps of the counter and of _self_destruct do to the threads.
LEMMA AtOnly ==
  ASSUME OwnType, NEW t \in Threads, NEW from, NEW to, At(t, from, to)
  PROVE  /\ pc[t] = from /\ pc'[t] = to
         /\ \A u \in Threads : u # t => pc'[u] = pc[u]
BY DEF OwnType, At

LEMMA TurnKept ==
  ASSUME OwnType, InTurn, ~overlapped, ~overlapped', NEW t \in Threads, pc[t] # "idle",
         \A u \in Threads : u # t => pc'[u] = pc[u]
  PROVE  /\ \A u \in Threads : u # t => pc[u] = "idle" /\ pc'[u] = "idle"
         /\ \A u, v \in Threads : u # v => pc'[u] = "idle" \/ pc'[v] = "idle"
BY DEF InTurn

LEMMA NextInTurn ==
  ASSUME OwnType, SharedType, Rite, InTurn, [Next]_vars
  PROVE  InTurn'
<1> SUFFICES ASSUME ~overlapped'
             PROVE  InTurn'
  BY DEF InTurn
<1>0. Limit \in Nat /\ Limit >= 1 /\ MaxTamper \in Int /\ streak \in Nat
  BY LimitType, ThreadsAssumption DEF SharedType
<1> USE <1>0 DEF Posthumous
<1>1. ASSUME NEW t \in Threads, Aside(t)
      PROVE  InTurn'
  <2>1. ~overlapped
    BY <1>1 DEF Aside, SharedType
  <2>2. \A u \in Threads : u # t => pc[u] = "idle" /\ pc'[u] = "idle"
    BY <1>1, <2>1 DEF Aside, InTurn, SharedType
  <2>3. UNCHANGED <<tamper_count, streak, destroyed>> /\ (pilled => pilled')
    BY <1>1 DEF Aside
  <2>4. ASSUME NEW u \in Threads
        PROVE  /\ pc'[u] = "write" => tmp'[u] = streak'
               /\ pc'[u] = "compare" => streak' >= 1
               /\ InRites(u)' => pilled' \/ streak' = Limit
               /\ destroyed' => pc'[u] \in Posthumous \cup {"idle"}
    BY <1>1, <2>1, <2>2, <2>3 DEF Aside, InTurn, InRites
  <2>5. streak' = Limit => destroyed' \/ \E u \in Threads : pc'[u] = "compare" \/ InRites(u)'
    <3>1. SUFFICES ASSUME streak = Limit, ~destroyed
                   PROVE  FALSE
      BY <2>3
    <3>2. PICK u \in Threads : pc[u] = "compare" \/ InRites(u)
      BY <2>1, <3>1 DEF InTurn
    <3>3. QED
      BY <1>1, <2>2, <3>2 DEF Aside, InRites
  <2>6. QED
    BY <2>1, <2>2, <2>3, <2>4, <2>5 DEF InTurn
<1>2. ASSUME NEW t \in Threads, ResetTamper(t)
      PROVE  InTurn'
  <2>1. /\ pc[t] = "reset" /\ pc'[t] = "idle"
        /\ \A u \in Threads : u # t => pc'[u] = pc[u]
    BY <1>2, AtOnly DEF ResetTamper, Ends
  <2>2. /\ tamper_count' = 0 /\ streak' = 0
        /\ UNCHANGED <<overlapped, destroyed, pilled>>
    BY <1>2 DEF ResetTamper, Ends
  <2>3. ~overlapped /\ ~destroyed /\ \A u \in Threads : pc'[u] = "idle"
    BY <2>1, <2>2, TurnKept DEF InTurn
  <2>4. QED
    BY <2>2, <2>3 DEF InTurn, InRites
<1>3. ASSUME NEW t \in Threads, CountRead(t)
      PROVE  InTurn'
  <2>1. /\ pc[t] = "read" /\ pc'[t] = "write"
        /\ \A u \in Threads : u # t => pc'[u] = pc[u]
    BY <1>3, AtOnly DEF CountRead
  <2>2. /\ tmp'[t] = tamper_count
        /\ UNCHANGED <<tamper_count, streak, overlapped, destroyed, pilled>>
    BY <1>3 DEF CountRead, OwnType, attributes, history
  <2>3. ~overlapped /\ ~destroyed /\ \A u \in Threads : u # t => pc[u] = "idle" /\ pc'[u] = "idle"
    BY <2>1, <2>2, TurnKept DEF InTurn
  <2>4. streak # Limit
    BY <2>1, <2>3 DEF InTurn, InRites
  <2>5. QED
    BY <2>1, <2>2, <2>3, <2>4 DEF InTurn, InRites
<1>4. ASSUME NEW t \in Threads, CountWrite(t)
      PROVE  InTurn'
  <2>1. /\ pc[t] = "write" /\ pc'[t] = "compare"
        /\ \A u \in Threads : u # t => pc'[u] = pc[u]
    BY <1>4, AtOnly DEF CountWrite, Goes
  <2>2. /\ tamper_count' = tmp[t] + 1 /\ streak' = streak + 1
        /\ UNCHANGED <<overlapped, destroyed, pilled>>
    BY <1>4 DEF CountWrite, Goes
  <2>3. ~overlapped /\ ~destroyed /\ \A u \in Threads : u # t => pc[u] = "idle" /\ pc'[u] = "idle"
    BY <2>1, <2>2, TurnKept DEF InTurn
  <2>4. streak < Limit /\ tmp[t] = streak
    <3>1. streak # Limit
      BY <2>1, <2>3 DEF InTurn, InRites
    <3>2. QED
      BY <2>1, <2>3, <3>1 DEF InTurn
  <2>5. QED
    BY <2>1, <2>2, <2>3, <2>4 DEF InTurn, InRites
<1>5. ASSUME NEW t \in Threads, Compare(t)
      PROVE  InTurn'
  <2>1. /\ pc[t] = "compare"
        /\ pc'[t] = IF ThresholdReached THEN "test" ELSE "idle"
        /\ \A u \in Threads : u # t => pc'[u] = pc[u]
    BY <1>5, AtOnly DEF Compare, Goes, Ends
  <2>2. UNCHANGED <<tamper_count, streak, overlapped, destroyed, pilled>>
    BY <1>5 DEF Compare, Goes, Ends, attributes, history
  <2>3. ~overlapped /\ ~destroyed /\ \A u \in Threads : u # t => pc[u] = "idle" /\ pc'[u] = "idle"
    BY <2>1, <2>2, TurnKept DEF InTurn
  <2>4. tamper_count = streak /\ streak >= 1 /\ streak <= Limit
    BY <2>1, <2>3 DEF InTurn
  <2>5. ThresholdReached <=> streak = Limit
    BY <2>4 DEF ThresholdReached, Limit
  <2>6. QED
    BY <2>1, <2>2, <2>3, <2>4, <2>5 DEF InTurn, InRites
<1>6. ASSUME NEW t \in Threads, TestKey(t) \/ Wipe(t) \/ Drop(t)
      PROVE  InTurn'
  <2>1. UNCHANGED <<tamper_count, streak, overlapped, destroyed, pilled>>
    BY <1>6 DEF TestKey, Wipe, Drop, Goes, Ends, attributes, history
  <2>2. InRites(t) /\ \A u \in Threads : u # t => pc'[u] = pc[u]
    BY <1>6, AtOnly DEF TestKey, Wipe, Drop, Goes, Ends, InRites
  <2>3. ~overlapped /\ \A u \in Threads : u # t => pc[u] = "idle" /\ pc'[u] = "idle"
    BY <2>1, <2>2, TurnKept DEF InTurn, InRites
  <2>4. InRites(t)' /\ pc'[t] # "write" /\ pc'[t] # "compare"
    <3>1. CASE TestKey(t)
      BY <3>1, AtOnly DEF TestKey, Goes, InRites
    <3>2. CASE Wipe(t)
      <4>1. pc[t] = "wipe"
        BY <3>2 DEF Wipe, Goes, Ends, At
      <4>2. ~destroyed
        BY <2>3, <4>1 DEF InTurn
      <4>3. \A u \in Threads : pc[u] # "flag"
        BY <2>3, <4>1
      <4>4. key # "None"
        BY <4>2, <4>3 DEF Rite, RitesAttended
      <4>5. QED
        BY <3>2, <4>4, AtOnly DEF Wipe, Goes, InRites
    <3>3. CASE Drop(t)
      BY <3>3, AtOnly DEF Drop, Goes, InRites
    <3>4. QED
      BY <1>6, <3>1, <3>2, <3>3
  <2>5. destroyed => pc'[t] \in Posthumous
    <3>1. destroyed => key = "None" /\ pc[t] \in Posthumous
      BY <2>2, <2>3 DEF InTurn, InRites, Rite, RitesAttended
    <3>2. CASE TestKey(t)
      BY <3>1, <3>2, AtOnly DEF TestKey, Goes
    <3>3. CASE Wipe(t) \/ Drop(t)
      <4>1. pc[t] \in {"wipe", "drop"}
        BY <3>3 DEF Wipe, Drop, Goes, Ends, At
      <4>2. QED
        BY <3>1, <4>1
    <3>4. QED
      BY <1>6, <3>2, <3>3
  <2>6. pilled \/ streak = Limit
    BY <2>2, <2>3 DEF InTurn
  <2>7. QED
    BY <2>1, <2>2, <2>3, <2>4, <2>5, <2>6 DEF InTurn, InRites
<1>7. ASSUME NEW t \in Threads, Flag(t)
      PROVE  InTurn'
  <2>1. destroyed' = TRUE /\ UNCHANGED <<tamper_count, streak, overlapped, pilled>>
    BY <1>7 DEF Flag, Ends, history
  <2>2. /\ InRites(t) /\ pc'[t] = "idle"
        /\ \A u \in Threads : u # t => pc'[u] = pc[u]
    BY <1>7, AtOnly DEF Flag, Ends, InRites
  <2>3. ~overlapped /\ \A u \in Threads : pc'[u] = "idle"
    BY <2>1, <2>2, TurnKept DEF InTurn, InRites
  <2>4. pilled \/ streak = Limit
    BY <2>2, <2>3 DEF InTurn
  <2>5. QED
    BY <2>1, <2>3, <2>4 DEF InTurn, InRites
<1>8. CASE UNCHANGED vars
  BY <1>8 DEF vars, attributes, history, InTurn, InRites
<1>9. QED
  BY <1>1, <1>2, <1>3, <1>4, <1>5, <1>6, <1>7, <1>8, AsideSteps DEF Next, Runs

-----------------------------------------------------------------------------
(* How late two threads can make it                                        *)

\* Products of natural numbers are natural numbers.
LEMMA NatTimes ==
  ASSUME NEW m \in Nat, NEW n \in Nat
  PROVE  m * n \in Nat
OBVIOUS

\* Twice what a thread that increments x may have let pass, beyond what the other
\* one holds: the sum of L, L - 1, ... over the values up to x, doubled.
Room(x) == x * (2 * Limit + 1 - x)

\* The next value leaves more room, no value less than none, and Limit - 1 the
\* most, which is the bound of NeverMuchTooLate.
LEMMA RoomGrows ==
  ASSUME NEW x \in Nat, x < Limit
  PROVE  Room(x + 1) = Room(x) + 2 * (Limit - x)
BY LimitType DEF Room

LEMMA RoomNat ==
  ASSUME NEW x \in Nat, x <= Limit
  PROVE  Room(x) \in Nat
<1>1. 2 * Limit + 1 - x \in Nat
  BY LimitType
<1>2. QED
  BY <1>1, NatTimes DEF Room

LEMMA RoomTop ==
  ASSUME NEW x \in Nat, x < Limit
  PROVE  Room(x) <= Room(Limit - 1)
<1>1. Limit - 1 - x \in Nat /\ Limit + 2 - x \in Nat
  BY LimitType
<1>2. (Limit - 1 - x) * (Limit + 2 - x) \in Nat
  BY <1>1, NatTimes
<1>3. Room(Limit - 1) - Room(x) = (Limit - 1 - x) * (Limit + 2 - x)
  BY LimitType DEF Room
<1>4. Room(Limit - 1) \in Int /\ Room(x) \in Int
  BY LimitType DEF Room
<1>5. QED
  BY <1>2, <1>3, <1>4

LEMMA RoomBound ==
  ASSUME NEW s \in Nat, 2 * s <= Room(Limit - 1) + 2 * (Limit - 1)
  PROVE  s <= ((Limit + 1) * (Limit + 2)) \div 2 - 3
<1>1. Room(Limit - 1) + 2 * (Limit - 1) = (Limit + 1) * (Limit + 2) - 6
  BY LimitType DEF Room
<1>2. (Limit + 1) * (Limit + 2) \in Nat
  BY LimitType
<1>3. ASSUME NEW m \in Nat, 2 * s <= m - 6
      PROVE  s <= m \div 2 - 3
  BY <1>3
<1>4. QED
  BY <1>1, <1>2, <1>3

\* There is no way back: _self_destruct is under way or done.
Doomed == destroyed \/ \E t \in Threads : InRites(t)

\* The count has reached the threshold, somebody is about to see it, and nobody
\* is left who could lower it.
Sealed ==
  /\ tamper_count >= Limit
  /\ \E t \in Threads : pc[t] = "compare"
  /\ \A t \in Threads : pc[t] = "compare" \/ (pc[t] = "write" /\ tmp[t] >= Limit)

\* What a thread is going to increment, as things stand.
Held(t) == IF pc[t] = "write" THEN tmp[t] ELSE tamper_count

\* The failures in a row that two threads have let pass are paid for by what they
\* hold, whichever of them writes next.
Behind ==
  /\ tamper_count <= Limit
  /\ tamper_count = Limit => \E t \in Threads : pc[t] = "compare"
  /\ \A t \in Threads : pc[t] = "write" => tmp[t] < Limit
  /\ \A t, u \in Threads : t # u => 2 * streak <= Room(Held(t)) + 2 * Held(u)

Two == \A t, u, v \in Threads : t = u \/ t = v \/ u = v

\* No step of any thread turns back a death.
LEMMA DoomedStep ==
  ASSUME OwnType, SharedType, Rite, Doomed, [Next]_vars
  PROVE  Doomed'
<1> USE DEF attributes, history
<1>1. ASSUME NEW t \in Threads, Aside(t) \/ ResetTamper(t) \/ CountRead(t) \/ CountWrite(t)
      PROVE  Doomed'
  <2>1. UNCHANGED destroyed
    BY <1>1 DEF Aside, ResetTamper, CountRead, CountWrite
  <2>2. ~InRites(t) /\ \A u \in Threads : u # t => pc'[u] = pc[u]
    BY <1>1, AtOnly DEF Aside, ResetTamper, CountRead, CountWrite, Goes, Ends, InRites
  <2>3. QED
    BY <2>1, <2>2 DEF Doomed, InRites
<1>2. ASSUME NEW t \in Threads, Compare(t)
      PROVE  Doomed'
  <2>1. ~InRites(t) /\ UNCHANGED destroyed /\ \A u \in Threads : u # t => pc'[u] = pc[u]
    BY <1>2, AtOnly DEF Compare, Goes, Ends, InRites
  <2>2. QED
    BY <2>1 DEF Doomed, InRites
<1>3. ASSUME NEW t \in Threads, TestKey(t) \/ Drop(t)
      PROVE  Doomed'
  <2>1. InRites(t)'
    BY <1>3, AtOnly DEF TestKey, Drop, Goes, InRites
  <2>2. QED
    BY <2>1 DEF Doomed
<1>4. ASSUME NEW t \in Threads, Wipe(t)
      PROVE  Doomed'
  <2>1. pc[t] = "wipe" /\ UNCHANGED destroyed /\ \A u \in Threads : u # t => pc'[u] = pc[u]
    BY <1>4, AtOnly DEF Wipe, Goes, Ends
  <2>2. CASE key # "None"
    BY <1>4, <2>2, AtOnly DEF Wipe, Goes, Doomed, InRites
  <2>3. CASE key = "None" /\ ~destroyed
    <3>1. PICK u \in Threads : pc[u] = "flag"
      BY <2>3 DEF Rite, RitesAttended
    <3>2. pc'[u] = "flag"
      BY <2>1, <3>1
    <3>3. QED
      BY <3>2 DEF Doomed, InRites
  <2>4. CASE destroyed
    BY <2>1, <2>4 DEF Doomed
  <2>5. QED
    BY <2>2, <2>3, <2>4
<1>5. ASSUME NEW t \in Threads, Flag(t)
      PROVE  Doomed'
  BY <1>5 DEF Flag, Doomed
<1>6. CASE UNCHANGED vars
  BY <1>6 DEF vars, Doomed, InRites
<1>7. QED
  BY <1>1, <1>2, <1>3, <1>4, <1>5, <1>6, AsideSteps DEF Next, Runs

\* A comparison ends in _self_destruct, or the count is below the threshold.
LEMMA Compared ==
  ASSUME OwnType, SharedType, NEW t \in Threads, Compare(t)
  PROVE  /\ pc[t] = "compare" /\ pc'[t] \in {"test", "idle"}
         /\ pc'[t] = "idle" => tamper_count < Limit
         /\ \A u \in Threads : u # t => pc'[u] = pc[u] /\ tmp'[u] = tmp[u]
         /\ UNCHANGED <<tamper_count, streak>>
<1>1. UNCHANGED <<tamper_count, streak>> /\ tamper_count \in Nat
  BY DEF Compare, attributes, history, SharedType
<1>2. \/ ThresholdReached /\ Goes(t, "compare", "test")
      \/ ~ThresholdReached /\ Ends(t, "compare", "MutilatedCorpseError")
  BY DEF Compare
<1>3. \A u \in Threads : u # t => tmp'[u] = tmp[u]
  BY <1>2 DEF Goes, Ends, OwnType
<1>4. ~ThresholdReached => tamper_count < Limit
  BY <1>1, ThreadsAssumption DEF ThresholdReached, Limit
<1>5. QED
  BY <1>1, <1>2, <1>3, <1>4, AtOnly DEF Goes, Ends

\* With the threshold reached and nobody to lower the count, somebody compares.
LEMMA SealedStep ==
  ASSUME OwnType, SharedType, Rite, Sealed, [Next]_vars
  PROVE  Sealed' \/ Doomed'
<1>0. Limit \in Nat /\ tamper_count \in Nat
  BY LimitType DEF SharedType
<1>1. \A t \in Threads : pc[t] \in {"compare", "write"}
  BY DEF Sealed
<1>2. ASSUME NEW t \in Threads, CountWrite(t)
      PROVE  Sealed'
  <2>1. /\ pc[t] = "write" /\ pc'[t] = "compare" /\ tamper_count' = tmp[t] + 1
        /\ tmp' = tmp /\ \A u \in Threads : u # t => pc'[u] = pc[u]
    BY <1>2, AtOnly DEF CountWrite, Goes
  <2>2. tmp[t] >= Limit /\ tmp[t] \in Nat
    BY <2>1 DEF Sealed, OwnType
  <2>3. QED
    BY <1>0, <2>1, <2>2 DEF Sealed
<1>3. ASSUME NEW t \in Threads, Compare(t)
      PROVE  Doomed'
  <2>1. pc'[t] = "test"
    BY <1>0, <1>3, Compared DEF Sealed
  <2>2. QED
    BY <2>1 DEF Doomed, InRites
<1>4. ASSUME NEW t \in Threads
      PROVE  /\ ~Aside(t) /\ ~ResetTamper(t) /\ ~CountRead(t)
             /\ ~TestKey(t) /\ ~Wipe(t) /\ ~Drop(t) /\ ~Flag(t)
  <2>1. pc[t] \in {"compare", "write"}
    BY <1>1
  <2>2. QED
    BY <2>1 DEF Aside, ResetTamper, CountRead, TestKey, Wipe, Drop, Flag, Goes, Ends, At
<1>5. CASE UNCHANGED vars
  BY <1>5 DEF vars, attributes, Sealed
<1>6. QED
  BY <1>2, <1>3, <1>4, <1>5, AsideSteps DEF Next, Runs

\* A thread that writes the count makes its own mark, and takes the other one down
\* to it if that holds nothing.
LEMMA WriteBehind ==
  ASSUME OwnType, SharedType, Two, Behind, NEW t \in Threads, CountWrite(t)
  PROVE  Behind'
<1>0. Limit \in Nat /\ tamper_count \in Nat /\ streak \in Nat /\ tmp[t] \in Nat
  BY LimitType DEF SharedType, OwnType
<1>1. /\ pc[t] = "write" /\ pc'[t] = "compare" /\ tmp' = tmp
      /\ \A u \in Threads : u # t => pc'[u] = pc[u]
      /\ tamper_count' = tmp[t] + 1 /\ streak' = streak + 1
  BY AtOnly DEF CountWrite, Goes
<1>2. tmp[t] < Limit /\ tamper_count <= Limit
  BY <1>1 DEF Behind
<1>3. Room(tmp[t] + 1) = Room(tmp[t]) + 2 * (Limit - tmp[t]) /\ Room(tmp[t]) \in Nat
  BY <1>0, <1>2, RoomGrows, RoomNat
<1>4. ASSUME NEW u \in Threads, u # t
      PROVE  /\ 2 * streak' <= Room(Held(t)') + 2 * Held(u)'
             /\ 2 * streak' <= Room(Held(u)') + 2 * Held(t)'
  <2>1. Held(t) = tmp[t] /\ Held(t)' = tmp[t] + 1
    BY <1>1 DEF Held
  <2>2. /\ 2 * streak <= Room(tmp[t]) + 2 * Held(u)
        /\ 2 * streak <= Room(Held(u)) + 2 * tmp[t]
    BY <1>4, <2>1 DEF Behind
  <2>3. CASE pc[u] = "write"
    <3>1. Held(u)' = Held(u) /\ Held(u) = tmp[u] /\ tmp[u] \in Nat /\ tmp[u] < Limit
      BY <1>1, <1>4, <2>3 DEF Held, OwnType, Behind
    <3>2. Room(tmp[u]) \in Nat
      BY <1>0, <3>1, RoomNat
    <3>3. QED
      BY <1>0, <1>1, <1>2, <1>3, <2>1, <2>2, <3>1, <3>2
  <2>4. CASE pc[u] # "write"
    <3>1. Held(u) = tamper_count /\ Held(u)' = tmp[t] + 1
      BY <1>1, <1>4, <2>4 DEF Held
    <3>2. QED
      BY <1>0, <1>1, <1>2, <1>3, <2>1, <2>2, <3>1
  <2>5. QED
    BY <2>3, <2>4
<1>5. \A u, v \in Threads : u # v => 2 * streak' <= Room(Held(u)') + 2 * Held(v)'
  <2> SUFFICES ASSUME NEW u \in Threads, NEW v \in Threads, u # v
               PROVE  2 * streak' <= Room(Held(u)') + 2 * Held(v)'
    OBVIOUS
  <2>1. u = t \/ v = t
    BY DEF Two
  <2>2. QED
    BY <1>4, <2>1
<1>6. tamper_count' <= Limit
  BY <1>0, <1>1, <1>2
<1>7. \A u \in Threads : pc'[u] = "write" => tmp'[u] < Limit
  BY <1>1 DEF Behind
<1>8. QED
  BY <1>1, <1>5, <1>6, <1>7 DEF Behind, Room, Held

\* The step that reads the count changes nothing that is held, unless it comes
\* between the threshold and the comparison.
LEMMA ReadBehind ==
  ASSUME OwnType, SharedType, Two, Behind, NEW t \in Threads, CountRead(t)
  PROVE  Behind' \/ Sealed'
<1>0. Limit \in Nat /\ tamper_count \in Nat
  BY LimitType DEF SharedType
<1>1. /\ pc[t] = "read" /\ pc'[t] = "write" /\ tmp'[t] = tamper_count
      /\ \A u \in Threads : u # t => pc'[u] = pc[u] /\ tmp'[u] = tmp[u]
      /\ UNCHANGED <<tamper_count, streak>>
  BY AtOnly DEF CountRead, OwnType, attributes, history
<1>2. CASE tamper_count < Limit
  <2>1. \A u \in Threads : Held(u)' = Held(u)
    BY <1>1 DEF Held
  <2>2. \A u \in Threads : pc'[u] = "write" => tmp'[u] < Limit
    BY <1>1, <1>2 DEF Behind
  <2>3. \A u, v \in Threads : u # v => 2 * streak' <= Room(Held(u)') + 2 * Held(v)'
    BY <1>1, <2>1 DEF Behind
  <2>4. QED
    BY <1>0, <1>1, <1>2, <2>2, <2>3 DEF Behind, Room, Held
<1>3. CASE tamper_count = Limit
  <2>1. PICK u \in Threads : pc[u] = "compare"
    BY <1>3 DEF Behind
  <2>2. u # t /\ \A v \in Threads : v = t \/ v = u
    BY <1>1, <2>1 DEF Two
  <2>3. QED
    BY <1>0, <1>1, <1>3, <2>1, <2>2 DEF Sealed
<1>4. QED
  BY <1>0, <1>2, <1>3 DEF Behind

\* Any step that keeps the count, what is held and who is at the comparison.
LEMMA BehindKept ==
  ASSUME Behind, NEW t \in Threads, pc[t] # "write", pc'[t] # "write",
         pc[t] = "compare" => tamper_count < Limit, tamper_count \in Nat, Limit \in Nat,
         \A u \in Threads : u # t => pc'[u] = pc[u] /\ tmp'[u] = tmp[u],
         UNCHANGED <<tamper_count, streak>>
  PROVE  Behind'
<1>1. \A u \in Threads : Held(u)' = Held(u) /\ (pc'[u] = "write" => tmp'[u] < Limit)
  BY DEF Held, Behind
<1>2. \A u, v \in Threads : u # v => 2 * streak' <= Room(Held(u)') + 2 * Held(v)'
  BY <1>1 DEF Behind
<1>3. tamper_count' = Limit => \E u \in Threads : pc'[u] = "compare"
  BY DEF Behind
<1>4. QED
  BY <1>1, <1>2, <1>3 DEF Behind, Room, Held

\* A reset leaves nothing to pay for.
LEMMA ResetBehind ==
  ASSUME OwnType, SharedType, Behind, NEW t \in Threads, ResetTamper(t)
  PROVE  Behind'
<1>0. Limit \in Nat /\ Limit >= 1
  BY LimitType
<1>1. /\ pc'[t] = "idle" /\ tamper_count' = 0 /\ streak' = 0
      /\ \A u \in Threads : u # t => pc'[u] = pc[u] /\ tmp'[u] = tmp[u]
  BY AtOnly DEF ResetTamper, Ends, OwnType
<1>2. \A u \in Threads : pc'[u] = "write" => tmp'[u] < Limit /\ tmp'[u] \in Nat
  BY <1>1 DEF Behind, OwnType
<1>3. \A u \in Threads : Held(u)' \in Nat /\ Held(u)' <= Limit
  BY <1>0, <1>1, <1>2 DEF Held
<1>4. \A u \in Threads : Room(Held(u)') \in Nat
  BY <1>3, RoomNat
<1>5. \A u, v \in Threads : u # v => 2 * streak' <= Room(Held(u)') + 2 * Held(v)'
  BY <1>1, <1>3, <1>4
<1>6. QED
  BY <1>0, <1>1, <1>2, <1>5 DEF Behind, Room, Held

Lateness == Two => Doomed \/ Sealed \/ Behind

LEMMA NextLateness ==
  ASSUME OwnType, SharedType, Rite, Lateness, [Next]_vars
  PROVE  Lateness'
<1> SUFFICES ASSUME Two, Behind
             PROVE  Lateness'
  BY DoomedStep, SealedStep DEF Lateness, Two
<1>0. tamper_count \in Nat /\ Limit \in Nat
  BY LimitType DEF SharedType
<1>1. ASSUME NEW t \in Threads, Aside(t)
      PROVE  Behind'
  BY <1>0, <1>1, BehindKept DEF Aside
<1>2. ASSUME NEW t \in Threads, ResetTamper(t) \/ CountWrite(t) \/ CountRead(t)
      PROVE  Behind' \/ Sealed'
  BY <1>2, ResetBehind, WriteBehind, ReadBehind
<1>3. ASSUME NEW t \in Threads, Compare(t)
      PROVE  Behind' \/ Doomed'
  <2>1. CASE pc'[t] = "test"
    BY <2>1 DEF Doomed, InRites
  <2>2. CASE pc'[t] = "idle"
    BY <1>0, <1>3, <2>2, Compared, BehindKept
  <2>3. QED
    BY <1>3, <2>1, <2>2, Compared
<1>4. ASSUME NEW t \in Threads, TestKey(t) \/ Wipe(t) \/ Drop(t) \/ Flag(t)
      PROVE  Doomed'
  <2>1. InRites(t)
    BY <1>4 DEF TestKey, Wipe, Drop, Flag, Goes, Ends, At, InRites
  <2>2. QED
    BY <2>1, DoomedStep DEF Doomed
<1>5. CASE UNCHANGED vars
  <2>1. UNCHANGED <<tamper_count, streak, pc, tmp>>
    BY <1>5 DEF vars, attributes, history
  <2>2. \A u \in Threads : Held(u)' = Held(u)
    BY <2>1 DEF Held
  <2>3. \A u, v \in Threads : u # v => 2 * streak' <= Room(Held(u)') + 2 * Held(v)'
    BY <2>1, <2>2 DEF Behind
  <2>4. Behind'
    BY <2>1, <2>3 DEF Behind, Room, Held
  <2>5. QED
    BY <2>4 DEF Lateness
<1>6. QED
  BY <1>1, <1>2, <1>3, <1>4, <1>5, AsideSteps DEF Next, Runs, Lateness

\* Calls that take turns are exact, and two threads pay for what they let pass.
THEOREM ThreadsOnTime == Spec => [](InTurn /\ Lateness)
<1>1. Init => InTurn /\ Lateness
  <2> SUFFICES ASSUME Init
               PROVE  InTurn /\ Lateness
    OBVIOUS
  <2>1. InTurn
    BY LimitType DEF Init, InTurn, InRites
  <2>2. \A t \in Threads : Held(t) = 0
    BY DEF Init, Held
  <2>3. Room(0) \in Nat
    BY LimitType, RoomNat
  <2>4. Behind
    BY <2>2, <2>3, LimitType DEF Init, Behind
  <2>5. QED
    BY <2>1, <2>4 DEF Lateness
<1>2. IInv /\ InTurn /\ Lateness /\ [Next]_vars => InTurn' /\ Lateness'
  BY TypeParts, NextInTurn, NextLateness DEF IInv
<1>3. QED
  BY <1>1, <1>2, ThreadsInductive, PTL DEF Spec

\* The switch is exact where calls take turns (core.py:160-161, 216-227).
THEOREM PunctualInTurnHolds == Spec => []PunctualInTurn
<1>1. IInv /\ InTurn => PunctualInTurn
  <2> SUFFICES ASSUME IInv, InTurn, ~overlapped
               PROVE  PunctualInTurn
    BY DEF PunctualInTurn
  <2>1. ASSUME Quiet, ~destroyed
        PROVE  streak # Limit
    BY <2>1 DEF InTurn, Quiet, InRites
  <2>2. streak \in Nat /\ Limit \in Nat
    BY LimitType DEF IInv, TypeOK
  <2>3. QED
    BY <2>1, <2>2 DEF InTurn, PunctualInTurn
<1>2. QED
  BY <1>1, ThreadsInductive, ThreadsOnTime, PTL

\* A thread that is alone overlaps with nobody.
Alone == (\A t, u \in Threads : t = u) => ~overlapped

LEMMA NextAlone ==
  ASSUME OwnType, SharedType, Alone, [Next]_vars
  PROVE  Alone'
<1> SUFFICES ASSUME \A t, u \in Threads : t = u, ~overlapped
             PROVE  ~overlapped'
  BY DEF Alone
<1>1. ASSUME NEW t \in Threads, Aside(t)
      PROVE  ~overlapped'
  BY <1>1 DEF Aside
<1>2. ASSUME NEW t \in Threads,
             ResetTamper(t) \/ CountRead(t) \/ CountWrite(t) \/ Compare(t)
               \/ TestKey(t) \/ Wipe(t) \/ Drop(t) \/ Flag(t)
      PROVE  ~overlapped'
  BY <1>2 DEF ResetTamper, CountRead, CountWrite, Compare, TestKey, Wipe, Drop, Flag, Goes, Ends
<1>3. CASE UNCHANGED vars
  BY <1>3 DEF vars
<1>4. QED
  BY <1>1, <1>2, <1>3, AsideSteps DEF Next, Runs

\* Of three different threads no set of two has room.
LEMMA AtMostTwo == Cardinality(Threads) <= 2 => Two
<1> SUFFICES ASSUME NEW t \in Threads, NEW u \in Threads, NEW v \in Threads,
                    t # u, t # v, u # v
             PROVE  ~(Cardinality(Threads) <= 2)
  BY DEF Two
<1> DEFINE S == {t} \cup {u}
<1>1. IsFiniteSet({t}) /\ Cardinality({t}) = 1
  BY FS_Singleton
<1>2. IsFiniteSet(S) /\ Cardinality(S) = Cardinality({t}) + 1
  BY <1>1, u \notin {t}, FS_AddElement, Zenon
<1>3. v \notin S /\ t \in S /\ u \in S /\ S \subseteq Threads
  OBVIOUS
<1> HIDE DEF S
<1>4. Cardinality(S \cup {v}) = Cardinality(S) + 1
  BY <1>2, <1>3, FS_AddElement, Zenon
<1>5. S \cup {v} \in SUBSET Threads
  BY <1>3
<1>6. Cardinality(S \cup {v}) <= Cardinality(Threads)
  BY <1>5, FS_Subset, Zenon DEF ThreadsAssumption
<1>7. Cardinality(Threads) \in Nat
  BY FS_CardinalityType, Zenon DEF ThreadsAssumption
<1>8. QED
  BY <1>1, <1>2, <1>4, <1>6, <1>7

\* Two threads that share an instance are told off at most so many times in a row
\* before it goes, whatever the threshold (core.py:216-224).
THEOREM NeverMuchTooLateHolds == Spec => []NeverMuchTooLate
<1>1. Spec => []Alone
  <2>1. Init => Alone
    BY DEF Init, Alone
  <2>2. IInv /\ Alone /\ [Next]_vars => Alone'
    BY TypeParts, NextAlone DEF IInv
  <2>3. QED
    BY <2>1, <2>2, ThreadsInductive, PTL DEF Spec
<1>2. IInv /\ InTurn /\ Lateness /\ Alone => NeverMuchTooLate
  <2> SUFFICES ASSUME IInv, InTurn, Lateness, Alone, Quiet, ~destroyed,
                      Cardinality(Threads) <= 2
               PROVE  streak <= ((Limit + 1) * (Limit + 2)) \div 2 - 3
    BY DEF NeverMuchTooLate
  <2>1. streak \in Nat /\ tamper_count \in Nat /\ Limit \in Nat /\ Limit >= 1
    BY LimitType DEF IInv, TypeOK
  <2>2. Room(Limit - 1) \in Nat
    BY <2>1, RoomNat
  <2>3. CASE \A t, u \in Threads : t = u
    <3>1. streak < Limit
      <4>1. ~overlapped /\ streak # Limit
        BY <2>3 DEF Alone, InTurn, Quiet, InRites
      <4>2. QED
        BY <2>1, <4>1 DEF InTurn
    <3>2. 2 * streak <= Room(Limit - 1) + 2 * (Limit - 1)
      BY <2>1, <2>2, <3>1
    <3>3. QED
      BY <2>1, <3>2, RoomBound
  <2>4. CASE \E t, u \in Threads : t # u
    <3>1. PICK t \in Threads, u \in Threads : t # u
      BY <2>4
    <3>2. Behind
      BY AtMostTwo DEF Lateness, Quiet, Doomed, InRites, Sealed
    <3>3. tamper_count < Limit
      BY <2>1, <3>2 DEF Behind, Quiet
    <3>4. \A v \in Threads : Held(v) \in Nat /\ Held(v) < Limit
      BY <2>1, <3>2, <3>3 DEF Held, Behind, IInv, TypeOK
    <3>5. 2 * streak <= Room(Held(t)) + 2 * Held(u)
      BY <3>1, <3>2 DEF Behind
    <3>6. Room(Held(t)) <= Room(Limit - 1) /\ Room(Held(t)) \in Nat
      BY <2>1, <3>1, <3>4, RoomTop, RoomNat
    <3>7. 2 * streak <= Room(Limit - 1) + 2 * (Limit - 1)
      BY <2>1, <2>2, <3>1, <3>4, <3>5, <3>6
    <3>8. QED
      BY <2>1, <3>7, RoomBound
  <2>5. QED
    BY <2>3, <2>4
<1>3. QED
  BY <1>1, <1>2, ThreadsInductive, ThreadsOnTime, PTL
=============================================================================
