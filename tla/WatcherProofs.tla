--------------------------- MODULE WatcherProofs ---------------------------
(* Theorems about Watcher.tla, for any threads and any list of checks. *)
EXTENDS Watcher, SequenceTheorems, TLAPS

USE WatcherAssumption

\* While a thread is asking, its history is true of the present, and the checks
\* behind it had nothing to report all the time.
Asking ==
  \A t \in Threads : at[t] # 0 =>
    /\ answer[t] = "none"
    /\ \A c \in shown[t] : Shows(c, t)
    /\ \A c \in Enabled : Shows(c, t) => c \in seen[t]
    /\ \A i \in 1 .. at[t] - 1 : List[i] \in shown[t] => List[i] = "monitoring"

\* The inductive invariant.
IInv == TypeOK /\ Asking /\ NothingMissed /\ NoFalseAlarm

\* Every check that is on is in the list.
LEMMA ListFacts ==
  /\ Len(List) \in Nat /\ Len(List) >= 1
  /\ \A c \in Enabled : \E i \in 1 .. Len(List) : List[i] = c
<1> DEFINE Names == STRING \cup {"trace", "profile", "frames", "flags", "monitoring"}
<1>1. BuiltIn \in Seq(Names) /\ Len(BuiltIn) = 5
  BY DEF BuiltIn
<1>2. Customs \in Seq(Names) /\ Len(Customs) \in Nat
  OBVIOUS
<1> HIDE DEF Names
<1>3. /\ Len(List) = 5 + Len(Customs)
      /\ \A i \in 1 .. 5 + Len(Customs) :
           List[i] = IF i <= 5 THEN BuiltIn[i] ELSE Customs[i - 5]
  <2>1. /\ Len(List) = Len(BuiltIn) + Len(Customs)
        /\ \A i \in 1 .. Len(BuiltIn) + Len(Customs) :
             List[i] = IF i <= Len(BuiltIn) THEN BuiltIn[i] ELSE Customs[i - Len(BuiltIn)]
    BY <1>1, <1>2, ConcatProperties, Zenon DEF List
  <2>2. QED
    BY <1>1, <2>1
<1>4. \A i \in 1 .. 5 : List[i] = BuiltIn[i]
  BY <1>2, <1>3
<1>5. \A i \in 1 .. Len(Customs) : List[5 + i] = Customs[i]
  BY <1>2, <1>3
<1>6. ASSUME NEW c \in Enabled
      PROVE  \E i \in 1 .. Len(List) : List[i] = c
  <2>1. CASE c \in On
    <3>1. PICK i \in 1 .. 5 : c = BuiltIn[i]
      BY <1>1, <2>1
    <3>2. List[i] = c /\ i \in 1 .. Len(List)
      BY <1>2, <1>3, <1>4, <1>5, <3>1
    <3>3. QED
      BY <3>2
  <2>2. CASE c \notin On
    <3>1. PICK i \in 1 .. Len(Customs) : c = Customs[i]
      BY <2>2 DEF Enabled
    <3>2. List[5 + i] = c /\ 5 + i \in 1 .. Len(List)
      BY <1>2, <1>3, <1>4, <1>5, <3>1
    <3>3. QED
      BY <3>2
  <2>3. QED
    BY <2>1, <2>2
<1>7. QED
  BY <1>2, <1>3, <1>6

\* Each kind of step keeps the invariant.
LEMMA InitInv == Init => IInv
<1>1. Init => TypeOK /\ Asking
  BY ListFacts DEF Init, TypeOK, Asking
<1>2. Init => NothingMissed /\ NoFalseAlarm
  BY DEF Init, NothingMissed, NoFalseAlarm
<1>3. QED
  BY <1>1, <1>2 DEF IInv

LEMMA AskedInv ==
  ASSUME IInv, NEW t \in Threads, IsDebugging(t)
  PROVE  IInv'
<1> USE DEF IsDebugging
<1>1. TypeOK'
  BY ListFacts DEF IInv, TypeOK
<1>2. Asking'
  <2> SUFFICES ASSUME NEW u \in Threads, at'[u] # 0
               PROVE  /\ answer'[u] = "none"
                      /\ \A c \in shown'[u] : Shows(c, u)'
                      /\ \A c \in Enabled : Shows(c, u)' => c \in seen'[u]
                      /\ \A i \in 1 .. at'[u] - 1 :
                           List[i] \in shown'[u] => List[i] = "monitoring"
    BY DEF Asking
  <2>1. \A c : Shows(c, u)' <=> Shows(c, u)
    BY DEF Shows
  <2>2. CASE u = t
    BY <2>1, <2>2 DEF IInv, TypeOK
  <2>3. CASE u # t
    BY <2>1, <2>3 DEF IInv, TypeOK, Asking
  <2>4. QED
    BY <2>2, <2>3
<1>3. NothingMissed' /\ NoFalseAlarm'
  BY DEF IInv, TypeOK, NothingMissed, NoFalseAlarm
<1>4. QED
  BY <1>1, <1>2, <1>3 DEF IInv

LEMMA SeesInv ==
  ASSUME IInv, NEW t \in Threads, CheckSees(t)
  PROVE  IInv'
<1> USE DEF CheckSees
<1>1. TypeOK'
  BY ListFacts DEF IInv, TypeOK
<1>2. Asking'
  BY DEF IInv, TypeOK, Asking, Shows
<1>3. List[at[t]] \in seen[t] \ {"monitoring"}
  BY DEF IInv, Asking, Alarms
<1>4. NothingMissed' /\ NoFalseAlarm'
  BY <1>3 DEF IInv, TypeOK, NothingMissed, NoFalseAlarm
<1>5. QED
  BY <1>1, <1>2, <1>4 DEF IInv

LEMMA PassesInv ==
  ASSUME IInv, NEW t \in Threads, CheckPasses(t)
  PROVE  IInv'
<1>1. /\ at[t] \in 1 .. Len(List) /\ at[t] # 0 /\ ~Alarms(List[at[t]], t)
      /\ UNCHANGED <<signs, broken, shown, seen, changes>>
  BY ListFacts DEF IInv, TypeOK, CheckPasses
<1>2. \A i \in 1 .. at[t] : List[i] \in shown[t] => List[i] = "monitoring"
  <2>1. List[at[t]] \in shown[t] => List[at[t]] = "monitoring"
    BY <1>1 DEF IInv, TypeOK, Asking, Alarms
  <2>2. \A i \in 1 .. at[t] - 1 : List[i] \in shown[t] => List[i] = "monitoring"
    BY <1>1 DEF IInv, Asking
  <2>3. QED
    BY <1>1, <2>1, <2>2, ListFacts
<1>3. CASE LastCheck(t)
  <2>1. at' = [at EXCEPT ![t] = 0] /\ answer' = [answer EXCEPT ![t] = "clear"]
    BY <1>3 DEF CheckPasses
  <2>2. TypeOK'
    BY <1>1, <2>1, ListFacts DEF IInv, TypeOK
  <2>3. Asking'
    BY <1>1, <2>1 DEF IInv, TypeOK, Asking, Shows
  <2>4. shown[t] \subseteq {"monitoring"}
    <3>1. ASSUME NEW c \in shown[t]
          PROVE  c = "monitoring"
      <4>1. PICK i \in 1 .. Len(List) : List[i] = c
        BY ListFacts DEF IInv, TypeOK
      <4>2. QED
        BY <1>2, <1>3, <4>1 DEF LastCheck
    <3>2. QED
      BY <3>1
  <2>5. NothingMissed' /\ NoFalseAlarm'
    BY <1>1, <2>1, <2>4 DEF IInv, TypeOK, NothingMissed, NoFalseAlarm
  <2>6. QED
    BY <2>2, <2>3, <2>5 DEF IInv
<1>4. CASE ~LastCheck(t)
  <2>1. at' = [at EXCEPT ![t] = at[t] + 1] /\ answer' = answer
    BY <1>4 DEF CheckPasses
  <2>2. at[t] + 1 \in 1 .. Len(List)
    BY <1>1, <1>4, ListFacts DEF LastCheck
  <2>3. TypeOK'
    BY <1>1, <2>1, <2>2, ListFacts DEF IInv, TypeOK
  <2>4. Asking'
    <3> SUFFICES ASSUME NEW u \in Threads, at'[u] # 0
                 PROVE  /\ answer'[u] = "none"
                        /\ \A c \in shown'[u] : Shows(c, u)'
                        /\ \A c \in Enabled : Shows(c, u)' => c \in seen'[u]
                        /\ \A i \in 1 .. at'[u] - 1 :
                             List[i] \in shown'[u] => List[i] = "monitoring"
      BY DEF Asking
    <3>1. \A c : Shows(c, u)' <=> Shows(c, u)
      BY <1>1 DEF Shows
    <3>2. CASE u = t
      <4>1. at'[u] - 1 = at[t] /\ at[u] # 0
        BY <1>1, <2>1, <3>2, ListFacts DEF IInv, TypeOK
      <4>2. QED
        BY <1>1, <1>2, <2>1, <3>1, <3>2, <4>1 DEF IInv, Asking
    <3>3. CASE u # t
      BY <1>1, <2>1, <3>1, <3>3 DEF IInv, TypeOK, Asking
    <3>4. QED
      BY <3>2, <3>3
  <2>5. NothingMissed' /\ NoFalseAlarm'
    BY <1>1, <2>1 DEF IInv, NothingMissed, NoFalseAlarm
  <2>6. QED
    BY <2>3, <2>4, <2>5 DEF IInv
<1>5. QED
  BY <1>3, <1>4

LEMMA ChangesInv ==
  ASSUME IInv, NEW s, NEW b, s \subseteq Enabled \X Threads, b \subseteq Brittle, Changes(s, b)
  PROVE  IInv'
<1> USE DEF Changes
<1>1. TypeOK'
  <2>1. changes' \in 0 .. MaxChanges
    BY DEF IInv, TypeOK
  <2>2. shown' \in [Threads -> SUBSET Enabled] /\ seen' \in [Threads -> SUBSET Enabled]
    BY DEF IInv, TypeOK
  <2>3. QED
    BY <2>1, <2>2 DEF IInv, TypeOK
<1>2. Asking'
  <2> SUFFICES ASSUME NEW t \in Threads, at[t] # 0
               PROVE  /\ answer[t] = "none"
                      /\ \A c \in shown'[t] : Shows(c, t)'
                      /\ \A c \in Enabled : Shows(c, t)' => c \in seen'[t]
                      /\ \A i \in 1 .. at[t] - 1 :
                           List[i] \in shown'[t] => List[i] = "monitoring"
    BY DEF Asking
  <2>1. /\ shown'[t] = {c \in shown[t] : Shows(c, t)'}
        /\ seen'[t] = seen[t] \cup {c \in Enabled : Shows(c, t)'}
    OBVIOUS
  <2>2. QED
    BY <2>1 DEF IInv, Asking
<1>3. \A t \in Threads : answer[t] # "none" => shown'[t] = shown[t] /\ seen'[t] = seen[t]
  BY DEF IInv, Asking
<1>4. NothingMissed' /\ NoFalseAlarm'
  BY <1>3 DEF IInv, NothingMissed, NoFalseAlarm
<1>5. QED
  BY <1>1, <1>2, <1>4 DEF IInv

LEMMA DebuggersInv ==
  ASSUME IInv, Debuggers
  PROVE  IInv'
<1>1. ASSUME NEW c \in Enabled, NEW t \in Threads, Attach(c, t) \/ Detach(c, t)
      PROVE  IInv'
  <2>1. signs \cup Reach(c, t) \subseteq Enabled \X Threads
    BY DEF IInv, TypeOK, Reach
  <2>2. signs \ Reach(c, t) \subseteq Enabled \X Threads /\ broken \subseteq Brittle
    BY DEF IInv, TypeOK
  <2>3. QED
    BY <1>1, <2>1, <2>2, ChangesInv DEF Attach, Detach
<1>2. ASSUME NEW c \in Brittle, Break(c) \/ Heal(c)
      PROVE  IInv'
  <2>1. signs \subseteq Enabled \X Threads
    BY DEF IInv, TypeOK
  <2>2. broken \cup {c} \subseteq Brittle /\ broken \ {c} \subseteq Brittle
    BY DEF IInv, TypeOK
  <2>3. QED
    BY <1>2, <2>1, <2>2, ChangesInv DEF Break, Heal
<1>3. QED
  BY <1>1, <1>2 DEF Debuggers

\* The answers are right, whatever comes and goes while the checks run.
THEOREM WatcherInductive == Spec => []IInv
<1>1. IInv /\ [Next]_vars => IInv'
  <2> SUFFICES ASSUME IInv, [Next]_vars
               PROVE  IInv'
    OBVIOUS
  <2>1. ASSUME UNCHANGED vars
        PROVE  IInv'
    BY <2>1 DEF IInv, TypeOK, Asking, Shows, NothingMissed, NoFalseAlarm, vars
  <2>2. QED
    BY <2>1, AskedInv, SeesInv, PassesInv, DebuggersInv DEF Next
<1>2. QED
  BY <1>1, InitInv, PTL DEF Spec

\* Every variable keeps its type.
THEOREM WatcherTypeCorrect == Spec => []TypeOK
BY WatcherInductive, PTL DEF IInv

\* What shows throughout is seen, wherever its check stands (watcher.py:102-128).
THEOREM NothingMissedHolds == Spec => []NothingMissed
BY WatcherInductive, PTL DEF IInv

\* What is seen was there to be seen (watcher.py:135-168).
THEOREM NoFalseAlarmHolds == Spec => []NoFalseAlarm
BY WatcherInductive, PTL DEF IInv
=============================================================================
