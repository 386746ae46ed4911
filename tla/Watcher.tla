------------------------------ MODULE Watcher ------------------------------
(***************************************************************************)
(* DebuggerDetector of amcrypt/watcher.py, asked by threads while          *)
(* debuggers come and go: is_debugging runs its checks one by one, and     *)
(* nothing keeps the process as it was while it does.  One check is one    *)
(* step.                                                                   *)
(***************************************************************************)
EXTENDS Integers, Sequences

CONSTANTS
  Threads,     \* threads that ask the detector
  On,          \* the built-in checks its check_* arguments leave on
  Customs,     \* its custom_checks, in order
  Brittle,     \* checks that may raise
  MaxChanges   \* bound: times a sign comes or goes, or a check breaks or heals

BuiltIn == <<"trace", "profile", "frames", "flags", "monitoring">>
List == BuiltIn \o Customs
Enabled == On \cup {Customs[i] : i \in 1 .. Len(Customs)}

ASSUME WatcherAssumption ==
  /\ On \subseteq {BuiltIn[i] : i \in 1 .. Len(BuiltIn)}
  /\ Customs \in Seq(STRING)
  /\ \A i \in 1 .. Len(Customs), j \in 1 .. Len(BuiltIn) : Customs[i] # BuiltIn[j]
  /\ Brittle \subseteq Enabled
  /\ MaxChanges \in Nat

VARIABLES
  signs,    \* what shows of debuggers: <<check that looks for it, thread>>
  broken,   \* the checks that raise at present
  at,       \* the place in List of the check each thread is to run, or 0
  answer,   \* what is_debugging last returned to each thread
  shown,    \* history: checks with something to report ever since the question,
  seen,     \* and those with something to report at some time since
  changes   \* signs come and gone so far

vars == <<signs, broken, at, answer, shown, seen, changes>>

\* There is something for the check to report to a thread, or it raises.
Shows(c, t) == <<c, t>> \in signs \/ c \in broken

\* Mutant: a check that raises is passed over.
AlarmsUnlessBroken(c, t) ==
  c \in Enabled /\ c # "monitoring" /\ c \notin broken /\ <<c, t>> \in signs

\* Mutant: a check looks at every thread.
AlarmsForAll(c, t) ==
  c \in Enabled /\ c # "monitoring" /\ \E u \in Threads : Shows(c, u)

\* A check answers yes or raises; _check_monitoring_fn looks for a name that
\* sys.monitoring does not have, and always answers no.
Alarms(c, t) == c \in Enabled /\ c # "monitoring" /\ Shows(c, t)

Init ==
  /\ signs = {}
  /\ broken = {}
  /\ at = [t \in Threads |-> 0]
  /\ answer = [t \in Threads |-> "none"]
  /\ shown = [t \in Threads |-> {}]
  /\ seen = [t \in Threads |-> {}]
  /\ changes = 0

-----------------------------------------------------------------------------
(* is_debugging                                                            *)

IsDebugging(t) ==
  /\ at[t] = 0
  /\ at' = [at EXCEPT ![t] = 1]
  /\ answer' = [answer EXCEPT ![t] = "none"]
  /\ shown' = [shown EXCEPT ![t] = {c \in Enabled : Shows(c, t)}]
  /\ seen' = [seen EXCEPT ![t] = {c \in Enabled : Shows(c, t)}]
  /\ UNCHANGED <<signs, broken, changes>>

CheckSees(t) ==
  /\ at[t] # 0
  /\ Alarms(List[at[t]], t)
  /\ at' = [at EXCEPT ![t] = 0]
  /\ answer' = [answer EXCEPT ![t] = "seen"]
  /\ UNCHANGED <<signs, broken, shown, seen, changes>>

\* Mutant: the loop runs one past the end.
LastCheckPast(t) == at[t] = Len(List) + 1

\* Mutant: the loop ends where the built-in checks do.
LastCheckBuiltIn(t) == at[t] = Len(BuiltIn)

LastCheck(t) == at[t] = Len(List)

\* The check sees nothing, or is off.
CheckPasses(t) ==
  /\ at[t] # 0
  /\ ~Alarms(List[at[t]], t)
  /\ IF LastCheck(t)
     THEN /\ at' = [at EXCEPT ![t] = 0]
          /\ answer' = [answer EXCEPT ![t] = "clear"]
     ELSE at' = [at EXCEPT ![t] = @ + 1] /\ UNCHANGED answer
  /\ UNCHANGED <<signs, broken, shown, seen, changes>>

-----------------------------------------------------------------------------
(* Debuggers                                                               *)

\* The history of a thread that is asking follows what shows.
Changes(s, b) ==
  /\ changes < MaxChanges
  /\ changes' = changes + 1
  /\ signs' = s
  /\ broken' = b
  /\ shown' = [t \in Threads |->
                 IF at[t] = 0 THEN shown[t] ELSE {c \in shown[t] : Shows(c, t)'}]
  /\ seen' = [t \in Threads |->
                 IF at[t] = 0 THEN seen[t]
                 ELSE seen[t] \cup {c \in Enabled : Shows(c, t)'}]
  /\ UNCHANGED <<at, answer>>

\* Trace and profile functions and frames belong to one thread, the environment
\* and sys.monitoring to all.
Reach(c, t) == {c} \X (IF c \in {"flags", "monitoring"} THEN Threads ELSE {t})

Attach(c, t) == <<c, t>> \notin signs /\ Changes(signs \cup Reach(c, t), broken)

Detach(c, t) == <<c, t>> \in signs /\ Changes(signs \ Reach(c, t), broken)

Break(c) == c \notin broken /\ Changes(signs, broken \cup {c})

Heal(c) == c \in broken /\ Changes(signs, broken \ {c})

\* The stack below a call does not change while it runs.
Debuggers ==
  \/ \E c \in Enabled, t \in Threads :
       /\ c = "frames" => at[t] = 0
       /\ Attach(c, t) \/ Detach(c, t)
  \/ \E c \in Brittle : Break(c) \/ Heal(c)

Next ==
  \/ \E t \in Threads : IsDebugging(t) \/ CheckSees(t) \/ CheckPasses(t)
  \/ Debuggers

Spec == Init /\ [][Next]_vars

-----------------------------------------------------------------------------
(* Properties *)

\* Every variable has its type.
TypeOK ==
  /\ signs \subseteq Enabled \X Threads
  /\ broken \subseteq Brittle
  /\ at \in [Threads -> 0 .. Len(List)]
  /\ answer \in [Threads -> {"none", "clear", "seen"}]
  /\ shown \in [Threads -> SUBSET Enabled]
  /\ seen \in [Threads -> SUBSET Enabled]
  /\ changes \in 0 .. MaxChanges

\* What an enabled check looks for, or what makes it raise, is seen if it is
\* there from the question to the answer, whatever else comes and goes meanwhile
\* and wherever in the list the check stands (watcher.py:102-128).  What uses
\* sys.monitoring is never seen.
NothingMissed ==
  \A t \in Threads : answer[t] = "clear" => shown[t] \subseteq {"monitoring"}

\* An alarm means that some enabled check had something to report to this very
\* thread, or raised, at some time between question and answer: what other
\* threads are traced for does not count (watcher.py:135-168).
NoFalseAlarm ==
  \A t \in Threads : answer[t] = "seen" => seen[t] \ {"monitoring"} # {}
=============================================================================
