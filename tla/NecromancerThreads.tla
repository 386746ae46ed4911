------------------------- MODULE NecromancerThreads -------------------------
(***************************************************************************)
(* amcrypt/core.py: threads that share one Necromancer.  Its attributes    *)
(* are plain: a step is one read or one write of them, or of the bytearray *)
(* that _key refers to, and threads may alternate between any two.  What a *)
(* corpse is and what is in it is Necromancer.tla's; here it only matters  *)
(* what it does to the attributes.                                         *)
(***************************************************************************)
EXTENDS Integers, FiniteSets

CONSTANTS
  Threads,    \* threads that call the instance
  MaxTamper   \* the max_tamper argument

ASSUME ThreadsAssumption == IsFiniteSet(Threads) /\ MaxTamper \in Int

\* A corpse of the instance, one that is not or no longer, a pill, and one that
\* _unpack or a pre-check refuses.
Corpses == {"genuine", "forged", "pill", "refused"}

VARIABLES
  buffer,        \* the 32 bytes __init__ copied the key into: "secret" or "zero"
  key,           \* _key: "buffer" or "None"
  tamper_count,  \* _tamper_count
  destroyed,     \* _destroyed
  pc,            \* what each thread is to do next
  corpse,        \* the corpse each thread's revive was called with
  tmp,           \* the count each thread has read to increment
  late,          \* history: threads whose call came after the instance's death,
  posthumous,    \* what such calls have come to,
  overlapped,    \* whether two calls were ever under way at a time,
  strikes,       \* failing verdicts, up to Limit,
  streak,        \* increments since the counter was last reset
  pilled         \* and whether a pill was swallowed

attributes == <<buffer, key, tamper_count, destroyed>>
history == <<strikes, streak, pilled>>
vars == <<attributes, pc, corpse, tmp, late, posthumous, overlapped, history>>

\* Failing verdicts it takes at the least: one, if max_tamper is below.
Limit == IF MaxTamper < 1 THEN 1 ELSE MaxTamper

Init ==
  /\ buffer = "secret" /\ key = "buffer"
  /\ tamper_count = 0 /\ destroyed = FALSE
  /\ pc = [t \in Threads |-> "idle"]
  /\ corpse = [t \in Threads |-> "none"]
  /\ tmp = [t \in Threads |-> 0]
  /\ late = {} /\ posthumous = {} /\ overlapped = FALSE
  /\ strikes = 0 /\ streak = 0 /\ pilled = FALSE

At(t, from, to) == pc[t] = from /\ pc' = [pc EXCEPT ![t] = to]

Goes(t, from, to) ==
  At(t, from, to) /\ UNCHANGED <<corpse, tmp, late, posthumous, overlapped>>

\* The call returns or raises.
Ends(t, from, result) ==
  /\ At(t, from, "idle")
  /\ corpse' = [corpse EXCEPT ![t] = "none"]
  /\ tmp' = [tmp EXCEPT ![t] = 0]
  /\ late' = late \ {t}
  /\ posthumous' = posthumous \cup (IF t \in late THEN {result} ELSE {})
  /\ UNCHANGED overlapped

-----------------------------------------------------------------------------
(* A call begins                                                           *)

Begins(t, to, c) ==
  /\ At(t, "idle", to)
  /\ corpse' = [corpse EXCEPT ![t] = c]
  /\ late' = IF destroyed THEN late \cup {t} ELSE late
  /\ overlapped' = (overlapped \/ \E u \in Threads \ {t} : pc[u] # "idle")
  /\ UNCHANGED <<attributes, tmp, posthumous, history>>

KillBegins(t) == Begins(t, "kill", "none")

ReviveBegins(t) == \E c \in Corpses : Begins(t, "gate1", c)

-----------------------------------------------------------------------------
(* kill *)

\* Mutant: nobody asks.
CheckDestroyedNever(t, from, to) == Goes(t, from, to)

\* _check_destroyed.
CheckDestroyed(t, from, to) ==
  /\ \/ ~destroyed /\ Goes(t, from, to)
     \/ destroyed /\ Ends(t, from, "SelfDestructError")

KillChecks(t) ==
  /\ CheckDestroyed(t, "kill", "load")
  /\ UNCHANGED <<attributes, history>>

\* self._key, handed to AESGCM: None is a TypeError.
Load(t, from, to) ==
  /\ \/ key # "None" /\ Goes(t, from, to)
     \/ key = "None" /\ Ends(t, from, "TypeError")
  /\ UNCHANGED <<attributes, history>>

KillLoads(t) == Load(t, "load", "seal")

\* aes_encrypt, under what the reference leads to by now.  With stealth, _pack
\* goes on to read self._key again for the mask.
KillSeals(t) ==
  /\ \/ Goes(t, "seal", "mask")
     \/ Ends(t, "seal", "corpse")
  /\ UNCHANGED <<attributes, history>>

KillMasks(t) ==
  /\ Ends(t, "mask", IF key = "None" THEN "TypeError" ELSE "corpse")
  /\ UNCHANGED <<attributes, history>>

-----------------------------------------------------------------------------
(* revive *)

\* Gate 1: a debugger may be there or not.
ReviveTrapped(t) ==
  /\ Ends(t, "gate1", "SoulTrappedError")
  /\ UNCHANGED <<attributes, history>>

Gate1Passed(t) ==
  /\ Goes(t, "gate1", IF corpse[t] = "pill" THEN "test" ELSE "gate3")
  /\ pilled' = (pilled \/ corpse[t] = "pill")
  /\ UNCHANGED <<attributes, strikes, streak>>

Gate3(t) ==
  /\ CheckDestroyed(t, "gate3", "unpack")
  /\ UNCHANGED <<attributes, history>>

ReviveRefused(t) ==
  /\ corpse[t] = "refused"
  /\ Ends(t, "unpack", "refused")
  /\ UNCHANGED <<attributes, history>>

ReviveLoads(t) ==
  /\ corpse[t] # "refused"
  /\ Load(t, "unpack", "decrypt")

\* aes_decrypt.  What the reference leads to may have been wiped since it was
\* read (or be wiped meanwhile, and then it is no key either).
ReviveDecrypts(t) ==
  /\ corpse[t] = "genuine" /\ buffer = "secret"
  /\ Goes(t, "decrypt", "reset")
  /\ UNCHANGED <<attributes, history>>

ReviveFails(t) ==
  /\ corpse[t] = "forged" \/ buffer = "zero"
  /\ Goes(t, "decrypt", "read")
  /\ strikes' = IF strikes < Limit THEN strikes + 1 ELSE strikes
  /\ UNCHANGED <<attributes, streak, pilled>>

\* Mutant: a success forgives nothing.
ResetForgotten(t) ==
  /\ Ends(t, "reset", "object")
  /\ streak' = 0
  /\ UNCHANGED <<attributes, strikes, pilled>>

\* _reset_tamper; the layers come off, and whatever then comes of it is the
\* thread's own.
ResetTamper(t) ==
  /\ Ends(t, "reset", "object")
  /\ tamper_count' = 0
  /\ streak' = 0
  /\ UNCHANGED <<buffer, key, destroyed, strikes, pilled>>

\* self._tamper_count += 1 is a read and a write.
CountRead(t) ==
  /\ At(t, "read", "write")
  /\ tmp' = [tmp EXCEPT ![t] = tamper_count]
  /\ UNCHANGED <<attributes, history, corpse, late, posthumous, overlapped>>

\* Mutant: counted twice.
CountWriteTwice(t) ==
  /\ Goes(t, "write", "compare")
  /\ tamper_count' = tmp[t] + 2
  /\ streak' = streak + 1
  /\ UNCHANGED <<buffer, key, destroyed, strikes, pilled>>

CountWrite(t) ==
  /\ Goes(t, "write", "compare")
  /\ tamper_count' = tmp[t] + 1
  /\ streak' = streak + 1
  /\ UNCHANGED <<buffer, key, destroyed, strikes, pilled>>

\* Mutant: the threshold is hit or missed.
ThresholdHit == tamper_count = MaxTamper

ThresholdReached == tamper_count >= MaxTamper

\* The count is read once more.
Compare(t) ==
  /\ \/ ThresholdReached /\ Goes(t, "compare", "test")
     \/ ~ThresholdReached /\ Ends(t, "compare", "MutilatedCorpseError")
  /\ UNCHANGED <<attributes, history>>

-----------------------------------------------------------------------------
(* _self_destruct *)

\* Mutant: a key that has been wiped needs no more.
TestKeyZero(t) ==
  /\ Goes(t, "test", IF buffer = "zero" THEN "flag" ELSE "wipe")
  /\ UNCHANGED <<attributes, history>>

\* if self._key is not None
TestKey(t) ==
  /\ Goes(t, "test", IF key = "None" THEN "flag" ELSE "wipe")
  /\ UNCHANGED <<attributes, history>>

\* memoryview(None) is a TypeError, if another thread was faster.
Wipe(t) ==
  /\ \/ key # "None" /\ Goes(t, "wipe", "drop") /\ buffer' = "zero"
     \/ key = "None" /\ Ends(t, "wipe", "TypeError") /\ UNCHANGED buffer
  /\ UNCHANGED <<key, tamper_count, destroyed, history>>

\* Mutant: the attribute is deleted.
DropDeletes(t) ==
  /\ Goes(t, "drop", "flag")
  /\ key' = "deleted"
  /\ UNCHANGED <<buffer, tamper_count, destroyed, history>>

Drop(t) ==
  /\ Goes(t, "drop", "flag")
  /\ key' = "None"
  /\ UNCHANGED <<buffer, tamper_count, destroyed, history>>

\* Mutant: the flag is forgotten.
FlagForgotten(t) ==
  /\ Ends(t, "flag", "SelfDestructError")
  /\ UNCHANGED <<attributes, history>>

Flag(t) ==
  /\ Ends(t, "flag", "SelfDestructError")
  /\ destroyed' = TRUE
  /\ UNCHANGED <<buffer, key, tamper_count, history>>

Runs(t) ==
  \/ KillChecks(t) \/ KillLoads(t) \/ KillSeals(t) \/ KillMasks(t)
  \/ ReviveTrapped(t) \/ Gate1Passed(t) \/ Gate3(t) \/ ReviveRefused(t)
  \/ ReviveLoads(t) \/ ReviveDecrypts(t) \/ ReviveFails(t)
  \/ ResetTamper(t) \/ CountRead(t) \/ CountWrite(t) \/ Compare(t)
  \/ TestKey(t) \/ Wipe(t) \/ Drop(t) \/ Flag(t)

Next == \E t \in Threads : KillBegins(t) \/ ReviveBegins(t) \/ Runs(t)

Spec == Init /\ [][Next]_vars

\* The interpreter lets every thread that can run go on in the end; nothing makes
\* one call.
FairSpec == Spec /\ \A t \in Threads : WF_vars(Runs(t))

-----------------------------------------------------------------------------
(* Properties *)

Places == {"idle", "kill", "load", "seal", "mask", "gate1", "gate3", "unpack",
           "decrypt", "reset", "read", "write", "compare", "test", "wipe", "drop", "flag"}

Results == {"corpse", "object", "refused", "TypeError", "SoulTrappedError",
            "SelfDestructError", "MutilatedCorpseError"}

\* Every variable has its type.
TypeOK ==
  /\ buffer \in {"secret", "zero"} /\ key \in {"buffer", "None"}
  /\ tamper_count \in Nat /\ destroyed \in BOOLEAN
  /\ pc \in [Threads -> Places]
  /\ corpse \in [Threads -> Corpses \cup {"none"}]
  /\ tmp \in [Threads -> Nat]
  /\ late \subseteq Threads /\ posthumous \subseteq Results
  /\ strikes \in 0 .. Limit /\ streak \in Nat /\ pilled \in BOOLEAN
  /\ overlapped \in BOOLEAN

\* An instance whose key is being wiped is never left so: until it is marked dead
\* some thread is on its way to do that, though a thread that comes second may
\* leave _self_destruct with a TypeError; and a dead one has no key
\* (core.py:203-208).
RitesAttended ==
  /\ destroyed => key = "None"
  /\ key = "None" /\ ~destroyed => \E t \in Threads : pc[t] = "flag"
  /\ buffer = "zero" /\ key # "None" => \E t \in Threads : pc[t] = "drop"

\* A call that comes after the death, a pill among them, finds a debugger or the
\* SelfDestructError and nothing else: neither a corpse sealed under zeros nor the
\* TypeError of a missing key, which calls that were under way may still come to
\* (core.py:210-214, 372-383).
DeadStaysDead == posthumous \subseteq {"SoulTrappedError", "SelfDestructError"}

\* Increments get lost and counts are overwritten, and yet the switch is never far
\* behind, because the threshold is one to reach and not one to hit: two threads
\* that share the instance are told off as often as this says in a row (seven
\* times for a threshold of three), before it goes (core.py:216-224).
Quiet == \A t \in Threads : pc[t] \notin {"compare", "test", "wipe", "drop", "flag"}
NeverMuchTooLate ==
  Quiet /\ ~destroyed /\ Cardinality(Threads) <= 2 =>
    streak <= ((Limit + 1) * (Limit + 2)) \div 2 - 3

\* Where calls take turns, on however many threads, a lock around each being
\* enough, the switch keeps its word to the letter: it counts every failure in a
\* row, never lives to see the last of them, and dies for a pill or on exactly
\* that one (core.py:160-161, 216-227).
PunctualInTurn ==
  ~overlapped =>
    /\ Quiet /\ ~destroyed => tamper_count = streak /\ streak < Limit
    /\ destroyed => pilled \/ streak = Limit

Rites == INSTANCE LastRites WITH
  phase <- IF destroyed THEN "dead" ELSE IF key = "None" THEN "keyless"
           ELSE IF buffer = "zero" THEN "wiped" ELSE "alive"

\* Whatever the threads do, the key goes the way of LastRites, each step once and
\* in order, and only for a pill or for at least as many failing verdicts as the
\* threshold asks for: never for an increment that was counted twice.
ImplementsLastRites == Rites!Spec

\* A wipe that has begun, or that a pill has called for, ends with a dead
\* instance, though threads get in each other's way (core.py:205-208).
RitesAreFinished == (pilled \/ buffer = "zero") ~> destroyed
=============================================================================
