---------------------------- MODULE Necromancer ----------------------------
(***************************************************************************)
(* The Necromancer class of amcrypt/core.py: instances that seal objects   *)
(* with kill and open them with revive, a kill switch that wipes the key   *)
(* of an instance, and the world around them: a wire that carries corpses  *)
(* and may damage them, a clock, and a debugger that comes and goes.       *)
(* A call is one step: this module is about one thread.                    *)
(***************************************************************************)
EXTENDS Envelope, FiniteSets

CONSTANTS
  Mages,        \* Necromancer instances
  KeyOf,        \* the key each was constructed with
  AntiDebug,    \* its anti_debug argument
  MaxTamper,    \* its max_tamper argument, any integer
  Ttls,         \* the ttl_seconds callers use, good ones and bad ones
  MaxCorpses,   \* bound: corpses on the wire
  MaxTime,      \* bound: the clock, in ticks
  MaxFlips      \* bound: header flags a damaged corpse has wrong

ASSUME NecromancerAssumption ==
  /\ KeyOf \in [Mages -> Keys]
  /\ AntiDebug \in [Mages -> BOOLEAN]
  /\ MaxTamper \in [Mages -> Int]
  /\ Ttls \subseteq Int
  /\ None \notin Mages
  /\ {MaxCorpses, MaxTime, MaxFlips} \subseteq Nat

VARIABLES
  key,           \* _key: the key, or None once wiped
  tamper_count,  \* _tamper_count
  destroyed,     \* _destroyed
  watched,       \* what DebuggerDetector.is_debugging() would answer
  now,           \* time.time(), in ticks
  wire,          \* corpses in existence
  call           \* the API call the last step was, or NoCall

vars == <<key, tamper_count, destroyed, watched, now, wire, call>>

\* op, on which instance, with which corpse and arguments; mac is the verdict
\* of aes_decrypt if the call got that far; result is returned or raised.
Call(op, m, c, a, mac, result) ==
  [op |-> op, mage |-> m, corpse |-> c, args |-> a, mac |-> mac, result |-> result]
NoCall == Call("none", None, None, None, "none", None)

Init ==
  /\ key = KeyOf
  /\ tamper_count = [m \in Mages |-> 0]
  /\ destroyed = [m \in Mages |-> FALSE]
  /\ watched = FALSE
  /\ now = 0
  /\ wire = {}
  /\ call = NoCall

-----------------------------------------------------------------------------
(* kill *)

\* Serialise, sign, date, pad, encrypt, pack.
Kill(m, k) ==
  /\ ~destroyed[m]
  /\ KillError(k) = None
  /\ Cardinality(wire) < MaxCorpses
  /\ LET c == Pack(DeedOf(key[m], k, now))
     IN /\ wire' = wire \cup {c}
        /\ call' = Call("kill", m, c, k, "none", None)
  /\ UNCHANGED <<key, tamper_count, destroyed, watched, now>>

\* The instance is dead, or an argument makes a step of the pipeline raise.
KillRaises(m, k) ==
  /\ destroyed[m] \/ KillError(k) # None
  /\ call' = Call("kill", m, None, k, "none",
                  IF destroyed[m] THEN "SelfDestructError" ELSE KillError(k))
  /\ UNCHANGED <<key, tamper_count, destroyed, watched, now, wire>>

-----------------------------------------------------------------------------
(* The kill switch *)

\* Mutant: a copy of the key is wiped and the reference stays.
SelfDestructKeepsKey(m) ==
  /\ destroyed' = [destroyed EXCEPT ![m] = TRUE]
  /\ UNCHANGED key

SelfDestruct(m) ==
  /\ key' = [key EXCEPT ![m] = None]
  /\ destroyed' = [destroyed EXCEPT ![m] = TRUE]

\* Mutant: the threshold is compared with >.
LastStrikeLate(m) == tamper_count[m] + 1 > MaxTamper[m]

LastStrike(m) == tamper_count[m] + 1 >= MaxTamper[m]

\* One more MAC failure, and what _record_tamper or else its caller raises.
RecordTamper(m) ==
  /\ tamper_count' = [tamper_count EXCEPT ![m] = @ + 1]
  /\ IF LastStrike(m) THEN SelfDestruct(m) ELSE UNCHANGED <<key, destroyed>>

\* Mutant: the exception of AES-GCM gets through.
TamperErrorRaw(m, a) == "InvalidTag"

TamperError(m, a) ==
  IF LastStrike(m) THEN "SelfDestructError"
  ELSE IF a.hwid # None THEN "WrongRealmError" ELSE "MutilatedCorpseError"

\* Mutant: a success does not forgive the failures before it.
ResetTamperNever(m) == UNCHANGED tamper_count

ResetTamper(m) == tamper_count' = [tamper_count EXCEPT ![m] = 0]

-----------------------------------------------------------------------------
(* revive: one action for each way out, in the order of the gates          *)

Trapped(m) == AntiDebug[m] /\ watched

\* Gate 1.
ReviveTrapped(m, c, a) ==
  /\ Trapped(m)
  /\ call' = Call("revive", m, c, a, "none", "SoulTrappedError")
  /\ UNCHANGED <<key, tamper_count, destroyed, watched, now, wire>>

\* Gate 2: obeyed by dead instances too.
RevivePoisoned(m, c, a) ==
  /\ ~Trapped(m)
  /\ IsPoisonPill(c)
  /\ SelfDestruct(m)
  /\ call' = Call("revive", m, c, a, "none", "SelfDestructError")
  /\ UNCHANGED <<tamper_count, watched, now, wire>>

\* Mutant: the dead instance is not asked.
ReadsEvenIfDead(m, c) == ~Trapped(m) /\ ~IsPoisonPill(c)

\* The three gates are behind the call.
Reads(m, c) == ~Trapped(m) /\ ~IsPoisonPill(c) /\ ~destroyed[m]

\* Gate 3.
ReviveDead(m, c, a) ==
  /\ ~Trapped(m)
  /\ ~IsPoisonPill(c)
  /\ destroyed[m]
  /\ call' = Call("revive", m, c, a, "none", "SelfDestructError")
  /\ UNCHANGED <<key, tamper_count, destroyed, watched, now, wire>>

\* Mutant: a refusal counts as tampering.
ReviveRefusedCounts(m, c, a) ==
  /\ Reads(m, c)
  /\ Refusal(c, a) # None
  /\ RecordTamper(m)
  /\ call' = Call("revive", m, c, a, "none", Refusal(c, a))
  /\ UNCHANGED <<watched, now, wire>>

\* Envelope, soul-binding and blood-pact pre-checks: nothing is counted.
ReviveRefused(m, c, a) ==
  /\ Reads(m, c)
  /\ Refusal(c, a) # None
  /\ call' = Call("revive", m, c, a, "none", Refusal(c, a))
  /\ UNCHANGED <<key, tamper_count, destroyed, watched, now, wire>>

\* InvalidTag.
ReviveTampered(m, c, a) ==
  /\ Reads(m, c)
  /\ Refusal(c, a) = None
  /\ ~Authentic(key[m], c, a)
  /\ RecordTamper(m)
  /\ call' = Call("revive", m, c, a, "fail", TamperError(m, a))
  /\ UNCHANGED <<watched, now, wire>>

\* The tag is right: the count is reset whatever comes of the plaintext.
ReviveOpened(m, c, a) ==
  /\ Reads(m, c)
  /\ Refusal(c, a) = None
  /\ Authentic(key[m], c, a)
  /\ ResetTamper(m)
  /\ \E result \in Opened(c, a, now) :
       call' = Call("revive", m, c, a, "pass", result)
  /\ UNCHANGED <<key, destroyed, watched, now, wire>>

Revive(m, c, a) ==
  \/ ReviveTrapped(m, c, a)
  \/ RevivePoisoned(m, c, a)
  \/ ReviveDead(m, c, a)
  \/ ReviveRefused(m, c, a)
  \/ ReviveTampered(m, c, a)
  \/ ReviveOpened(m, c, a)

-----------------------------------------------------------------------------
(* The world *)

Tick ==
  /\ now < MaxTime
  /\ now' = now + 1
  /\ call' = NoCall
  /\ UNCHANGED <<key, tamper_count, destroyed, watched, wire>>

\* A debugger is attached to the process, or detached; nobody could tell if no
\* instance looked.
Watch ==
  /\ TRUE \in {AntiDebug[m] : m \in Mages}
  /\ watched' = ~watched
  /\ call' = NoCall
  /\ UNCHANGED <<key, tamper_count, destroyed, now, wire>>

\* One field of a corpse altered on its way.
Damaged(c) ==
  {[c EXCEPT !.intact = FALSE]}
    \cup {[c EXCEPT !.shape = s] : s \in Shapes}
    \cup {[c EXCEPT !.magic = g] : g \in Magics}
    \cup {[c EXCEPT !.version = 3]}
    \cup {[c EXCEPT !.flags = f] :
            f \in {g \in SUBSET Flags :
                     Cardinality(g \ c.flags) + Cardinality(c.flags \ g) <= MaxFlips}}

\* Bound: a corpse is damaged once.
Damage(c) ==
  /\ c = Pack(c.deed)
  /\ \E d \in Damaged(c) \ {c} : wire' = (wire \ {c}) \cup {d}
  /\ call' = NoCall
  /\ UNCHANGED <<key, tamper_count, destroyed, watched, now>>

World == Tick \/ Watch \/ \E c \in wire : Damage(c)

Next ==
  \/ \E m \in Mages, k \in KillArgs(Ttls) : Kill(m, k) \/ KillRaises(m, k)
  \/ \E m \in Mages, c \in wire \cup {PoisonPill}, a \in ReviveArgs : Revive(m, c, a)
  \/ World

Spec == Init /\ [][Next]_vars

-----------------------------------------------------------------------------
(* Properties *)

\* Every variable has its type; a call names what it was made with.
TypeOK ==
  /\ key \in [Mages -> Keys \cup {None}]
  /\ tamper_count \in [Mages -> Nat]
  /\ destroyed \in [Mages -> BOOLEAN]
  /\ watched \in BOOLEAN
  /\ now \in Nat
  /\ wire \subseteq Corpse
  /\ call.op \in {"none", "kill", "revive"}
  /\ call.mage \in Mages \cup {None}
  /\ call.corpse \in Corpse \cup {PoisonPill, None}
  /\ call.args \in ReviveArgs \cup KillArgs(Ttls) \cup {None}
  /\ call.mac \in {"none", "pass", "fail"}
  /\ call.result \in Objects \cup Errors \cup {None}

Revived == call.op = "revive" /\ call.result \in Objects

\* The corpse of the last call was sealed under the key the instance was built
\* with and for the hardware identifier given, and its ciphertext is unaltered.
Sealed ==
  LET c == call.corpse
  IN /\ c.intact
     /\ c.deed.key = KeyOf[call.mage]
     /\ c.deed.hwid \notin {None, EmptyHwid} => call.args.hwid = c.deed.hwid

\* The last call returned the object kill was given, within the lifetime asked
\* for and, if it was signed, to a caller who verified with the signer's key.
AsSealed ==
  LET d == call.corpse.deed
  IN /\ call.result = d.obj
     /\ d.rot # None => now <= d.rot
     /\ d.signer # None => call.args.verify_key = d.signer

\* What an object returned by revive is worth, although the flags that steer the
\* parser come from a header GCM does not cover (core.py:385-462).  Whatever the
\* header says: GCM has accepted the corpse; a corpse that was signed is not
\* opened without a signature; where a signature is read, the object is one that
\* its owner signed.  It is the object that was sealed, in time, if the flags of
\* the layers are those of kill, and even if not, provided that the corpse has a
\* timestamp and no signature is read.  (An altered header may lead the parser
\* to another object inside a corpse that is neither dated nor signed.)
HonestRevive ==
  Revived =>
    LET c == call.corpse
    IN /\ Sealed
       /\ c.deed.signer # None => "SIGNED" \in c.flags
       /\ "SIGNED" \in c.flags => call.result \in Vouched[call.args.verify_key]
       /\ \/ LayersKept(c)
          \/ c.deed.expiry # None /\ "SIGNED" \notin c.flags
          => AsSealed

\* The arguments of a revive match those of the kill that made the corpse.
Matches(c, a) ==
  /\ a.hwid = c.deed.hwid
  /\ a.stealth = c.deed.stealth
  /\ c.deed.signer # None => a.verify_key = c.deed.signer

\* What kill sealed comes back: an undamaged corpse given with matching
\* arguments to a living instance that holds the key and has no debugger at
\* its back is revived to the object, unless its timestamp has passed; it never
\* fires the poison pill, is never counted as tampering and never refused
\* (core.py:280-336 against core.py:372-462).
RoundTrip ==
  [][LET m == call'.mage
         c == call'.corpse
         dated == c.deed.expiry # None
     IN (/\ call'.op = "revive" /\ ~Trapped(m)
         /\ c \in wire /\ c = Pack(c.deed)
         /\ c.deed.key = key[m] /\ Matches(c, call'.args))
        => call'.result = IF dated /\ now > c.deed.expiry * TicksPerSecond
                          THEN "RottenCorpseError" ELSE c.deed.obj]_vars

\* Death is final and complete (core.py:203-214): once the kill switch has
\* fired no later call of that instance gets hold of a key, seals anything or
\* opens anything; it raises SelfDestructError, or SoulTrappedError under a
\* debugger.
DeathIsFinal ==
  [][\A m \in Mages : destroyed[m] =>
       /\ destroyed'[m] /\ key'[m] = None
       /\ call'.mage = m => call'.result \in {"SelfDestructError", "SoulTrappedError"}]_vars

\* An instance dies only by its own revive, of a poison pill or of a corpse
\* whose tag did not verify, and only where no debugger would have been seen
\* (core.py:373-383, 407-408): no kill, no malformed, unbound, unsigned,
\* rotten or garbled corpse, and nobody else's failure, wipes its key.
DeathHasCause ==
  [][\A m \in Mages : (destroyed'[m] /\ ~destroyed[m]) =>
       /\ call'.op = "revive" /\ call'.mage = m
       /\ call'.corpse = PoisonPill \/ call'.mac = "fail"
       /\ ~Trapped(m)]_vars

\* The strengthening of HonestRevive and of the kill switch that is
\* inductive: an instance has its own key or none, none exactly when destroyed,
\* and a living one is below its threshold.
KeyInv ==
  \A m \in Mages :
    /\ key[m] = IF destroyed[m] THEN None ELSE KeyOf[m]
    /\ ~destroyed[m] => tamper_count[m] = 0 \/ tamper_count[m] < MaxTamper[m]

\* A timestamp on the wire is never later than the end of the lifetime that was
\* asked for: rounding the clock down (core.py:118) errs on the side of decay.
ExpiryInv ==
  \A c \in wire : c.deed.rot # None =>
    /\ c.deed.expiry # None
    /\ c.deed.expiry * TicksPerSecond <= c.deed.rot

-----------------------------------------------------------------------------
(* What docs and comments say and the code does not do; see PROJECT.json.  *)

\* README.md:179, pad=True: "16-256 bytes of random junk".
PaddedKillSucceeds ==
  call.op = "kill" /\ call.args.pad_len \in PadMin .. PadMax
    => call.result # "struct.error"
=============================================================================
