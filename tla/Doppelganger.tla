---------------------------- MODULE Doppelganger ----------------------------
(***************************************************************************)
(* amcrypt/doppelganger.py: two objects sealed under two keys in one       *)
(* corpse, and what revive makes of a corpse that has crossed a wire.  The *)
(* class keeps no state; the state is the wire's and the clock's.          *)
(***************************************************************************)
EXTENDS Integers, FiniteSets

CONSTANTS
  Keys,            \* 32-byte AES keys
  BadKey,          \* an argument that is not 32 bytes
  Hwids,           \* hardware identifiers a caller may bind to
  EmptyHwid,       \* the identifier b"", which may be one of them
  Objects,         \* picklable Python objects
  Huge,            \* those whose block does not fit the 2-byte split
  None,            \* Python's None
  MaskOf,          \* _stealth_mask, applied to the magic
  Ttls,            \* the ttl_seconds callers use
  TicksPerSecond,  \* resolution of time.time() in the model
  MaxCorpses,      \* bound: corpses on the wire
  MaxTime,         \* bound: the clock, in ticks
  MaxFlips         \* bound: header flags a damaged corpse has wrong

Flags  == {"TTL", "STEALTH", "HWID", "DUAL"}
Magics == {"LCH1", "other"}
Versions == {3, 4}   \* 4 is what Necromancer writes

\* "odd": the nonce sliced off the block is shorter than AESGCM admits.
Conditions == {"whole", "garbled", "odd"}

Errors == {"ValueError", "struct.error", "CorpseDeliveryError", "WrongRealmError",
           "RottenCorpseError", "zlib.error", "UnpicklingError"}

ASSUME DoppelgangerAssumption ==
  /\ BadKey \notin Keys /\ None \notin Keys \cup {BadKey}
  /\ None \notin Hwids \cup {EmptyHwid} \cup Int
  /\ Objects \cap (Errors \cup {None}) = {} /\ None \notin Errors
  /\ MaskOf \in [Keys -> Magics]
  /\ Ttls \subseteq Int
  /\ TicksPerSecond \in Nat \ {0}
  /\ {MaxCorpses, MaxTime, MaxFlips} \subseteq Nat

KillArgs == [real_obj : Objects, decoy_obj : Objects,
             real_key : Keys \cup {BadKey}, decoy_key : Keys \cup {BadKey},
             hwid : Hwids \cup {None}, ttl_seconds : Ttls \cup {None},
             stealth : BOOLEAN]

ReviveArgs == [key : Keys \cup {BadKey}, hwid : Hwids \cup {None}, stealth : BOOLEAN]

\* What was sealed.  `rot' is not in the bytes: it is the instant the requested
\* lifetime really ends.
Deed == [real_obj : Objects, decoy_obj : Objects, real_key : Keys, decoy_key : Keys,
         hwid : Hwids \cup {None}, expiry : Int \cup {None},
         rot : Int \cup {None}, stealth : BOOLEAN]

\* The clear header, whether it is all there, and the state of the two blocks
\* that the split cuts out of the rest.
Corpse == [deed : Deed, headless : BOOLEAN, magic : Magics, version : Versions,
           flags : SUBSET Flags, decoy : Conditions, real : Conditions]

VARIABLES
  wire,  \* corpses in existence
  now,   \* time.time(), in ticks
  call   \* the API call the last step was, or NoCall

vars == <<wire, now, call>>

Call(op, c, a, result) == [op |-> op, corpse |-> c, args |-> a, result |-> result]
NoCall == Call("none", None, None, None)

Init == wire = {} /\ now = 0 /\ call = NoCall

-----------------------------------------------------------------------------
(* kill *)

\* The first value kill raises for its arguments, or None.
KillError(k) ==
  IF \/ BadKey \in {k.real_key, k.decoy_key}
     \/ k.ttl_seconds # None /\ k.ttl_seconds <= 0
  THEN "ValueError"
  ELSE IF k.decoy_obj \in Huge THEN "struct.error" ELSE None

\* int(time.time()) + ttl_seconds, in whole seconds.
PackTtl(ttl) == (now \div TicksPerSecond) + ttl

DeedOf(k) ==
  [real_obj |-> k.real_obj, decoy_obj |-> k.decoy_obj,
   real_key |-> k.real_key, decoy_key |-> k.decoy_key,
   hwid |-> k.hwid, stealth |-> k.stealth,
   expiry |-> IF k.ttl_seconds = None THEN None ELSE PackTtl(k.ttl_seconds),
   rot |-> IF k.ttl_seconds = None THEN None
           ELSE now + k.ttl_seconds * TicksPerSecond]

FlagsOf(d) ==
  {f \in Flags : \/ f = "DUAL"
                 \/ f = "TTL" /\ d.expiry # None
                 \/ f = "STEALTH" /\ d.stealth
                 \/ f = "HWID" /\ d.hwid # None}

Pack(d) ==
  [deed |-> d, headless |-> FALSE,
   magic |-> IF d.stealth THEN MaskOf[d.decoy_key] ELSE "LCH1",
   version |-> 3, flags |-> FlagsOf(d), decoy |-> "whole", real |-> "whole"]

Kill(k) ==
  /\ KillError(k) = None
  /\ Cardinality(wire) < MaxCorpses
  /\ LET c == Pack(DeedOf(k))
     IN /\ wire' = wire \cup {c}
        /\ call' = Call("kill", c, None, None)
  /\ UNCHANGED now

\* What kill can raise; it leaves nothing behind, whatever the arguments were.
KillErrors == {KillError(k) : k \in KillArgs} \ {None}

KillRaises(e) ==
  /\ call' = Call("kill", None, None, e)
  /\ UNCHANGED <<wire, now>>

-----------------------------------------------------------------------------
(* revive *)

\* What revive raises before it tries a block, or None.
Refusal(c, a) ==
  IF a.key = BadKey THEN "ValueError"
  ELSE IF c.headless THEN "struct.error"
  ELSE IF \/ ~a.stealth /\ c.magic # "LCH1"
          \/ c.version # 3
          \/ "DUAL" \notin c.flags THEN "CorpseDeliveryError"
  ELSE IF "HWID" \in c.flags /\ a.hwid = None THEN "WrongRealmError"
  ELSE None

\* Associated data: to GCM, None and b"" are the same.
Aad(h) == IF h = EmptyHwid THEN None ELSE h

\* Mutant: the blocks are not bound to the hardware identifier.
AuthenticWithoutAad(c, condition, key, a) == condition = "whole" /\ key = a.key

\* aes_decrypt accepts a block that was sealed under key.
Authentic(c, condition, key, a) ==
  /\ condition = "whole"
  /\ key = a.key
  /\ Aad(c.deed.hwid) = Aad(a.hwid)

OpensDecoy(c, a) == Authentic(c, c.decoy, c.deed.decoy_key, a)
OpensReal(c, a)  == Authentic(c, c.real, c.deed.real_key, a)

\* Mutant: damage to the decoy block ends the search.
BlockOpenedStops(c, a) ==
  IF c.decoy # "whole" THEN "ValueError"
  ELSE IF OpensDecoy(c, a) THEN "decoy"
  ELSE IF c.real = "odd" THEN "ValueError"
  ELSE IF OpensReal(c, a) THEN "real"
  ELSE "InvalidTag"

\* The decoy first, then the real one.  Only InvalidTag goes on to the next
\* block; the ValueError of a nonce that is too short is not caught.
BlockOpened(c, a) ==
  IF c.decoy = "odd" THEN "ValueError"
  ELSE IF OpensDecoy(c, a) THEN "decoy"
  ELSE IF c.real = "odd" THEN "ValueError"
  ELSE IF OpensReal(c, a) THEN "real"
  ELSE "InvalidTag"

Rotten(c) ==
  /\ "TTL" \in c.flags
  /\ c.deed.expiry # None
  /\ now > c.deed.expiry * TicksPerSecond

\* The header announces a timestamp that was never put there.
Misdated(c) == "TTL" \in c.flags /\ c.deed.expiry = None

\* What can come of a compressed stream without its first eight bytes (which,
\* read as a timestamp, are far in the future): the rest is what the object made
\* it, and a stream that may be in it unpickles to any object or not at all.
Misread == {"zlib.error", "UnpicklingError"} \cup Objects

\* The possible results for a block that GCM has accepted.  A timestamp that the
\* header does not announce is no zlib stream.
Content(c, block) ==
  IF Rotten(c) THEN {"RottenCorpseError"}
  ELSE IF Misdated(c) THEN Misread
  ELSE IF "TTL" \notin c.flags /\ c.deed.expiry # None THEN {"zlib.error"}
  ELSE {IF block = "decoy" THEN c.deed.decoy_obj ELSE c.deed.real_obj}

Returns(c, a, result) ==
  /\ call' = Call("revive", c, a, result)
  /\ UNCHANGED <<wire, now>>

ReviveRefused(c, a) == Refusal(c, a) # None /\ Returns(c, a, Refusal(c, a))

ReviveOddNonce(c, a) ==
  /\ Refusal(c, a) = None
  /\ BlockOpened(c, a) = "ValueError"
  /\ Returns(c, a, "ValueError")

\* Mutant: the second InvalidTag is not caught.
ReviveNoBlockRaw(c, a) ==
  /\ Refusal(c, a) = None
  /\ BlockOpened(c, a) = "InvalidTag"
  /\ Returns(c, a, "InvalidTag")

ReviveNoBlock(c, a) ==
  /\ Refusal(c, a) = None
  /\ BlockOpened(c, a) = "InvalidTag"
  /\ Returns(c, a, "WrongRealmError")

ReviveOpened(c, a) ==
  /\ Refusal(c, a) = None
  /\ \E block \in {"decoy", "real"} :
       /\ BlockOpened(c, a) = block
       /\ \E result \in Content(c, block) : Returns(c, a, result)

Revive(c, a) ==
  \/ ReviveRefused(c, a)
  \/ ReviveOddNonce(c, a)
  \/ ReviveNoBlock(c, a)
  \/ ReviveOpened(c, a)

-----------------------------------------------------------------------------
(* The world *)

Tick ==
  /\ now < MaxTime
  /\ now' = now + 1
  /\ call' = NoCall
  /\ UNCHANGED wire

\* Damage to the blocks.  Bytes are flipped in the first or in the second, or
\* the second is cut short; or the split is wrong, or the cut goes deeper, and
\* neither is what it was.
BlockDamage ==
  {<<"garbled", "whole">>, <<"whole", "garbled">>, <<"whole", "odd">>}
    \cup ({"garbled", "odd"} \X {"garbled", "odd"})

\* One part of a corpse altered on its way: one header field (of the flags,
\* MaxFlips), or the blocks.
Damaged(c) ==
  {[c EXCEPT !.headless = TRUE], [c EXCEPT !.version = 4]}
    \cup {[c EXCEPT !.magic = g] : g \in Magics}
    \cup {[c EXCEPT !.flags = f] :
            f \in {g \in SUBSET Flags :
                     Cardinality(g \ c.flags) + Cardinality(c.flags \ g) <= MaxFlips}}
    \cup {[c EXCEPT !.decoy = b[1], !.real = b[2]] : b \in BlockDamage}

\* Bound: a corpse is damaged once.
Damage(c) ==
  /\ c = Pack(c.deed)
  /\ \E d \in Damaged(c) \ {c} : wire' = (wire \ {c}) \cup {d}
  /\ call' = NoCall
  /\ UNCHANGED now

Next ==
  \/ \E k \in KillArgs : Kill(k)
  \/ \E e \in KillErrors : KillRaises(e)
  \/ \E c \in wire, a \in ReviveArgs : Revive(c, a)
  \/ Tick
  \/ \E c \in wire : Damage(c)

Spec == Init /\ [][Next]_vars

-----------------------------------------------------------------------------
(* Properties *)

\* Every variable has its type.
TypeOK ==
  /\ wire \subseteq Corpse
  /\ now \in 0 .. MaxTime
  /\ call.op \in {"none", "kill", "revive"}
  /\ call.corpse \in Corpse \cup {None}
  /\ call.result \in Objects \cup Errors \cup {None}

\* revive gives away an object only to one of the two keys, on the hardware the
\* corpse was bound to and within its lifetime, whatever has happened to the clear
\* header; and it is that key's own object, unless the header announces a timestamp
\* that is not there (doppelganger.py:224-279).
HonestDual ==
  (call.op = "revive" /\ call.result \in Objects) =>
    LET d == call.corpse.deed
        own(obj) == call.result = obj \/ Misdated(call.corpse)
    IN /\ \/ own(d.decoy_obj) /\ call.args.key = d.decoy_key
          \/ own(d.real_obj) /\ call.args.key = d.real_key
       /\ d.hwid \notin {None, EmptyHwid} => call.args.hwid = d.hwid
       /\ d.rot # None => now <= d.rot

\* The arguments of a revive match those of the kill that made the corpse, but
\* for the key; the header is as kill wrote it.
Matches(c, a) == a.hwid = c.deed.hwid /\ a.stealth = c.deed.stealth
HeaderKept(c) ==
  LET p == Pack(c.deed)
  IN ~c.headless /\ c.magic = p.magic /\ c.version = p.version /\ c.flags = p.flags

\* Each key opens its own block and neither depends on the other's: with a sound
\* header, a whole block is revived to its object, however the other one has
\* been damaged, or has rotted for both (doppelganger.py:252-257).
BlocksIndependent ==
  [][LET c == call'.corpse
         a == call'.args
         d == c.deed
     IN (call'.op = "revive" /\ HeaderKept(c) /\ Matches(c, a)) =>
          LET content(obj) ==
                IF d.expiry # None /\ now > d.expiry * TicksPerSecond
                THEN "RottenCorpseError" ELSE obj
          IN /\ (a.key = d.decoy_key /\ c.decoy = "whole")
                  => call'.result = content(d.decoy_obj)
             /\ (a.key = d.real_key /\ c.real = "whole" /\ d.real_key # d.decoy_key)
                  => call'.result = content(d.real_obj)]_vars
=============================================================================
