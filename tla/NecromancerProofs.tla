-------------------------- MODULE NecromancerProofs --------------------------
(***************************************************************************)
(* Theorems about Necromancer.tla, for any number of instances, keys,      *)
(* identifiers, signers and objects, any thresholds, and without the       *)
(* bounds of the TLC runs mattering.                                       *)
(***************************************************************************)
EXTENDS Necromancer, TLAPS

-----------------------------------------------------------------------------
(* What the layers of an envelope guarantee, for every corpse whose         *)
(* ciphertext is authentic and whatever its clear header says.              *)

\* What may be left of the plaintext after padding: all that was sealed, or not
\* a layer of it.
LEMMA PadPeel ==
  ASSUME NEW c, NEW d, c.deed = d, d.pad \in BOOLEAN
  PROVE  /\ PadStripped(c) \in {Dated(d), Pad(Dated(d)), Noise, Depths}
         /\ PadStripped(c) = Dated(d) => ("PADDED" \in c.flags <=> d.pad)
         /\ ("PADDED" \in c.flags <=> d.pad) => PadStripped(c) = Dated(d)
         /\ PadStripped(c) = Depths => Dated(d) = Zip(d.obj)
BY DEF PadStripped, PadOff, Plaintext, Pad, Noise, Depths, Dated, SignedData,
       Zip, Pact, Ttl

\* What was sealed starts with a timestamp, a signature or neither.
LEMMA DatedCases ==
  ASSUME NEW d
  PROVE  /\ d.expiry # None => Dated(d) = Ttl(d.expiry, SignedData(d))
         /\ d.expiry = None => Dated(d) = SignedData(d)
         /\ d.signer # None => SignedData(d) = Pact(d.signer, Zip(d.obj))
         /\ d.signer = None => SignedData(d) = Zip(d.obj)
BY DEF Dated, SignedData

\* Flags that are those of kill take off the layers kill put on.
LEMMA LayersKeptPeel ==
  ASSUME NEW c, NEW d, c.deed = d, d.pad \in BOOLEAN, LayersKept(c)
  PROVE  /\ PadStripped(c) = Dated(d)
         /\ TtlStripped(c) = SignedData(d)
         /\ PactStripped(c) = Zip(d.obj)
         /\ "TTL" \in c.flags <=> d.expiry # None
         /\ "SIGNED" \in c.flags <=> d.signer # None
<1>1. /\ "TTL" \in c.flags <=> d.expiry # None
      /\ "SIGNED" \in c.flags <=> d.signer # None
      /\ "PADDED" \in c.flags <=> d.pad
  BY DEF LayersKept, Layers, FlagsOf, Flags
<1>2. PadStripped(c) = Dated(d)
  BY <1>1, PadPeel
<1>3. TtlStripped(c) = SignedData(d)
  BY <1>1, <1>2, DatedCases DEF TtlStripped, TtlOff, Ttl
<1>4. PactStripped(c) = Zip(d.obj)
  BY <1>1, <1>3, DatedCases DEF PactStripped, PactOff, Pact
<1>5. QED
  BY <1>1, <1>2, <1>3, <1>4

\* A parse that ends at the start of the stream kill compressed has taken off
\* exactly the layers kill put on.
LEMMA LayersOff ==
  ASSUME NEW c, NEW d, c.deed = d, d.pad \in BOOLEAN,
         PactStripped(c).layer = "zip"
  PROVE  /\ PadStripped(c) = Dated(d)
         /\ TtlStripped(c) = SignedData(d)
         /\ PactStripped(c) = Zip(d.obj)
         /\ "TTL" \in c.flags <=> d.expiry # None
         /\ "SIGNED" \in c.flags <=> d.signer # None
<1>1. TtlStripped(c).layer \in {"zip", "pact"}
  BY DEF PactStripped, PactOff, Noise, Depths
<1>2. PadStripped(c).layer \in {"zip", "pact", "ttl"}
  BY <1>1 DEF TtlStripped, TtlOff, Noise, Depths
<1>3. PadStripped(c) = Dated(d)
  BY <1>2, PadPeel DEF Noise, Depths, Pad
<1>4. TtlStripped(c) = SignedData(d) /\ ("TTL" \in c.flags <=> d.expiry # None)
  BY <1>1, <1>3, DatedCases
  DEF TtlStripped, TtlOff, Noise, Depths, Ttl, Pact, Zip
<1>5. PactStripped(c) = Zip(d.obj) /\ ("SIGNED" \in c.flags <=> d.signer # None)
  BY <1>4, DatedCases DEF PactStripped, PactOff, Noise, Depths, Pact, Zip
<1>6. QED
  BY <1>3, <1>4, <1>5

\* A parse ends inside a stream only if the flags are not those of kill, and
\* without reading a signature only where there is nothing but a stream.
LEMMA LayersLost ==
  ASSUME NEW c, NEW d, c.deed = d, d.pad \in BOOLEAN,
         PactStripped(c).layer = "depths"
  PROVE  /\ ~LayersKept(c)
         /\ "SIGNED" \notin c.flags => d.signer = None /\ d.expiry = None
<1>1. ~LayersKept(c)
  BY LayersKeptPeel DEF Zip
<1>2. ASSUME "SIGNED" \notin c.flags
      PROVE  d.signer = None /\ d.expiry = None
  <2>1. TtlStripped(c).layer = "depths"
    BY <1>2 DEF PactStripped
  <2>2. \/ PadStripped(c).layer \in {"zip", "depths"}
        \/ PadStripped(c).layer = "ttl" /\ PadStripped(c).inner.layer = "depths"
    BY <2>1 DEF TtlStripped, TtlOff, Noise
  <2>3. PadStripped(c) \in {Dated(d), Depths}
    BY <2>2, PadPeel DEF Noise, Pad
  <2>4. Dated(d).layer = "zip"
    <3>1. CASE PadStripped(c) = Depths
      BY <3>1, PadPeel DEF Zip
    <3>2. CASE PadStripped(c) = Dated(d)
      <4>1. SignedData(d).layer \in {"zip", "pact"}
        BY DatedCases DEF Zip, Pact
      <4>2. Dated(d) = SignedData(d) \/ Dated(d) = Ttl(d.expiry, SignedData(d))
        BY DatedCases
      <4>3. QED
        BY <2>2, <3>2, <4>1, <4>2 DEF Ttl
    <3>3. QED
      BY <2>3, <3>1, <3>2
  <2>5. QED
    BY <2>4, DatedCases DEF Zip, Pact, Ttl
<1>3. QED
  BY <1>1, <1>2

\* What an object is worth that a parse of authentic bytes returns, under any
\* flags (core.py:417-462).  A signed corpse gives none without a signature, and
\* where a signature is read its owner signed the object.  It is the object
\* kill was given, in time and verified, if the flags of the layers are right,
\* and in any case if there is a timestamp and no signature is read.
THEOREM OpenedHonest ==
  ASSUME NEW c \in Corpse, NEW a, NEW t \in Int,
         NEW r \in Opened(c, a, t), r \in Objects
  PROVE  /\ c.deed.signer # None => "SIGNED" \in c.flags
         /\ "SIGNED" \in c.flags => r \in Vouched[a.verify_key]
         /\ \/ LayersKept(c)
            \/ c.deed.expiry # None /\ "SIGNED" \notin c.flags
            => /\ r = c.deed.obj
               /\ c.deed.signer # None => a.verify_key = c.deed.signer
               /\ c.deed.expiry # None => t <= c.deed.expiry * TicksPerSecond
<1> DEFINE d == c.deed
<1>1. /\ d.pad \in BOOLEAN /\ d.expiry \in Int \cup {None}
      /\ d.signer # None => d.obj \in Vouched[d.signer]
  BY DEF Corpse, Deed, SignedBy
<1>2. r \notin Errors
  BY EnvelopeAssumption
<1>3. /\ ~Rotten(c, t) /\ ~BrokenPact(c, a)
      /\ \/ PactStripped(c).layer = "zip" /\ r = PactStripped(c).obj
         \/ PactStripped(c).layer = "depths" /\ r \in Unearthed(c, a)
  BY <1>2 DEF Opened, Misread, Errors
<1>4. CASE PactStripped(c).layer = "zip" /\ r = PactStripped(c).obj
  <2>1. /\ PadStripped(c) = Dated(d)
        /\ TtlStripped(c) = SignedData(d)
        /\ PactStripped(c) = Zip(d.obj)
        /\ "TTL" \in c.flags <=> d.expiry # None
        /\ "SIGNED" \in c.flags <=> d.signer # None
    BY <1>1, <1>4, LayersOff
  <2>2. r = d.obj
    BY <1>4, <2>1 DEF Zip
  <2>3. d.signer # None => a.verify_key = d.signer
    BY <1>3, <2>1, DatedCases DEF BrokenPact, Pact
  <2>4. d.expiry # None => t <= d.expiry * TicksPerSecond
    <3> SUFFICES ASSUME d.expiry # None PROVE t <= d.expiry * TicksPerSecond
      OBVIOUS
    <3>1. PadStripped(c) = Ttl(d.expiry, SignedData(d))
      BY <2>1, DatedCases
    <3>2. ~(t > d.expiry * TicksPerSecond)
      BY <1>3, <2>1, <3>1 DEF Rotten, Ttl
    <3>3. d.expiry * TicksPerSecond \in Int
      BY <1>1, EnvelopeAssumption
    <3>4. QED
      BY <3>2, <3>3
  <2>5. QED
    BY <1>1, <2>1, <2>2, <2>3, <2>4
<1>5. CASE PactStripped(c).layer = "depths" /\ r \in Unearthed(c, a)
  BY <1>1, <1>5, LayersLost DEF Unearthed
<1>6. QED
  BY <1>3, <1>4, <1>5

\* revive of authentic bytes returns an object or raises one of the errors.
LEMMA OpenedType ==
  ASSUME NEW c \in Corpse, NEW a, NEW t,
         "SIGNED" \in c.flags => a.verify_key \in Signers
  PROVE  Opened(c, a, t) \subseteq Objects \cup Errors
<1> DEFINE d == c.deed
<1>1. d.pad \in BOOLEAN /\ d.obj \in Objects
  BY DEF Corpse, Deed
<1>2. Unearthed(c, a) \subseteq Objects
  BY EnvelopeAssumption DEF Unearthed
<1>3. Misread(c, a) \subseteq Objects \cup Errors
  BY <1>2 DEF Misread, Errors
<1>4. PactStripped(c).layer = "zip" => PactStripped(c).obj \in Objects
  BY <1>1, LayersOff DEF Zip
<1>5. QED
  BY <1>3, <1>4 DEF Opened, Errors

\* An undamaged corpse parses back to what was sealed (core.py:280-336 against
\* core.py:417-462): rotten if its timestamp has passed, else the object.
THEOREM OpenedGenuine ==
  ASSUME NEW d \in Deed, NEW a, NEW t,
         d.signer # None => a.verify_key = d.signer
  PROVE  Opened(Pack(d), a, t) =
           {IF d.expiry # None /\ t > d.expiry * TicksPerSecond
            THEN "RottenCorpseError" ELSE d.obj}
<1> DEFINE c == Pack(d)
<1>1. c.deed = d /\ d.pad \in BOOLEAN /\ LayersKept(c)
  BY DEF Pack, Deed, LayersKept
<1>2. /\ PadStripped(c) = Dated(d)
      /\ TtlStripped(c) = SignedData(d)
      /\ PactStripped(c) = Zip(d.obj)
      /\ "TTL" \in c.flags <=> d.expiry # None
  BY <1>1, LayersKeptPeel
<1>3. Rotten(c, t) <=> d.expiry # None /\ t > d.expiry * TicksPerSecond
  BY <1>2, DatedCases DEF Rotten, Ttl
<1>4. ~BrokenPact(c, a)
  BY <1>2, DatedCases DEF BrokenPact, Pact, Zip
<1>5. QED
  BY <1>2, <1>3, <1>4 DEF Opened, Zip

-----------------------------------------------------------------------------
(* The instance                                                            *)

\* The inductive invariant: types, the two facts TypeOK cannot be kept without
\* (a living instance has a key to seal with; timestamps match lifetimes).
IInv == TypeOK /\ KeyInv /\ ExpiryInv

USE EnvelopeAssumption, NecromancerAssumption

\* None is none of the things it stands in for.
LEMMA NoneApart ==
  /\ None \notin Keys /\ None \notin Int /\ None \notin Mages
  /\ None \notin Objects /\ None \notin Errors
OBVIOUS

\* Damage leaves a corpse a corpse, with the deed it had.
LEMMA DamagedType ==
  ASSUME NEW c \in Corpse, NEW d \in Damaged(c)
  PROVE  d \in Corpse /\ d.deed = c.deed
<1>1. CASE d = [c EXCEPT !.intact = FALSE]
  BY <1>1 DEF Corpse
<1>2. CASE \E s \in Shapes : d = [c EXCEPT !.shape = s]
  BY <1>2 DEF Corpse
<1>3. CASE \E g \in Magics : d = [c EXCEPT !.magic = g]
  BY <1>3 DEF Corpse
<1>4. CASE d = [c EXCEPT !.version = 3]
  BY <1>4 DEF Corpse, Versions
<1>5. CASE \E f \in SUBSET Flags : d = [c EXCEPT !.flags = f]
  BY <1>5 DEF Corpse
<1>6. QED
  BY <1>1, <1>2, <1>3, <1>4, <1>5 DEF Damaged

\* The timestamp of a fresh deed is an integer not later than its lifetime.
LEMMA DeedDates ==
  ASSUME NEW t \in Int, NEW n \in Nat
  PROVE  /\ PackTtl(t, n) \in Int
         /\ n + t * TicksPerSecond \in Int
         /\ PackTtl(t, n) * TicksPerSecond <= n + t * TicksPerSecond
<1> DEFINE q == n \div TicksPerSecond
<1>1. q \in Int /\ q * TicksPerSecond <= n
  BY DEF q
<1>2. (q + t) * TicksPerSecond = q * TicksPerSecond + t * TicksPerSecond
  BY <1>1
<1>3. t * TicksPerSecond \in Int /\ q * TicksPerSecond \in Int
  BY <1>1
<1>4. QED
  BY <1>1, <1>2, <1>3 DEF PackTtl

\* What kill seals is a well-typed corpse with a timely timestamp.
LEMMA KilledType ==
  ASSUME NEW x \in Keys, NEW k \in KillArgs(Ttls), NEW n \in Nat
  PROVE  LET c == Pack(DeedOf(x, k, n))
         IN /\ c \in Corpse
            /\ c.deed.rot # None =>
                 /\ c.deed.expiry # None
                 /\ c.deed.expiry * TicksPerSecond <= c.deed.rot
<1> DEFINE d == DeedOf(x, k, n)
<1>1. k.ttl_seconds = None \/ k.ttl_seconds \in Int
  BY DEF KillArgs
<1>2. d.expiry \in Int \cup {None} /\ d.rot \in Int \cup {None}
  BY <1>1, DeedDates DEF DeedOf
<1>3. d \in Deed
  BY <1>2 DEF DeedOf, Deed, KillArgs
<1>4. d.rot # None =>
        d.expiry # None /\ d.expiry * TicksPerSecond <= d.rot
  BY <1>1, DeedDates DEF DeedOf
<1>5. Pack(d) \in Corpse /\ Pack(d).deed = d
  BY <1>3 DEF Pack, Corpse, Shapes, Magics, Versions, FlagsOf, Flags, Deed
<1>6. QED
  BY <1>4, <1>5

\* What the pre-check lets through that has a signature comes with a key to verify
\* it (core.py:395-399).
LEMMA SignatureAsked ==
  ASSUME NEW c, NEW a \in ReviveArgs, Refusal(c, a) = None, "SIGNED" \in c.flags
  PROVE  a.verify_key \in Signers
<1>1. a.verify_key # None
  BY NoneApart DEF Refusal, Errors
<1>2. QED
  BY <1>1 DEF ReviveArgs

-----------------------------------------------------------------------------
(* The invariant, one lemma for each action that disturbs it.              *)

\* New instances: own keys, no failures, nothing on the wire.
LEMMA InitIInv == Init => IInv
<1> SUFFICES ASSUME Init PROVE IInv
  OBVIOUS
<1>1. TypeOK
  BY DEF Init, TypeOK, NoCall, Call
<1>2. KeyInv
  BY DEF Init, KeyInv
<1>3. ExpiryInv
  BY DEF Init, ExpiryInv
<1>4. QED
  BY <1>1, <1>2, <1>3 DEF IInv

\* kill adds a typed corpse with a timely timestamp.
LEMMA KillIInv ==
  ASSUME IInv, NEW m \in Mages, NEW k \in KillArgs(Ttls), Kill(m, k)
  PROVE  IInv'
<1> DEFINE c == Pack(DeedOf(key[m], k, now))
<1>1. key[m] \in Keys /\ now \in Nat
  BY DEF IInv, KeyInv, TypeOK, Kill
<1>2. /\ c \in Corpse
      /\ c.deed.rot # None =>
           /\ c.deed.expiry # None
           /\ c.deed.expiry * TicksPerSecond <= c.deed.rot
  BY <1>1, KilledType
<1>3. wire' = wire \cup {c} /\ call' = Call("kill", m, c, k, "none", None)
  BY DEF Kill
<1>4. TypeOK'
  <2>1. wire' \subseteq Corpse
    BY <1>2, <1>3 DEF IInv, TypeOK
  <2>2. /\ call'.op \in {"none", "kill", "revive"}
        /\ call'.mage \in Mages \cup {None}
        /\ call'.corpse \in Corpse \cup {PoisonPill, None}
        /\ call'.args \in ReviveArgs \cup KillArgs(Ttls) \cup {None}
        /\ call'.mac \in {"none", "pass", "fail"}
        /\ call'.result \in Objects \cup Errors \cup {None}
    BY <1>2, <1>3 DEF Call
  <2>3. QED
    BY <2>1, <2>2 DEF IInv, TypeOK, Kill
<1>5. KeyInv'
  BY DEF IInv, KeyInv, Kill
<1>6. ExpiryInv'
  BY <1>2, <1>3 DEF IInv, ExpiryInv
<1>7. QED
  BY <1>4, <1>5, <1>6 DEF IInv

\* A step that leaves keys, counters and the wire alone only has to type its
\* call.
LEMMA QuietIInv ==
  ASSUME IInv, UNCHANGED <<key, tamper_count, destroyed, wire>>,
         watched' \in BOOLEAN, now' \in Nat,
         NEW op \in {"none", "kill", "revive"}, NEW m \in Mages \cup {None},
         NEW c \in Corpse \cup {PoisonPill, None},
         NEW a \in ReviveArgs \cup KillArgs(Ttls) \cup {None},
         NEW mac \in {"none", "pass", "fail"},
         NEW r \in Objects \cup Errors \cup {None},
         call' = Call(op, m, c, a, mac, r)
  PROVE  IInv'
<1>1. TypeOK'
  BY DEF IInv, TypeOK, Call
<1>2. KeyInv' /\ ExpiryInv'
  BY DEF IInv, KeyInv, ExpiryInv
<1>3. QED
  BY <1>1, <1>2 DEF IInv

\* A kill that raises changes nothing but the call.
LEMMA KillRaisesIInv ==
  ASSUME IInv, NEW m \in Mages, NEW k \in KillArgs(Ttls), KillRaises(m, k)
  PROVE  IInv'
<1> DEFINE r == IF destroyed[m] THEN "SelfDestructError" ELSE KillError(k)
<1>1. r \in Errors \cup {None}
  BY DEF KillError, Errors
<1>2. watched' \in BOOLEAN /\ now' \in Nat
  BY DEF KillRaises, IInv, TypeOK
<1>3. QED
  BY <1>1, <1>2, QuietIInv DEF KillRaises

\* Counting a failure or swallowing a pill keeps keys and thresholds in step.
LEMMA ReviveIInv ==
  ASSUME IInv, NEW m \in Mages, NEW c \in wire \cup {PoisonPill},
         NEW a \in ReviveArgs, Revive(m, c, a)
  PROVE  IInv'
<1>1. c \in Corpse \cup {PoisonPill, None}
  BY DEF IInv, TypeOK
<1>2. CASE ReviveTrapped(m, c, a)
  BY <1>1, <1>2, QuietIInv DEF ReviveTrapped, IInv, TypeOK, Errors
<1>3. CASE ReviveDead(m, c, a)
  BY <1>1, <1>3, QuietIInv DEF ReviveDead, IInv, TypeOK, Errors
<1>4. CASE ReviveRefused(m, c, a)
  <2>1. Refusal(c, a) \in Errors
    BY <1>4 DEF ReviveRefused, Refusal, Errors
  <2>2. QED
    BY <1>1, <1>4, <2>1, QuietIInv DEF ReviveRefused, IInv, TypeOK
<1>5. CASE RevivePoisoned(m, c, a)
  <2>1. TypeOK'
    BY <1>1, <1>5 DEF RevivePoisoned, SelfDestruct, Call, IInv, TypeOK, Errors
  <2>2. KeyInv'
    BY <1>5 DEF RevivePoisoned, SelfDestruct, IInv, TypeOK, KeyInv
  <2>3. ExpiryInv'
    BY <1>5 DEF RevivePoisoned, IInv, ExpiryInv
  <2>4. QED
    BY <2>1, <2>2, <2>3 DEF IInv
<1>6. CASE ReviveTampered(m, c, a)
  <2>1. TamperError(m, a) \in Errors
    BY DEF TamperError, Errors
  <2>2. /\ tamper_count' = [tamper_count EXCEPT ![m] = @ + 1]
        /\ IF LastStrike(m) THEN SelfDestruct(m) ELSE UNCHANGED <<key, destroyed>>
        /\ call' = Call("revive", m, c, a, "fail", TamperError(m, a))
        /\ UNCHANGED <<watched, now, wire>>
    BY <1>6 DEF ReviveTampered, RecordTamper
  <2>3. TypeOK'
    <3>1. /\ key' \in [Mages -> Keys \cup {None}]
          /\ destroyed' \in [Mages -> BOOLEAN]
      BY <2>2 DEF SelfDestruct, IInv, TypeOK
    <3>2. tamper_count' \in [Mages -> Nat]
      BY <2>2 DEF IInv, TypeOK
    <3>3. /\ call'.op = "revive" /\ call'.mage = m /\ call'.corpse = c
          /\ call'.args = a /\ call'.mac = "fail" /\ call'.result \in Errors
      BY <2>1, <2>2 DEF Call
    <3>4. QED
      BY <1>1, <2>2, <3>1, <3>2, <3>3 DEF IInv, TypeOK
  <2>4. KeyInv'
    BY <2>2 DEF LastStrike, SelfDestruct, IInv, TypeOK, KeyInv
  <2>5. ExpiryInv'
    BY <2>2 DEF IInv, ExpiryInv
  <2>6. QED
    BY <2>3, <2>4, <2>5 DEF IInv
<1>7. CASE ReviveOpened(m, c, a)
  <2>1. PICK r \in Opened(c, a, now) : call' = Call("revive", m, c, a, "pass", r)
    BY <1>7 DEF ReviveOpened
  <2>2. c \in Corpse
    BY <1>7 DEF ReviveOpened, Authentic, PoisonPill, IInv, TypeOK
  <2>3. r \in Objects \cup Errors
    <3>1. "SIGNED" \in c.flags => a.verify_key \in Signers
      BY <1>7, SignatureAsked DEF ReviveOpened
    <3>2. QED
      BY <2>2, <3>1, OpenedType
  <2>4. /\ tamper_count' = [tamper_count EXCEPT ![m] = 0]
        /\ UNCHANGED <<key, destroyed, watched, now, wire>>
    BY <1>7 DEF ReviveOpened, ResetTamper
  <2>5. TypeOK'
    BY <2>1, <2>2, <2>3, <2>4 DEF Call, IInv, TypeOK
  <2>6. KeyInv'
    BY <2>4 DEF IInv, TypeOK, KeyInv
  <2>7. ExpiryInv'
    BY <2>4 DEF IInv, ExpiryInv
  <2>8. QED
    BY <2>5, <2>6, <2>7 DEF IInv
<1>8. QED
  BY <1>2, <1>3, <1>4, <1>5, <1>6, <1>7 DEF Revive

\* Neither clock nor debugger nor transport touches an instance.
LEMMA WorldIInv ==
  ASSUME IInv, World
  PROVE  IInv'
<1>1. CASE Tick
  <2>1. /\ UNCHANGED <<key, tamper_count, destroyed, wire>>
        /\ call' = Call("none", None, None, None, "none", None)
    BY <1>1 DEF Tick, NoCall
  <2>2. watched' \in BOOLEAN /\ now' \in Nat
    BY <1>1 DEF Tick, IInv, TypeOK
  <2>3. QED
    BY <2>1, <2>2, QuietIInv
<1>2. CASE Watch
  BY <1>2, QuietIInv DEF Watch, NoCall, IInv, TypeOK
<1>3. CASE \E c \in wire : Damage(c)
  <2>1. PICK c \in wire : Damage(c)
    BY <1>3
  <2>2. PICK d \in Damaged(c) : wire' = (wire \ {c}) \cup {d}
    BY <2>1 DEF Damage
  <2>3. d \in Corpse /\ d.deed = c.deed
    BY DamagedType DEF IInv, TypeOK
  <2>4. TypeOK'
    BY <2>1, <2>2, <2>3 DEF Damage, NoCall, Call, IInv, TypeOK
  <2>5. KeyInv'
    BY <2>1 DEF Damage, IInv, KeyInv
  <2>6. ExpiryInv'
    BY <2>2, <2>3 DEF IInv, ExpiryInv
  <2>7. QED
    BY <2>4, <2>5, <2>6 DEF IInv
<1>4. QED
  BY <1>1, <1>2, <1>3 DEF World

\* Every step keeps the inductive invariant.
LEMMA NextIInv ==
  ASSUME IInv, [Next]_vars
  PROVE  IInv'
<1>1. CASE UNCHANGED vars
  BY <1>1 DEF vars, IInv, TypeOK, KeyInv, ExpiryInv
<1>2. CASE Next
  BY <1>2, KillIInv, KillRaisesIInv, ReviveIInv, WorldIInv DEF Next
<1>3. QED
  BY <1>1, <1>2

\* Every reachable state satisfies the inductive invariant.
THEOREM Inductive == Spec => []IInv
<1>1. IInv /\ [Next]_vars => IInv'
  BY NextIInv
<1>2. QED
  BY InitIInv, <1>1, PTL DEF Spec

\* Type correctness: every variable and the call record keep their types.
THEOREM TypeCorrect == Spec => []TypeOK
<1>1. IInv => TypeOK
  BY DEF IInv
<1>2. QED
  BY Inductive, <1>1, PTL

\* An instance holds its own key until it is destroyed and none afterwards, and
\* a living one has not reached its threshold (core.py:203-227).
THEOREM KeyCorrect == Spec => []KeyInv
<1>1. IInv => KeyInv
  BY DEF IInv
<1>2. QED
  BY Inductive, <1>1, PTL

\* Timestamps on the wire never outlive the lifetime asked for (core.py:118).
THEOREM ExpiryCorrect == Spec => []ExpiryInv
<1>1. IInv => ExpiryInv
  BY DEF IInv
<1>2. QED
  BY Inductive, <1>1, PTL

-----------------------------------------------------------------------------
(* What a revive returns.                                                  *)

\* Only the last way out of revive returns an object.
LEMMA OnlyOpenedRevives ==
  ASSUME IInv, Next, Revived'
  PROVE  \E m \in Mages, c \in wire \cup {PoisonPill}, a \in ReviveArgs :
           ReviveOpened(m, c, a)
<1>1. Objects \cap Errors = {} /\ None \notin Objects
  OBVIOUS
<1>2. CASE \E m \in Mages, k \in KillArgs(Ttls) : Kill(m, k) \/ KillRaises(m, k)
  BY <1>2 DEF Kill, KillRaises, Call, Revived
<1>3. CASE World
  <2>1. call' = NoCall
    BY <1>3 DEF World, Tick, Watch, Damage
  <2>2. call'.op = "none"
    BY <2>1 DEF NoCall, Call
  <2>3. QED
    BY <2>2 DEF Revived
<1>4. CASE \E m \in Mages, c \in wire \cup {PoisonPill}, a \in ReviveArgs : Revive(m, c, a)
  <2>1. PICK m \in Mages, c \in wire \cup {PoisonPill}, a \in ReviveArgs : Revive(m, c, a)
    BY <1>4
  <2>2. TamperError(m, a) \in Errors
    BY DEF TamperError, Errors
  <2>3. Refusal(c, a) # None => Refusal(c, a) \in Errors
    BY DEF Refusal, Errors
  <2>4. ~ReviveTrapped(m, c, a) /\ ~ReviveDead(m, c, a) /\ ~RevivePoisoned(m, c, a)
    BY <1>1 DEF ReviveTrapped, ReviveDead, RevivePoisoned, Call, Revived, Errors
  <2>5. ~ReviveRefused(m, c, a)
    BY <1>1, <2>3 DEF ReviveRefused, Call, Revived
  <2>6. ~ReviveTampered(m, c, a)
    BY <1>1, <2>2 DEF ReviveTampered, Call, Revived
  <2>7. QED
    BY <2>1, <2>4, <2>5, <2>6 DEF Revive
<1>5. QED
  BY <1>2, <1>3, <1>4 DEF Next

\* Only ReviveOpened returns an object, and what it returns is worth as much as
\* OpenedHonest says.
LEMMA NextHonest ==
  ASSUME IInv, HonestRevive, [Next]_vars
  PROVE  HonestRevive'
<1>1. CASE UNCHANGED vars
  BY <1>1 DEF vars, HonestRevive, Revived, Sealed, AsSealed
<1>2. CASE Next
  <2> SUFFICES ASSUME Revived' PROVE HonestRevive'
    BY DEF HonestRevive
  <2>1. PICK m \in Mages, c \in wire \cup {PoisonPill}, a \in ReviveArgs :
          ReviveOpened(m, c, a)
    BY <1>2, OnlyOpenedRevives
  <2>2. PICK r \in Opened(c, a, now) : call' = Call("revive", m, c, a, "pass", r)
    BY <2>1 DEF ReviveOpened
  <2>3. c \in wire /\ c \in Corpse /\ c.intact /\ c.deed.key = key[m]
    BY <2>1 DEF ReviveOpened, Authentic, PoisonPill, IInv, TypeOK
  <2>4. r \in Objects /\ now \in Nat /\ now' = now
    BY <2>1, <2>2 DEF ReviveOpened, Call, Revived, IInv, TypeOK
  <2> DEFINE trusted ==
        LayersKept(c) \/ (c.deed.expiry # None /\ "SIGNED" \notin c.flags)
  <2>5. /\ c.deed.signer # None => "SIGNED" \in c.flags
        /\ "SIGNED" \in c.flags => r \in Vouched[a.verify_key]
        /\ trusted =>
             /\ r = c.deed.obj
             /\ c.deed.signer # None => a.verify_key = c.deed.signer
             /\ c.deed.expiry # None => now <= c.deed.expiry * TicksPerSecond
    BY <2>3, <2>4, OpenedHonest
  <2>6. /\ call'.corpse = c /\ call'.mage = m
        /\ call'.args = a /\ call'.result = r
    BY <2>2 DEF Call
  <2>7. Sealed'
    <3>1. c.deed.key = KeyOf[m]
      BY <2>1, <2>3 DEF ReviveOpened, Reads, IInv, KeyInv
    <3>2. c.deed.hwid \notin {None, EmptyHwid} => a.hwid = c.deed.hwid
      BY <2>1 DEF ReviveOpened, Authentic, Aad
    <3>3. QED
      BY <2>3, <2>6, <3>1, <3>2 DEF Sealed
  <2>8. ASSUME trusted PROVE AsSealed'
    <3>1. c.deed.rot # None => now <= c.deed.rot
      <4> SUFFICES ASSUME c.deed.rot # None PROVE now <= c.deed.rot
        OBVIOUS
      <4>1. /\ c.deed.expiry # None
            /\ c.deed.expiry * TicksPerSecond <= c.deed.rot
        BY <2>3 DEF IInv, ExpiryInv
      <4>2. c.deed.expiry \in Int /\ c.deed.rot \in Int
        BY <2>3, <4>1 DEF Corpse, Deed
      <4>3. c.deed.expiry * TicksPerSecond \in Int
        BY <4>2
      <4>4. now <= c.deed.expiry * TicksPerSecond
        BY <2>5, <2>8, <4>1
      <4>5. QED
        BY <2>4, <4>1, <4>2, <4>3, <4>4
    <3>2. QED
      BY <2>4, <2>5, <2>6, <2>8, <3>1 DEF AsSealed
  <2> HIDE DEF trusted
  <2>9. (LayersKept(c) \/ (c.deed.expiry # None /\ "SIGNED" \notin c.flags))
          => AsSealed'
    BY <2>8 DEF trusted
  <2>10. QED
    BY <2>5, <2>6, <2>7, <2>9 DEF HonestRevive
<1>3. QED
  BY <1>1, <1>2

\* Whatever became of the unauthenticated header, an object that revive returns
\* comes from a corpse sealed for this instance and hardware, is not without the
\* signature of one that was signed, and is one the owner of a signature that was
\* read has signed; and it is the very object, in time, unless the header lies
\* about a corpse that is not dated or is read as signed (core.py:385-462).
THEOREM HonestReviveHolds == Spec => []HonestRevive
<1>1. Init => HonestRevive
  BY DEF Init, HonestRevive, Revived, NoCall, Call
<1>2. IInv /\ HonestRevive /\ [Next]_vars => HonestRevive'
  BY NextHonest
<1>3. QED
  BY Inductive, <1>1, <1>2, PTL DEF Spec

-----------------------------------------------------------------------------
(* The kill switch.                                                        *)

\* What one step may do to an instance, stated once for the two theorems below.
LEMMA StepOfDead ==
  ASSUME IInv, Next, NEW x \in Mages, destroyed[x]
  PROVE  /\ destroyed'[x] /\ key'[x] = None
         /\ call'.mage = x => call'.result \in {"SelfDestructError", "SoulTrappedError"}
<1>0. /\ key[x] = None
      /\ key \in [Mages -> Keys \cup {None}] /\ destroyed \in [Mages -> BOOLEAN]
  BY DEF IInv, KeyInv, TypeOK
<1>1. CASE \E m \in Mages, k \in KillArgs(Ttls) : Kill(m, k) \/ KillRaises(m, k)
  <2>1. PICK m \in Mages, k \in KillArgs(Ttls) : Kill(m, k) \/ KillRaises(m, k)
    BY <1>1
  <2>2. UNCHANGED <<key, destroyed>> /\ call'.mage = m
    BY <2>1 DEF Kill, KillRaises, Call
  <2>3. m = x => call'.result = "SelfDestructError"
    BY <2>1 DEF Kill, KillRaises, Call
  <2>4. QED
    BY <1>0, <2>2, <2>3
<1>2. CASE \E m \in Mages, c \in wire \cup {PoisonPill}, a \in ReviveArgs : Revive(m, c, a)
  <2>1. PICK m \in Mages, c \in wire \cup {PoisonPill}, a \in ReviveArgs : Revive(m, c, a)
    BY <1>2
  <2>2. call'.mage = m
    BY <2>1 DEF Revive, ReviveTrapped, RevivePoisoned, ReviveDead, ReviveRefused,
                ReviveTampered, ReviveOpened, Call
  <2>3. \/ UNCHANGED <<key, destroyed>>
        \/ SelfDestruct(m)
    BY <2>1 DEF Revive, ReviveTrapped, RevivePoisoned, ReviveDead, ReviveRefused,
                ReviveTampered, ReviveOpened, RecordTamper
  <2>4. destroyed'[x] /\ key'[x] = None
    BY <1>0, <2>3 DEF SelfDestruct
  <2>5. m = x => call'.result \in {"SelfDestructError", "SoulTrappedError"}
    BY <2>1 DEF Revive, ReviveTrapped, RevivePoisoned, ReviveDead, ReviveRefused,
                ReviveTampered, ReviveOpened, Reads, Call
  <2>6. QED
    BY <2>2, <2>4, <2>5
<1>3. CASE World
  <2>1. UNCHANGED <<key, destroyed>> /\ call' = NoCall
    BY <1>3 DEF World, Tick, Watch, Damage
  <2>2. call'.mage \notin Mages
    BY <2>1 DEF NoCall, Call
  <2>3. QED
    BY <1>0, <2>1, <2>2
<1>4. QED
  BY <1>1, <1>2, <1>3 DEF Next

\* Death is final: a destroyed instance never holds a key, seals or opens
\* anything again (core.py:203-214).
THEOREM DeathIsFinalHolds == Spec => DeathIsFinal
<1>1. IInv /\ [Next]_vars =>
        [\A m \in Mages : destroyed[m] =>
           /\ destroyed'[m] /\ key'[m] = None
           /\ call'.mage = m => call'.result \in {"SelfDestructError", "SoulTrappedError"}]_vars
  BY StepOfDead
<1>2. QED
  BY Inductive, <1>1, PTL DEF Spec, DeathIsFinal

\* An instance dies only by its own revive of a poison pill or of a corpse
\* whose tag does not verify (core.py:373-383, 407-408).
THEOREM DeathHasCauseHolds == Spec => DeathHasCause
<1>1. IInv /\ [Next]_vars =>
        [\A m \in Mages : (destroyed'[m] /\ ~destroyed[m]) =>
           /\ call'.op = "revive" /\ call'.mage = m
           /\ call'.corpse = PoisonPill \/ call'.mac = "fail"
           /\ ~Trapped(m)]_vars
  <2> SUFFICES ASSUME IInv, Next, NEW x \in Mages, destroyed'[x], ~destroyed[x]
               PROVE  /\ call'.op = "revive" /\ call'.mage = x
                      /\ call'.corpse = PoisonPill \/ call'.mac = "fail"
                      /\ ~Trapped(x)
    OBVIOUS
  <2>1. destroyed' # destroyed
    OBVIOUS
  <2>2. PICK m \in Mages, c \in wire \cup {PoisonPill}, a \in ReviveArgs : Revive(m, c, a)
    BY <2>1 DEF Next, Kill, KillRaises, World, Tick, Watch, Damage
  <2>3. \/ RevivePoisoned(m, c, a)
        \/ ReviveTampered(m, c, a) /\ LastStrike(m)
    BY <2>1, <2>2 DEF Revive, ReviveTrapped, ReviveDead, ReviveRefused,
                      ReviveTampered, ReviveOpened, RecordTamper
  <2>4. m = x
    BY <2>3 DEF RevivePoisoned, ReviveTampered, RecordTamper, SelfDestruct, IInv, TypeOK
  <2>5. CASE RevivePoisoned(m, c, a)
    <3>1. c = PoisonPill
      BY <2>5 DEF RevivePoisoned, IsPoisonPill, PillVersion, Corpse, Versions,
                  IInv, TypeOK
    <3>2. QED
      BY <2>4, <2>5, <3>1 DEF RevivePoisoned, Call
  <2>6. CASE ReviveTampered(m, c, a)
    BY <2>4, <2>6 DEF ReviveTampered, Reads, Call
  <2>7. QED
    BY <2>3, <2>5, <2>6
<1>2. QED
  BY Inductive, <1>1, PTL DEF Spec, DeathHasCause

-----------------------------------------------------------------------------
(* What kill sealed comes back.                                            *)

\* Neither the gates nor the pre-checks nor GCM stop an undamaged corpse that is
\* given with matching arguments.
LEMMA GenuineAccepted ==
  ASSUME NEW d \in Deed, NEW a \in ReviveArgs, Matches(Pack(d), a)
  PROVE  /\ ~IsPoisonPill(Pack(d))
         /\ Refusal(Pack(d), a) = None
         /\ Authentic(d.key, Pack(d), a)
<1> DEFINE c == Pack(d)
<1>1. /\ c.deed = d /\ c.shape = "whole" /\ c.version = 4 /\ c.intact
      /\ ~d.stealth => c.magic = "LCH1"
      /\ c.flags = FlagsOf(d)
  BY DEF Pack
<1>2. a.hwid = d.hwid /\ a.stealth = d.stealth
  BY <1>1 DEF Matches
<1>3. d.signer # None => a.verify_key # None
  BY <1>1 DEF Matches
<1>4. ~IsPoisonPill(c)
  BY <1>1 DEF IsPoisonPill, PillVersion
<1>5. ~Malformed(c, a)
  BY <1>1, <1>2 DEF Malformed
<1>6. Refusal(c, a) = None
  BY <1>1, <1>2, <1>3, <1>5 DEF Refusal, FlagsOf, Flags
<1>7. Authentic(d.key, c, a)
  BY <1>1, <1>2 DEF Authentic
<1>8. QED
  BY <1>4, <1>6, <1>7

\* An undamaged corpse given with matching arguments to a living instance with
\* the key revives to the sealed object until its timestamp passes: it never
\* fires the kill switch and is never counted or refused (core.py:280-336
\* against core.py:372-462).
THEOREM RoundTripHolds == Spec => RoundTrip
<1>1. IInv /\ [Next]_vars =>
        [LET m == call'.mage
             c == call'.corpse
             dated == c.deed.expiry # None
         IN (/\ call'.op = "revive" /\ ~Trapped(m)
             /\ c \in wire /\ c = Pack(c.deed)
             /\ c.deed.key = key[m] /\ Matches(c, call'.args))
            => call'.result = IF dated /\ now > c.deed.expiry * TicksPerSecond
                              THEN "RottenCorpseError" ELSE c.deed.obj]_vars
  <2> SUFFICES ASSUME IInv, Next, call'.op = "revive", ~Trapped(call'.mage),
                      call'.corpse \in wire, call'.corpse = Pack(call'.corpse.deed),
                      call'.corpse.deed.key = key[call'.mage],
                      Matches(call'.corpse, call'.args)
               PROVE  call'.result =
                        IF call'.corpse.deed.expiry # None
                           /\ now > call'.corpse.deed.expiry * TicksPerSecond
                        THEN "RottenCorpseError" ELSE call'.corpse.deed.obj
    OBVIOUS
  <2>1. ~World
    <3>1. World => call' = NoCall
      BY DEF World, Tick, Watch, Damage
    <3>2. NoCall.op = "none"
      BY DEF NoCall, Call
    <3>3. QED
      BY <3>1, <3>2
  <2>2. PICK m \in Mages, b \in wire \cup {PoisonPill}, a \in ReviveArgs : Revive(m, b, a)
    <3>1. ASSUME NEW m \in Mages, NEW k \in KillArgs(Ttls), Kill(m, k) \/ KillRaises(m, k)
          PROVE  FALSE
      <4>1. call'.op = "kill"
        BY <3>1 DEF Kill, KillRaises, Call
      <4>2. QED
        BY <4>1
    <3>2. QED
      BY <2>1, <3>1, Zenon DEF Next
  <2>3. call'.mage = m /\ call'.corpse = b /\ call'.args = a
    BY <2>2 DEF Revive, ReviveTrapped, RevivePoisoned, ReviveDead, ReviveRefused,
                ReviveTampered, ReviveOpened, Call
  <2> DEFINE d == b.deed
  <2>4. /\ b = Pack(d) /\ d \in Deed /\ Matches(Pack(d), a)
        /\ d.key = key[m] /\ ~Trapped(m)
    BY <2>3 DEF IInv, TypeOK, Corpse
  <2>5. /\ ~IsPoisonPill(b)
        /\ Refusal(b, a) = None
        /\ Authentic(key[m], b, a)
    BY <2>4, GenuineAccepted
  <2>6. ~destroyed[m]
    BY <2>4 DEF IInv, KeyInv, Deed
  <2>7. ReviveOpened(m, b, a)
    BY <2>2, <2>4, <2>5, <2>6 DEF Revive, ReviveTrapped, RevivePoisoned, ReviveDead,
                                  ReviveRefused, ReviveTampered
  <2>8. d.signer # None => a.verify_key = d.signer
    BY <2>4 DEF Matches, Pack
  <2>9. Opened(b, a, now) =
          {IF d.expiry # None /\ now > d.expiry * TicksPerSecond
           THEN "RottenCorpseError" ELSE d.obj}
    BY <2>4, <2>8, OpenedGenuine
  <2>10. call'.result = IF d.expiry # None /\ now > d.expiry * TicksPerSecond
                        THEN "RottenCorpseError" ELSE d.obj
    <3>1. PICK r \in Opened(b, a, now) : call' = Call("revive", m, b, a, "pass", r)
      BY <2>7 DEF ReviveOpened
    <3>2. call'.result = r
      BY <3>1 DEF Call
    <3>3. QED
      BY <2>9, <3>1, <3>2
  <2>11. QED
    BY <2>3, <2>10
<1>2. QED
  BY Inductive, <1>1, PTL DEF Spec, RoundTrip
=============================================================================
