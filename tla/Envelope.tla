------------------------------ MODULE Envelope ------------------------------
(***************************************************************************)
(* The binary envelope ("corpse") of amcrypt/core.py: what kill packs and  *)
(* in which order it wraps the payload, and what revive makes of the bytes *)
(* it is handed.  Only pure definitions: Necromancer.tla holds the state.  *)
(*                                                                         *)
(* A corpse is a record.  `deed' says what was sealed, by which key: it    *)
(* stands for the ciphertext and is read only through aes_decrypt (below,  *)
(* Authentic).  The other fields are the clear header, which GCM does not  *)
(* authenticate, and the damage the bytes may have suffered since.         *)
(***************************************************************************)
EXTENDS Integers

CONSTANTS
  Keys,            \* 32-byte AES keys
  Hwids,           \* hardware identifiers a caller may bind to
  EmptyHwid,       \* the identifier b"", which may be one of them
  Signers,         \* ECDSA key pairs
  Objects,         \* picklable Python objects
  Vouched,         \* the objects each signer ever signs, with kill or elsewhere
  None,            \* Python's None
  MaskOf,          \* _stealth_mask, applied to the magic: first four bytes by key
  PadLengths,      \* the values `% (_PAD_MAX - _PAD_MIN + 1) + _PAD_MIN' may take
  TicksPerSecond   \* resolution of time.time() in the model

Flags  == {"TTL", "STEALTH", "HWID", "SIGNED", "PADDED"}
Magics == {"LCH1", "deadbeef", "other"}
Shapes == {"whole", "headless", "truncated", "odd_nonce"}
Versions == {3, 4}   \* 3 is what Doppelganger writes

\* _PAD_MIN, _PAD_MAX and the largest value struct.pack(">B", ...) accepts.
PadMin == 16
PadMax == 256
ByteMax == 255

Errors == {"SoulTrappedError", "SelfDestructError", "CorpseDeliveryError",
           "WrongRealmError", "BrokenPactError", "MutilatedCorpseError",
           "RottenCorpseError", "ValueError", "struct.error", "zlib.error",
           "UnpicklingError"}

ASSUME EnvelopeAssumption ==
  /\ None \notin Hwids \cup {EmptyHwid} \cup Signers \cup Int
  /\ Objects \cap (Errors \cup {None}) = {}
  /\ None \notin Keys \cup Errors
  /\ Vouched \in [Signers -> SUBSET Objects]
  /\ MaskOf \in [Keys -> Magics]
  /\ PadLengths \subseteq PadMin .. PadMax
  /\ TicksPerSecond \in Nat \ {0}

\* A signature is its owner's word for an object.
SignedBy(signer, obj) == signer # None => obj \in Vouched[signer]

Deed ==
  {d \in [obj : Objects, key : Keys, hwid : Hwids \cup {None},
          signer : Signers \cup {None}, expiry : Int \cup {None},
          rot : Int \cup {None}, pad : BOOLEAN, stealth : BOOLEAN] :
     SignedBy(d.signer, d.obj)}

Corpse == [deed : Deed, shape : Shapes, magic : Magics, version : Versions,
           flags : SUBSET Flags, intact : BOOLEAN]

KillArgs(ttls) ==
  {k \in [obj : Objects, hwid : Hwids \cup {None},
          ttl_seconds : ttls \cup {None}, stealth : BOOLEAN,
          signing_key : Signers \cup {None}, pad_len : PadLengths \cup {None}] :
     SignedBy(k.signing_key, k.obj)}

ReviveArgs == [hwid : Hwids \cup {None}, stealth : BOOLEAN,
               verify_key : Signers \cup {None}]

-----------------------------------------------------------------------------
(* kill: what is wrapped in what, and the header.                          *)

\* The first value kill raises for its arguments, or None.  The TTL is checked
\* before the padding is drawn; a drawn length of 256 does not fit the byte
\* that _add_padding packs it into.
KillError(k) ==
  IF k.ttl_seconds # None /\ k.ttl_seconds <= 0 THEN "ValueError"
  ELSE IF k.pad_len # None /\ k.pad_len > ByteMax THEN "struct.error"
  ELSE None

\* Mutant: the clock is rounded up.
PackTtlLate(ttl, now) == ((now + TicksPerSecond - 1) \div TicksPerSecond) + ttl

\* int(time.time()) + ttl_seconds, in whole seconds.
PackTtl(ttl, now) == (now \div TicksPerSecond) + ttl

\* What a kill with arguments k seals under key at time now.  `rot' is not in
\* the bytes: it is the instant the requested lifetime really ends.
DeedOf(key, k, now) ==
  [obj |-> k.obj, key |-> key, hwid |-> k.hwid, signer |-> k.signing_key,
   expiry |-> IF k.ttl_seconds = None THEN None ELSE PackTtl(k.ttl_seconds, now),
   rot |-> IF k.ttl_seconds = None THEN None
           ELSE now + k.ttl_seconds * TicksPerSecond,
   pad |-> k.pad_len # None, stealth |-> k.stealth]

Zip(o)      == [layer |-> "zip", obj |-> o]
Pact(s, p)  == [layer |-> "pact", signer |-> s, inner |-> p]
Ttl(e, p)   == [layer |-> "ttl", expiry |-> e, inner |-> p]
Pad(p)      == [layer |-> "pad", inner |-> p]

SignedData(d) == IF d.signer = None THEN Zip(d.obj) ELSE Pact(d.signer, Zip(d.obj))
Dated(d) ==
  IF d.expiry = None THEN SignedData(d) ELSE Ttl(d.expiry, SignedData(d))

\* Mutant: the padding goes on before the TTL.
PlaintextPadInside(d) ==
  LET padded == IF d.pad THEN Pad(SignedData(d)) ELSE SignedData(d)
  IN IF d.expiry = None THEN padded ELSE Ttl(d.expiry, padded)

\* The bytes kill hands to AES-GCM: compressed, signed, dated, padded.
Plaintext(d) == IF d.pad THEN Pad(Dated(d)) ELSE Dated(d)

FlagsOf(d) ==
  {f \in Flags : \/ f = "TTL" /\ d.expiry # None
                 \/ f = "STEALTH" /\ d.stealth
                 \/ f = "HWID" /\ d.hwid # None
                 \/ f = "SIGNED" /\ d.signer # None
                 \/ f = "PADDED" /\ d.pad}

Pack(d) ==
  [deed |-> d, shape |-> "whole",
   magic |-> IF d.stealth THEN MaskOf[d.key] ELSE "LCH1",
   version |-> 4, flags |-> FlagsOf(d), intact |-> TRUE]

-----------------------------------------------------------------------------
(* revive: header checks, authentication, and the layers off again.        *)

\* b"\xde\xad\xbe\xef\xca\xfe" read as magic, version and flags.
PillVersion == 202
PillFlags == Flags \ {"TTL"}
PoisonPill == [deed |-> None, shape |-> "headless", magic |-> "deadbeef",
               version |-> PillVersion, flags |-> PillFlags, intact |-> FALSE]

\* Mutant: only the first four bytes are compared.
IsPoisonPillByMagic(c) == c.magic = "deadbeef"

\* (Six bytes are enough, so a pill may be too short for a header.)
IsPoisonPill(c) ==
  /\ c.magic = "deadbeef"
  /\ c.version = PillVersion
  /\ c.flags = PillFlags

\* _unpack raises CorpseDeliveryError.
Malformed(c, a) ==
  \/ c.shape = "headless"
  \/ ~a.stealth /\ c.magic # "LCH1"
  \/ c.version # 4
  \/ c.shape = "truncated"

\* What revive raises before GCM has looked at the ciphertext, or None.  A
\* nonce length outside AESGCM's range is a ValueError of the library.
Refusal(c, a) ==
  IF Malformed(c, a) THEN "CorpseDeliveryError"
  ELSE IF "HWID" \in c.flags /\ a.hwid = None THEN "WrongRealmError"
  ELSE IF "SIGNED" \in c.flags /\ a.verify_key = None THEN "BrokenPactError"
  ELSE IF c.shape = "odd_nonce" THEN "ValueError"
  ELSE None

\* Associated data: to GCM, None and b"" are the same.
Aad(h) == IF h = EmptyHwid THEN None ELSE h

\* Mutant: the ciphertext is not bound to the hardware identifier.
AuthenticWithoutAad(key, c, a) == c.intact /\ c.deed.key = key

\* aes_decrypt does not raise InvalidTag.
Authentic(key, c, a) ==
  /\ c.intact
  /\ c.deed.key = key
  /\ Aad(c.deed.hwid) = Aad(a.hwid)

\* Where a cut at the wrong place leads.  Noise: bytes of a timestamp, of a public
\* key or of random padding, which start no zlib stream.  Depths: bytes from the
\* inside of a compressed stream, which are what the object made them, and
\* may be a stream themselves (zlib stores verbatim what it cannot compress).
Noise  == [layer |-> "noise"]
Depths == [layer |-> "depths"]

\* The first byte is a length: 0x78 of a zlib stream, 0 of a timestamp (before
\* the year 2^31) and of the length of a public key.
PadOff(p) ==
  IF p.layer = "pad" THEN p.inner
  ELSE IF p.layer = "zip" THEN Depths ELSE Noise

\* Eight bytes are a timestamp.
TtlOff(p) ==
  IF p.layer = "ttl" THEN p.inner
  ELSE IF p.layer \in {"zip", "depths"} THEN Depths ELSE Noise

\* Two lengths are found, which may be anything but for those in the zeros that
\* a timestamp begins with: there the signature is empty.
PactOff(p) ==
  IF p.layer = "pact" THEN p.inner
  ELSE IF p.layer = "ttl" THEN Noise ELSE Depths

PadStripped(c) ==
  IF "PADDED" \in c.flags THEN PadOff(Plaintext(c.deed)) ELSE Plaintext(c.deed)
TtlStripped(c) ==
  IF "TTL" \in c.flags THEN TtlOff(PadStripped(c)) ELSE PadStripped(c)
PactStripped(c) ==
  IF "SIGNED" \in c.flags THEN PactOff(TtlStripped(c)) ELSE TtlStripped(c)

\* Mutant: the timestamp is stripped and never looked at.
RottenNever(c, now) == FALSE

Rotten(c, now) ==
  /\ "TTL" \in c.flags
  /\ PadStripped(c).layer = "ttl"
  /\ now > PadStripped(c).expiry * TicksPerSecond

BrokenPact(c, a) ==
  /\ "SIGNED" \in c.flags
  /\ TtlStripped(c).layer = "pact"
  /\ TtlStripped(c).signer # a.verify_key

\* Mutant: the object is returned whether or not its signature verifies.
UnearthedUnverified(c, a) == Objects

\* The objects that a stream found in the depths may unpickle to: any, or, if the
\* bytes before it have to be a signature of it, those the signer vouches for.
Unearthed(c, a) == IF "SIGNED" \in c.flags THEN Vouched[a.verify_key] ELSE Objects

\* What can come of bytes cut at the wrong place: a header field that runs off
\* the end, a timestamp in the past, a signature that does not verify, a stream
\* that zlib rejects, or one that it accepts.  zlib.decompress ignores what
\* follows a stream; UnpicklingError stands for all that pickle.loads raises.
Misread(c, a) ==
  {"MutilatedCorpseError"}
    \cup {"RottenCorpseError" : f \in c.flags \cap {"TTL"}}
    \cup (IF "SIGNED" \in c.flags THEN {"BrokenPactError"} ELSE {"zlib.error"})
    \cup (IF PactStripped(c).layer = "depths"
          THEN Unearthed(c, a) \cup {"UnpicklingError"} ELSE {})

\* The possible results of revive once the ciphertext is authenticated.  A layer
\* left on at the end is no stream.
Opened(c, a, now) ==
  IF Rotten(c, now) THEN {"RottenCorpseError"}
  ELSE IF BrokenPact(c, a) THEN {"BrokenPactError"}
  ELSE IF PactStripped(c).layer = "zip" THEN {PactStripped(c).obj}
  ELSE IF PactStripped(c).layer \in {"noise", "depths"} THEN Misread(c, a)
  ELSE {"zlib.error"}

\* The header says of the layers what kill wrote.
Layers == {"TTL", "SIGNED", "PADDED"}
LayersKept(c) == c.flags \cap Layers = FlagsOf(c.deed) \cap Layers
=============================================================================
