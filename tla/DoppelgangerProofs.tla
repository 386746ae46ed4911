------------------------- MODULE DoppelgangerProofs -------------------------
(* Theorems about Doppelganger.tla, for every set of keys, objects and       *)
(* identifiers and however many corpses.                                     *)
EXTENDS Doppelganger, TLAPS

\* What is true of every corpse in existence: no damage makes the nonce of the
\* decoy block too short and leaves the real block whole, and a timestamp is
\* never later than the end of the lifetime that was asked for.
CorpseOK(c) ==
  /\ c.decoy = "odd" => c.real # "whole"
  /\ c.deed.rot # None =>
       /\ c.deed.expiry # None
       /\ c.deed.expiry * TicksPerSecond <= c.deed.rot

WireOK == \A c \in wire : CorpseOK(c)

\* The inductive invariant.
Inv == TypeOK /\ WireOK /\ HonestDual

\* The timestamp is a date, and rounding the clock down makes it no later.
LEMMA TimelyTtl ==
  ASSUME NEW t \in Ttls, now \in 0 .. MaxTime
  PROVE  /\ PackTtl(t) \in Int
         /\ now + t * TicksPerSecond \in Int
         /\ PackTtl(t) * TicksPerSecond <= now + t * TicksPerSecond
<1> USE DoppelgangerAssumption
<1> DEFINE q == now \div TicksPerSecond
<1>0. now \in Nat /\ t \in Int /\ TicksPerSecond \in Nat \ {0}
  OBVIOUS
<1>1. q \in Int /\ q * TicksPerSecond <= now
  BY <1>0
<1>2. (q + t) * TicksPerSecond = q * TicksPerSecond + t * TicksPerSecond
  BY <1>0, <1>1
<1>3. t * TicksPerSecond \in Int /\ q * TicksPerSecond \in Int
  BY <1>0, <1>1
<1>4. PackTtl(t) = q + t
  BY DEF PackTtl
<1> HIDE DEF q
<1>5. QED
  BY <1>0, <1>1, <1>2, <1>3, <1>4

\* What kill seals is typed and sound.
LEMMA KilledCorpse ==
  ASSUME NEW k \in KillArgs, KillError(k) = None, now \in 0 .. MaxTime
  PROVE  LET c == Pack(DeedOf(k)) IN c \in Corpse /\ CorpseOK(c)
<1> USE DoppelgangerAssumption
<1> DEFINE d == DeedOf(k)
<1>1. k.real_key \in Keys /\ k.decoy_key \in Keys
  BY DEF KillArgs, KillError, Errors
<1>2. k.ttl_seconds # None =>
        /\ PackTtl(k.ttl_seconds) \in Int
        /\ now + k.ttl_seconds * TicksPerSecond \in Int
        /\ PackTtl(k.ttl_seconds) * TicksPerSecond
             <= now + k.ttl_seconds * TicksPerSecond
  BY TimelyTtl DEF KillArgs
<1>3. d \in Deed
  BY <1>1, <1>2 DEF DeedOf, Deed, KillArgs
<1>4. d.rot # None =>
        d.expiry # None /\ d.expiry * TicksPerSecond <= d.rot
  BY <1>2 DEF DeedOf
<1> HIDE DEF d
<1>5. Pack(d) \in Corpse
  BY <1>3 DEF Pack, Corpse, Deed, Magics, Versions, Conditions, FlagsOf
<1>6. CorpseOK(Pack(d))
  BY <1>4 DEF Pack, CorpseOK
<1> QED
  BY <1>5, <1>6 DEF d

\* Damage keeps a corpse typed and sound, and what was sealed in it.
LEMMA DamagedCorpse ==
  ASSUME NEW c \in Corpse, c = Pack(c.deed), CorpseOK(c), NEW d \in Damaged(c)
  PROVE  d \in Corpse /\ CorpseOK(d)
<1>1. CASE d \in {[c EXCEPT !.headless = TRUE], [c EXCEPT !.version = 4]}
  BY <1>1 DEF Corpse, Versions, CorpseOK
<1>2. CASE \E g \in Magics : d = [c EXCEPT !.magic = g]
  BY <1>2 DEF Corpse, CorpseOK
<1>3. CASE \E f \in SUBSET Flags : d = [c EXCEPT !.flags = f]
  BY <1>3 DEF Corpse, CorpseOK
<1>4. CASE \E b \in BlockDamage : d = [c EXCEPT !.decoy = b[1], !.real = b[2]]
  <2>1. PICK b \in BlockDamage : d = [c EXCEPT !.decoy = b[1], !.real = b[2]]
    BY <1>4
  <2>2. /\ b[1] \in Conditions /\ b[2] \in Conditions
        /\ b[1] = "odd" => b[2] # "whole"
    BY DEF BlockDamage, Conditions
  <2> QED
    BY <2>1, <2>2 DEF Corpse, CorpseOK
<1> QED
  BY <1>1, <1>2, <1>3, <1>4 DEF Damaged

\* An object that revive returns was opened by one of the two keys, on the
\* hardware and in the lifetime of the corpse, and is that key's own unless the
\* corpse was misdated.
LEMMA OpenedHonest ==
  ASSUME NEW c \in Corpse, CorpseOK(c), NEW a \in ReviveArgs, now \in 0 .. MaxTime,
         NEW block \in {"decoy", "real"}, BlockOpened(c, a) = block,
         NEW r \in Content(c, block), r \in Objects
  PROVE  /\ \/ /\ r = c.deed.decoy_obj \/ Misdated(c)
               /\ a.key = c.deed.decoy_key
            \/ /\ r = c.deed.real_obj \/ Misdated(c)
               /\ a.key = c.deed.real_key
         /\ c.deed.hwid \notin {None, EmptyHwid} => a.hwid = c.deed.hwid
         /\ c.deed.rot # None => now <= c.deed.rot
<1> USE DoppelgangerAssumption
<1>0. r \notin Errors
  OBVIOUS
<1>1. ~Rotten(c) /\ (c.deed.expiry # None => "TTL" \in c.flags)
  BY <1>0 DEF Content, Misdated, Errors
<1>2. \/ Misdated(c)
      \/ r = IF block = "decoy" THEN c.deed.decoy_obj ELSE c.deed.real_obj
  BY <1>1 DEF Content, Misdated
<1>3. \/ block = "decoy" /\ OpensDecoy(c, a)
      \/ block = "real" /\ OpensReal(c, a)
  BY DEF BlockOpened
<1>4. Aad(c.deed.hwid) = Aad(a.hwid)
  BY <1>3 DEF OpensDecoy, OpensReal, Authentic
<1>5. c.deed.hwid \notin {None, EmptyHwid} => a.hwid = c.deed.hwid
  BY <1>4 DEF Aad
<1>6. c.deed.rot # None => now <= c.deed.rot
  <2>1. c.deed.expiry \in Int \cup {None} /\ c.deed.rot \in Int \cup {None}
    BY DEF Corpse, Deed
  <2>2. ASSUME c.deed.expiry # None PROVE ~(now > c.deed.expiry * TicksPerSecond)
    BY <2>2, <1>1 DEF Rotten
  <2> DEFINE e == c.deed.expiry * TicksPerSecond
  <2>3. ASSUME c.deed.rot # None PROVE e \in Int /\ e <= c.deed.rot /\ ~(now > e)
    BY <2>1, <2>2, <2>3 DEF CorpseOK
  <2> HIDE DEF e
  <2> QED
    BY <2>1, <2>3
<1> QED
  BY <1>2, <1>3, <1>5, <1>6 DEF OpensDecoy, OpensReal, Authentic

\* Every way out of revive keeps the invariant.
LEMMA ReviveKeepsInv ==
  ASSUME Inv, NEW c \in wire, NEW a \in ReviveArgs, Revive(c, a)
  PROVE  Inv'
<1> USE DoppelgangerAssumption
<1>1. c \in Corpse /\ CorpseOK(c) /\ now \in 0 .. MaxTime
  BY DEF Inv, TypeOK, WireOK
<1>2. UNCHANGED <<wire, now>> /\ call'.op = "revive" /\ call'.corpse = c /\ call'.args = a
  BY DEF Revive, ReviveRefused, ReviveOddNonce, ReviveNoBlock, ReviveOpened,
         Returns, Call
<1>3. \/ call'.result \in Errors
      \/ \E block \in {"decoy", "real"} :
           BlockOpened(c, a) = block /\ call'.result \in Content(c, block)
  BY DEF Revive, ReviveRefused, ReviveOddNonce, ReviveNoBlock, ReviveOpened,
         Returns, Call, Errors, Refusal
<1>4. ASSUME NEW block \in {"decoy", "real"} 
               PROVE  Content(c, block) \subseteq Objects \cup Errors
  BY <1>1 DEF Content, Misread, Errors, Corpse, Deed
<1>5. TypeOK'
  BY <1>1, <1>2, <1>3, <1>4 DEF Inv, TypeOK
<1>6. HonestDual'
  <2> SUFFICES ASSUME call'.result \in Objects
               PROVE  HonestDual'
    BY DEF HonestDual
  <2>1. PICK block \in {"decoy", "real"} :
               BlockOpened(c, a) = block /\ call'.result \in Content(c, block)
    BY <1>3
  <2> QED
    BY <2>1, <1>1, <1>2, OpenedHonest DEF HonestDual
<1> QED
  BY <1>2, <1>5, <1>6 DEF Inv, WireOK

\* Every reachable state is typed, its corpses are sound and its last revive was
\* honest.
THEOREM DualInductive == Spec => []Inv
<1> USE DoppelgangerAssumption
<1>1. Init => Inv
  BY DEF Init, Inv, TypeOK, WireOK, HonestDual, NoCall, Call
<1>2. Inv /\ [Next]_vars => Inv'
  <2> SUFFICES ASSUME Inv, [Next]_vars PROVE Inv'
    OBVIOUS
  <2>1. ASSUME NEW k \in KillArgs, Kill(k) PROVE Inv'
    <3> DEFINE c == Pack(DeedOf(k))
    <3>1. c \in Corpse /\ CorpseOK(c)
      BY <2>1, KilledCorpse DEF Kill, Inv, TypeOK
    <3>2. wire' = wire \cup {c} /\ now' = now /\ call' = Call("kill", c, None, None)
      BY <2>1 DEF Kill
    <3> HIDE DEF c
    <3> QED
      BY <3>1, <3>2 DEF Inv, TypeOK, WireOK, HonestDual, Call
  <2>2. ASSUME NEW e \in KillErrors, KillRaises(e) PROVE Inv'
    <3>1. e \in Errors
      BY DEF KillErrors, KillError, Errors
    <3> QED
      BY <2>2, <3>1 DEF KillRaises, Inv, TypeOK, WireOK, HonestDual, Call
  <2>3. ASSUME NEW c \in wire, NEW a \in ReviveArgs, Revive(c, a) PROVE Inv'
    BY <2>3, ReviveKeepsInv
  <2>4. CASE Tick
    BY <2>4 DEF Tick, Inv, TypeOK, WireOK, HonestDual, NoCall, Call
  <2>5. ASSUME NEW c \in wire, Damage(c) PROVE Inv'
    <3>1. PICK d \in Damaged(c) : wire' = (wire \ {c}) \cup {d}
      BY <2>5 DEF Damage
    <3>2. d \in Corpse /\ CorpseOK(d)
      BY <2>5, DamagedCorpse DEF Damage, Inv, TypeOK, WireOK
    <3> QED
      BY <2>5, <3>1, <3>2 DEF Damage, Inv, TypeOK, WireOK, HonestDual, NoCall, Call
  <2>6. CASE UNCHANGED vars
    BY <2>6 DEF vars, Inv, TypeOK, WireOK, HonestDual
  <2> QED
    BY <2>1, <2>2, <2>3, <2>4, <2>5, <2>6 DEF Next
<1> QED
  BY <1>1, <1>2, PTL DEF Spec

\* Every variable keeps its type.
THEOREM DualTypeCorrect == Spec => []TypeOK
<1>1. Inv => TypeOK
  BY DEF Inv
<1> QED
  BY DualInductive, <1>1, PTL

\* Only the two keys open anything, neither out of its realm or time, and neither
\* the other's object, unless the header announces a timestamp that is not there.
THEOREM HonestDualHolds == Spec => []HonestDual
<1>1. Inv => HonestDual
  BY DEF Inv
<1> QED
  BY DualInductive, <1>1, PTL

\* A sound corpse with its header kept, given with matching arguments, is not
\* refused, and its content is what the two dates say.
LEMMA KeptHeader ==
  ASSUME NEW c \in Corpse, NEW a \in ReviveArgs, HeaderKept(c), Matches(c, a),
         a.key \in {c.deed.decoy_key, c.deed.real_key}
  PROVE  /\ Refusal(c, a) = None
         /\ ("TTL" \in c.flags) <=> c.deed.expiry # None
         /\ Aad(c.deed.hwid) = Aad(a.hwid)
<1> USE DoppelgangerAssumption
<1>1. a.key # BadKey
  BY DEF Corpse, Deed
<1>2. c.flags = FlagsOf(c.deed) /\ c.version = 3 /\ ~c.headless
  BY DEF HeaderKept, Pack
<1>3. ~a.stealth => c.magic = "LCH1"
  BY DEF HeaderKept, Pack, Matches
<1>4. /\ "DUAL" \in c.flags
      /\ "TTL" \in c.flags <=> c.deed.expiry # None
      /\ "HWID" \in c.flags <=> c.deed.hwid # None
  BY <1>2 DEF FlagsOf, Flags
<1> QED
  BY <1>1, <1>2, <1>3, <1>4 DEF Refusal, Matches

\* The two keys do not depend on each other's blocks.
THEOREM BlocksIndependentHolds == Spec => BlocksIndependent
<1> USE DoppelgangerAssumption
<1> DEFINE content(d, obj) ==
      IF d.expiry # None /\ now > d.expiry * TicksPerSecond
      THEN "RottenCorpseError" ELSE obj
<1>1. ASSUME Inv, NEW c \in wire, NEW a \in ReviveArgs, Revive(c, a),
             HeaderKept(c), Matches(c, a)
      PROVE  /\ (a.key = c.deed.decoy_key /\ c.decoy = "whole")
                  => call'.result = content(c.deed, c.deed.decoy_obj)
             /\ (a.key = c.deed.real_key /\ c.real = "whole"
                   /\ c.deed.real_key # c.deed.decoy_key)
                  => call'.result = content(c.deed, c.deed.real_obj)
  <2>1. c \in Corpse /\ CorpseOK(c)
    BY <1>1 DEF Inv, TypeOK, WireOK
  <2>2. ASSUME NEW block \in {"decoy", "real"}, BlockOpened(c, a) = block,
               a.key \in {c.deed.decoy_key, c.deed.real_key}
        PROVE  call'.result = content(c.deed, IF block = "decoy" THEN c.deed.decoy_obj
                                              ELSE c.deed.real_obj)
    <3>1. Refusal(c, a) = None /\ ("TTL" \in c.flags <=> c.deed.expiry # None)
      BY <1>1, <2>1, <2>2, KeptHeader
    <3>2. call'.result \in Content(c, block)
      BY <1>1, <2>2, <3>1
      DEF Revive, ReviveRefused, ReviveOddNonce, ReviveNoBlock, ReviveOpened,
          Returns, Call
    <3> QED
      BY <3>1, <3>2 DEF Content, Rotten, Misdated
  <2>3. ASSUME a.key = c.deed.decoy_key, c.decoy = "whole"
        PROVE  BlockOpened(c, a) = "decoy"
    BY <1>1, <2>1, <2>3, KeptHeader DEF BlockOpened, OpensDecoy, Authentic
  <2>4. ASSUME a.key = c.deed.real_key, c.real = "whole",
               c.deed.real_key # c.deed.decoy_key
        PROVE  BlockOpened(c, a) = "real"
    BY <1>1, <2>1, <2>4, KeptHeader
    DEF BlockOpened, OpensDecoy, OpensReal, Authentic, CorpseOK
  <2> HIDE DEF content
  <2> QED
    BY <2>2, <2>3, <2>4
<1>2. Inv /\ [Next]_vars =>
        [LET c == call'.corpse
             a == call'.args
             d == c.deed
         IN (call'.op = "revive" /\ HeaderKept(c) /\ Matches(c, a)) =>
              LET cont(obj) ==
                    IF d.expiry # None /\ now > d.expiry * TicksPerSecond
                    THEN "RottenCorpseError" ELSE obj
              IN /\ (a.key = d.decoy_key /\ c.decoy = "whole")
                      => call'.result = cont(d.decoy_obj)
                 /\ (a.key = d.real_key /\ c.real = "whole" /\ d.real_key # d.decoy_key)
                      => call'.result = cont(d.real_obj)]_vars
  <2> SUFFICES ASSUME Inv, Next, call'.op = "revive",
                      HeaderKept(call'.corpse), Matches(call'.corpse, call'.args)
               PROVE  LET c == call'.corpse
                          a == call'.args
                          d == c.deed
                      IN /\ (a.key = d.decoy_key /\ c.decoy = "whole")
                              => call'.result = content(d, d.decoy_obj)
                         /\ (a.key = d.real_key /\ c.real = "whole"
                               /\ d.real_key # d.decoy_key)
                              => call'.result = content(d, d.real_obj)
    BY DEF vars
  <2>1. PICK c \in wire, a \in ReviveArgs : Revive(c, a)
    BY DEF Next, Kill, KillRaises, Tick, Damage, Call, NoCall
  <2>2. call'.corpse = c /\ call'.args = a
    BY <2>1 DEF Revive, ReviveRefused, ReviveOddNonce, ReviveNoBlock, ReviveOpened,
       Returns, Call
  <2> HIDE DEF content
  <2> QED
    BY <2>1, <2>2, <1>1
<1> QED
  BY DualInductive, <1>2, PTL DEF Spec, BlocksIndependent
=============================================================================
