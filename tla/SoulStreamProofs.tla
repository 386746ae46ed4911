-------------------------- MODULE SoulStreamProofs --------------------------
(***************************************************************************)
(* Theorems about SoulStream.tla: for any source, any number of faults of  *)
(* the transport and any use of destroy.  That the stream is an ordered    *)
(* pipe needs the ratchet on; what does not has an invariant of its own.   *)
(***************************************************************************)
EXTENDS SoulStream, SequenceTheorems, TLAPS

\* The chain of steps a Streamer that was never destroyed has behind it.
Chain(n) == [i \in 1 .. n |-> i - 1]
Session(n) == [root |-> "session", steps |-> Chain(n)]

\* What the transport can hold: damaged or not, something that was sealed.
Known == {w \in WireChunk :
            \E i \in 1 .. Len(sealed) : w.chunk = sealed[i].chunk /\ w.key = sealed[i].key}

\* A Streamer that was not destroyed has ratcheted once for each chunk.
KeyChain ==
  /\ step["sender"] = Len(sealed)
  /\ step["receiver"] = Len(delivered)
  /\ \A e \in Ends : IF e \in wiped THEN key[e].root = "zero"
                     ELSE key[e] = Session(step[e])

\* A chunk under a key of the session was sealed under the one of its place.
SealedChain ==
  \A i \in 1 .. Len(sealed) :
    \/ sealed[i].key = Session(i - 1)
    \/ "sender" \in wiped /\ sealed[i].key.root = "zero"

InFlight == channel \in Seq(Seq(Known) \ {<< >>})

\* The inductive invariant.
SInv == TypeOK /\ KeyChain /\ SealedChain /\ InFlight /\ DeliveredInOrder

USE StreamAssumption

-----------------------------------------------------------------------------
(* Chains                                                                  *)

\* The chain of n steps is a sequence of length n.
LEMMA ChainLen ==
  ASSUME NEW n \in Nat
  PROVE  Chain(n) \in Seq(Nat) /\ Len(Chain(n)) = n
BY DEF Chain

\* One more step makes the chain one longer.
LEMMA ChainAppend ==
  ASSUME NEW n \in Nat
  PROVE  Append(Chain(n), n) = Chain(n + 1)
<1>0. Chain(n) \in Seq(Nat) /\ Len(Chain(n)) = n
  BY ChainLen
<1> DEFINE c == Chain(n)
<1> HIDE DEF c
<1>1. /\ Append(c, n) \in Seq(Nat)
      /\ Len(Append(c, n)) = n + 1
      /\ \A i \in 1 .. n : Append(c, n)[i] = c[i]
      /\ Append(c, n)[n + 1] = n
  BY <1>0, AppendProperties DEF c
<1> USE DEF c
<1>2. Chain(n + 1) \in Seq(Nat) /\ Len(Chain(n + 1)) = n + 1
  BY ChainLen
<1>3. ASSUME NEW i \in 1 .. n + 1
      PROVE  Append(Chain(n), n)[i] = Chain(n + 1)[i]
  <2>1. Chain(n + 1)[i] = i - 1
    BY DEF Chain
  <2>2. CASE i \in 1 .. n
    <3>1. Chain(n)[i] = i - 1
      BY <2>2 DEF Chain
    <3>2. QED
      BY <1>1, <2>1, <2>2, <3>1
  <2>3. CASE i = n + 1
    BY <1>1, <2>1, <2>3
  <2>4. i \in 1 .. n \/ i = n + 1
    OBVIOUS
  <2>5. QED
    BY <2>2, <2>3, <2>4
<1>4. QED
  BY <1>1, <1>2, <1>3, SeqEqual

\* Keys of different steps of a session differ, and a later one does not lead
\* back to an earlier one.
LEMMA SessionApart ==
  ASSUME NEW m \in Nat, NEW n \in Nat
  PROVE  /\ Session(m) = Session(n) => m = n
         /\ Derives(Session(m), Session(n)) => m <= n
         /\ Session(n) \in SoulKey
BY ChainLen DEF Session, Derives, IsPrefix, SoulKey

\* Ratcheting the key of step n gives the key of step n + 1.
LEMMA SessionRatchet ==
  ASSUME NEW n \in Nat
  PROVE  RatchetKey(Session(n), n) = Session(n + 1)
<1>1. RatchetKey(Session(n), n) = [root |-> "session", steps |-> Append(Chain(n), n)]
  BY DEF RatchetKey, Session
<1>2. QED
  BY <1>1, ChainAppend DEF Session

-----------------------------------------------------------------------------
(* The transport keeps a sequence of reads a sequence of reads.            *)

\* Removing an element leaves a sequence of the same elements.
LEMMA RemoveAtType ==
  ASSUME NEW S, NEW s \in Seq(S), NEW i \in 1 .. Len(s)
  PROVE  RemoveAt(s, i) \in Seq(S)
<1>1. \A j \in 1 .. i - 1 : s[j] \in S
  BY ElementOfSeq, LenProperties
<1>2. \A j \in i + 1 .. Len(s) : s[j] \in S
  BY ElementOfSeq, LenProperties
<1>3. SubSeq(s, 1, i - 1) \in Seq(S) /\ SubSeq(s, i + 1, Len(s)) \in Seq(S)
  BY <1>1, <1>2, SubSeqProperties, LenProperties
<1>4. QED
  BY <1>3, ConcatProperties DEF RemoveAt

\* S is the set of wire chunks the reads may hold, closed under damage.
LEMMA TransportType ==
  ASSUME NEW S, \A w \in S, s \in Shapes : [w EXCEPT !.shape = s] \in S,
         channel \in Seq(Seq(S) \ {<< >>}), Transport
  PROVE  channel' \in Seq(Seq(S) \ {<< >>})
<1> DEFINE R == Seq(S) \ {<< >>}
<1>1. CASE \E i \in 1 .. Len(channel) : Lose(i)
  BY <1>1, RemoveAtType DEF Lose, Interfere
<1>2. CASE \E i \in 1 .. Len(channel) : \E s \in Shapes \ {"whole"} : Mangle(i, s)
  <2>1. PICK i \in 1 .. Len(channel), s \in Shapes : Mangle(i, s)
    BY <1>2
  <2>2. channel[i] \in R
    BY ElementOfSeq
  <2>3. channel[i] \in Seq(S) /\ 1 \in 1 .. Len(channel[i])
    BY <2>2, LenProperties, EmptySeq
  <2> DEFINE r == [channel[i] EXCEPT ![1].shape = s]
  <2>4. [channel[i][1] EXCEPT !.shape = s] \in S
    BY <2>3, ElementOfSeq
  <2>5. r \in Seq(S) /\ Len(r) = Len(channel[i])
    BY <2>3, <2>4, ExceptSeq
  <2>6. r \in R
    BY <2>3, <2>5
  <2>7. channel' = [channel EXCEPT ![i] = r]
    BY <2>1 DEF Mangle, Interfere
  <2>8. QED
    BY <2>6, <2>7, ExceptSeq
<1>3. CASE \E i \in 1 .. Len(channel) - 1 : Swap(i)
  <2>1. PICK i \in 1 .. Len(channel) - 1 : Swap(i)
    BY <1>3
  <2>2. i \in 1 .. Len(channel) /\ i + 1 \in 1 .. Len(channel)
    BY LenProperties
  <2>3. channel[i] \in R /\ channel[i + 1] \in R
    BY <2>2, ElementOfSeq
  <2> DEFINE c == [channel EXCEPT ![i] = channel[i + 1]]
  <2>4. c \in Seq(R) /\ Len(c) = Len(channel)
    BY <2>2, <2>3, ExceptSeq
  <2>5. [c EXCEPT ![i + 1] = channel[i]] \in Seq(R)
    BY <2>2, <2>3, <2>4, ExceptSeq
  <2>6. QED
    BY <2>1, <2>5 DEF Swap, Interfere
<1>4. CASE \E i \in 1 .. Len(channel) - 1 : Merge(i)
  <2>1. PICK i \in 1 .. Len(channel) - 1 : Merge(i)
    BY <1>4
  <2>2. i \in 1 .. Len(channel) /\ i + 1 \in 1 .. Len(channel)
    BY LenProperties
  <2>3. channel[i] \in R /\ channel[i + 1] \in R
    BY <2>2, ElementOfSeq
  <2> DEFINE r == channel[i] \o channel[i + 1]
  <2>4. r \in R
    <3>1. r \in Seq(S) /\ Len(r) = Len(channel[i]) + Len(channel[i + 1])
      BY <2>3, ConcatProperties
    <3>2. Len(channel[i]) > 0 /\ Len(channel[i + 1]) >= 0
      BY <2>3, LenProperties, EmptySeq
    <3>3. QED
      BY <3>1, <3>2, EmptySeq, LenProperties
  <2>5. /\ [channel EXCEPT ![i] = r] \in Seq(R)
        /\ Len([channel EXCEPT ![i] = r]) = Len(channel)
    BY <2>2, <2>4, ExceptSeq
  <2>6. RemoveAt([channel EXCEPT ![i] = r], i + 1) \in Seq(R)
    BY <2>2, <2>5, RemoveAtType
  <2>7. QED
    BY <2>1, <2>6 DEF Merge, Interfere
<1>5. QED
  BY <1>1, <1>2, <1>3, <1>4 DEF Transport

-----------------------------------------------------------------------------
(* Steps that several actions share.                                       *)

\* Reads of known chunks are reads of a larger set of known chunks.
LEMMA SeqMonotone ==
  ASSUME NEW S, NEW T, S \subseteq T
  PROVE  Seq(Seq(S) \ {<< >>}) \subseteq Seq(Seq(T) \ {<< >>})
<1>1. ASSUME NEW U, NEW V, U \subseteq V, NEW s \in Seq(U)
      PROVE  s \in Seq(V)
  BY <1>1, ElementOfSeq, LenProperties
<1>2. Seq(S) \ {<< >>} \subseteq Seq(T) \ {<< >>}
  BY <1>1
<1>3. QED
  BY <1>1, <1>2

\* A damaged chunk still says what was sealed, and under what.
LEMMA KnownDamaged ==
  ASSUME NEW w \in Known, NEW s \in Shapes
  PROVE  [w EXCEPT !.shape = s] \in Known
BY DEF Known, WireChunk

\* A ratchet moves one end one step along its chain.
LEMMA Ratcheted ==
  ASSUME Ratchet, TypeOK, NEW e \in Ends, RatchetForward(e),
         IF e \in wiped THEN key[e].root = "zero" ELSE key[e] = Session(step[e])
  PROVE  /\ key' \in [Ends -> SoulKey] /\ step' \in [Ends -> Nat]
         /\ step'[e] = step[e] + 1
         /\ IF e \in wiped THEN key'[e].root = "zero" ELSE key'[e] = Session(step[e] + 1)
         /\ \A f \in Ends \ {e} : key'[f] = key[f] /\ step'[f] = step[f]
<1>1. /\ key \in [Ends -> SoulKey] /\ step \in [Ends -> Nat]
      /\ key[e].root \in {"session", "zero"} /\ key[e].steps \in Seq(Nat)
  BY DEF TypeOK, SoulKey
<1>2. /\ key' = [key EXCEPT ![e] = RatchetKey(key[e], step[e])]
      /\ step' = [step EXCEPT ![e] = step[e] + 1]
  BY DEF RatchetForward
<1>3. Append(key[e].steps, step[e]) \in Seq(Nat)
  BY <1>1, AppendProperties
<1>4. RatchetKey(key[e], step[e]) \in SoulKey
  BY <1>1, <1>3 DEF RatchetKey, SoulKey
<1>5. RatchetKey(key[e], step[e]).root = key[e].root
  BY DEF RatchetKey
<1>6. e \notin wiped => RatchetKey(key[e], step[e]) = Session(step[e] + 1)
  BY <1>1, SessionRatchet
<1>7. QED
  BY <1>1, <1>2, <1>4, <1>5, <1>6

\* SInv reads neither fed nor raised nor faults beyond their types, and of the
\* channel only what it may hold.
LEMMA ChannelStep ==
  ASSUME SInv, UNCHANGED <<key, step, wiped, sealed, delivered>>,
         fed' \in 0 .. Len(Source), raised' \in BOOLEAN, faults' \in 0 .. MaxFaults,
         channel' \in Seq(Seq(Known) \ {<< >>})
  PROVE  SInv'
<1>1. Known' = Known
  BY DEF Known
<1>2. Known \subseteq WireChunk
  BY DEF Known
<1>3. channel' \in Seq(Seq(WireChunk) \ {<< >>})
  BY <1>2, SeqMonotone
<1>4. TypeOK'
  BY <1>3 DEF SInv, TypeOK
<1>5. KeyChain' /\ SealedChain' /\ InFlight' /\ DeliveredInOrder'
  BY <1>1 DEF SInv, KeyChain, SealedChain, InFlight, DeliveredInOrder, BothWiped
<1>6. QED
  BY <1>4, <1>5 DEF SInv

-----------------------------------------------------------------------------
(* The invariant, action by action.                                        *)

\* seal appends a chunk under the key of its place.
LEMMA SealStep ==
  ASSUME Ratchet, SInv, Seal
  PROVE  SInv'
<1> DEFINE w == [chunk |-> fed + 1, key |-> key["sender"], shape |-> "whole"]
           n == Len(sealed)
<1>1. /\ w \in WireChunk /\ n \in Nat /\ "sender" \in Ends
      /\ w.key = key["sender"] /\ w.chunk = fed + 1
  BY DEF Seal, SInv, TypeOK, WireChunk, Shapes, Ends
<1>2. /\ sealed' = Append(sealed, w) /\ channel' = Append(channel, <<w>>)
      /\ fed' = fed + 1
      /\ UNCHANGED <<wiped, delivered, raised, faults>>
      /\ RatchetForward("sender")
  BY DEF Seal
<1>3. /\ sealed' \in Seq(WireChunk) /\ Len(sealed') = n + 1
      /\ \A i \in 1 .. n : sealed'[i] = sealed[i]
      /\ sealed'[n + 1] = w
  BY <1>1, <1>2, AppendProperties DEF SInv, TypeOK
<1>4. IF "sender" \in wiped THEN key["sender"].root = "zero"
      ELSE key["sender"] = Session(n)
  BY <1>1 DEF SInv, KeyChain
<1>5. /\ key' \in [Ends -> SoulKey] /\ step' \in [Ends -> Nat]
      /\ step'["sender"] = n + 1
      /\ IF "sender" \in wiped THEN key'["sender"].root = "zero"
         ELSE key'["sender"] = Session(n + 1)
      /\ key'["receiver"] = key["receiver"] /\ step'["receiver"] = step["receiver"]
  BY <1>1, <1>2, <1>4, Ratcheted DEF SInv, KeyChain, Ends
<1>6. InFlight'
  <2>1. Known \subseteq Known'
    <3>1. ASSUME NEW u \in Known PROVE u \in Known'
      <4>1. PICK i \in 1 .. n : u.chunk = sealed[i].chunk /\ u.key = sealed[i].key
        BY DEF Known
      <4>2. i \in 1 .. Len(sealed') /\ sealed'[i] = sealed[i]
        BY <1>1, <1>3
      <4>3. QED
        BY <4>1, <4>2 DEF Known
    <3>2. QED
      BY <3>1
  <2>2. w \in Known'
    <3>1. n + 1 \in 1 .. Len(sealed')
      BY <1>1, <1>3
    <3>2. QED
      BY <1>1, <1>3, <3>1 DEF Known
  <2>3. <<w>> \in Seq(Known') \ {<< >>}
    BY <2>2
  <2>4. channel \in Seq(Seq(Known') \ {<< >>})
    BY <2>1, SeqMonotone DEF SInv, InFlight
  <2>5. channel' \in Seq(Seq(Known') \ {<< >>})
    BY <1>2, <2>3, <2>4, AppendProperties
  <2>6. QED
    BY <2>5 DEF InFlight
<1>7. TypeOK'
  <2>1. Known' \subseteq WireChunk
    BY DEF Known
  <2>2. channel' \in Seq(Seq(WireChunk) \ {<< >>})
    BY <1>6, <2>1, SeqMonotone DEF InFlight
  <2>3. fed' \in 0 .. Len(Source)
    BY <1>2 DEF Seal, SInv, TypeOK
  <2>4. QED
    BY <1>2, <1>3, <1>5, <2>2, <2>3 DEF SInv, TypeOK
<1>8. KeyChain'
  BY <1>2, <1>3, <1>5 DEF SInv, KeyChain, Ends
<1>9. SealedChain'
  <2>1. ASSUME NEW i \in 1 .. n + 1
        PROVE  \/ sealed'[i].key = Session(i - 1)
               \/ "sender" \in wiped /\ sealed'[i].key.root = "zero"
    <3>1. CASE i \in 1 .. n
      BY <1>3, <3>1 DEF SInv, SealedChain
    <3>2. CASE i = n + 1
      <4>1. i - 1 = n /\ sealed'[i].key = key["sender"]
        BY <1>1, <1>3, <3>2
      <4>2. QED
        BY <1>4, <4>1
    <3>3. QED
      BY <1>1, <3>1, <3>2
  <2>2. QED
    BY <1>2, <1>3, <2>1 DEF SealedChain
<1>10. DeliveredInOrder'
  <2> SUFFICES ASSUME ~BothWiped
               PROVE  /\ Len(delivered) <= Len(sealed')
                      /\ \A i \in 1 .. Len(delivered) : delivered[i] = sealed'[i].chunk
    BY <1>2 DEF DeliveredInOrder, BothWiped
  <2>1. Len(delivered) \in Nat /\ Len(delivered) <= n
    BY DEF SInv, TypeOK, DeliveredInOrder
  <2>2. ASSUME NEW i \in 1 .. Len(delivered)
        PROVE  delivered[i] = sealed'[i].chunk
    <3>1. i \in 1 .. n
      BY <1>1, <2>1
    <3>2. delivered[i] = sealed[i].chunk
      BY DEF SInv, DeliveredInOrder
    <3>3. QED
      BY <1>3, <3>1, <3>2
  <2>3. QED
    BY <1>1, <1>3, <2>1, <2>2
<1>11. QED
  BY <1>6, <1>7, <1>8, <1>9, <1>10 DEF SInv

\* open yields the next chunk that was sealed.
LEMMA OpenYieldsStep ==
  ASSUME Ratchet, SInv, OpenYields
  PROVE  SInv'
<1> DEFINE w == Head(Head(channel))
           n == Len(delivered)
<1>1. /\ Head(channel) \in Seq(Known) /\ Head(channel) # << >>
      /\ Tail(channel) \in Seq(Seq(Known) \ {<< >>})
  BY HeadTailProperties DEF SInv, InFlight, OpenYields
<1>2. w \in Known
  BY <1>1, HeadTailProperties
<1>3. PICK i \in 1 .. Len(sealed) : w.chunk = sealed[i].chunk /\ w.key = sealed[i].key
  BY <1>2 DEF Known
<1>4. /\ w.key = key["receiver"]
      /\ channel' = Tail(channel) /\ delivered' = Append(delivered, w.chunk)
      /\ RatchetForward("receiver")
      /\ UNCHANGED <<wiped, fed, sealed, raised, faults>>
  BY DEF OpenYields, Opens
<1>5. /\ n \in Nat /\ w.chunk \in DOMAIN Source /\ Len(sealed) \in Nat
      /\ "receiver" \in Ends
  <2>1. w.chunk \in DOMAIN Source
    BY <1>2 DEF Known, WireChunk
  <2>2. n \in Nat /\ Len(sealed) \in Nat
    BY LenProperties DEF SInv, TypeOK
  <2>3. QED
    BY <2>1, <2>2 DEF Ends
<1>6. /\ delivered' \in Seq(DOMAIN Source) /\ Len(delivered') = n + 1
      /\ \A j \in 1 .. n : delivered'[j] = delivered[j]
      /\ delivered'[n + 1] = w.chunk
  BY <1>4, <1>5, AppendProperties DEF SInv, TypeOK
<1>7. IF "receiver" \in wiped THEN key["receiver"].root = "zero"
      ELSE key["receiver"] = Session(n)
  BY <1>5 DEF SInv, KeyChain
<1>8. /\ key' \in [Ends -> SoulKey] /\ step' \in [Ends -> Nat]
      /\ step'["receiver"] = n + 1
      /\ IF "receiver" \in wiped THEN key'["receiver"].root = "zero"
         ELSE key'["receiver"] = Session(n + 1)
      /\ key'["sender"] = key["sender"] /\ step'["sender"] = step["sender"]
  BY <1>4, <1>5, <1>7, Ratcheted DEF SInv, KeyChain, Ends
<1>9. Known' = Known
  BY <1>4 DEF Known
<1>10. InFlight'
  BY <1>1, <1>4, <1>9 DEF InFlight
<1>11. TypeOK'
  <2>1. Known \subseteq WireChunk
    BY DEF Known
  <2>2. channel' \in Seq(Seq(WireChunk) \ {<< >>})
    BY <1>1, <1>4, <2>1, SeqMonotone
  <2>3. QED
    BY <1>4, <1>6, <1>8, <2>2 DEF SInv, TypeOK
<1>12. KeyChain'
  BY <1>4, <1>6, <1>8 DEF SInv, KeyChain, Ends
<1>13. SealedChain'
  BY <1>4 DEF SInv, SealedChain
<1>14. DeliveredInOrder'
  <2> SUFFICES ASSUME ~BothWiped PROVE DeliveredInOrder'
    BY <1>4 DEF DeliveredInOrder, BothWiped
  \* The two roots differ: a receiver that alone is destroyed opens nothing, nor
  \* does one that alone is not open what was sealed after destroy.
  <2>1. Session(i - 1).root = "session" /\ Session(n).root = "session"
    BY DEF Session
  <2>2. "receiver" \notin wiped /\ sealed[i].key = Session(i - 1)
    <3>1. "sender" \notin wiped \/ "receiver" \notin wiped
      BY DEF SInv, TypeOK, BothWiped, Ends
    <3>2. \/ sealed[i].key = Session(i - 1)
          \/ "sender" \in wiped /\ sealed[i].key.root = "zero"
      BY <1>3 DEF SInv, SealedChain
    <3>3. sealed[i].key = key["receiver"]
      BY <1>3, <1>4
    <3>4. CASE "receiver" \in wiped
      BY <1>7, <2>1, <3>1, <3>2, <3>3, <3>4
    <3>5. CASE "receiver" \notin wiped
      BY <1>7, <2>1, <3>2, <3>3, <3>5
    <3>6. QED
      BY <3>4, <3>5
  <2>3. i - 1 \in Nat
    BY <1>3, <1>5
  <2>4. i - 1 = n
    BY <1>3, <1>4, <1>5, <1>7, <2>2, <2>3, SessionApart
  <2>5. w.chunk = sealed[n + 1].chunk /\ n + 1 <= Len(sealed)
    BY <1>3, <1>5, <2>4
  <2>6. QED
    BY <1>4, <1>5, <1>6, <2>5 DEF SInv, DeliveredInOrder, BothWiped
<1>15. QED
  BY <1>10, <1>11, <1>12, <1>13, <1>14 DEF SInv

\* A destroyed end leaves the session for good.
LEMMA DestroyStep ==
  ASSUME Ratchet, SInv, NEW e \in Ends, Destroy(e)
  PROVE  SInv'
<1>1. /\ key' = [key EXCEPT ![e] = ZeroKey] /\ wiped' = wiped \cup {e}
      /\ e \in Destroyable
      /\ UNCHANGED <<step, fed, sealed, channel, delivered, raised, faults>>
  BY DEF Destroy
<1>2. ZeroKey \in SoulKey /\ ZeroKey.root = "zero"
  BY EmptySeq DEF ZeroKey, SoulKey
<1>3. TypeOK'
  BY <1>1, <1>2 DEF SInv, TypeOK
<1>4. KeyChain'
  BY <1>1, <1>2 DEF SInv, TypeOK, KeyChain
<1>5. Known' = Known
  BY <1>1 DEF Known
<1>6. SealedChain' /\ InFlight'
  BY <1>1, <1>5 DEF SInv, SealedChain, InFlight
<1>7. DeliveredInOrder'
  BY <1>1 DEF SInv, TypeOK, DeliveredInOrder, BothWiped
<1>8. QED
  BY <1>3, <1>4, <1>6, <1>7 DEF SInv

\* Every step keeps the invariant.
LEMMA NextStep ==
  ASSUME Ratchet, SInv, [Next]_vars
  PROVE  SInv'
<1>1. CASE SealSkips
  BY <1>1, ChannelStep DEF SealSkips, SInv, TypeOK, InFlight
<1>2. CASE OpenRaises
  <2>1. Tail(channel) \in Seq(Seq(Known) \ {<< >>})
    BY <1>2, HeadTailProperties DEF OpenRaises, SInv, InFlight
  <2>2. QED
    BY <1>2, <2>1, ChannelStep DEF OpenRaises, SInv, TypeOK
<1>3. CASE \E i \in 1 .. Len(sealed) : Resend(i)
  <2>1. PICK i \in 1 .. Len(sealed) : Resend(i)
    BY <1>3
  <2>2. sealed[i] \in Known
    BY ElementOfSeq DEF SInv, TypeOK, Known
  <2>3. <<sealed[i]>> \in Seq(Known) \ {<< >>}
    BY <2>2
  <2>4. channel' \in Seq(Seq(Known) \ {<< >>})
    BY <2>1, <2>3, AppendProperties DEF Resend, SInv, InFlight
  <2>5. QED
    BY <2>1, <2>4, ChannelStep DEF Resend, SInv, TypeOK
<1>4. CASE Transport
  <2>1. channel' \in Seq(Seq(Known) \ {<< >>})
    BY <1>4, KnownDamaged, TransportType DEF SInv, InFlight
  <2>2. /\ faults < MaxFaults /\ faults' = faults + 1
        /\ UNCHANGED <<key, step, wiped, fed, sealed, delivered, raised>>
    BY <1>4 DEF Transport, Lose, Swap, Mangle, Merge, Interfere
  <2>3. QED
    BY <2>1, <2>2, ChannelStep DEF SInv, TypeOK
<1>5. CASE UNCHANGED vars
  BY <1>5, ChannelStep DEF vars, SInv, TypeOK, InFlight
<1>6. QED
  BY <1>1, <1>2, <1>3, <1>4, <1>5, SealStep, OpenYieldsStep, DestroyStep DEF Next, Open

\* Both ends start with the session key.
LEMMA InitStep == Init => SInv
<1> SUFFICES ASSUME Init PROVE SInv
  OBVIOUS
<1>1. Session(0) = SessionKey /\ SessionKey \in SoulKey
  BY EmptySeq DEF Session, Chain, SessionKey, SoulKey
<1>2. TypeOK
  <2>1. /\ sealed \in Seq(WireChunk) /\ delivered \in Seq(DOMAIN Source)
        /\ channel \in Seq(Seq(WireChunk) \ {<< >>})
    BY EmptySeq DEF Init
  <2>2. key \in [Ends -> SoulKey] /\ step \in [Ends -> Nat]
    BY <1>1 DEF Init
  <2>3. fed \in 0 .. Len(Source) /\ faults \in 0 .. MaxFaults
    BY LenProperties DEF Init
  <2>4. QED
    BY <2>1, <2>2, <2>3 DEF Init, TypeOK
<1>3. KeyChain
  <2>1. Len(sealed) = 0 /\ Len(delivered) = 0 /\ wiped = {}
    BY DEF Init
  <2>2. \A e \in Ends : key[e] = Session(0) /\ step[e] = 0
    BY <1>1 DEF Init
  <2>3. QED
    BY <2>1, <2>2 DEF KeyChain, Ends
<1>4. SealedChain /\ InFlight /\ DeliveredInOrder
  BY EmptySeq DEF Init, SealedChain, InFlight, DeliveredInOrder
<1>5. QED
  BY <1>2, <1>3, <1>4 DEF SInv

\* Every reachable state satisfies the inductive invariant.
THEOREM StreamInductive ==
  ASSUME Ratchet
  PROVE  Spec => []SInv
<1>1. SInv /\ [Next]_vars => SInv'
  BY NextStep
<1>2. QED
  BY InitStep, <1>1, PTL DEF Spec

-----------------------------------------------------------------------------
(* With the ratchet off                                                    *)

\* The keys stay what they were, until they are wiped.
SteadyKeys == \A e \in Ends : key[e] = IF e \in wiped THEN ZeroKey ELSE SessionKey

\* The inductive invariant without the ratchet.
PlainInv == TypeOK /\ SteadyKeys

LEMMA PlainStep ==
  ASSUME ~Ratchet, PlainInv, [Next]_vars
  PROVE  PlainInv'
<1> DEFINE Reads == Seq(Seq(WireChunk) \ {<< >>})
<1>0. /\ key \in [Ends -> SoulKey] /\ channel \in Reads
      /\ sealed \in Seq(WireChunk) /\ delivered \in Seq(DOMAIN Source)
  BY DEF PlainInv, TypeOK
<1>1. ASSUME channel' \in Reads, UNCHANGED <<key, step, wiped, sealed, delivered>>,
             fed' \in 0 .. Len(Source), raised' \in BOOLEAN, faults' \in 0 .. MaxFaults
      PROVE  PlainInv'
  BY <1>1 DEF PlainInv, TypeOK, SteadyKeys
<1>2. CASE Seal
  <2> DEFINE w == [chunk |-> fed + 1, key |-> key["sender"], shape |-> "whole"]
  <2>1. w \in WireChunk
    BY <1>2 DEF Seal, PlainInv, TypeOK, WireChunk, Shapes, Ends
  <2>2. sealed' = Append(sealed, w) /\ channel' = Append(channel, <<w>>)
    BY <1>2 DEF Seal
  <2>3. /\ UNCHANGED <<key, step, wiped, delivered, raised, faults>>
        /\ fed' \in 0 .. Len(Source)
    BY <1>2 DEF Seal, RatchetForward, PlainInv, TypeOK
  <2> HIDE DEF w
  <2>4. <<w>> \in Seq(WireChunk) \ {<< >>}
    BY <2>1
  <2>5. sealed' \in Seq(WireChunk) /\ channel' \in Reads
    BY <1>0, <2>1, <2>2, <2>4, AppendProperties
  <2>6. QED
    BY <2>3, <2>5 DEF PlainInv, TypeOK, SteadyKeys
<1>3. CASE OpenYields
  <2>1. /\ Head(channel) \in Seq(WireChunk) /\ Head(channel) # << >>
        /\ Tail(channel) \in Reads
    BY <1>0, <1>3, HeadTailProperties DEF OpenYields
  <2>2. Head(Head(channel)).chunk \in DOMAIN Source
    <3>1. Head(Head(channel)) \in WireChunk
      BY <2>1, HeadTailProperties
    <3>2. QED
      BY <3>1 DEF WireChunk
  <2>3. /\ channel' = Tail(channel)
        /\ delivered' = Append(delivered, Head(Head(channel)).chunk)
        /\ UNCHANGED <<key, step, wiped, fed, sealed, raised, faults>>
    BY <1>3 DEF OpenYields, RatchetForward
  <2>4. delivered' \in Seq(DOMAIN Source)
    BY <1>0, <2>2, <2>3, AppendProperties
  <2>5. QED
    BY <2>1, <2>3, <2>4 DEF PlainInv, TypeOK, SteadyKeys
<1>4. CASE OpenRaises
  <2>1. Tail(channel) \in Reads
    BY <1>0, <1>4, HeadTailProperties DEF OpenRaises
  <2>2. QED
    BY <1>1, <1>4, <2>1 DEF OpenRaises, PlainInv, TypeOK
<1>5. CASE \E e \in Ends : Destroy(e)
  <2>1. PICK e \in Ends : Destroy(e)
    BY <1>5
  <2>2. ZeroKey \in SoulKey
    BY EmptySeq DEF ZeroKey, SoulKey
  <2>3. key' = [key EXCEPT ![e] = ZeroKey] /\ wiped' = wiped \cup {e} /\ e \in Destroyable
    BY <2>1 DEF Destroy
  <2>4. UNCHANGED <<step, fed, sealed, channel, delivered, raised, faults>>
    BY <2>1 DEF Destroy
  <2>5. QED
    BY <1>0, <2>2, <2>3, <2>4 DEF PlainInv, TypeOK, SteadyKeys
<1>6. CASE \E i \in 1 .. Len(sealed) : Resend(i)
  <2>1. PICK i \in 1 .. Len(sealed) : Resend(i)
    BY <1>6
  <2>2. <<sealed[i]>> \in Seq(WireChunk) \ {<< >>}
    BY <1>0, ElementOfSeq
  <2>3. channel' \in Reads
    BY <1>0, <2>1, <2>2, AppendProperties DEF Resend
  <2>4. QED
    BY <1>1, <2>1, <2>3 DEF Resend, PlainInv, TypeOK
<1>7. CASE Transport
  <2>1. \A w \in WireChunk, s \in Shapes : [w EXCEPT !.shape = s] \in WireChunk
    BY DEF WireChunk
  <2>2. channel' \in Reads
    BY <1>0, <1>7, <2>1, TransportType
  <2>3. /\ faults < MaxFaults /\ faults' = faults + 1
        /\ UNCHANGED <<key, step, wiped, fed, sealed, delivered, raised>>
    BY <1>7 DEF Transport, Lose, Swap, Mangle, Merge, Interfere
  <2>4. QED
    BY <1>1, <2>2, <2>3 DEF PlainInv, TypeOK
<1>8. CASE SealSkips \/ UNCHANGED vars
  BY <1>0, <1>1, <1>8 DEF SealSkips, vars, PlainInv, TypeOK
<1>9. QED
  BY <1>2, <1>3, <1>4, <1>5, <1>6, <1>7, <1>8 DEF Next, Open

\* Every reachable state of a stream without the ratchet satisfies it.
THEOREM PlainInductive ==
  ASSUME ~Ratchet
  PROVE  Spec => []PlainInv
<1>1. Init => PlainInv
  BY InitStep DEF Init, SInv, PlainInv, SteadyKeys
<1>2. PlainInv /\ [Next]_vars => PlainInv'
  BY PlainStep
<1>3. QED
  BY <1>1, <1>2, PTL DEF Spec

-----------------------------------------------------------------------------
(* Theorems                                                                *)

\* Every variable keeps its type, with the ratchet and without.
THEOREM StreamTypeCorrect == Spec => []TypeOK
<1>1. CASE Ratchet
  <2>1. SInv => TypeOK
    BY DEF SInv
  <2>2. QED
    BY <1>1, <2>1, StreamInductive, PTL
<1>2. CASE ~Ratchet
  <2>1. PlainInv => TypeOK
    BY DEF PlainInv
  <2>2. QED
    BY <1>2, <2>1, PlainInductive, PTL
<1>3. QED
  BY <1>1, <1>2

\* The reader gets a prefix of what was sealed, in order, whatever the transport
\* does (stream.py:11-12, 112-120).
THEOREM DeliveredInOrderHolds == Spec => []DeliveredInOrder
<1>1. CASE Ratchet
  <2>1. SInv => DeliveredInOrder
    BY DEF SInv
  <2>2. QED
    BY <1>1, <2>1, StreamInductive, PTL
<1>2. CASE ~Ratchet
  <2>1. DeliveredInOrder
    BY <1>2 DEF DeliveredInOrder
  <2>2. QED
    BY <2>1, PTL
<1>3. QED
  BY <1>1, <1>2

\* The chain of keys leads forward only.
LEMMA InvPastIsSafe == SInv => PastIsSafe
<1> SUFFICES ASSUME SInv, NEW i \in 1 .. Len(sealed), sealed[i].key.root = "session"
             PROVE  /\ ~Derives(key["sender"], sealed[i].key)
                    /\ i <= Len(delivered) => ~Derives(key["receiver"], sealed[i].key)
  BY DEF PastIsSafe
<1>1. Len(sealed) \in Nat /\ Len(delivered) \in Nat /\ i - 1 \in Nat /\ i \in Nat
  BY LenProperties DEF SInv, TypeOK
<1>2. sealed[i].key = Session(i - 1)
  BY DEF SInv, SealedChain
<1>3. /\ \/ key["sender"].root = "zero"
         \/ key["sender"] = Session(Len(sealed))
      /\ \/ key["receiver"].root = "zero"
         \/ key["receiver"] = Session(Len(delivered))
  BY DEF SInv, KeyChain, Ends
<1>4. ASSUME NEW k, k.root = "zero" PROVE ~Derives(k, sealed[i].key)
  BY <1>4 DEF Derives
<1>5. ASSUME NEW n \in Nat, i <= n PROVE ~Derives(Session(n), sealed[i].key)
  <2>1. Derives(Session(n), Session(i - 1)) => n <= i - 1
    BY <1>1, SessionApart
  <2>2. QED
    BY <1>1, <1>2, <1>5, <2>1
<1>6. ~Derives(key["sender"], sealed[i].key)
  BY <1>1, <1>3, <1>4, <1>5
<1>7. i <= Len(delivered) => ~Derives(key["receiver"], sealed[i].key)
  BY <1>1, <1>3, <1>4, <1>5
<1>8. QED
  BY <1>6, <1>7

\* Forward secrecy: no key in memory is, or leads by the ratchet to, the key of a
\* chunk that end is done with (stream.py:16-19).
THEOREM PastIsSafeHolds == Spec => []PastIsSafe
<1>1. CASE Ratchet
  BY <1>1, InvPastIsSafe, StreamInductive, PTL
<1>2. CASE ~Ratchet
  <2>1. PastIsSafe
    BY <1>2 DEF PastIsSafe
  <2>2. QED
    BY <2>1, PTL
<1>3. QED
  BY <1>1, <1>2

\* A ratcheting receiver's key is that of the place it has come to.
LEMMA InvInSync ==
  ASSUME Ratchet, SInv
  PROVE  InSync
<1> SUFFICES ASSUME wiped = {} PROVE InSync
  BY DEF InSync
<1>1. Len(sealed) \in Nat /\ Len(delivered) \in Nat
  BY LenProperties DEF SInv, TypeOK
<1>2. /\ key["sender"] = Session(Len(sealed))
      /\ key["receiver"] = Session(Len(delivered))
  BY DEF SInv, KeyChain, Ends
<1>3. Len(delivered) <= Len(sealed)
  <2>1. wiped # Ends
    BY DEF Ends
  <2>2. QED
    BY <2>1 DEF SInv, DeliveredInOrder, BothWiped
<1>4. CASE Len(delivered) < Len(sealed)
  <2>1. Len(delivered) + 1 \in 1 .. Len(sealed)
    BY <1>1, <1>4
  <2>2. sealed[Len(delivered) + 1].key = Session(Len(delivered) + 1 - 1)
    BY <2>1 DEF SInv, SealedChain
  <2>3. Len(delivered) + 1 - 1 = Len(delivered)
    BY <1>1
  <2>4. QED
    BY <1>2, <1>4, <2>2, <2>3 DEF InSync
<1>5. CASE Len(delivered) = Len(sealed)
  BY <1>1, <1>2, <1>5 DEF InSync
<1>6. QED
  BY <1>1, <1>3, <1>4, <1>5

\* Both ends can go on after any loss, repetition or rejection: the receiver
\* waits for the very next chunk it has not opened (stream.py:130-133).
THEOREM InSyncHolds == Spec => []InSync
<1>1. CASE Ratchet
  BY <1>1, InvInSync, StreamInductive, PTL
<1>2. CASE ~Ratchet
  <2>1. PlainInv => InSync
    BY <1>2 DEF PlainInv, SteadyKeys, InSync, Ends
  <2>2. QED
    BY <1>2, <2>1, PlainInductive, PTL
<1>3. QED
  BY <1>1, <1>2

-----------------------------------------------------------------------------
(* The stream implements OrderedPipe.                                      *)

PutOf(s) == [i \in 1 .. Len(s) |-> s[i].chunk]
Put == PutOf(sealed)

\* What was put into the pipe is the sequence of sealed chunks.
LEMMA PutOfType ==
  ASSUME NEW s \in Seq(WireChunk)
  PROVE  /\ PutOf(s) \in Seq(DOMAIN Source) /\ Len(PutOf(s)) = Len(s)
         /\ \A i \in 1 .. Len(s) : PutOf(s)[i] = s[i].chunk
<1>1. Len(s) \in Nat /\ \A i \in 1 .. Len(s) : s[i] \in WireChunk
  BY LenProperties, ElementOfSeq
<1>2. \A i \in 1 .. Len(s) : s[i].chunk \in DOMAIN Source
  BY <1>1 DEF WireChunk
<1>3. PutOf(s) \in [1 .. Len(s) -> DOMAIN Source]
  BY <1>2 DEF PutOf
<1>4. QED
  BY <1>1, <1>3 DEF PutOf

\* A step of the stream puts, gets or stutters.
LEMMA PipeStep ==
  ASSUME Ratchet, SInv, SInv', Next, ~BothWiped
  PROVE  Pipe!Next \/ UNCHANGED <<sealed, delivered>>
<1>1. CASE Seal
  <2> DEFINE n == Len(sealed)
             w == [chunk |-> fed + 1, key |-> key["sender"], shape |-> "whole"]
  <2>1. w \in WireChunk /\ w.chunk = fed + 1 /\ fed + 1 \in DOMAIN Source
    BY <1>1 DEF Seal, SInv, TypeOK, WireChunk, Shapes, Ends
  <2>2. sealed' = Append(sealed, w) /\ delivered' = delivered
    BY <1>1 DEF Seal
  <2>3. /\ n \in Nat /\ Len(sealed') = n + 1
        /\ \A i \in 1 .. n : sealed'[i] = sealed[i]
        /\ sealed'[n + 1] = w
    BY <2>1, <2>2, AppendProperties DEF SInv, TypeOK
  <2>4. /\ Put \in Seq(DOMAIN Source) /\ Len(Put) = n
        /\ \A i \in 1 .. n : Put[i] = sealed[i].chunk
    BY PutOfType DEF Put, SInv, TypeOK
  <2>5. /\ Append(Put, fed + 1) \in Seq(DOMAIN Source)
        /\ Len(Append(Put, fed + 1)) = n + 1
        /\ \A i \in 1 .. n : Append(Put, fed + 1)[i] = Put[i]
        /\ Append(Put, fed + 1)[n + 1] = fed + 1
    BY <2>1, <2>4, AppendProperties
  <2>6. /\ Put' \in Seq(DOMAIN Source) /\ Len(Put') = n + 1
        /\ \A i \in 1 .. n + 1 : Put'[i] = sealed'[i].chunk
    BY <2>3, PutOfType DEF Put, SInv, TypeOK
  <2>7. ASSUME NEW i \in 1 .. n + 1 PROVE Put'[i] = Append(Put, fed + 1)[i]
    <3>1. CASE i \in 1 .. n
      BY <2>3, <2>4, <2>5, <2>6, <3>1
    <3>2. CASE i = n + 1
      BY <2>1, <2>3, <2>5, <2>6, <3>2
    <3>3. i \in 1 .. n \/ i = n + 1
      BY <2>3
    <3>4. QED
      BY <3>1, <3>2, <3>3
  <2>8. Put' = Append(Put, fed + 1)
    BY <2>5, <2>6, <2>7, SeqEqual
  <2>9. \E x \in DOMAIN Source : Put' = Append(Put, x) /\ UNCHANGED delivered
    BY <2>1, <2>2, <2>8
  <2>10. QED
    BY <2>9 DEF Pipe!Next, Pipe!Put, Put, PutOf
<1>2. CASE OpenYields
  <2> DEFINE n == Len(delivered)
             c == Head(Head(channel)).chunk
  <2>1. delivered' = Append(delivered, c) /\ UNCHANGED <<sealed, wiped>>
    BY <1>2 DEF OpenYields
  <2>2. c \in DOMAIN Source
    BY <1>2, HeadTailProperties DEF OpenYields, SInv, TypeOK, WireChunk
  <2>3. n \in Nat /\ Len(delivered') = n + 1 /\ delivered'[n + 1] = c
    BY <2>1, <2>2, AppendProperties DEF SInv, TypeOK
  <2>4. ~BothWiped'
    BY <2>1 DEF BothWiped
  <2>5. n + 1 <= Len(sealed) /\ c = sealed[n + 1].chunk
    BY <2>1, <2>3, <2>4 DEF SInv, DeliveredInOrder
  <2>6. /\ Len(sealed) \in Nat /\ n + 1 \in 1 .. Len(sealed)
        /\ Len(Put) = Len(sealed)
    BY <2>3, <2>5, LenProperties, PutOfType DEF Put, SInv, TypeOK
  <2>7. Put[n + 1] = c /\ n < Len(Put)
    <3>1. \A i \in 1 .. Len(sealed) : Put[i] = sealed[i].chunk
      BY PutOfType DEF Put, SInv, TypeOK
    <3>2. QED
      BY <2>3, <2>5, <2>6, <3>1
  <2>8. Pipe!Get
    BY <2>1, <2>7 DEF Pipe!Get, Put, PutOf
  <2>9. QED
    BY <2>8 DEF Pipe!Next
<1>3. SealSkips \/ OpenRaises \/ (\E e \in Ends : Destroy(e))
        \/ (\E i \in 1 .. Len(sealed) : Resend(i)) \/ Transport
        => UNCHANGED <<sealed, delivered>>
  BY DEF SealSkips, OpenRaises, Destroy, Resend, Transport, Lose, Swap, Mangle, Merge,
         Interfere
<1>4. QED
  BY <1>1, <1>2, <1>3 DEF Next, Open

\* At first nothing is in the pipe.
LEMMA PipeInit == Init => Pipe!Init
<1> SUFFICES ASSUME Init PROVE Pipe!Init
  OBVIOUS
<1>1. Len(sealed) = 0 /\ delivered = << >>
  BY DEF Init
<1>2. Put \in Seq(DOMAIN Source) /\ Len(Put) = 0
  BY <1>1, EmptySeq, PutOfType DEF Init, Put
<1>3. Put = << >>
  BY <1>2, EmptySeq
<1>4. QED
  BY <1>1, <1>3 DEF Pipe!Init, Put, PutOf

\* As long as one end lives the stream is an ordered pipe: no hole, no
\* repetition, no alteration reaches the reader (stream.py:7-19).
THEOREM StreamIsPipe ==
  ASSUME Ratchet
  PROVE  Spec => ImplementsPipe
<1>1. SInv /\ SInv' /\ [Next]_vars
        => [BothWiped \/ Pipe!Next \/ UNCHANGED <<sealed, delivered>>]_vars
  BY PipeStep
<1>2. QED
  BY PipeInit, <1>1, StreamInductive, PTL DEF Spec, ImplementsPipe

\* Where at most one end may ever be destroyed, it is an ordered pipe for good.
THEOREM StreamIsPipeForGood ==
  ASSUME Ratchet, Destroyable # Ends
  PROVE  Spec => Pipe!Spec
<1>1. SInv => ~BothWiped
  BY DEF SInv, TypeOK, BothWiped
<1>2. SInv /\ SInv' /\ [Next]_vars => [Pipe!Next]_<<Put, delivered>>
  <2>1. UNCHANGED vars => UNCHANGED <<sealed, delivered>>
    BY DEF vars
  <2>2. UNCHANGED <<sealed, delivered>> => UNCHANGED <<Put, delivered>>
    BY DEF Put, PutOf
  <2>3. QED
    BY <1>1, <2>1, <2>2, PipeStep
<1>3. QED
  BY PipeInit, <1>2, StreamInductive, PTL DEF Spec, Pipe!Spec, Put, PutOf
=============================================================================
