------------------------- MODULE ConversationProofs -------------------------
(* Theorems about Conversation.tla, for every set of parties. *)
EXTENDS Conversation, DarkRitualProofs, SequenceTheorems

\* Whose key pairs a shared key is from.
Roots ==
  \A p \in Parties : IsComplete(p) => shared[p] \in {{p, Peer[p]}, {p, Stranger}}

\* A Streamer moves with every chunk, and its log says so.
Logged ==
  \A p \in Parties :
    /\ step[p] = Len(log[p])
    /\ \A i \in 1 .. Len(log[p]) :
         /\ IsComplete(p)
         /\ log[p][i].chunk.root = shared[p]
         /\ log[p][i].chunk.step = i - 1
         /\ log[p][i].op = "seal" => log[p][i].chunk.from = p

\* In turns, one party seals at the odd places and the other at the even ones.
Odd(i) == i % 2 = 1
Turns ==
  polite =>
    \A p \in Parties : \A i \in 1 .. Len(log[p]) :
      log[p][i].op = "seal" <=> (p \in Openers <=> Odd(i))

\* The inductive invariant, beyond that of the ritual.
TalkInv == TalkTypeOK /\ Roots /\ Logged /\ Agreement /\ Turns

USE RitualAssumption, ConversationAssumption

-----------------------------------------------------------------------------
(* The ritual within                                                       *)

\* The Streamers leave the ritual alone.
LEMMA RitualStep == [TalkNext]_conversation => [Next]_vars
BY DEF TalkNext, Talk, Speak, Hear, HearRaises, conversation, vars

THEOREM ConversationIsRitual == TalkSpec => Spec
<1>1. TalkInit => Init
  BY DEF TalkInit
<1>2. QED
  BY <1>1, RitualStep, PTL DEF TalkSpec, Spec

\* Once there is a shared key it stays.
LEMMA KeyKept ==
  ASSUME TypeOK, [Next]_vars, NEW p \in Parties, IsComplete(p)
  PROVE  shared'[p] = shared[p]
<1>1. CASE \E m \in net : SharedKeyDerives(m)
  BY <1>1 DEF SharedKeyDerives, TypeOK, Message, IsComplete
<1>2. CASE ~\E m \in net : SharedKeyDerives(m)
  BY <1>2 DEF Next, Derive, PublicKeyBytes, PublicKeyBytesRaises, Resend,
     SharedKeyAgain, SharedKeyFails, Lose, Cut, Alter, Harm, vars
<1>3. QED
  BY <1>1, <1>2

LEMMA RootsKept ==
  ASSUME Inv, Roots, [Next]_vars
  PROVE  Roots'
<1> SUFFICES ASSUME NEW p \in Parties, shared'[p] # None
             PROVE  shared'[p] \in {{p, Peer[p]}, {p, Stranger}}
  BY DEF Roots, IsComplete
<1>1. CASE IsComplete(p)
  BY <1>1, KeyKept DEF Inv, Roots
<1>2. CASE ~IsComplete(p)
  <2>1. PICK m \in net : SharedKeyDerives(m)
    BY <1>2 DEF IsComplete, Next, Derive, PublicKeyBytes, PublicKeyBytesRaises, Resend,
       SharedKeyAgain, SharedKeyFails, Lose, Cut, Alter, Harm, vars
  <2>2. m \in Message /\ m.pub \in {Peer[m.to], Stranger}
    BY <2>1 DEF Inv, TypeOK, NetInv, SharedKeyDerives
  <2>3. m.to = p
    BY <1>2, <2>1, <2>2 DEF SharedKeyDerives, Inv, TypeOK, IsComplete, Message
  <2>4. QED
    BY <2>1, <2>2, <2>3 DEF SharedKeyDerives, Inv, TypeOK, SharedKey, Message
<1>3. QED
  BY <1>1, <1>2

-----------------------------------------------------------------------------
(* The logs                                                                *)

\* A log grows by one entry, and the others stay.
LEMMA LogGrows ==
  ASSUME TalkTypeOK, NEW p \in Parties, NEW op \in {"seal", "open"}, NEW w \in WireChunk,
         Notes(p, op, w)
  PROVE  /\ log' \in [Parties -> Seq(Entry)]
         /\ Len(log'[p]) = Len(log[p]) + 1
         /\ \A i \in 1 .. Len(log[p]) : log'[p][i] = log[p][i]
         /\ log'[p][Len(log[p]) + 1] = [op |-> op, chunk |-> w]
         /\ \A q \in Parties : q # p => log'[q] = log[q]
<1>1. [op |-> op, chunk |-> w] \in Entry
  BY DEF Entry
<1>2. log[p] \in Seq(Entry)
  BY DEF TalkTypeOK
<1>3. log'[p] = Append(log[p], [op |-> op, chunk |-> w])
  BY DEF Notes, TalkTypeOK
<1>4. Append(log[p], [op |-> op, chunk |-> w]) \in Seq(Entry)
  BY <1>1, <1>2
<1>5. log' \in [Parties -> Seq(Entry)]
  BY <1>3, <1>4 DEF Notes, TalkTypeOK
<1>6. QED
  BY <1>1, <1>2, <1>3, <1>5 DEF Notes, TalkTypeOK

\* What is in the air was sealed at its place in its sender's log.
LEMMA AirFacts ==
  ASSUME TalkTypeOK, Logged, NEW w \in Air
  PROVE  /\ w \in WireChunk
         /\ \E q \in Parties : \E j \in 1 .. Len(log[q]) :
              /\ log[q][j] = [op |-> "seal", chunk |-> w]
              /\ w.from = q /\ w.root = shared[q] /\ w.step = j - 1 /\ IsComplete(q)
<1>1. PICK q \in Parties : w \in Sealed(q)
  BY DEF Air
<1>2. log[q] \in Seq(Entry)
  BY DEF TalkTypeOK
<1>3. PICK j \in 1 .. Len(log[q]) : log[q][j].op = "seal" /\ w = log[q][j].chunk
  BY <1>1, <1>2 DEF Sealed
<1>4. log[q][j] \in Entry
  BY <1>2, <1>3
<1>5. w \in WireChunk /\ log[q][j] = [op |-> "seal", chunk |-> w]
  BY <1>3, <1>4 DEF Entry
<1>6. w.from = q /\ w.root = shared[q] /\ w.step = j - 1 /\ IsComplete(q)
  BY <1>3 DEF Logged
<1>7. QED
  BY <1>5, <1>6

\* What opens was sealed by the peer, at the step its receiver is at.
LEMMA HeardFromPeer ==
  ASSUME TalkTypeOK, Roots, Logged,
         NEW p \in Parties, IsComplete(p), NEW w \in Air, Opens(p, w)
  PROVE  /\ w.from = Peer[p]
         /\ Len(log[p]) + 1 \in 1 .. Len(log[Peer[p]])
         /\ log[Peer[p]][Len(log[p]) + 1] = [op |-> "seal", chunk |-> w]
<1>0. PICK q \in Parties : \E j \in 1 .. Len(log[q]) :
        /\ log[q][j] = [op |-> "seal", chunk |-> w]
        /\ w.from = q /\ w.root = shared[q] /\ w.step = j - 1 /\ IsComplete(q)
  BY AirFacts
<1>1. PICK j \in 1 .. Len(log[q]) :
        /\ log[q][j] = [op |-> "seal", chunk |-> w]
        /\ w.from = q /\ w.root = shared[q] /\ w.step = j - 1 /\ IsComplete(q)
  BY <1>0
<1>2. Len(log[p]) \in Nat /\ Len(log[q]) \in Nat
  BY DEF TalkTypeOK
<1>3. j = Len(log[p]) + 1
  <2>1. w.step = j - 1 /\ w.step = step[p] /\ step[p] = Len(log[p])
    BY <1>1 DEF Opens, Logged
  <2>2. QED
    BY <1>2, <2>1
<1>4. q # p
  BY <1>1, <1>2, <1>3
<1>5. q = Peer[p]
  <2>1. p \in shared[q]
    <3>1. shared[p] \in {{p, Peer[p]}, {p, Stranger}}
      BY DEF Roots
    <3>2. shared[q] = shared[p]
      BY <1>1 DEF Opens
    <3>3. QED
      BY <3>1, <3>2
  <2>2. shared[q] \in {{q, Peer[q]}, {q, Stranger}}
    BY <1>1 DEF Roots
  <2>3. p = Peer[q]
    BY <1>4, <2>1, <2>2
  <2>4. QED
    BY <2>3
<1>6. QED
  BY <1>1, <1>3, <1>5

-----------------------------------------------------------------------------
(* Every step keeps the invariant                                          *)

LEMMA OddAlternates == \A i \in Nat : Odd(i + 1) <=> ~Odd(i)
BY DEF Odd

\* In turns, who speaks does so at a place of its own.
LEMMA SpeakPlace ==
  ASSUME TalkTypeOK, Turns, NEW p \in Parties, Speak(p), polite
  PROVE  p \in Openers <=> Odd(Len(log[p]) + 1)
<1> DEFINE n == Len(log[p])
<1>1. n \in Nat /\ (n = 0 <=> log[p] = << >>)
  BY DEF TalkTypeOK
<1>2. CASE n = 0
  BY <1>1, <1>2 DEF Speak, Turn, Odd
<1>3. CASE n # 0
  <2>1. log[p][n].op = "open" /\ n \in 1 .. n
    BY <1>1, <1>3 DEF Speak, Turn
  <2>2. ~(p \in Openers <=> Odd(n))
    BY <2>1 DEF Turns
  <2>3. QED
    BY <1>1, <2>2, OddAlternates
<1>4. QED
  BY <1>2, <1>3

\* And what is heard fills a place of the peer's.
LEMMA HearPlace ==
  ASSUME TalkTypeOK, Roots, Logged, Turns, NEW p \in Parties, NEW w \in Air, Hear(p, w), polite
  PROVE  ~(p \in Openers <=> Odd(Len(log[p]) + 1))
<1>1. /\ Len(log[p]) + 1 \in 1 .. Len(log[Peer[p]])
      /\ log[Peer[p]][Len(log[p]) + 1] = [op |-> "seal", chunk |-> w]
  BY HeardFromPeer DEF Hear
<1>2. log[Peer[p]][Len(log[p]) + 1].op = "seal"
  BY <1>1
<1>3. Peer[p] \in Openers <=> Odd(Len(log[p]) + 1)
  BY <1>1, <1>2 DEF Turns
<1>4. QED
  BY <1>3

LEMMA TalkInitInv == TalkInit => TalkInv
<1> SUFFICES ASSUME TalkInit
             PROVE  TalkInv
  OBVIOUS
<1>1. \A p \in Parties : log[p] = << >> /\ step[p] = 0
  BY DEF TalkInit
<1>2. TalkTypeOK
  BY DEF TalkInit, TalkTypeOK
<1>3. Roots
  BY DEF TalkInit, Init, Roots, IsComplete
<1>4. QED
  BY <1>1, <1>2, <1>3 DEF TalkInv, Logged, Agreement, Turns

LEMMA RitualKeepsTalk ==
  ASSUME Inv, TalkInv, Next, UNCHANGED talk
  PROVE  TalkInv'
<1>1. Roots'
  BY RootsKept DEF TalkInv
<1>2. \A p \in Parties : IsComplete(p) => shared'[p] = shared[p] /\ IsComplete(p)'
  BY KeyKept DEF Inv, IsComplete
<1>3. Logged'
  BY <1>2 DEF TalkInv, Logged, talk
<1>4. QED
  BY <1>1, <1>3 DEF TalkInv, TalkTypeOK, Agreement, Turns, talk

\* A chunk that is sealed, or opened, is put down where it belongs.
LEMMA NotedKeepsTalk ==
  ASSUME TalkInv, NEW p \in Parties, NEW op \in {"seal", "open"}, NEW w \in WireChunk,
         IsComplete(p), Notes(p, op, w), Ratchets(p, op), UNCHANGED <<vars, polite>>,
         w.root = shared[p], w.step = step[p],
         op = "seal" => w.from = p,
         op = "open" =>
           /\ w.from = Peer[p]
           /\ Len(log[p]) + 1 \in 1 .. Len(log[Peer[p]])
           /\ log[Peer[p]][Len(log[p]) + 1] = [op |-> "seal", chunk |-> w],
         polite => (op = "seal" <=> (p \in Openers <=> Odd(Len(log[p]) + 1)))
  PROVE  TalkInv'
<1>1. TalkTypeOK /\ Roots /\ Logged /\ Agreement /\ Turns
  BY DEF TalkInv
<1> DEFINE n == Len(log[p])
           e == [op |-> op, chunk |-> w]
<1>2. /\ log' \in [Parties -> Seq(Entry)]
      /\ Len(log'[p]) = n + 1
      /\ \A i \in 1 .. n : log'[p][i] = log[p][i]
      /\ log'[p][n + 1] = e
      /\ \A q \in Parties : q # p => log'[q] = log[q]
  BY <1>1, LogGrows
<1>3. n \in Nat /\ step[p] = n /\ \A q \in Parties : Len(log[q]) \in Nat
  BY <1>1 DEF TalkTypeOK, Logged
<1>4. e.op = op /\ e.chunk = w
  OBVIOUS
<1> HIDE DEF n, e
<1>5. step' = [step EXCEPT ![p] = n + 1]
  BY <1>3 DEF Ratchets
<1>6. TalkTypeOK'
  BY <1>1, <1>2, <1>3, <1>5 DEF TalkTypeOK
<1>7. Roots'
  BY <1>1 DEF Roots, vars, IsComplete
<1>8. Logged'
  <2>1. ASSUME NEW q \in Parties, q # p
        PROVE  /\ step'[q] = Len(log'[q])
               /\ \A i \in 1 .. Len(log'[q]) :
                    /\ IsComplete(q)'
                    /\ log'[q][i].chunk.root = shared'[q]
                    /\ log'[q][i].chunk.step = i - 1
                    /\ log'[q][i].op = "seal" => log'[q][i].chunk.from = q
    BY <1>1, <1>2, <1>5, <2>1 DEF Logged, TalkTypeOK, IsComplete, vars
  <2>2. ASSUME NEW i \in 1 .. n + 1
        PROVE  /\ log'[p][i].chunk.root = shared'[p]
               /\ log'[p][i].chunk.step = i - 1
               /\ log'[p][i].op = "seal" => log'[p][i].chunk.from = p
    <3>1. CASE i = n + 1
      BY <1>2, <1>3, <1>4, <3>1 DEF vars
    <3>2. CASE i \in 1 .. n
      <4>1. log'[p][i] = log[p][i] /\ i \in 1 .. Len(log[p]) /\ shared' = shared
        BY <1>2, <3>2 DEF vars, n
      <4>2. /\ log[p][i].chunk.root = shared[p]
            /\ log[p][i].chunk.step = i - 1
            /\ log[p][i].op = "seal" => log[p][i].chunk.from = p
        BY <1>1, <4>1 DEF Logged
      <4>3. QED
        BY <4>1, <4>2
    <3>3. QED
      BY <1>3, <3>1, <3>2
  <2>3. step'[p] = Len(log'[p]) /\ IsComplete(p)'
    BY <1>1, <1>2, <1>5 DEF TalkTypeOK, vars, IsComplete
  <2>4. ASSUME NEW i \in 1 .. Len(log'[p])
        PROVE  /\ log'[p][i].chunk.root = shared'[p]
               /\ log'[p][i].chunk.step = i - 1
               /\ log'[p][i].op = "seal" => log'[p][i].chunk.from = p
    <3>1. i \in 1 .. n + 1
      BY <1>2
    <3>2. QED
      BY <2>2, <3>1
  <2>5. QED
    BY <2>1, <2>3, <2>4 DEF Logged
<1>9. \A q \in Parties :
        /\ DOMAIN log[q] = 1 .. Len(log[q])
        /\ DOMAIN log'[q] = 1 .. Len(log'[q])
  <2>1. \A q \in Parties : log[q] \in Seq(Entry) /\ log'[q] \in Seq(Entry)
    BY <1>1, <1>2 DEF TalkTypeOK
  <2>2. QED
    BY <2>1
<1>10. \A q \in Parties : \A i \in 1 .. Len(log[q]) :
         i \in 1 .. Len(log'[q]) /\ log'[q][i] = log[q][i]
  <2>1. \A i \in 1 .. Len(log[p]) : i \in 1 .. Len(log'[p]) /\ log'[p][i] = log[p][i]
    BY <1>2, <1>3 DEF n
  <2>2. \A q \in Parties : q # p =>
          \A i \in 1 .. Len(log[q]) : i \in 1 .. Len(log'[q]) /\ log'[q][i] = log[q][i]
    BY <1>2
  <2>3. QED
    BY <2>1, <2>2
<1>11. \A q \in Parties : \A i \in 1 .. Len(log'[q]) :
         i \in 1 .. Len(log[q]) \/ (q = p /\ i = n + 1)
  BY <1>2, <1>3 DEF n
<1>12. Agreement'
  <2> SUFFICES ASSUME NEW q \in Parties, NEW i \in DOMAIN log'[q], log'[q][i].op = "open"
               PROVE  /\ log'[q][i].chunk.from = Peer[q]
                      /\ i \in DOMAIN log'[Peer[q]]
                      /\ log'[Peer[q]][i] = [op |-> "seal", chunk |-> log'[q][i].chunk]
    BY DEF Agreement
  <2>1. i \in 1 .. Len(log'[q])
    BY <1>9
  <2>2. Peer[q] \in Parties /\ DOMAIN log'[Peer[q]] = 1 .. Len(log'[Peer[q]])
    BY <1>9
  <2>3. CASE i \in 1 .. Len(log[q])
    <3>1. log'[q][i] = log[q][i]
      BY <1>10, <2>3
    <3>2. log[q][i].op = "open" /\ i \in DOMAIN log[q] /\ Peer[q] \in Parties
      BY <1>9, <2>3, <3>1
    <3>3. /\ log[q][i].chunk.from = Peer[q]
          /\ i \in DOMAIN log[Peer[q]]
          /\ log[Peer[q]][i] = [op |-> "seal", chunk |-> log[q][i].chunk]
      BY <1>1, <3>2 DEF Agreement
    <3>4. i \in 1 .. Len(log[Peer[q]])
      BY <1>9, <3>2, <3>3
    <3>5. QED
      BY <1>10, <2>2, <3>1, <3>2, <3>3, <3>4
  <2>4. CASE q = p /\ i = n + 1
    <3>1. op = "open" /\ log'[q][i].chunk = w
      BY <1>2, <1>4, <2>4
    <3>2. /\ w.from = Peer[p] /\ Peer[p] \in Parties
          /\ n + 1 \in 1 .. Len(log[Peer[p]])
          /\ log[Peer[p]][n + 1] = [op |-> "seal", chunk |-> w]
      BY <3>1 DEF n
    <3>3. n + 1 \in 1 .. Len(log'[Peer[p]]) /\ log'[Peer[p]][n + 1] = log[Peer[p]][n + 1]
      BY <1>10, <3>2
    <3>4. QED
      BY <2>4, <2>2, <3>1, <3>2, <3>3
  <2>5. QED
    BY <1>11, <2>1, <2>3, <2>4
<1>13. Turns'
  <2> SUFFICES ASSUME polite, NEW q \in Parties, NEW i \in 1 .. Len(log'[q])
               PROVE  log'[q][i].op = "seal" <=> (q \in Openers <=> Odd(i))
    BY DEF Turns
  <2>1. CASE i \in 1 .. Len(log[q])
    BY <1>1, <1>10, <2>1 DEF Turns
  <2>2. CASE q = p /\ i = n + 1
    BY <1>2, <1>4, <2>2 DEF n
  <2>3. QED
    BY <1>11, <2>1, <2>2
<1>14. QED
  BY <1>6, <1>7, <1>8, <1>12, <1>13 DEF TalkInv

LEMMA TalkNextInv ==
  ASSUME Inv, TalkInv, [TalkNext]_conversation
  PROVE  TalkInv'
<1>0. TalkTypeOK /\ Roots /\ Logged /\ Agreement /\ Turns /\ TypeOK
  BY DEF TalkInv, Inv
<1>1. CASE Next /\ UNCHANGED talk
  BY <1>1, RitualKeepsTalk
<1>2. ASSUME NEW p \in Parties, Speak(p)
      PROVE  TalkInv'
  <2> DEFINE w == [from |-> p, root |-> shared[p], step |-> step[p]]
             n == Len(log[p])
  <2>1. w \in WireChunk
    BY <1>0, <1>2 DEF Speak, WireChunk, TypeOK, TalkTypeOK, IsComplete
  <2>3. polite => (p \in Openers <=> Odd(n + 1))
    BY <1>0, <1>2, SpeakPlace
  <2>4. w.root = shared[p] /\ w.step = step[p] /\ w.from = p
    OBVIOUS
  <2>5. IsComplete(p) /\ Notes(p, "seal", w) /\ Ratchets(p, "seal") /\ UNCHANGED <<vars, polite>>
    BY <1>2 DEF Speak
  <2> HIDE DEF w
  <2>6. QED
    BY <2>1, <2>3, <2>4, <2>5, NotedKeepsTalk
<1>3. ASSUME NEW p \in Parties, NEW w \in Air, Hear(p, w)
      PROVE  TalkInv'
  <2>1. IsComplete(p) /\ Opens(p, w) /\ w \in WireChunk
    BY <1>0, <1>3, AirFacts DEF Hear
  <2>2. /\ w.from = Peer[p]
        /\ Len(log[p]) + 1 \in 1 .. Len(log[Peer[p]])
        /\ log[Peer[p]][Len(log[p]) + 1] = [op |-> "seal", chunk |-> w]
    BY <1>0, <2>1, HeardFromPeer
  <2>3. polite => ~(p \in Openers <=> Odd(Len(log[p]) + 1))
    BY <1>0, <1>3, HearPlace
  <2>4. w.root = shared[p] /\ w.step = step[p]
    BY <2>1 DEF Opens
  <2>5. Notes(p, "open", w) /\ Ratchets(p, "open") /\ UNCHANGED <<vars, polite>>
    BY <1>3 DEF Hear
  <2>6. QED
    BY <2>1, <2>2, <2>3, <2>4, <2>5, NotedKeepsTalk
<1>4. CASE UNCHANGED conversation
  <2>1. UNCHANGED <<shared, step, log, polite>>
    BY <1>4 DEF conversation, vars, talk
  <2>2. TalkTypeOK' /\ Roots'
    BY <1>0, <2>1 DEF TalkTypeOK, Roots, IsComplete
  <2>3. Logged'
    BY <1>0, <2>1 DEF Logged, IsComplete
  <2>4. Agreement' /\ Turns'
    BY <1>0, <2>1 DEF Agreement, Turns
  <2>5. QED
    BY <2>2, <2>3, <2>4 DEF TalkInv
<1>5. QED
  BY <1>1, <1>2, <1>3, <1>4 DEF TalkNext, Talk, HearRaises

-----------------------------------------------------------------------------
(* Theorems                                                                *)

\* The invariants of the ritual and of the Streamers hold throughout.
THEOREM TalkInductive == TalkSpec => [](Inv /\ TalkInv)
<1>1. TalkSpec => []Inv
  BY ConversationIsRitual, RitualInductive, PTL
<1>2. Inv /\ TalkInv /\ [TalkNext]_conversation => TalkInv'
  BY TalkNextInv
<1>3. QED
  BY <1>1, <1>2, TalkInitInv, PTL DEF TalkSpec

\* Every variable keeps its type.
THEOREM ConversationTypeCorrect == TalkSpec => []ConversationTypeOK
<1>1. Inv /\ TalkInv => ConversationTypeOK
  BY DEF Inv, TalkInv, ConversationTypeOK
<1>2. QED
  BY <1>1, TalkInductive, PTL

\* A party opens only what its peer sealed at the same step (stream.py:205-213).
THEOREM AgreementHolds == TalkSpec => []Agreement
<1>1. TalkInv => Agreement
  BY DEF TalkInv
<1>2. QED
  BY <1>1, TalkInductive, PTL

\* Whoever is behind has a chunk to open (stream.py:130-133).
THEOREM CanCatchUpHolds == TalkSpec => []CanCatchUp
<1>1. TalkInv => CanCatchUp
  <2> SUFFICES ASSUME TalkInv, NEW p \in Parties, Agreed(p), step[p] < step[Peer[p]]
               PROVE  \E w \in Sealed(Peer[p]) : Opens(p, w)
    BY DEF CanCatchUp
  <2> DEFINE q == Peer[p]
             j == step[p] + 1
  <2>1. TalkTypeOK /\ Logged /\ Agreement /\ q \in Parties /\ Peer[q] = p
    BY DEF TalkInv
  <2>2. /\ log[p] \in Seq(Entry) /\ log[q] \in Seq(Entry)
        /\ step[p] = Len(log[p]) /\ step[q] = Len(log[q])
    BY <2>1 DEF TalkTypeOK, Logged
  <2>3. j \in 1 .. Len(log[q]) /\ j \in DOMAIN log[q] /\ j \notin DOMAIN log[p]
    BY <2>2
  <2>4. log[q][j] \in Entry
    BY <2>2, <2>3
  <2>5. log[q][j].op = "seal"
    <3>1. log[q][j].op # "open"
      BY <2>1, <2>3 DEF Agreement
    <3>2. log[q][j].op \in {"seal", "open"}
      BY <2>4 DEF Entry
    <3>3. QED
      BY <3>1, <3>2
  <2>6. log[q][j].chunk \in Sealed(q)
    BY <2>3, <2>5 DEF Sealed
  <2>7. log[q][j].chunk.root = shared[p] /\ log[q][j].chunk.step = step[p]
    BY <2>1, <2>2, <2>3 DEF Logged, Agreed
  <2>8. QED
    BY <2>6, <2>7 DEF Opens
<1>2. QED
  BY <1>1, TalkInductive, PTL

\* In turns the parties never speak at the same step (stream.py:108-135).
THEOREM NothingCrossesHolds == TalkSpec => []NothingCrosses
<1>1. TalkInv => NothingCrosses
  <2> SUFFICES ASSUME TalkInv, polite, NEW p \in Parties
               PROVE  /\ Agreed(p) => step[p] <= step[Peer[p]] + 1
                      /\ \A i \in DOMAIN log[p] \cap DOMAIN log[Peer[p]] :
                           log[p][i].op = "seal" => log[Peer[p]][i].op = "open"
    BY DEF NothingCrosses
  <2> DEFINE q == Peer[p]
  <2>1. TalkTypeOK /\ Logged /\ Agreement /\ Turns /\ q \in Parties
    BY DEF TalkInv
  <2>2. /\ log[p] \in Seq(Entry) /\ log[q] \in Seq(Entry)
        /\ Len(log[p]) \in Nat /\ Len(log[q]) \in Nat
        /\ step[p] = Len(log[p]) /\ step[q] = Len(log[q])
    BY <2>1 DEF TalkTypeOK, Logged
  <2>3. \A i \in 1 .. Len(log[p]) : log[p][i].op \in {"seal", "open"}
    <3>1. \A i \in 1 .. Len(log[p]) : log[p][i] \in Entry
      BY <2>2
    <3>2. QED
      BY <3>1 DEF Entry
  <2>4. \A i \in 1 .. Len(log[q]) : log[q][i].op \in {"seal", "open"}
    <3>1. \A i \in 1 .. Len(log[q]) : log[q][i] \in Entry
      BY <2>2
    <3>2. QED
      BY <3>1 DEF Entry
  <2>5. ASSUME Len(log[p]) > Len(log[q]) + 1
        PROVE  FALSE
    <3> DEFINE i == Len(log[q]) + 1
    <3>1. i \in 1 .. Len(log[p]) /\ i + 1 \in 1 .. Len(log[p]) /\ i \in Nat
      BY <2>2, <2>5
    <3>2. i \notin DOMAIN log[q] /\ i + 1 \notin DOMAIN log[q]
      BY <2>2
    <3> HIDE DEF i
    <3>3. log[p][i].op = "seal" /\ log[p][i + 1].op = "seal"
      <4>1. i \in DOMAIN log[p] /\ i + 1 \in DOMAIN log[p]
        BY <2>2, <3>1
      <4>2. log[p][i].op # "open" /\ log[p][i + 1].op # "open"
        BY <2>1, <3>2, <4>1 DEF Agreement
      <4>3. QED
        BY <2>3, <3>1, <4>2
    <3>4. (p \in Openers <=> Odd(i)) /\ (p \in Openers <=> Odd(i + 1))
      <4>1. \A k \in 1 .. Len(log[p]) :
              log[p][k].op = "seal" => (p \in Openers <=> Odd(k))
        BY <2>1 DEF Turns
      <4>2. QED
        BY <3>1, <3>3, <4>1
    <3>5. QED
      BY <3>1, <3>4, OddAlternates
  <2>6. ASSUME NEW i \in DOMAIN log[p] \cap DOMAIN log[q], log[p][i].op = "seal"
        PROVE  log[q][i].op = "open"
    <3>1. i \in 1 .. Len(log[p]) /\ i \in 1 .. Len(log[q])
      BY <2>2, <2>6
    <3>2. p \in Openers <=> Odd(i)
      BY <2>1, <2>6, <3>1 DEF Turns
    <3>3. log[q][i].op # "seal"
      BY <2>1, <3>1, <3>2 DEF Turns
    <3>4. QED
      BY <2>4, <3>1, <3>3
  <2>7. QED
    BY <2>2, <2>5, <2>6
<1>2. QED
  BY <1>1, TalkInductive, PTL

-----------------------------------------------------------------------------
(* Two Streamers are two ordered pipes                                     *)

First(p) == IF p \in Openers THEN 1 ELSE 0
Count(p, n) == (n + First(p)) \div 2

\* A party's words in a log of n entries, and where they are.
LEMMA Places ==
  ASSUME NEW p \in Parties, NEW n \in Nat
  PROVE  /\ Count(p, n) \in Nat
         /\ \A k \in 1 .. Count(p, n) : 2 * k - First(p) \in 1 .. n
         /\ (p \in Openers <=> Odd(n + 1)) =>
              /\ Count(p, n + 1) = Count(p, n) + 1
              /\ 2 * (Count(p, n) + 1) - First(p) = n + 1
         /\ ~(p \in Openers <=> Odd(n + 1)) => Count(p, n + 1) = Count(p, n)
BY DEF Count, First, Odd

LEMMA CountGrows ==
  ASSUME NEW p \in Parties, NEW m \in Nat, NEW n \in Nat, m <= n
  PROVE  Count(p, m) <= Count(p, n)
<1>1. First(p) \in {0, 1}
  BY DEF First
<1>2. QED
  BY <1>1 DEF Count

LEMMA WordsType ==
  ASSUME NEW p \in Parties, NEW l \in Seq(Entry)
  PROVE  /\ Words(p, l) \in Seq(WireChunk) /\ Len(Words(p, l)) = Count(p, Len(l))
         /\ \A k \in 1 .. Count(p, Len(l)) : Words(p, l)[k] = l[2 * k - First(p)].chunk
<1>1. Len(l) \in Nat /\ \A i \in 1 .. Len(l) : l[i] \in Entry
  OBVIOUS
<1>2. Words(p, l) = [k \in 1 .. Count(p, Len(l)) |-> l[2 * k - First(p)].chunk]
  BY DEF Words, Count, First
<1>3. \A k \in 1 .. Count(p, Len(l)) : l[2 * k - First(p)].chunk \in WireChunk
  BY <1>1, Places DEF Entry
<1>4. Count(p, Len(l)) \in Nat
  BY <1>1, Places
<1>5. QED
  BY <1>2, <1>3, <1>4

\* An entry that is a party's own adds to its words, any other does not.
LEMMA WordsGrow ==
  ASSUME NEW p \in Parties, NEW l \in Seq(Entry), NEW m \in Seq(Entry), NEW e \in Entry,
         Len(m) = Len(l) + 1, m[Len(l) + 1] = e, \A i \in 1 .. Len(l) : m[i] = l[i]
  PROVE  IF p \in Openers <=> Odd(Len(l) + 1)
         THEN Words(p, m) = Append(Words(p, l), e.chunk)
         ELSE Words(p, m) = Words(p, l)
<1> DEFINE n == Len(l)
           c == Count(p, n)
           W == Words(p, l)
           V == Words(p, m)
<1>1. n \in Nat /\ Len(m) = n + 1 /\ c \in Nat /\ e.chunk \in WireChunk
  BY Places DEF Entry
<1>2. /\ W \in Seq(WireChunk) /\ Len(W) = c
      /\ \A k \in 1 .. c : W[k] = l[2 * k - First(p)].chunk
  BY WordsType
<1>3. /\ V \in Seq(WireChunk) /\ Len(V) = Count(p, n + 1)
      /\ \A k \in 1 .. Count(p, n + 1) : V[k] = m[2 * k - First(p)].chunk
  BY <1>1, WordsType
<1>4. \A k \in 1 .. c : m[2 * k - First(p)].chunk = W[k]
  BY <1>1, <1>2, Places
<1> HIDE DEF c, W, V
<1>5. CASE p \in Openers <=> Odd(n + 1)
  <2>1. Count(p, n + 1) = c + 1 /\ 2 * (c + 1) - First(p) = n + 1
    BY <1>1, <1>5, Places DEF c
  <2> DEFINE U == Append(W, e.chunk)
  <2>2. /\ U \in Seq(WireChunk) /\ Len(U) = c + 1
        /\ \A k \in 1 .. c : U[k] = W[k]
        /\ U[c + 1] = e.chunk
    BY <1>1, <1>2, AppendProperties
  <2> HIDE DEF U
  <2>3. V[c + 1] = e.chunk
    BY <1>1, <1>3, <2>1
  <2>4. ASSUME NEW k \in 1 .. c
        PROVE  V[k] = W[k]
    <3>1. V[k] = m[2 * k - First(p)].chunk
      BY <1>1, <1>3, <2>1
    <3>2. QED
      BY <1>4, <3>1
  <2>5. ASSUME NEW k \in 1 .. c + 1
        PROVE  V[k] = U[k]
    <3>1. CASE k \in 1 .. c
      BY <2>2, <2>4, <3>1
    <3>2. CASE k = c + 1
      BY <2>2, <2>3, <3>2
    <3>3. QED
      BY <1>1, <3>1, <3>2
  <2>6. V = U
    BY <1>3, <2>1, <2>2, <2>5, SeqEqual
  <2>7. QED
    BY <1>5, <2>6 DEF U, V, W
<1>6. CASE ~(p \in Openers <=> Odd(n + 1))
  <2>1. Count(p, n + 1) = c
    BY <1>1, <1>6, Places DEF c
  <2>2. V = W
    <3>1. Len(V) = c /\ \A k \in 1 .. c : V[k] = W[k]
      BY <1>3, <1>4, <2>1
    <3>2. QED
      BY <1>2, <1>3, <3>1, SeqEqual
  <2>3. QED
    BY <1>6, <2>2 DEF V, W
<1>7. QED
  BY <1>5, <1>6

\* An entry of p's log makes p's words, or those of its peer, one more.
LEMMA Spoken ==
  ASSUME TalkTypeOK, NEW p \in Parties, NEW op \in {"seal", "open"}, NEW w \in WireChunk,
         Notes(p, op, w), NEW q \in Parties
  PROVE  IF q \in Openers <=> Odd(Len(log[p]) + 1)
         THEN Words(q, log'[p]) = Append(Words(q, log[p]), w)
         ELSE Words(q, log'[p]) = Words(q, log[p])
<1> DEFINE e == [op |-> op, chunk |-> w]
           l == log[p]
           m == log'[p]
<1>1. e \in Entry /\ e.chunk = w
  BY DEF Entry
<1>2. l \in Seq(Entry) /\ m = Append(l, e)
  BY DEF TalkTypeOK, Notes
<1> HIDE DEF e, l, m
<1>3. /\ l \in Seq(Entry) /\ m \in Seq(Entry) /\ Len(m) = Len(l) + 1
      /\ m[Len(l) + 1] = e /\ \A i \in 1 .. Len(l) : m[i] = l[i]
  BY <1>1, <1>2, AppendProperties
<1>4. IF q \in Openers <=> Odd(Len(l) + 1)
      THEN Words(q, m) = Append(Words(q, l), e.chunk)
      ELSE Words(q, m) = Words(q, l)
  BY <1>1, <1>3, WordsGrow
<1>5. QED
  BY <1>1, <1>4 DEF l, m

\* A step of a polite conversation puts into one pipe, gets from one, or stutters.
LEMMA PipeStep ==
  ASSUME Inv, TalkInv, TalkNext, polite, NEW q \in Parties
  PROVE  Pipe(q)!Next \/ UNCHANGED <<Words(q, log[q]), Words(q, log[Peer[q]])>>
<1>0. TalkTypeOK /\ Roots /\ Logged /\ Turns /\ TypeOK
  BY DEF TalkInv, Inv
<1>1. ASSUME UNCHANGED log
      PROVE  UNCHANGED <<Words(q, log[q]), Words(q, log[Peer[q]])>>
  BY <1>1 DEF Words
<1>2. ASSUME NEW p \in Parties, Speak(p)
      PROVE  Pipe(q)!Next \/ UNCHANGED <<Words(q, log[q]), Words(q, log[Peer[q]])>>
  <2> DEFINE w == [from |-> p, root |-> shared[p], step |-> step[p]]
  <2>1. w \in WireChunk /\ w \in [from : {p}, root : SoulKeys, step : 0 .. MaxSteps]
    BY <1>0, <1>2 DEF Speak, WireChunk, TypeOK, TalkTypeOK, IsComplete
  <2>2. Notes(p, "seal", w)
    BY <1>2 DEF Speak
  <2> HIDE DEF w
  <2>3. p \in Openers <=> Odd(Len(log[p]) + 1)
    BY <1>0, <1>2, SpeakPlace
  <2>4. \A r \in Parties : r # p => log'[r] = log[r]
    BY <1>0, <2>1, <2>2, LogGrows
  <2>5. CASE q = p
    <3>1. Words(q, log'[q]) = Append(Words(q, log[q]), w)
      BY <1>0, <2>1, <2>2, <2>3, <2>5, Spoken
    <3>2. log'[Peer[q]] = log[Peer[q]]
      BY <2>4, <2>5
    <3>3. UNCHANGED Words(q, log[Peer[q]])
      BY <3>2 DEF Words
    <3>4. Pipe(q)!Put(w)
      BY <3>1, <3>3 DEF Pipe!Put, Words
    <3>5. QED
      BY <2>1, <2>5, <3>4 DEF Pipe!Next
  <2>6. CASE q = Peer[p]
    <3>1. log'[q] = log[q] /\ Peer[q] = p
      BY <2>4, <2>6
    <3>2. UNCHANGED Words(q, log[q])
      BY <3>1 DEF Words
    <3>3. Words(q, log'[p]) = Words(q, log[p])
      BY <1>0, <2>1, <2>2, <2>3, <2>6, Spoken
    <3>4. UNCHANGED Words(q, log[Peer[q]])
      BY <3>1, <3>3 DEF Words
    <3>5. QED
      BY <3>2, <3>4
  <2>7. CASE q # p /\ q # Peer[p]
    <3>1. log'[q] = log[q] /\ log'[Peer[q]] = log[Peer[q]]
      BY <2>4, <2>7
    <3>2. QED
      BY <3>1 DEF Words
  <2>8. QED
    BY <2>5, <2>6, <2>7
<1>3. ASSUME NEW p \in Parties, NEW w \in Air, Hear(p, w)
      PROVE  Pipe(q)!Next \/ UNCHANGED <<Words(q, log[q]), Words(q, log[Peer[q]])>>
  <2> DEFINE n == Len(log[p])
  <2>1. w \in WireChunk /\ Notes(p, "open", w)
    BY <1>0, <1>3, AirFacts DEF Hear
  <2>2. /\ n + 1 \in 1 .. Len(log[Peer[p]])
        /\ log[Peer[p]][n + 1] = [op |-> "seal", chunk |-> w]
    BY <1>0, <1>3, HeardFromPeer DEF Hear
  <2>3. ~(p \in Openers <=> Odd(n + 1))
    BY <1>0, <1>3, HearPlace
  <2>4. \A r \in Parties : r # p => log'[r] = log[r]
    BY <1>0, <2>1, LogGrows
  <2>5. CASE q = p
    <3>1. Words(q, log'[q]) = Words(q, log[q]) /\ log'[Peer[q]] = log[Peer[q]]
      BY <1>0, <2>1, <2>3, <2>4, <2>5, Spoken
    <3>2. QED
      BY <3>1 DEF Words
  <2>6. CASE q = Peer[p]
    <3> DEFINE c == Count(q, n)
    <3>1. log'[q] = log[q] /\ Peer[q] = p
      BY <2>4, <2>6
    <3>2. Words(q, log'[p]) = Append(Words(q, log[p]), w)
      BY <1>0, <2>1, <2>3, <2>6, Spoken
    <3>3. n \in Nat /\ Len(log[q]) \in Nat /\ log[p] \in Seq(Entry) /\ log[q] \in Seq(Entry)
      BY <1>0 DEF TalkTypeOK
    <3>4. /\ Len(Words(q, log[p])) = c
          /\ Len(Words(q, log[q])) = Count(q, Len(log[q]))
          /\ \A k \in 1 .. Count(q, Len(log[q])) :
               Words(q, log[q])[k] = log[q][2 * k - First(q)].chunk
      BY <3>3, WordsType
    <3>5. c \in Nat /\ Count(q, n + 1) = c + 1 /\ 2 * (c + 1) - First(q) = n + 1
      BY <2>3, <2>6, <3>3, Places
    <3>6. Count(q, n + 1) <= Count(q, Len(log[q])) /\ Count(q, Len(log[q])) \in Nat
      <4>1. n + 1 \in Nat /\ n + 1 <= Len(log[q])
        BY <2>2, <2>6, <3>3
      <4> HIDE DEF n
      <4>2. QED
        BY <3>3, <4>1, CountGrows, Places
    <3>7. c + 1 \in 1 .. Count(q, Len(log[q]))
      BY <3>5, <3>6
    <3>8. Words(q, log[q])[c + 1] = w
      BY <2>2, <2>6, <3>4, <3>5, <3>7
    <3>9. Pipe(q)!Get
      <4>1. Len(Words(q, log[Peer[q]])) < Len(Words(q, log[q]))
        BY <3>1, <3>4, <3>5, <3>7
      <4>2. Words(q, log[Peer[q]])' =
              Append(Words(q, log[Peer[q]]), Words(q, log[q])[Len(Words(q, log[Peer[q]])) + 1])
        <5>1. Words(q, log[Peer[q]])' = Words(q, log'[p])
          BY <3>1 DEF Words
        <5>2. QED
          BY <3>1, <3>2, <3>4, <3>8, <5>1
      <4>3. UNCHANGED Words(q, log[q])
        BY <3>1 DEF Words
      <4>4. QED
        BY <4>1, <4>2, <4>3 DEF Pipe!Get
    <3>10. QED
      BY <3>9 DEF Pipe!Next
  <2>7. CASE q # p /\ q # Peer[p]
    <3>1. log'[q] = log[q] /\ log'[Peer[q]] = log[Peer[q]]
      BY <2>4, <2>7
    <3>2. QED
      BY <3>1 DEF Words
  <2>8. QED
    BY <2>5, <2>6, <2>7
<1>4. QED
  BY <1>1, <1>2, <1>3 DEF TalkNext, Talk, HearRaises, talk, conversation

LEMMA PipeInit ==
  ASSUME TalkInit, NEW q \in Parties
  PROVE  Pipe(q)!Init
<1>1. \A p \in Parties : log[p] = << >>
  BY DEF TalkInit
<1>2. Count(q, 0) = 0
  BY DEF Count, First
<1>3. Words(q, log[q]) = << >> /\ Words(q, log[Peer[q]]) = << >>
  <2>0. << >> \in Seq(Entry) /\ Len(<< >>) = 0
    BY EmptySeq
  <2>1. Words(q, << >>) \in Seq(WireChunk) /\ Len(Words(q, << >>)) = 0
    BY <1>2, <2>0, WordsType
  <2>2. Words(q, << >>) = << >>
    BY <2>1, EmptySeq
  <2>3. QED
    BY <1>1, <2>2
<1>4. QED
  BY <1>3 DEF Pipe!Init, Words

\* Where the parties take turns, each direction of a conversation is an ordered
\* pipe, for any number of pairs and of chunks (stream.py:7-19).
THEOREM ConversationIsPipes == TalkSpec => ImplementsPipes
<1>1. TalkInit => PipesInit
  BY PipeInit DEF PipesInit
<1>2. Inv /\ TalkInv /\ [TalkNext]_conversation => [polite => PipesNext]_conversation
  BY PipeStep DEF PipesNext
<1>3. QED
  BY <1>1, <1>2, TalkInductive, PTL DEF TalkSpec, ImplementsPipes
=============================================================================
