-------------------------- MODULE DarkRitualProofs --------------------------
(* Theorems about DarkRitual.tla, for every set of parties. *)
EXTENDS DarkRitual, TLAPS

\* What the transport carries comes from the right peer or is altered.
NetInv == \A m \in net : m.pub \in {Peer[m.to], Short, Stranger}

\* The inductive invariant.
Inv == TypeOK /\ PrivateOrShared /\ KeysAgree /\ NetInv

\* Pairs hold the two parties of a message; None is no shared key.
LEMMA PairFacts ==
  ASSUME NEW p \in Parties, NEW pub \in Parties \cup {Stranger}
  PROVE  SharedKey(p, pub) \in SoulKeys /\ SharedKey(p, pub) # None
BY RitualAssumption DEF SharedKey, SoulKeys

\* Every reachable state of every instance is typed, keeps PrivateOrShared and
\* KeysAgree, and carries only keys of the addressee's peer or harmed ones.
THEOREM RitualInductive == Spec => []Inv
<1>1. Init => Inv
  BY RitualAssumption
  DEF Init, Inv, TypeOK, PrivateOrShared, KeysAgree, NetInv, IsComplete, SoulKeys
<1>2. Inv /\ [Next]_vars => Inv'
  <2> SUFFICES ASSUME Inv, [Next]_vars PROVE Inv'
    OBVIOUS
  <2> USE RitualAssumption
  <2>1. ASSUME NEW p \in Parties, PublicKeyBytes(p) PROVE Inv'
    BY <2>1 DEF PublicKeyBytes, Returns, Send, Inv, TypeOK, PrivateOrShared,
                KeysAgree, NetInv, IsComplete, Message
  <2>2. ASSUME NEW p \in Parties, PublicKeyBytesRaises(p) PROVE Inv'
    BY <2>2 DEF PublicKeyBytesRaises, Returns, Inv, TypeOK, PrivateOrShared,
                KeysAgree, NetInv, IsComplete
  <2>3. ASSUME NEW p \in Parties, Resend(p) PROVE Inv'
    BY <2>3 DEF Resend, Send, Inv, TypeOK, PrivateOrShared, KeysAgree, NetInv,
                IsComplete, Message
  <2>4. ASSUME NEW m \in net, SharedKeyAgain(m) PROVE Inv'
    <3>1. m \in Message
      BY DEF Inv, TypeOK
    <3> QED
      BY <2>4, <3>1 DEF SharedKeyAgain, Receive, Returns, Inv, TypeOK,
         PrivateOrShared, KeysAgree, NetInv, IsComplete, Message
  <2>5. ASSUME NEW m \in net, SharedKeyFails(m) PROVE Inv'
    <3>1. m \in Message
      BY DEF Inv, TypeOK
    <3> QED
      BY <2>5, <3>1 DEF SharedKeyFails, Receive, Returns, Inv, TypeOK,
         PrivateOrShared, KeysAgree, NetInv, IsComplete, Message
  <2>6. ASSUME NEW m \in net, SharedKeyDerives(m) PROVE Inv'
    <3>1. m \in Message /\ m.pub \in {Peer[m.to], Stranger}
      BY <2>6 DEF Inv, TypeOK, NetInv, SharedKeyDerives
    <3>2. m.to \in Parties /\ m.pub \in Parties \cup {Stranger}
      BY <3>1 DEF Message
    <3>3. SharedKey(m.to, m.pub) \in SoulKeys /\ SharedKey(m.to, m.pub) # None
      BY <3>2, PairFacts
    <3>4. TypeOK'
      BY <2>6, <3>2, <3>3 DEF SharedKeyDerives, Receive, Returns, Inv, TypeOK
    <3>5. PrivateOrShared'
      BY <2>6, <3>2, <3>3 DEF SharedKeyDerives, Inv, TypeOK, PrivateOrShared, IsComplete
    <3>6. KeysAgree'
      <4> SUFFICES ASSUME NEW p \in Parties, shared'[p] # None, Stranger \notin shared'[p]
                   PROVE  shared'[p] = {p, Peer[p]}
        BY DEF KeysAgree, IsComplete
      <4>1. CASE p = m.to
        BY <4>1, <2>6, <3>1, <3>2 DEF SharedKeyDerives, Inv, TypeOK, SharedKey
      <4>2. CASE p # m.to
        BY <4>2, <2>6, <3>2 DEF SharedKeyDerives, Inv, TypeOK, KeysAgree, IsComplete
      <4> QED
        BY <4>1, <4>2
    <3>7. NetInv'
      BY <2>6 DEF SharedKeyDerives, Receive, Inv, NetInv
    <3> QED
      BY <3>4, <3>5, <3>6, <3>7 DEF Inv
  <2>7. ASSUME NEW m \in net, Lose(m) \/ Cut(m) \/ Alter(m) PROVE Inv'
    <3>1. m \in Message
      BY DEF Inv, TypeOK
    <3>2. [m EXCEPT !.pub = Short] \in Message /\ [m EXCEPT !.pub = Stranger] \in Message
      BY <3>1 DEF Message
    <3>3. UNCHANGED <<private, shared, published, result>>
      BY <2>7 DEF Lose, Cut, Alter, Harm
    <3>4. net' \subseteq Message /\ NetInv' /\ faults' \in 0 .. MaxFaults
      BY <2>7, <3>1, <3>2 DEF Lose, Cut, Alter, Harm, Inv, TypeOK, NetInv, Message
    <3> QED
      BY <3>3, <3>4 DEF Inv, TypeOK, PrivateOrShared, KeysAgree, IsComplete
  <2>8. CASE UNCHANGED vars
    BY <2>8 DEF vars, Inv, TypeOK, PrivateOrShared, KeysAgree, NetInv, IsComplete
  <2> QED
    BY <2>1, <2>2, <2>3, <2>4, <2>5, <2>6, <2>7, <2>8 DEF Next, Derive
<1> QED
  BY <1>1, <1>2, PTL DEF Spec

\* Every variable keeps its type.
THEOREM RitualTypeCorrect == Spec => []TypeOK
<1>1. Inv => TypeOK
  BY DEF Inv
<1> QED
  BY RitualInductive, <1>1, PTL

\* A ritual holds its private key or the shared one, never both, never neither.
THEOREM PrivateOrSharedHolds == Spec => []PrivateOrShared
<1>1. Inv => PrivateOrShared
  BY DEF Inv
<1> QED
  BY RitualInductive, <1>1, PTL

\* Two parties that are done and were given no altered bytes agree on the key.
THEOREM KeysAgreeHolds == Spec => []KeysAgree
<1>1. Inv => KeysAgree
  BY DEF Inv
<1> QED
  BY RitualInductive, <1>1, PTL

\* No call after the first success changes the shared key.
THEOREM OnceOnlyHolds == Spec => OnceOnly
<1>1. TypeOK /\ [Next]_vars =>
        [\A p \in Parties : IsComplete(p) => shared'[p] = shared[p]]_vars
  <2> SUFFICES ASSUME TypeOK, Next, NEW p \in Parties, IsComplete(p)
               PROVE  shared'[p] = shared[p]
    BY DEF vars
  <2>1. CASE \E m \in net : SharedKeyDerives(m)
    BY <2>1 DEF SharedKeyDerives, TypeOK, Message, IsComplete
  <2>2. CASE ~\E m \in net : SharedKeyDerives(m)
    BY <2>2 DEF Next, Derive, PublicKeyBytes, PublicKeyBytesRaises, Resend,
       SharedKeyAgain, SharedKeyFails, Lose, Cut, Alter, Harm
  <2> QED
    BY <2>1, <2>2
<1> QED
  BY RitualTypeCorrect, <1>1, PTL DEF Spec, OnceOnly
=============================================================================
