----------------------------- MODULE DarkRitual -----------------------------
(***************************************************************************)
(* amcrypt/ritual.py: pairs of DarkRitual instances that exchange public   *)
(* keys over a network and derive a key each.  The network may lose a      *)
(* message, cut it short or alter it; the application keeps the public key *)
(* it has asked for and may send it again.                                 *)
(***************************************************************************)
EXTENDS Integers

CONSTANTS
  Parties,       \* DarkRitual instances, one for each party
  Peer,          \* whom each party performs the ritual with
  None,          \* Python's None
  Short,         \* bytes the library refuses: not 32 of them, or of low order
  Stranger,      \* 32 altered bytes: a public key that is nobody's
  PublishFirst,  \* the application asks for its public key before it derives
  MaxFaults      \* bound: messages the network harms

ASSUME RitualAssumption ==
  /\ Peer \in [Parties -> Parties]
  /\ \A p \in Parties : Peer[p] # p /\ Peer[Peer[p]] = p
  /\ \A k \in SUBSET (Parties \cup {Stranger}) : None # k
  /\ {Short, Stranger} \cap Parties = {} /\ Short # Stranger
  /\ PublishFirst \in BOOLEAN
  /\ MaxFaults \in Nat

VARIABLES
  private,    \* _private_key is still there
  shared,     \* _shared
  published,  \* the application holds the party's public key
  net,        \* messages in flight
  result,     \* what the last call of each party returned or raised
  faults      \* messages harmed so far

vars == <<private, shared, published, net, result, faults>>

\* Mutant: the key is derived from the peer's half alone.
SharedKeyOneSided(p, pub) == {pub}

\* The curve gives both parties the same secret: a key is named by the set of
\* the two key pairs it comes from.
SharedKey(p, pub) == {p, pub}
SoulKeys == SUBSET (Parties \cup {Stranger})

Message == [to : Parties, pub : Parties \cup {Short, Stranger}]

Init ==
  /\ private = [p \in Parties |-> TRUE]
  /\ shared = [p \in Parties |-> None]
  /\ published = {}
  /\ net = {}
  /\ result = [p \in Parties |-> "none"]
  /\ faults = 0

IsComplete(p) == shared[p] # None

Returns(p, r) == result' = [result EXCEPT ![p] = r]

-----------------------------------------------------------------------------
(* The DarkRitual, and the application that calls it                       *)

Send(p) == net' = net \cup {[to |-> Peer[p], pub |-> p]}

\* public_key_bytes, and the message that carries them.
PublicKeyBytes(p) ==
  /\ private[p]
  /\ Returns(p, "bytes")
  /\ published' = published \cup {p}
  /\ Send(p)
  /\ UNCHANGED <<private, shared, faults>>

\* Mutant: a spent ritual gives None for its public key.
PublicKeyBytesQuiet(p) ==
  /\ ~private[p]
  /\ Returns(p, "None")
  /\ UNCHANGED <<private, shared, published, net, faults>>

\* x25519_public_bytes(None).
PublicKeyBytesRaises(p) ==
  /\ ~private[p]
  /\ Returns(p, "AttributeError")
  /\ UNCHANGED <<private, shared, published, net, faults>>

\* The application sends the bytes it kept.
Resend(p) ==
  /\ p \in published
  /\ Send(p)
  /\ UNCHANGED <<private, shared, published, result, faults>>

\* A message reaches the application, which calls shared_key with it.
Receive(m) ==
  /\ PublishFirst => m.to \in published
  /\ net' = net \ {m}
  /\ UNCHANGED <<published, faults>>

\* Called once too often.
SharedKeyAgain(m) ==
  /\ Receive(m)
  /\ IsComplete(m.to)
  /\ Returns(m.to, "RuntimeError")
  /\ UNCHANGED <<private, shared>>

\* Mutant: the private key is dropped before the exchange.
SharedKeyFailsDropped(m) ==
  /\ Receive(m)
  /\ ~IsComplete(m.to)
  /\ m.pub = Short
  /\ Returns(m.to, "ValueError")
  /\ private' = [private EXCEPT ![m.to] = FALSE]
  /\ UNCHANGED shared

\* from_public_bytes raises: the ritual may go on with other bytes.
SharedKeyFails(m) ==
  /\ Receive(m)
  /\ ~IsComplete(m.to)
  /\ m.pub = Short
  /\ Returns(m.to, "ValueError")
  /\ UNCHANGED <<private, shared>>

\* Mutant: a second call derives again (from the key pair that is still there).
SharedKeyDerivesAlways(m) ==
  /\ Receive(m)
  /\ m.pub # Short
  /\ shared' = [shared EXCEPT ![m.to] = SharedKey(m.to, m.pub)]
  /\ UNCHANGED private
  /\ Returns(m.to, "key")

\* The exchange takes the key pair, which is destroyed; the key is kept and
\* returned.
SharedKeyDerives(m) ==
  /\ Receive(m)
  /\ ~IsComplete(m.to)
  /\ m.pub # Short /\ private[m.to]
  /\ shared' = [shared EXCEPT ![m.to] = SharedKey(m.to, m.pub)]
  /\ private' = [private EXCEPT ![m.to] = FALSE]
  /\ Returns(m.to, "key")

Derive(m) == SharedKeyAgain(m) \/ SharedKeyFails(m) \/ SharedKeyDerives(m)

-----------------------------------------------------------------------------
(* The network                                                             *)

Harm(messages) ==
  /\ faults < MaxFaults
  /\ faults' = faults + 1
  /\ net' = messages
  /\ UNCHANGED <<private, shared, published, result>>

Lose(m) == Harm(net \ {m})

Cut(m) == Harm((net \ {m}) \cup {[m EXCEPT !.pub = Short]})

Alter(m) == Harm((net \ {m}) \cup {[m EXCEPT !.pub = Stranger]})

Next ==
  \/ \E p \in Parties : PublicKeyBytes(p) \/ PublicKeyBytesRaises(p) \/ Resend(p)
  \/ \E m \in net : Derive(m) \/ Lose(m) \/ Cut(m) \/ Alter(m)

Spec == Init /\ [][Next]_vars

\* Each application publishes, repeats what it has published while its peer is
\* not done, and hands what arrives to its ritual.
FairSpec ==
  /\ Spec
  /\ \A p \in Parties :
       /\ WF_vars(PublicKeyBytes(p))
       /\ WF_vars(~IsComplete(Peer[p]) /\ Resend(p))
       /\ WF_vars(\E m \in net : m.to = p /\ Derive(m))

-----------------------------------------------------------------------------
(* Properties *)

\* Every variable has its type.
TypeOK ==
  /\ private \in [Parties -> BOOLEAN]
  /\ shared \in [Parties -> {None} \cup SoulKeys]
  /\ published \subseteq Parties
  /\ net \subseteq Message
  /\ result \in [Parties -> {"none", "bytes", "key", "AttributeError",
                             "RuntimeError", "ValueError"}]
  /\ faults \in 0 .. MaxFaults

\* A party has its private key until it has the shared one and not a moment
\* longer: a failed exchange costs neither, a finished one leaves no way back
\* (ritual.py:93-102).
PrivateOrShared == \A p \in Parties : private[p] <=> ~IsComplete(p)

\* Two parties that are done, neither having been given altered bytes, hold the
\* same key, and nobody else holds it (ritual.py:4-5).
KeysAgree ==
  \A p \in Parties :
    IsComplete(p) /\ Stranger \notin shared[p] => shared[p] = {p, Peer[p]}

\* A shared key, once derived, is the only one (ritual.py:80-82).
OnceOnly == [][\A p \in Parties : IsComplete(p) => shared'[p] = shared[p]]_vars

\* If every application publishes before it derives and repeats what it kept,
\* both parties finish whatever is lost or cut short on the way (ritual.py:7-21).
EventuallyDone == <>(\A p \in Parties : IsComplete(p))

-----------------------------------------------------------------------------
(* What docs and comments say and the code does not do; see PROJECT.json.  *)

\* ritual.py:67: "Return the 32-byte raw public key for transmission", which the
\* example of ritual.py:52-53 asks of a party that has its shared key.
PublicKeyForTheAsking == \A p \in Parties : result[p] # "AttributeError"
=============================================================================
