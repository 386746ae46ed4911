----------------------------- MODULE SoulStream -----------------------------
(***************************************************************************)
(* amcrypt/stream.py: one Streamer that seals chunks, another that opens   *)
(* them, both built from one session key, and between them a transport     *)
(* that may lose, swap, damage or run together what it carries and an      *)
(* application that may send a chunk again.  The body of the for loop of   *)
(* seal, or of open, up to its yield or raise, is one step.                *)
(***************************************************************************)
EXTENDS Integers, SequencesExt

CONSTANTS
  Source,       \* lengths of the plaintext chunks handed to seal, in order
  Ratchet,      \* the ratchet argument of both Streamers
  Destroyable,  \* ends on which destroy() may be called
  MaxFaults,    \* bound: interferences of the transport
  MaxChannel    \* bound: reads in flight

Ends == {"sender", "receiver"}

ASSUME StreamAssumption ==
  /\ Source \in Seq(Nat)
  /\ Ratchet \in BOOLEAN
  /\ Destroyable \subseteq Ends
  /\ MaxFaults \in Nat /\ MaxChannel \in Nat

VARIABLES
  key,        \* _key of each Streamer
  step,       \* _step of each Streamer
  wiped,      \* ends that have been destroyed
  fed,        \* chunks the generator behind seal has taken from Source
  sealed,     \* wire chunks seal has yielded: the application may keep them
  channel,    \* reads in flight, each the wire chunks it holds
  delivered,  \* chunks open has yielded
  raised,     \* open has raised at least once
  faults      \* interferences so far

vars == <<key, step, wiped, fed, sealed, channel, delivered, raised, faults>>

\* A session key is what HKDF made of a root by a number of steps.
SoulKey == [root : {"session", "zero"}, steps : Seq(Nat)]
SessionKey == [root |-> "session", steps |-> << >>]
ZeroKey    == [root |-> "zero", steps |-> << >>]

\* `chunk' is an index of Source, `key' what it was sealed under.
Shapes == {"whole", "garbled", "short", "truncated"}
WireChunk == [chunk : DOMAIN Source, key : SoulKey, shape : Shapes]

Init ==
  /\ key = [e \in Ends |-> SessionKey]
  /\ step = [e \in Ends |-> 0]
  /\ wiped = {}
  /\ fed = 0
  /\ sealed = << >>
  /\ channel = << >>
  /\ delivered = << >>
  /\ raised = FALSE
  /\ faults = 0

-----------------------------------------------------------------------------
(* The Streamer *)

\* One-way: the result determines what went in, and not the other way round.
RatchetKey(k, n) == [root |-> k.root, steps |-> Append(k.steps, n)]

\* Mutant: the step is counted and the key stays.
RatchetForwardStepOnly(e) ==
  /\ step' = [step EXCEPT ![e] = @ + 1]
  /\ UNCHANGED key

RatchetForward(e) ==
  IF Ratchet
  THEN /\ key' = [key EXCEPT ![e] = RatchetKey(@, step[e])]
       /\ step' = [step EXCEPT ![e] = @ + 1]
  ELSE UNCHANGED <<key, step>>

\* seal, one chunk; seal_final is seal of a single chunk.
Seal ==
  /\ fed < Len(Source)
  /\ Source[fed + 1] > 0
  /\ Len(channel) < MaxChannel
  /\ fed' = fed + 1
  /\ LET w == [chunk |-> fed + 1, key |-> key["sender"], shape |-> "whole"]
     IN /\ sealed' = Append(sealed, w)
        /\ channel' = Append(channel, <<w>>)
  /\ RatchetForward("sender")
  /\ UNCHANGED <<wiped, delivered, raised, faults>>

\* Mutant: an empty chunk is passed over after the key has moved on.
SealSkipsRatchets ==
  /\ fed < Len(Source)
  /\ Source[fed + 1] = 0
  /\ fed' = fed + 1
  /\ RatchetForward("sender")
  /\ UNCHANGED <<wiped, sealed, channel, delivered, raised, faults>>

\* An empty chunk is passed over: nothing is sealed, the key stays.
SealSkips ==
  /\ fed < Len(Source)
  /\ Source[fed + 1] = 0
  /\ fed' = fed + 1
  /\ UNCHANGED <<key, step, wiped, sealed, channel, delivered, raised, faults>>

\* Mutant: a chunk is authenticated under the key of the session.
OpensSession(w) == w.shape = "whole" /\ w.key.root = key["receiver"].root

\* The length checks and GCM accept w; what follows w in its read is not read.
Opens(w) == w.shape = "whole" /\ w.key = key["receiver"]

OpenYields ==
  /\ channel # << >>
  /\ Opens(Head(Head(channel)))
  /\ channel' = Tail(channel)
  /\ delivered' = Append(delivered, Head(Head(channel)).chunk)
  /\ RatchetForward("receiver")
  /\ UNCHANGED <<wiped, fed, sealed, raised, faults>>

\* Mutant: the key moves on before the chunk is authenticated.
OpenRaisesRatcheted ==
  /\ channel # << >>
  /\ ~Opens(Head(Head(channel)))
  /\ channel' = Tail(channel)
  /\ raised' = TRUE
  /\ RatchetForward("receiver")
  /\ UNCHANGED <<wiped, fed, sealed, delivered, faults>>

\* MutilatedCorpseError: the generator ends, its caller may open the rest with
\* another one.
OpenRaises ==
  /\ channel # << >>
  /\ ~Opens(Head(Head(channel)))
  /\ channel' = Tail(channel)
  /\ raised' = TRUE
  /\ UNCHANGED <<key, step, wiped, fed, sealed, delivered, faults>>

Open == OpenYields \/ OpenRaises

\* Mutant: the key is dropped, as Necromancer drops its own.
DestroyDrops(e) ==
  /\ e \in Destroyable \ wiped
  /\ key' = [key EXCEPT ![e].root = "None"]
  /\ wiped' = wiped \cup {e}
  /\ UNCHANGED <<step, fed, sealed, channel, delivered, raised, faults>>

\* Bound: once for each end.
Destroy(e) ==
  /\ e \in Destroyable \ wiped
  /\ key' = [key EXCEPT ![e] = ZeroKey]
  /\ wiped' = wiped \cup {e}
  /\ UNCHANGED <<step, fed, sealed, channel, delivered, raised, faults>>

-----------------------------------------------------------------------------
(* The application and the transport *)

\* A wire chunk is sent once more.
Resend(i) ==
  /\ Len(channel) < MaxChannel
  /\ channel' = Append(channel, <<sealed[i]>>)
  /\ UNCHANGED <<key, step, wiped, fed, sealed, delivered, raised, faults>>

Interfere(reads) ==
  /\ faults < MaxFaults
  /\ faults' = faults + 1
  /\ channel' = reads
  /\ UNCHANGED <<key, step, wiped, fed, sealed, delivered, raised>>

Lose(i) == Interfere(RemoveAt(channel, i))

Swap(i) == Interfere([channel EXCEPT ![i] = channel[i + 1], ![i + 1] = channel[i]])

Mangle(i, s) == Interfere([channel EXCEPT ![i][1].shape = s])

\* Two wire chunks come out of one recv().
Merge(i) ==
  Interfere(RemoveAt([channel EXCEPT ![i] = channel[i] \o channel[i + 1]], i + 1))

Transport ==
  \/ \E i \in 1 .. Len(channel) : Lose(i) \/ \E s \in Shapes \ {"whole"} : Mangle(i, s)
  \/ \E i \in 1 .. Len(channel) - 1 : Swap(i) \/ Merge(i)

Next ==
  \/ Seal \/ SealSkips
  \/ Open
  \/ \E e \in Ends : Destroy(e)
  \/ \E i \in 1 .. Len(sealed) : Resend(i)
  \/ Transport

Spec == Init /\ [][Next]_vars

\* The loops of seal and open run as long as there is something to take, and
\* the application sends the chunk the reader misses until it gets through.
\* (Strong, because MaxChannel may keep sender and application waiting.)
ResendMissing ==
  /\ Len(delivered) < Len(sealed)
  /\ Resend(Len(delivered) + 1)

FairSpec ==
  /\ Spec
  /\ SF_vars(Seal) /\ WF_vars(SealSkips)
  /\ WF_vars(Open)
  /\ SF_vars(ResendMissing)

-----------------------------------------------------------------------------
(* Properties *)

\* Every variable has its type.
TypeOK ==
  /\ key \in [Ends -> SoulKey]
  /\ step \in [Ends -> Nat]
  /\ wiped \subseteq Destroyable
  /\ fed \in 0 .. Len(Source)
  /\ sealed \in Seq(WireChunk)
  /\ channel \in Seq(Seq(WireChunk) \ {<< >>})
  /\ delivered \in Seq(DOMAIN Source)
  /\ raised \in BOOLEAN
  /\ faults \in 0 .. MaxFaults

BothWiped == wiped = Ends

\* Whatever the transport does, the reader gets a prefix of the sealed chunks in
\* their order: one that is lost, swapped, repeated or damaged is never stepped
\* over (stream.py:11-12, by the ratchet of 112-120), as long as the two ends
\* have not both been destroyed.
DeliveredInOrder ==
  (Ratchet /\ ~BothWiped) =>
    /\ Len(delivered) <= Len(sealed)
    /\ \A i \in 1 .. Len(delivered) : delivered[i] = sealed[i].chunk

\* k yields l by further steps.
Derives(k, l) == k.root = l.root /\ IsPrefix(k.steps, l.steps)

\* Forward secrecy (stream.py:16-19): neither the key a sender holds nor the key
\* a receiver holds is, or leads to, the key of a chunk it is done with.
PastIsSafe ==
  Ratchet =>
    \A i \in 1 .. Len(sealed) : sealed[i].key.root = "session" =>
      /\ ~Derives(key["sender"], sealed[i].key)
      /\ i <= Len(delivered) =>
           ~Derives(key["receiver"], sealed[i].key)

\* The receiver waits for exactly the next chunk it has not opened, or for the
\* next one the sender will seal (stream.py:130-133): losing, repeating or
\* rejecting a chunk leaves both ends able to go on.
InSync ==
  wiped = {} =>
    key["receiver"] = IF Len(delivered) < Len(sealed) /\ Ratchet
                      THEN sealed[Len(delivered) + 1].key
                      ELSE key["sender"]

Pipe == INSTANCE OrderedPipe WITH
  Item <- DOMAIN Source,
  put <- [i \in 1 .. Len(sealed) |-> sealed[i].chunk],
  got <- delivered

\* The stream is an ordered pipe without holes, until both ends are destroyed:
\* what they do from then on, under a key of zeros, is nobody's promise.
ImplementsPipe ==
  Pipe!Init /\ [][BothWiped \/ Pipe!Next \/ UNCHANGED <<sealed, delivered>>]_vars

\* A chunk rejected or lost is not lost for good: if the application sends it
\* again, everything sealed is delivered in the end, because open changes its
\* key only after GCM has accepted a chunk (stream.py:205-213).
AllDelivered == fed = Len(Source) /\ Len(delivered) = Len(sealed)
EventuallyDelivered == [](wiped = {}) => <>AllDelivered

-----------------------------------------------------------------------------
(* What docs and comments say and the code does not do; see PROJECT.json.  *)

\* stream.py:223-225: after destroy "all subsequent seal / open calls will raise
\* MutilatedCorpseError".
DestroyedRefuses ==
  [][/\ "sender" \in wiped => sealed' = sealed
     /\ "receiver" \in wiped => delivered' = delivered]_vars

\* stream.py:11-12: "An attacker cannot reorder or drop chunks without
\* triggering GCM authentication failure."  Everything is sealed, nothing is in
\* flight, and open has not raised.
DropIsNoticed ==
  (fed = Len(Source) /\ channel = << >> /\ ~raised) => Len(delivered) = Len(sealed)
=============================================================================
