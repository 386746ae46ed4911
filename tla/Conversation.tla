---------------------------- MODULE Conversation ----------------------------
(***************************************************************************)
(* A DarkRitual and what it is for: each party builds one Streamer from    *)
(* the key it has derived, and both seals and opens with it.  The two      *)
(* directions share one key and one step.  Wire chunks are kept and handed *)
(* to whomever in any order, any number of times or never, those of a      *)
(* party to itself among them.  The ratchet is on.                         *)
(***************************************************************************)
EXTENDS DarkRitual, Sequences

CONSTANTS
  Openers,  \* parties that speak first, where one waits for an answer
  MaxSteps  \* bound: steps of a Streamer

ASSUME ConversationAssumption ==
  /\ Openers \subseteq Parties
  /\ \A p \in Parties : p \in Openers <=> Peer[p] \notin Openers
  /\ MaxSteps \in Nat

VARIABLES
  step,   \* _step of the Streamer of each party
  log,    \* history: what each Streamer has sealed and opened, in order
  polite  \* the parties speak in turns

talk == <<step, log, polite>>
conversation == <<vars, talk>>

\* A session key is the shared key and how often it has been ratcheted.
WireChunk == [from : Parties, root : SoulKeys, step : Nat]
Entry == [op : {"seal", "open"}, chunk : WireChunk]

Sealed(p) == {log[p][i].chunk : i \in {j \in DOMAIN log[p] : log[p][j].op = "seal"}}
Air == UNION {Sealed(p) : p \in Parties}

TalkInit ==
  /\ Init
  /\ step = [p \in Parties |-> 0]
  /\ log = [p \in Parties |-> << >>]
  /\ polite \in BOOLEAN

-----------------------------------------------------------------------------
(* The Streamers                                                           *)

\* Mutant: only one direction moves the key.
RatchetsOnSeal(p, op) == step' = [step EXCEPT ![p] = IF op = "seal" THEN @ + 1 ELSE @]

\* _ratchet_forward, after sealing and after opening alike.
Ratchets(p, op) == step' = [step EXCEPT ![p] = @ + 1]

Notes(p, op, w) == log' = [log EXCEPT ![p] = Append(@, [op |-> op, chunk |-> w])]

\* One speaks first, the other when spoken to.
Turn(p) ==
  IF log[p] = << >> THEN p \in Openers ELSE log[p][Len(log[p])].op = "open"

Speak(p) ==
  /\ IsComplete(p)
  /\ step[p] < MaxSteps
  /\ polite => Turn(p)
  /\ Notes(p, "seal", [from |-> p, root |-> shared[p], step |-> step[p]])
  /\ Ratchets(p, "seal")
  /\ UNCHANGED <<vars, polite>>

\* Mutant: a chunk opens under any key of the session.
OpensAnyStep(p, w) == w.root = shared[p]

\* GCM accepts it under the present key.
Opens(p, w) == w.root = shared[p] /\ w.step = step[p]

Hear(p, w) ==
  /\ IsComplete(p)
  /\ Opens(p, w)
  /\ Notes(p, "open", w)
  /\ Ratchets(p, "open")
  /\ UNCHANGED <<vars, polite>>

\* Mutant: the key moves on, whatever GCM says.
HearRaisesRatcheted(p, w) ==
  /\ IsComplete(p)
  /\ ~Opens(p, w)
  /\ step[p] < MaxSteps
  /\ Ratchets(p, "open")
  /\ UNCHANGED <<vars, log, polite>>

\* MutilatedCorpseError.
HearRaises(p, w) ==
  /\ IsComplete(p)
  /\ ~Opens(p, w)
  /\ UNCHANGED conversation

Talk(p) == Speak(p) \/ \E w \in Air : Hear(p, w) \/ HearRaises(p, w)

TalkNext == (Next /\ UNCHANGED talk) \/ \E p \in Parties : Talk(p)

TalkSpec == TalkInit /\ [][TalkNext]_conversation

\* The fairness of the ritual; whoever may speak does in the end, and whoever
\* waits for a chunk is handed it again until it opens.
FairTalk ==
  /\ TalkSpec
  /\ \A p \in Parties :
       /\ WF_conversation(PublicKeyBytes(p) /\ UNCHANGED talk)
       /\ WF_conversation(~IsComplete(Peer[p]) /\ Resend(p) /\ UNCHANGED talk)
       /\ WF_conversation((\E m \in net : m.to = p /\ Derive(m)) /\ UNCHANGED talk)
       /\ WF_conversation(Speak(p))
       /\ WF_conversation(\E w \in Air : Hear(p, w))

-----------------------------------------------------------------------------
(* Properties *)

TalkTypeOK ==
  /\ step \in [Parties -> Nat]
  /\ log \in [Parties -> Seq(Entry)]
  /\ polite \in BOOLEAN

\* Every variable, of the ritual and of the talk, has its type.
ConversationTypeOK == TypeOK /\ TalkTypeOK

\* What a party opens is what its peer sealed at the same step of its own
\* Streamer, and never something of its own, of a stranger's or for the second
\* time, though everybody's chunks go everywhere and one Streamer's keys serve
\* both directions (stream.py:108-120, 205-213).
Agreement ==
  \A p \in Parties : \A i \in DOMAIN log[p] :
    log[p][i].op = "open" =>
      /\ log[p][i].chunk.from = Peer[p]
      /\ i \in DOMAIN log[Peer[p]]
      /\ log[Peer[p]][i] = [op |-> "seal", chunk |-> log[p][i].chunk]

Agreed(p) == IsComplete(p) /\ shared[p] = shared[Peer[p]]

\* Even if both speak at a time, and neither hears what was said first, the one
\* that is behind can catch up: the chunk its key is for was sealed by its peer
\* (stream.py:130-133).
CanCatchUp ==
  \A p \in Parties :
    Agreed(p) /\ step[p] < step[Peer[p]] =>
      \E w \in Sealed(Peer[p]) : Opens(p, w)

\* Where the parties take turns they never speak at the same step, so that all
\* that is said can be heard, and neither is more than one step ahead.
NothingCrosses ==
  polite =>
    \A p \in Parties :
      /\ Agreed(p) => step[p] <= step[Peer[p]] + 1
      /\ \A i \in DOMAIN log[p] \cap DOMAIN log[Peer[p]] :
           log[p][i].op = "seal" => log[Peer[p]][i].op = "open"

\* In turns, a party's words are the odd entries of a log, or the even ones.
Words(p, l) ==
  LET first == IF p \in Openers THEN 1 ELSE 0
  IN [k \in 1 .. (Len(l) + first) \div 2 |-> l[2 * k - first].chunk]

Pipe(p) == INSTANCE OrderedPipe WITH
  Item <- [from : {p}, root : SoulKeys, step : 0 .. MaxSteps],
  put <- Words(p, log[p]),
  got <- Words(p, log[Peer[p]])

PipesInit == \A p \in Parties : Pipe(p)!Init
PipesNext == \A p \in Parties :
  Pipe(p)!Next \/ UNCHANGED <<Words(p, log[p]), Words(p, log[Peer[p]])>>

\* Where the parties take turns, two Streamers are two ordered pipes, one for each
\* direction: what a party says is its peer's next word from it, with no hole, no
\* repetition and nothing of its own in it, though both directions use up the keys
\* of one chain (stream.py:7-19).
ImplementsPipes == PipesInit /\ [][polite => PipesNext]_conversation

\* Unless a public key was altered on its way, both Streamers come to the last
\* step: the ritual's losses, and chunks lost, repeated, crossed and rejected,
\* cost time only.
AllSaid ==
  (\A p \in Parties : [](IsComplete(p) => Stranger \notin shared[p]))
    => <>(\A p \in Parties : step[p] = MaxSteps)
=============================================================================
