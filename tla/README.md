# A TLA+ model of amcrypt

amcrypt (`src/amcrypt/`) seals Python objects into encrypted envelopes
("corpses"), opens them again, streams chunks under a ratcheting key and
exchanges keys. This directory holds TLA+ modules of it, TLC configurations that
check them on small instances, and TLAPS proofs of what they promise for every
instance. `PROJECT.json` lists the runs, the source lines behind each
definition, the hazards, the findings and the theorems.

The subject is correctness: what comes back is what went in, an instance dies
when it should and only then, the two ends of a stream stay together, and what
of this is left when threads share an object or a Streamer is used both ways. Whether
the cryptography is strong is not a question these modules ask; the primitives
are modelled by what their callers rely on.

## The system

| Component | Source | State | Operations |
|---|---|---|---|
| Necromancer | `core.py` | `_key`, `_tamper_count`, `_destroyed` | `kill`, `revive` |
| kill switch (inside it) | `core.py:203-247` | the same three | `_self_destruct`, `_check_destroyed`, `_record_tamper`, `_reset_tamper`, `_is_poison_pill` |
| Streamer | `stream.py` | `_key`, `_step` | `seal`, `seal_final`, `open`, `destroy` |
| DarkRitual | `ritual.py` | `_private_key`, `_shared` | `public_key_bytes`, `shared_key`, `is_complete` |
| DoppelgangerNecromancer | `doppelganger.py` | none | `kill`, `revive` |
| DebuggerDetector | `watcher.py` | which checks are on | `is_debugging` |
| primitives | `crypto.py` | none | AES-GCM, ECDSA, HKDF, X25519, scrypt |
| `summon_key`, names | `__init__.py` | none | `summon_key` |

**How they interact.** `Necromancer.revive` asks its `DebuggerDetector` first and
then uses AES-GCM and ECDSA. A `DarkRitual` produces the key that a `Necromancer`
or both `Streamer`s are built from. Corpses and chunks travel over something the
library does not control, so every `revive` and `open` takes bytes that may not
be what was sent. `Necromancer` and `Doppelganger` share a wire format and tell
each other's corpses apart by the version byte. `DebuggerDetector` calls the
custom checks it was given; otherwise no component calls another back. There
are no background threads and no locks: threads that share an object alternate
wherever the interpreter lets them. The generators of `Streamer` run between
`yield`s when their consumer asks, and all of one Streamer move one key.

**What is hard.**

- A clear header that GCM does not cover steers a parser that removes up to three
  layers (padding, timestamp, signature). Each layer has its own flag, and a flag that
  lies makes the parser cut inside what another layer left.
- A counter of *consecutive* failures is incremented by one exit of `revive`, reset
  by another, and must be left alone by all the others. One of those exits raises
  from inside an exception handler.
- A poison pill is looked for in the first bytes of whatever arrives, and stealth
  turns those bytes into a function of the key.
- Sender and receiver each move a key by themselves and must move it at the same
  chunks, across loss, reordering, repetition, damage and exceptions.
- Rounding (`int(time.time())`), a one-byte length for up to 256 bytes, thresholds of
  zero and below, empty chunks, an empty `hwid`.
- Every object can be used after its end: a dead Necromancer, a destroyed Streamer, a
  completed ritual.
- The key of a Necromancer dies in three writes (zeros into the buffer, `None` into
  `_key`, `True` into `_destroyed`), the counter grows by a read and a write, and a call
  reads `_key` after it has looked at `_destroyed`: threads can come between any two.
- One Streamer that seals and opens has one step for both directions; if both sides
  speak at a time, neither hears what was said.
- The checks of the detector run one by one, while what they look for comes and goes.

**What makes each component correct.**

| Component | Property | Where |
|---|---|---|
| Necromancer | only what was sealed comes back, under its key, hardware, lifetime, signer; if the header lies about the layers, as much of this as holds (below, *Runs*) | `HonestRevive` |
| | what was sealed comes back | `RoundTrip` |
| | no timestamp is later than the lifetime asked for | `ExpiryInv` |
| kill switch | dies on exactly the right verdict, for the right reason, for good | `ImplementsKillSwitch`, `CountsConsecutive`, `DeathHasCause`, `DeathIsFinal`, `KeyInv` |
| Streamer | an ordered pipe without holes; keys in step; old keys gone; resent chunks get through | `ImplementsPipe`, `DeliveredInOrder`, `InSync`, `PastIsSafe`, `EventuallyDelivered` |
| kill switch, shared by threads | a death that was begun is finished, in order, never early; a dead instance says so; late only by a known number of failures, and not at all where calls take turns | `RitesAttended`, `RitesAreFinished`, `ImplementsLastRites`, `DeadStaysDead`, `NeverMuchTooLate`, `PunctualInTurn` |
| both directions of a Streamer | what is heard was said by the peer, at this place; who is behind can catch up; taking turns loses nothing and makes an ordered pipe of each direction; the talk ends | `Agreement`, `CanCatchUp`, `NothingCrosses`, `ImplementsPipes`, `AllSaid` |
| DarkRitual | one key each, the same key, never both key pair and key, both finish | `OnceOnly`, `KeysAgree`, `PrivateOrShared`, `EventuallyDone` |
| Doppelganger | each key its own object, whatever became of the other's, unless the header announces a timestamp that is not there | `HonestDual`, `BlocksIndependent` |
| DebuggerDetector | what shows throughout is seen, what is seen showed | `NothingMissed`, `NoFalseAlarm` |

## Modules

### Envelope.tla, Necromancer.tla

`Envelope.tla` has the pure part: what `kill` wraps in what (`Plaintext`, `Pack`),
and what `revive` does with a corpse (`Malformed`, `Refusal`, `Authentic`,
`Opened`). A corpse is a record: `deed` says what was sealed, under which key and
for whom, and stands for the ciphertext; `shape`, `magic`, `version` and `flags` are the
header; `intact` says whether the ciphertext is what it was. The plaintext is a
nest of layers, which `PadOff`, `TtlOff` and `PactOff` take off. `rot` is a ghost field:
the instant at which the requested lifetime really ends, against which rounding is judged.

If the layer is not the one the header promises, bytes are cut at a wrong place, and what
is there decides what `revive` can end in (`Misread`). *Noise* is what kill made: random
padding, the zeros that a timestamp or the length of a public key begins with. It is
taken never to be a zlib stream. *Depths* is the inside of a compressed stream, and that is what
the object made it: zlib stores verbatim what it cannot compress, so a stream can be
found in it, which `zlib.decompress` accepts, ignoring what follows, and which may unpickle
to any object. The cuts lead there as follows.

| Flag set without its layer | The cut | Leads to |
|---|---|---|
| `PADDED` | the first byte is read as a length: 0x78 of a zlib stream, so 121 bytes are cut; 0 of a timestamp or of a public key's length, so one is | depths; noise |
| `TTL` | eight bytes, read as an expiry that is far off if they are of a stream | depths of a stream, noise of a signature or of padding |
| `SIGNED` | two lengths, whatever they are, and a signature that has to verify | depths, but noise in a timestamp |

Where this is less than sure (whether the eight bytes after a stream's head can be followed by
a stream, say), the model says depths. An object found where a signature is read must be one
that the owner of the verifying key has signed, with `kill` or elsewhere: the constant
`Vouched` has those of each signer. `UnpicklingError` stands for whatever `pickle.loads`
raises for bytes that are no pickle. Neither it nor `zlib.error` is among the documented exceptions.

`Necromancer.tla` is the class: `key`, `tamper_count`, `destroyed` are the three
attributes, `wire`, `now` and `watched` the world (corpses in existence, the clock,
the debugger), `call` the last call with its arguments, GCM's verdict and its result.
`Kill` and `KillRaises` are `kill`; the six disjuncts of `Revive` are the ways out of
`revive`, in the order of its gates:

| Action | Lines of `core.py` | |
|---|---|---|
| `ReviveTrapped` | 373 | a debugger |
| `RevivePoisoned` | 376-380 | kills the instance, even a dead one |
| `ReviveDead` | 383 | |
| `ReviveRefused` | 386-399 | envelope and pre-checks; nothing is counted |
| `ReviveTampered` | 407-415 | counts, and perhaps kills |
| `ReviveOpened` | 406, 417-462 | resets the counter whatever comes after |

A call is one step: the module is about one thread.

### NecromancerThreads.tla, LastRites.tla

The same class with threads on one instance, whose calls are taken apart: a step
is one read or write of `_key`, of the buffer it refers to, of `_tamper_count` or
of `_destroyed`, and `pc` says what each thread is to do next. What is in a corpse
does not matter here, only which of four ways it goes (`Corpses`). A GCM
decryption under a buffer that was wiped meanwhile fails like any other and is
counted (`ReviveFails`). The language promises no atomicity for any of these; whether
a given interpreter switches threads inside `+= 1` or not, `ctypes.memset` lets go of
the interpreter lock, so the split of wipe, drop and flag is there in all of them. With
`anti_debug=False` gate 1 just passes, which is among the behaviours. `LastRites` is
what is left of the kill switch: alive, wiped, keyless, dead, once, in this order, and
for a pill or enough failing verdicts. `late`, `posthumous`, `overlapped`, `strikes`,
`streak` and `pilled` are history.

What may happen under threads, since no document speaks against it: increments get
lost; failures that are not consecutive to an observer complete a run, when a reset
falls between another thread's read and write; a call that was past `_check_destroyed`
raises `TypeError` for the missing key, or seals under zeros, or calls a genuine corpse
tampered with. A call that *begins* after the death can do none of this; and where no
two calls ever overlap (`overlapped`), because a caller holds a lock around each or for whatever
reason, there is nothing of it: the switch is then as exact as that of one thread
(`PunctualInTurn`), which says what such a lock buys.

### KillSwitch.tla, NecromancerH.tla

`KillSwitch.tla` is the promise of the documentation, without a counter: an
instance dies exactly when its last *n* verdicts were failures, or on a pill.
`NecromancerH.tla` adds the history of verdicts to `Necromancer` and states the
refinement (`ImplementsKillSwitch`), and that the counter is the length of the
failing run the history ends with (`CountsConsecutive`).

### SoulStream.tla, OrderedPipe.tla

A sender, a receiver, and a `channel` of reads between them; a read is a sequence
of wire chunks, because a socket may deliver two at once and `open` ignores what
follows the first. A key is the sequence of ratchet steps that made it, which is how
a one-way function looks to those who hold its results. One pass of the loop of
`seal` or `open` is a step; an empty chunk is passed over (`SealSkips`); an exception of `open`
ends the generator and its caller may start another on the same Streamer. `destroy`
at either end puts in the key of zeros. The transport may lose, swap,
damage, cut and merge; the application may resend what it kept. `OrderedPipe.tla`
is what the two ends are meant to amount to.

### DarkRitual.tla, Conversation.tla

Parties in pairs, a set of messages in flight, and a network that loses, cuts short
(`Short`: bytes the library refuses) or alters (`Stranger`: somebody's public key but not the peer's) what it carries.
A shared key is named by the two key pairs it comes from.

`Conversation` extends `DarkRitual` with what it is for: a Streamer per party, built
from the key it derived. Each Streamer both seals and opens, and `log` is the history
of what it did. Any number of generators may be suspended over it: between two
`yield`s a generator does one `Speak`, `Hear` or `HearRaises`, and holds nothing but the
Streamer. Chunks are never used up, so everybody may be handed anything at any time, its own
chunks among them. `polite` fixes whether the parties take turns. If they do
not, both may speak at the same step: those chunks can be heard by nobody any more.
If they do, each direction is an `OrderedPipe` of its own (`Pipe`): a party's words are every
other entry of a log (`Words`), the same ones in its own log and in its peer's.

### Doppelganger.tla

Two blocks in one corpse, each `whole`, `garbled` or `odd` (its nonce sliced too short
for AESGCM, which then raises ValueError and not InvalidTag). `BlockDamage` lists
what flipped bytes, a wrong split or a cut can make of the pair: a decoy
block that is `odd` never leaves the real one whole. `BlockOpened` is the loop over the
blocks, with the exception it catches and the one it does not. A TTL flag on a corpse without
a timestamp (`Misdated`) cuts eight bytes into a compressed stream: `Misread`, as above.

### Watcher.tla

`is_debugging` as its loop: a thread is `at` a place in `List`, the built-in checks and the
custom ones, and one check is a step. `signs` are what checks would find, per thread,
because trace and profile functions and frames belong to threads; `broken` are the
custom checks that raise. `shown` and `seen` are the history against which an answer is
judged, since between a question and its answer debuggers may come and go. A debugger
that always moves to a check that has just been run is missed, and nothing says otherwise.

`Necromancer` takes the answer as an input (`watched`): what the one promises about its
answer does not depend on the state of the other.

### The others

`MC*.tla` instantiate the above for TLC; `*Proofs.tla` hold the theorems. Operators commented "Mutant" in the component modules are plausible bugs:
each is put in place of the definition below it to see that a property breaks.

## Runs

| Run | Configuration | Shows |
|---|---|---|
| `parser` | `Necromancer_parser.cfg` | 321,000 states. All arguments of `kill` and `revive` (two signers with one object each, two identifiers of which one is empty, stealth, padding, a lifetime), a corpse damaged in any one field or two flags: `HonestRevive`, `RoundTrip` |
| `lifetime` | `Necromancer_lifetime.cfg` | 779,000 states. Two instances with different keys, a clock in half seconds: `HonestRevive`, `ExpiryInv`, `RoundTrip` |
| `killswitch` | `Necromancer_killswitch.cfg` | 429,000 states. Two instances with one key, thresholds 2 and 0, up to four verdicts each: the five kill-switch properties |
| `stream` | `SoulStream_transport.cfg` | 319,000 states. Two interferences of any kind, resending, `destroy` anywhere: the safety properties, the refinement of `OrderedPipe` until both ends are wiped, and everything arrives if none is |
| `conversation` | `Conversation_ritual.cfg` | 63,000 states. A ritual with two messages harmed, then three steps of talk, in turns or not: both finish the ritual and the talk, and hear what the other said; in turns, each direction refines `OrderedPipe` |
| `doppelganger` | `Doppelganger_vault.cfg` | 107,000 states. All arguments of `kill` and `revive`, damage to the header or to either or both blocks, a clock that passes the lifetime: `HonestDual`, `BlocksIndependent` |
| `threads` | `NecromancerThreads_shared.cfg` | 198,000 states. Two threads, a threshold of three, every kind of corpse: the six properties of the shared kill switch |
| `watcher` | `Watcher_threads.cfg` | 81,000 states. Two threads, five checks of which one may break and one is useless, three changes: `NothingMissed`, `NoFalseAlarm` |

Four more runs each show one statement of a doc or a test-like example that the
code does not keep:

| Run | Statement | What happens |
|---|---|---|
| `pad_length` | padding is 16-256 bytes | a length of 256 does not fit its byte: `kill` raises `struct.error` |
| `stream_destroyed` | a destroyed Streamer raises | it seals and opens on, with a key of zeros |
| `stream_lost_tail` | dropped chunks are noticed | the last ones are not |
| `ritual_example` | the documented exchange | the second `public_key_bytes` comes after `shared_key` and raises `AttributeError` |

**What an altered header can do.** GCM covers the ciphertext and, by way of the associated data, the
hardware identifier, but neither the flags nor the rest of the header. `HonestRevive` says what is left of "the original
Python object" (`core.py:363-364`) and of the "tamper-evident binary envelope" (`README.md:5` of the
repository) in that case:

- whatever the header says, nothing comes back unless GCM accepted the very ciphertext for this key
  and this hardware identifier, so `pickle.loads` sees only bytes that were sealed (`README.md:26`);
- a corpse that was signed is not opened by dropping its `SIGNED` flag, and where a signature is
  read the object is one that its owner signed;
- with the three layer flags as kill wrote them, and for a corpse with a timestamp under any
  flags that do not have a signature read, it is the sealed object, in its lifetime and for its signer;
- otherwise it may be another object. With `PADDED` or `TTL` set on a corpse that has neither
  timestamp nor signature, `revive` unpickles what it finds inside the compressed stream
  (`core.py:136-142`, `418-419`, `424-425`, `454-456`).

Other disagreements follow from the definitions and have no run of their own.
`stealth=True` merely skips the check of the magic, so it need not "match the flag
used during kill" (`core.py:357`, `498`). A lifetime may end up to a second early
(`core.py:118`; `exceptions.py:45`). The embedded public key is never fallen back to
(`core.py:395-399`, `447-448`). `chunk_size` is stored and never used
(`stream.py:93`, `104`). With `ratchet=False` a reordered stream authenticates
(`stream.py:11-12`, `114-115`). A garbled Doppelganger block is reported as
WrongRealmError and not as MutilatedCorpseError (`doppelganger.py:218`, `259-262`). With
one key for both objects only the decoy can be revived (`doppelganger.py:205`, `251-257`).
A Doppelganger corpse of less than eight bytes raises `struct.error`, where
`exceptions.py:22-25` has CorpseDeliveryError for what is too short and `core.py:493` raises it
(`doppelganger.py:224`). The `sys.monitoring` check looks for a name that module does not
have and never sees anything (`watcher.py:15`, `86`, `_check_monitoring_fn`), and there is no
"value identity check" of `sys.gettrace` (`watcher.py:16`).

### Bounds, and why they are enough

- *One corpse on the wire* (`MaxCorpses`). A call looks at one corpse, and corpses affect each
  other only through the counters and keys of instances, which the one corpse and its
  replacement by damage move in every way.
- *One damage per corpse*, of one field or up to `MaxFlips` flags. The parser looks at
  each flag once, in a fixed order; two wrong flags give every pair of wrong turns. The
  proofs hold for any flags.
- *Two objects* in `parser` and `lifetime`: the one that was sealed and another one, which a
  misread corpse may turn into. In `parser` each is signed by one signer; in `lifetime` nobody signs.
- *Clock*: `MaxTime` ticks of half a second (`TicksPerSecond = 2`), so that a kill can fall
  between seconds, with a lifetime of one second and room past its end.
- *Thresholds*: 2 has a run to complete and one to break; 0 stands for all below 1. Four
  verdicts (`MaxTrail`) hold fail-pass-fail-fail.
- *Mask*: one key masks the magic into the first four bytes of the pill, the worst case for
  the order of the gates.
- *Stream*: three chunks and an empty one, reads in flight up to `MaxChannel = 3`, so that a
  chunk can be lost while its successors are under way and be overtaken by them. Safety and liveness are
  checked in the same run.
- *Conversation*: three steps of each Streamer (`MaxSteps`) are a question, an answer and one more, or
  three crossed messages and their repetition; two harmed messages (`MaxFaults`) hit both publications or
  one twice. More steps repeat: keys only matter by being equal or not.
- *Threads*: two, because every race here is between one that writes and one that is about to read or
  write; the proofs are for any finite number. A threshold of three leaves room
  for an increment to be lost and for more to be covered by an old value afterwards. The counters need
  no bound: they are bounded by the death of the instance.
- *Detector*: three changes (`MaxChanges`) let a debugger come, move on and go while one question is
  answered. One custom check behind the built-in ones, which may break; one built-in check is off.
- *Doppelganger*: two keys, so the keys of a corpse may be equal or not, and every key is
  right for some block and wrong for another. `Huge` contains one object, which then occurs as
  the real one and makes `kill` raise as the decoy.
- *Symmetry* is used for signers together with the objects they sign (`parser`), for objects
  (`lifetime`) and for keys (`doppelganger`), which no constant tells apart there, and in no run
  with liveness.

No run disables the check for deadlock.

### Fairness

`SoulStream!FairSpec`: the loops of `seal` and `open` take what is there to be taken (`WF`
of `Open` and `SealSkips`), and the application resends the chunk the reader misses until
it gets through. That the library's own steps are fair is the consumer's iterating over a
generator. That the application resends is no promise of the code, which has no
acknowledgements: it is the assumption under which `EventuallyDelivered` says that a
rejected chunk does no lasting harm. `Seal` and the resending are strongly fair because
`MaxChannel`, a bound of the model, can disable them again and again.
The transport has no fairness and a bounded number of interferences.

`DarkRitual!FairSpec`: applications publish, repeat what they published while the
peer is not done, and hand on what arrives. `PublishFirst` is the discipline this needs:
without it the run `ritual_example` shows a party that cannot publish any more.

`Conversation!FairTalk` has the ritual's fairness, and: whoever may speak does, whoever
waits is handed the chunk that its key is for. The last is again an application that
resends; `HearRaises` says that the chunks it is handed before do no harm.

`NecromancerThreads!FairSpec`: a thread that can go on does (`WF` of `Runs`), which is what an
interpreter does for its threads, there being no lock in this code that one could wait
for. That a thread makes a call, or ever ends calling, is not assumed.

Nothing is assumed fair in the other modules, and no liveness is claimed of them: every
call returns in one step, or in as many as there are checks.

## Proofs

All theorems hold for every value of the constants that satisfies the named assumptions
(`EnvelopeAssumption` and so on, which TLC evaluates in every run): any sets of keys,
instances and objects, any clock resolution, any thresholds, any number of corpses,
any source and any number of interferences.

**Necromancer.** The first section of `NecromancerProofs` shows of the operators alone that the
layers of an undamaged corpse come off as they were put on (`OpenedGenuine`), and what a
parse that ends in an object says of the corpse under *any* flags (`OpenedHonest`). If the layer
flags are kill's, the layers come off (`LayersKeptPeel`). If a corpse is dated and no
signature is read, only the right flags lead to a stream (`LayersOff`), and any other lead to noise or leave
a layer that zlib rejects. If a corpse is signed and no signature is read, none do (`LayersLost`). What
is left are the depths, where a signature that is read vouches for the object. On top of this stands the inductive invariant
`IInv == TypeOK /\ KeyInv /\ ExpiryInv`. `HonestRevive` is not inductive alone: that the
instance's `key` is still the one it was built with is `KeyInv`, and that the timestamp
bounds the lifetime is `ExpiryInv`. `DeathIsFinal`, `DeathHasCause` and `RoundTrip` follow
from `IInv` step by step.

**Kill switch.** `NecromancerHProofs` strengthens `CountsConsecutive` with the type of the
history and `IInv`; `FatalRun` shows that a history is fatal in `KillSwitch`'s sense exactly
when the run it ends with has reached the threshold, and every step of the code is then a
`Verdict`, a `Swallow` or a stutter.

**Stream.** With the ratchet on, the inductive invariant `SInv` says that an end that was
not destroyed holds the session key ratcheted once per chunk (`KeyChain`), that a sealed chunk was
sealed under the key of its place or under one that descends from zeros (`SealedChain`),
and that the transport only holds what was sealed (`InFlight`). Order follows because keys of different
places differ, `PastIsSafe` because the chain only grows. The refinement of
`OrderedPipe` holds for every step until both ends are destroyed (`StreamIsPipe`), and for
good where not both can be (`StreamIsPipeForGood`): two
destroyed ends talk to each other again under zeros, from different places. With the ratchet off
nothing of the order is left; `PlainInv` has the types and that a key stays what it was until it is
wiped, so `TypeOK` and `InSync` hold either way.

**Threads.** `IInv` adds four things to the types. `Rite`: the buffer, `_key` and `_destroyed`
change in this order, and whoever has done one of the writes is at the next; this is
`RitesAttended` made inductive, because a second thread may pass the same places or fall
out of them with a TypeError. `Late`: where a thread can be whose call came
after the death. `Reason`: a thread on its way into `_self_destruct` has a pill or enough
failing verdicts behind it. `Count`: the counter, and every value of it that a thread
holds between read and write, is covered by failing verdicts that are not themselves
still to be counted (`Covered`, `Pending`); so lost increments make the switch late and
nothing makes it early. Each step then is a step of `LastRites` or a stutter.

How late it can be needs a second invariant (`ThreadsOnTime`). Without overlaps (`InTurn`) at most one
thread is outside idleness, the counter and what it holds are the streak, and the streak reaches the
threshold only with somebody at the comparison or in `_self_destruct`. With two threads (`Lateness`),
one of three things holds. `Doomed`: the instance is dead or somebody is in `_self_destruct`, which
nothing turns back. `Sealed`: the count has reached the threshold, one thread is about to compare it,
and the other can only raise it. Otherwise `Behind`: each thread holds a number, what it has read or,
if it has not, the counter (`Held`), and an increment writes back what its thread holds plus
one. So the failures in a row are paid for by what the two hold: twice the streak is at most
`Room(Held(t)) + 2 * Held(u)`, whichever of the two is called t, where `Room(x)` grows by
`2 * (Limit - x)` with x, the most that one step up of the lower number can let the other thread
repeat. A reset makes the streak 0 and leaves both numbers below the threshold; at the bound
both are `Limit - 1`. A single thread never overlaps (`Alone`), which covers what is left.

**Conversation.** Every step is a step of `DarkRitual` or leaves it alone
(`ConversationIsRitual`), so its theorems hold here too. The talk's own invariant says that
a chunk carries its speaker's key and place (`Roots`, `Logged`: the place in the log is the step), that
`Agreement` holds, and, for polite parties, whose turn it is by whether the step is odd (`Turns`).
For the refinement (`ConversationIsPipes`), `WordsGrow` says that an entry adds to the words of one party
and leaves the other's alone; a `Speak` is then a `Put` of its party's pipe, a `Hear` a `Get` of its
peer's, which by `HeardFromPeer` finds the word at the very place it is for.

**Detector.** `Asking` relates `shown` and `seen` of a thread that is asking to the checks it
has passed: none of them shows throughout but the useless one.

**Ritual.** `PrivateOrShared` and `KeysAgree` are inductive with one addition,
`NetInv`: what arrives is the peer's key or has been harmed.

**Doppelganger.** The invariant adds `WireOK`: damage that makes the decoy's nonce too short
spoils the real block too, which is why the uncaught ValueError cannot cost the real key
a whole block, and timestamps are timely. Where the header announces no timestamp that is
not there, the object is the one of the block that the key opened.

**Only model-checked**: `EventuallyDelivered`, `EventuallyDone`, `AllSaid` and `RitesAreFinished`, since TLAPS does
not prove liveness under fairness. That the bound of `NeverMuchTooLate` is the exact one for two threads
was seen with TLC (thresholds of 1 to 5 give 0, 3, 7, 12 and 18); that it is a bound is proved, for every
threshold. For more than two threads nothing is said of the delay unless calls take turns. **Only proved for the ratchet on**: the
refinement of the stream, which is false without it.

## Not modelled

- *Secure wiping of temporary buffers*: `_to_writable` copies immutable bytes, so the originals of `kill` and
  `revive` are not wiped. Nothing else depends on it: a module would consist of the fact. Only what
  becomes of the key is modelled.
- *summon_key*, scrypt, pickle and zlib: pure functions. `dual_encrypt` and
  `dual_decrypt_single` of `crypto.py` have no caller.
- *Malformed DER keys* and other arguments of a wrong type, and expiries of 2^56 and above, whose
  first byte in a timestamp is not 0 (from 2^64 they do not fit at all).
- *A clock that is set back.* `time.time()` only advances here.
- *Threads that share a Streamer or a ritual.* Generators of one Streamer are modelled between their
  yields; a switch of threads inside `_ratchet_forward` is not.
- *A key that is read while it is being wiped*, byte by byte: it is wrong as a whole. Nor is there a corpse
  that somebody sealed under the key of zeros, which a wiped buffer would open.
- *Which process, module or variable a check of the detector looks at*: there is a sign or there is none.

## Plan

Done in this order, the most important behaviour first: `Envelope` and `Necromancer`; the
kill switch's refinement; `SoulStream` and `OrderedPipe`; `DarkRitual`; `Doppelganger`;
`NecromancerThreads` and `LastRites`; `Conversation`; `Watcher`.

1. Theorems: how late more than two threads can make the switch; `OrderedPipe` with the
   ratchet off and a transport that keeps the order.
2. Streamers whose two ends are used by two threads each.
3. A dead Necromancer whose corpses are revived by another instance with the same key, with threads
   on both: `NecromancerThreads` has one instance.
