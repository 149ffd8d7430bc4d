# EdgarVPN in TLA+

TLA+ models of EdgarVPN, the TLC runs that check them on small instances, and
TLAPS proofs of the main results for every value of the constants.
Paths are relative to the directory that holds `src/` and `tla/`: the C code is
in `src/src/`, its headers in `src/include/`, its documents in `src/docs/`.

## The system

EdgarVPN is a single-threaded daemon that carries IPv4 packets between a TUN
device and UDP. Each *relationship* with a peer has an initiator and a
responder, fixed in the configuration. A handshake of two messages (INIT,
RESPONSE), sealed under keys derived from the long-term key pairs, exchanges
ephemeral public keys; both sides derive data keys from them, and packets
travel in DATA messages with a counter that a replay window checks.

| Part | Source | Modules | State of the model |
|---|---|---|---|
| replay window | `session.c` 159-213 | `ReplayWindow`, `ReplayReceiver`, `AtMostOnce` | modelled, proved |
| session state machine | `session.c`, `session.h` | `Session`, `Relationship` | modelled, proved |
| cryptography | `crypto.c`, `crypto.h` | `Crypto`, `Wire` | symbolic; lengths and the coding of counters in `Wire`, proved |
| routing | `routing.c` | `Routing`, `Algorithms` | modelled, proved |
| event loop | `main.c` 313-527 | `Daemon`, `Recovery`, `Silence` | modelled, proved |
| start-up, signals, shutdown | `main.c`, `tun.c`, `udp.c` | `Process` | modelled, proved |
| configuration | `config.c` | `Config`, `Process`, `Algorithms` | modelled, proved |
| UDP socket, TUN device | `udp.c`, `tun.c` | `Process`, `Daemon`, `Wire` | modelled with the outcomes of their system calls |
| logging | `log.c` | `Log`, `Algorithms`, `Process` | levels, streams, JSON escaping, proved |
| keygen | `tools/keygen.c` | - | no state |

How the parts interact: `main.c` reads the configuration, opens the device and
the socket, and owns one `session_t` per peer. A TUN packet goes through routing
to a session, is sealed and sent to the address held for that peer. A datagram
is attributed to a peer by its source address, or, for an INIT from an unknown
address, by trying the keys of every responder session; the address is learned
when the answer has been sent. After both, timers send keepalives and start
handshakes. Nothing is stored on disk: a restart loses all counters, and the
initiator's handshake counter starts from the clock again.

## Modules

**`ReplayWindow`** has the `replay_*` functions as operators on a record of the
three fields they use; the byte array is the set of slots whose bit is 1.
`ReplayAccepts` is the value `replay_check_and_mark` returns, `ReplayMark` the
state it leaves. **`ReplayReceiver`** is a receiver that opens packets with any
counter and may rekey (`session_start_handshake` followed by new keys) at any
time; **`AtMostOnce`** is what it promises: a counter is accepted if it was not
accepted before and is less than W behind the highest. `ImplementsAtMostOnce`
says the first implements the second, with `seen` mapped to the history of
accepted counters.

**`Crypto`** is symbolic. A key pair is a name, a derived key is the record of
what went into it, a sealed message opens under the key it was sealed with.
`Degenerate` is the set of public keys for which key derivation fails.

**`Session`** has one operator per `session_*` function, giving the `session_t`
it leaves, and operators for when it succeeds and for the message it writes.
Fields keep their names. Message lengths are in `Wire`.

**`Relationship`** composes two sessions with a network that never forgets a
datagram: delivery does not remove one, so every loss, duplication, delay and
reordering is a behaviour. `Restart` starts a process again, `Tick` advances
`time(NULL)`. `InitiateHandshake(now)` works with the time read at the start of
the pass over the peers, which may be seconds old when resolving another peer's
name has blocked. `delivered` and `redelivered` are history variables.

**`Daemon`** is the event loop of one node, the hub. `phase` is the place in the
iteration: `StartPeer` at start-up, then TUN (`Wait`, `NoTunPacket`, `TunRead`),
UDP (`NoDatagram`, and one action per branch: `UnknownInit`, `UnknownOther`,
`KnownInit`, `KnownResponse`, `KnownData`, `Unexpected`), then `Timers` for each
peer. The three timestamps of `peer_session_t` are kept as ages that saturate at
the interval they are compared with; `now - last_*` in the code cannot wrap,
since `now` is read after every timestamp was stored. Time passes in `poll` and
in `udp_resolve`, which takes any of `ResolveTimes`. A pass over the timers goes
by one reading of the clock, made before it, and stores that reading however long
a resolution took: the ages stay those at the reading until the pass ends, `lag`
is how old it has become, and the ages grow by `lag` at the end. So two INITs to
a peer may leave close together after a slow resolution, and a resolution that
took the timeout to fail is retried in the next pass; what is spaced is the
readings. The nodes at the other end run the session module and may move to
another address. `PassOn` is a datagram that reaches the hub from an address that
is not its sender's, as the source that `recvfrom` reports is not part of what is
sealed. `faults` bounds failed system calls and datagrams duplicated or passed
on. Byte counters are left out; they move with the packet counters. `origins`
(where a node was, or an INIT of it was passed on from), `unanswered` and `since`
are history variables. **`Silence`** adds the history `heard`, when a valid datagram was last
heard, to compare it with what the dead-peer timer goes by.

**`Recovery`** is one relationship over unbounded time: both loops with their
timers, and a network and processes that fail any number of times until `Calm`.
It abstracts `Daemon` and `Session`: of the counters only their order is kept,
of keys only which are the same, and one iteration of a loop is one step. A unit
of time is `POLL_TIMEOUT_MS`. An age of n stands for a time between n - 1 and
n + 1 units, so a timer may fire at its interval and must fire one above it; this
covers every phase between the loops and the clock. An INIT under way has a number
of copies, which the network may add to; once one of them was accepted the others
are stale, as the highest counter seen makes them. `missed` and `down` are history
variables.

**`Config`** is `config_load`, a step per piece of the file that `fgets` returns.
A piece is kept to what the code tells apart in it. Files have any length, and a
line longer than the buffer is several pieces, as in the code, which parses the
tail of an overlong line as a line of its own (that of a comment included).

**`Process`** is `main` from its first statement to its exit, with `Config` as the
step that reads the file. `pc` names the call that is next. `table` is the
process's table of descriptors, `local` the descriptor that `tun_open`,
`tun_configure` or `udp_bind` holds until it succeeds or fails. Every call may
fail, with any `errno`, and `close` may leave an `errno` of its own. `Signal` may
come between any two steps; before `sigaction` it kills the process. The
iteration itself is `Daemon`'s and is one step here. `cause`, `told` and `polls`
are history variables.

**`Routing`**, **`Log`** and **`Wire`** hold pure functions: masks and lookup on
addresses of `Bits` bits, levels and JSON escaping over classes of characters,
lengths and the little-endian counter. The powers that shifts multiply by are in
**`Powers`**. **`Algorithms`** calls them one at a time
with every argument of a bounded size, and compares the results with reference
definitions: blocks of addresses, a reader of JSON, the packet that went in.

`MCReplayReceiver`, `MCRelationship`, `MCDaemon`, `MCAlgorithms` and `MCProcess`
give the constants their values. A definition with the comment `Mutant:` is a
faulty form of the definition after it, which the property it is meant for
rejects.

## Runs

| Run | Configuration | Checks | Bounds |
|---|---|---|---|
| `replay` | `MCReplayReceiver.cfg` | type, `HighestExact`, `WindowExact`, `ImplementsAtMostOnce` | W = 4, counters 0..10: the ring is reused more than twice, jumps below, at and beyond W |
| `handshake` | `MCHandshake.cfg` | `InitNoncesUnique`, `ResponseNoncesUnique`, `OutstandingInitFresh`, `KeyAgreement`, `SecretsWiped`, `NoRollback` | five seconds, two restarts of the initiator and one of the responder, a retry every 2 s, a degenerate key on each side |
| `data` | `MCData.cfg` | type, `DeliveredOnce`, `DataNoncesUnique` | W = 1 and two packets per key, one more than the window; two payloads; a second handshake while packets of the first are in flight |
| `algorithms` | `MCAlgorithms.cfg` | `FirstCoveringPeer`, `NetmaskIsBlock`, `JsonReadsBack`, `CarriedWhole` | every table of up to two routes on 3-bit addresses; prefixes one beyond both ends; messages of 0 to 4 characters in a buffer of 4 with its terminator; packets of 0 to 8 bytes into a buffer of 6; every counter of 3 two-bit bytes |
| `hub` | `MCHub.cfg` | `EstablishedHasAddress`, `AddressVouched`, `WrongGuessHarmless`, `OnlyNewInitMoves` | three peers of both roles, one that takes over another's old address, one whose address passes datagrams on, a second handshake, a degenerate key, one fault |
| `timers` | `MCTimers.cfg` | type, `SealedForRoute`, `AttemptsSpaced` | keepalive 1, timeout 2, rotation 3 units: the order of the code's 5, 15 and 45 s; two peers that the hub initiates toward, resolutions that take 0 to 2 units, one TUN packet with a route or without, one fault |
| `recovery` | `MCRecovery.cfg` | type, `OutageBounded`, `ToleratesOneLoss`, `Recovers` | keepalive 1, timeout 6, rotation 7, delay 1; two handshake messages and two copies of an INIT under way; faults and time unbounded |
| `process` | `MCProcess.cfg` | type, `AcceptedIsComplete`, `PeersFit`, `HoldsTwoDescriptors`, `ExitsClean`, `FailureReported`, `StopsPromptly`, `Stops` | two peers at most, files of every length, two values of `errno` |

`CHECK_DEADLOCK FALSE` stands in the runs of `Relationship` and `Daemon`, whose
bounds on time, messages and restarts end every behaviour, and in that of
`Process`, which exits. Symmetry is not used: the two sides and the peers differ
in role and order.

In `recovery`, the constants keep what the code's 5, 15 and 45 units satisfy and
the properties need: two keepalives, each noticed up to a unit late, and a
delivery fit into the timeout, and the timeout into the rotation
(`TimerAssumption`); and a timeout leaves room for a delivery there and one back
(`RoundTripAssumption`). Beyond `MaxInits` the network loses the oldest INIT, a
fault it may commit anyway. `OutageBound` is the timeout, three delays and one
unit, and it is attained: with one less the run fails.

Four runs show where a document or comment says something else than the code
does (`findings` in `PROJECT.json` quotes the lines):

* `response_counter`: after a restart, the responder answers an INIT it
  answered before with another key under the same key and counter
  (`crypto.h`, `CRYPTOGRAPHY.md`: a counter never repeats under one key).
* `address_reuse`: a fresh INIT from an address still held for another peer is
  not accepted (`NETWORKING.md`: accepted "whenever one arrives").
* `resolve_again`: a re-handshake after the timeout does not resolve the name
  again once it was resolved (`main.c`: it "includes retrying DNS resolution").
* `heard_valid`: a packet that authenticates but that `tun_write` does not take
  does not count as heard, and the session is given up (`NETWORKING.md`: the time
  since the initiator "last heard *anything* valid").

What the bounds leave out: no run combines restarts with DATA packets
(`handshake` sends none, `data` has no restart; together they are too many
states), so `DataNoncesUnique` and `DeliveredOnce` across restarts rest on the
proofs below. Time stands still in `hub`, which sends no packets either; the timers of the
detailed loop fire with time in `timers`, for two peers, and those of both ends in
`recovery`. `hub` has one fault, so a datagram is passed on once and nothing else
fails in that behaviour; the proofs bound neither. No run
checks the inductive invariants, which are proved.

## Liveness and fairness

`Recovers` (`calm ~> InService`): once faults have stopped, the relationship gets
back into service from every state they can leave it in. `OutageBounded` says
how soon, as an invariant. The fairness is weak fairness of one action,
`Progress`: time passes, each loop goes round within a unit, since `poll` returns
after `POLL_TIMEOUT_MS` at the latest and every iteration runs the timers, and a
datagram that has been under way for `DELAY` is read. Nothing is assumed of
faults, of `Calm` or of packets from the TUN device.

`Stops`: a signal ends the process. The fairness is that `main` takes its next
step, `poll` returning at its timeout included, and that a file has an end.

Both rest on calls that return: `getaddrinfo`, which the loop waits for, and
`recvfrom` after `poll` reported the socket readable. The socket is blocking, so
a datagram that the kernel discards between the two calls would stop the loop
until the next one comes; that is the kernel's behaviour and not modelled.

## Proofs

| Theorem | Module | For every |
|---|---|---|
| `WindowAlwaysExact`, `HighestAlwaysExact`, `ReplayTypes`, `ReplayRefinement` | `ReplayProofs` | W > 0, any set of counters |
| `TypeCorrect`, `DataNonceSafety`, `DeliveredOnceSafety` | `RelationshipProofs` | W, payloads, degenerate keys, bounds |
| `InitNonceSafety`, `ResponseNonceSafety`, `OutstandingInitSafety`, `KeyAgreementSafety`, `SecretsWipedSafety`, `NoRollbackSafety` | `RelationshipProofs` | the same, and every RetryAfter >= 2 |
| `HandshakesSpaced`, `EstablishedKnows` | `DaemonProofs` | list of peers, roles, addresses, intervals, lengths of a resolution, bounds on faults |
| `TypesAlwaysOK`, `AddressAlwaysVouched`, `OnlyNewInitsMove`, `AlwaysSealedForRoute`, `WrongGuessAlwaysHarmless` | `DaemonKeyProofs` | the same, every table of routes, any addresses that datagrams are passed on from |
| `TypeCorrect`, `OneLossTolerated` | `RecoveryProofs` | intervals with 2 (KEEPALIVE + 1) + DELAY < TIMEOUT < ROTATION |
| `OutageAlwaysBounded` | `RecoveryProofs` | those of them with 2 DELAY < TIMEOUT |
| `AcceptedComplete`, `PeersAlwaysFit` | `ProcessProofs` | file, limit of peers, values |
| `ProcessTypes`, `TwoDescriptors`, `CleanExit`, `FailuresReported`, `PromptStop`, `ReadsConfiguration`, `RunsComplete` | `ProcessProofs` | file, limit of peers, values of errno |
| `AlwaysFirstCoveringPeer` | `AlgorithmsProofs` | width of an address, table of routes, packet |
| `AlwaysNetmaskIsBlock` | `AlgorithmsProofs` | width of an address, address, prefix |
| `AlwaysJsonReadsBack` | `AlgorithmsProofs` | message of any length, size of the buffer it is cut to |
| `AlwaysCarriedWhole` | `AlgorithmsProofs` | packet and buffer size, size of the tag, number and range of the counter's bytes, counter |

Assumptions: `WAssumption` (the window has at least one bit), `RetryAssumption`
(attempts at least two seconds apart), `TimerAssumption`, `RoundTripAssumption`,
`ListAssumption` (the hub has a peer, its peers differ from each other and from
the hub, and nobody else has its address), `ResolveAssumption` (a resolution takes
a natural number of units, or none), `BitsAssumption` (an address has at
least one bit), `WireAssumption` (a byte has at least two values), and the types of
the bounds and sizes (`SizesAssumption` and others; the message buffer has room for
its terminator). That attempts are spaced, by the readings of the clock they go by, is itself proved
of the event loop (`HandshakesSpaced`); `Relationship` takes just that as the guard
of `InitiateHandshake(now)`. The guard `clock >
boot` of `Restart` is the exception the comment in `session_init` names (two
restarts in one second), and the clock never goes back.

*Replay window.* `ReplayWindowProofs` shows that `ReplayMark` keeps the window
exact for the set of accepted counters (`ExactWindow`): the slots cleared while
sliding are those of the skipped counters, and two counters less than W apart
never share a slot. With an exact window, `ReplayAccepts` is the abstract
acceptance condition, which gives the refinement.

*Data channel.* `DataInv` adds to the types, for each side: its key pairs are
numbered and never come back; while it is pending its own key is part of no
data key used so far; once established its data keys contain its current key,
`tx_counter` is above every counter it sealed under them, and the window is
exact for the packets it opened under them. This is needed because
`session_start_handshake` resets the counter and the window: only the freshness
of the key makes that safe.

*Handshake.* `HandshakeInv` has six parts. `ClockInv` bounds the initiator's
counter by the clock: above the start second it never exceeds the time of the
last attempt, since each attempt adds one and takes at least two seconds; so a
restart in a later second starts above everything sent. `InitsInv` orders the
INITs sent by counter and by key. `SeenInv` and `ResponsesInv` tie the
responder's highest counter to an INIT and its answers. `KeysInv` names the
message an established side's keys were derived from. `SecretsInv` keeps a
pending side's secret out of its former data keys.

*Event loop.* `LoopInv` of `DaemonProofs`: for a peer that the hub initiates
toward, `rx_age` is no more than the age of the reading that the last attempt went
by, which the code counts as activity, and the age of established keys is no more
either; so neither timer is due before the timeout has passed. A wait in
`udp_resolve` keeps both, since it makes all of them older by the same time (`LagOK`:
a natural number of units). A peer that start-up
has not reached was sent nothing. An established session knows its address.

*Keys and addresses of the loop.* `FullInv` of `DaemonKeyProofs` has three parts.
`KeyInv` says whose keys are where. A session of the hub has static keys shared with
its peer, and data keys, once established, made with a key pair of that peer; the
peer's own session has the other half of the static keys. An INIT to the hub comes
from one of the `origins` of the node that sealed it, and a packet from the hub is
sealed for the peer it routes to. So the guess of `find_responder_for_init`, which
takes the session that opens an INIT, can only be right. `Untouched` says that a peer
that start-up has not reached has no address; the third part is `LagOK`.
`AddressVouched` and `SealedForRoute` follow from the invariant, and
`WrongGuessHarmless` from it and what each session function leaves unchanged when
it fails. For `OnlyNewInitMoves`, a responder session with an address has accepted
an INIT and remembers its counter, so `FreshInit` compares the next one with it; an
initiator's address never changes once resolved.

*Recovery.* `LossInv` follows the datagrams of a session in service. With nothing
missed, the last one sent is as recent as the silence is long, or one is under
way that was sent within a keepalive interval of what was heard last, and each
one under way is the last or has such a successor. With one missed, the same
holds one keepalive interval later; `TimerAssumption` leaves room for just that.
`OutageInv` explains each unit of an outage in calm weather. The initiator's timer
was last set by something from before the outage, at most a delay after its start;
or the INIT of the last attempt is under way, fresh and from the right address
(`Reaching`); or the RESPONSE with the responder's keys is (`Answered`). The first
ends with the timeout and a unit, each of the others with its delay, which adds up
to `OutageBound`. `HandshakeInv` is what keeps these from being undone: only the
last INIT awaits a RESPONSE, and while keys that both ends have, or will have, are
in use, no INIT under way is fresh. `RoundTripAssumption` keeps the timer from
voiding the attempt.

*Configuration.* `ConfigInv`: all sections but the current one are complete, and
the flags of the current one say which of its keys are set. It is needed because
the code looks at the flags only when the next section, or the end, comes.

*Process.* `ProcessInv` says for each value of `pc` which descriptors are open and
for what, whether the file is open, and where the cause of a failure is. The types
need two small invariants more: the descriptors in use are open, and the peer that
is being initialized has room in the array (`OpenInv`, `PlainInv`). That
`Process` implements `ConfigSpec` (`ReadsConfiguration`) carries the results about
the file over to it.

*Algorithms.* Masks, counters and log lines are computed by loops, here recursive
functions over `0 .. n`, and what a loop computes needs induction. The induction
theorems of the library take a predicate as a parameter, which the provers cannot
instantiate, but two of its facts about well-founded relations are about sets: `<`
on the naturals is well-founded, and a nonempty set has a least member.
`AlgorithmsProofs` derives from them `Induction`, for a set of numbers, and
`StartsExist` and `Recursion`: a function given by its first value and a step exists
and has these values. Each loop then has a lemma that unfolds it (`PowerDef`,
`JoinedDef`, `WrittenDef`, `ReaderDef`), and the results follow along these lines:

* `AlwaysCarriedWhole`: after n bytes `crypto_open` has the counter modulo the n-th
  power of a byte's range (`CounterReadsBack`); the lengths are linear arithmetic.
* `AlwaysFirstCoveringPeer`, `AlwaysNetmaskIsBlock`: the shifted mask has exactly its
  top `prefix` bits set (`MaskBits`). Two addresses agree in these bits exactly when
  their quotients by the size of the block are the same (`SameTop`), and then one is
  in the block of the other (`SameBlock`).
* `AlwaysJsonReadsBack`: where the writer has written n characters, the reader has
  read just these and is neither behind a backslash nor at the end (`ReadsWritten`);
  for this, what is written later must leave the beginning of the line as it is
  (`WrittenGrows`).

Only model-checked: `Recovers` and `Stops`, since liveness under fairness is beyond
the prover. `OutageAlwaysBounded` proves the safety half of `Recovers`, how long an
outage can last while time passes. Every other property of a passing run is proved.

## Not modelled

* libsodium, taken as ideal and external; base64 is kept to acceptance.
* Lengths of handshake messages, which are constant in the code.
* Width of the counters of a session: 64 bits do not overflow in the life of a key.
* Clocks that go back, two starts of an initiator in one second.
* A wait of the resolver in `Recovery`: its loops go round once in every unit of
  time. None of its properties says anything of behaviours in which `getaddrinfo`,
  called for another peer, holds a loop up for longer.
* Validity of the bytes above 0x7f in a log message as UTF-8: they are copied like
  printable characters, and `JsonReadsBack` takes them as such.
* The text of values in the configuration, but for the prefix of `Address`.
* The text format, timestamps and `LOG_FORMAT` of the log, the periodic log of
  the counters, and the `log_debug` of the mode without peers, which change no
  state.
* `tools/keygen.c`, which prints a key pair and keeps nothing.
