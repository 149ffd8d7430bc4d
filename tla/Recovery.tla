------------------------------ MODULE Recovery ------------------------------
(***************************************************************************)
(* How a relationship heals: the timers of both daemons (src/src/main.c)   *)
(* over one relationship, while datagrams are lost, late or duplicated,    *)
(* either process restarts, the initiator's address changes and calls      *)
(* fail, any number of times, until calm sets in.                          *)
(*                                                                         *)
(* The state is kept finite without bounding the run.  A unit of time is   *)
(* POLL_TIMEOUT_MS, within which each loop goes through at least one       *)
(* iteration.  Timestamps are ages in such units: what is n old was stored *)
(* more than n - 1 and less than n + 1 units ago, so a timer may be due at *)
(* its interval and is due one above it, where the age saturates.  Data    *)
(* keys are numbers that are used again once nothing holds them.  Of the   *)
(* handshake counters only the order matters: inits holds the INITs under  *)
(* way in the order of their counters.                                     *)
(*                                                                         *)
(* One iteration of a loop is one step: at most one packet or datagram,    *)
(* then the timers.  A datagram that the session module refuses without    *)
(* any effect on it (modules Session, Daemon) is left out.  So is what the *)
(* initiator sends under data keys: a responder's timers do not look at    *)
(* what it heard.                                                          *)
(***************************************************************************)
EXTENDS Integers, Sequences, FiniteSets

CONSTANTS
  KEEPALIVE,   \* KEEPALIVE_INTERVAL_MS, in units of POLL_TIMEOUT_MS
  TIMEOUT,     \* SESSION_TIMEOUT_MS
  ROTATION,    \* KEY_ROTATION_INTERVAL_MS
  DELAY,       \* the longest a datagram is under way, calm weather provided
  MaxInits,    \* bound: INITs under way; the network loses the oldest of more
  MaxCopies    \* bound: copies of an INIT under way

\* 5, 15 and 45 in the code.  The second conjunct leaves room for one lost
\* keepalive.
ASSUME TimerAssumption ==
  /\ KEEPALIVE \in Nat \ {0} /\ TIMEOUT \in Nat /\ ROTATION \in Nat
  /\ DELAY \in Nat \ {0} /\ MaxInits \in Nat \ {0} /\ MaxCopies \in Nat \ {0}
  /\ 2 * (KEEPALIVE + 1) + DELAY < TIMEOUT /\ TIMEOUT < ROTATION

\* An attempt is not given up before its RESPONSE can have come.
ASSUME RoundTripAssumption == 2 * DELAY < TIMEOUT

VARIABLES
  init,    \* the initiator: addr_resolved, rx and age (the ages of the last
           \* valid datagram and of its keys, if it has any), and its data keys
  resp,    \* the responder: the address it holds, tx (the age of what it
           \* sent last) and its data keys
  inits,   \* INITs under way: from which address, whether of the attempt
           \* that awaits a RESPONSE, whether the responder would find it
           \* fresh, and how many copies of it
  resps,   \* RESPONSEs to the outstanding attempt under way: the keys
           \* they lead to
  data,    \* DATA to the initiator under way that it may come to open
  turn,    \* the loops that have not been round in this unit of time
  calm,    \* no more faults
  missed,  \* history: DATA lost or not written since the initiator of a
           \* session in service last heard something valid, up to 2
  down     \* history: units of time without service since calm set in

vars == <<init, resp, inits, resps, data, turn, calm, missed, down>>

\* The longest outage in calm weather; down is counted up to one above it.
OutageBound == TIMEOUT + 3 * DELAY + 1

NoKey  == 0        \* SESSION_STATE_HANDSHAKE_PENDING
NoAddr == "none"
Here   == "here"   \* the initiator's address of the moment
Gone   == "gone"   \* one that it has left

Least(a, b) == IF a < b THEN a ELSE b
Established(p) == p.key # NoKey

\* Packets go both ways.
InService == Established(init) /\ init.key = resp.key /\ resp.addr = Here

\* key is the least number that nothing stands for: the keys of a new exchange.
Fresh(key) ==
  LET used == {NoKey, init.key, resp.key} \union {m.key : m \in resps \union data}
  IN  key \notin used /\ \A j \in 1 .. key - 1 : j \in used

MayBeDue(age, interval) == age >= interval
IsDue(age, interval)    == age > interval

-----------------------------------------------------------------------------
(***************************************************************************)
(* The initiator                                                           *)
(***************************************************************************)
CanSendInit(i, resolved) == i.resolved \/ resolved
\* Mutant: the timestamp is moved on by the timeout, not to now.
InitiateMovesOn(i, resolved) ==
  IF ~ CanSendInit(i, resolved) THEN [i EXCEPT !.rx = 0]
  ELSE [i EXCEPT !.resolved = TRUE, !.rx = @ - TIMEOUT, !.key = NoKey,
                 !.age = ROTATION + 1]
\* Mutant: an attempt is not held back by the one before.
InitiateUnthrottled(i, resolved) ==
  IF ~ CanSendInit(i, resolved) THEN [i EXCEPT !.rx = 0]
  ELSE [i EXCEPT !.resolved = TRUE, !.key = NoKey, !.age = ROTATION + 1]
initiate_handshake(i, resolved) ==
  IF ~ CanSendInit(i, resolved) THEN [i EXCEPT !.rx = 0]
  ELSE [i EXCEPT !.resolved = TRUE, !.rx = 0, !.key = NoKey, !.age = ROTATION + 1]

\* The INITs under way when none of them awaits a RESPONSE any more.
Superseded == [k \in 1 .. Len(inits) |-> [inits[k] EXCEPT !.cur = FALSE]]

\* An INIT of a new attempt goes out; what belongs to earlier ones is void.
SendInit ==
  LET kept == IF Len(inits) < MaxInits THEN Superseded ELSE Tail(Superseded)
  IN  /\ inits' = Append(kept, [src |-> Here, cur |-> TRUE, fresh |-> TRUE,
                               copies |-> 1, age |-> 0])
      /\ resps' = {} /\ data' = {} /\ missed' = 0

\* Mutant: only a session that was established is given up.
HandshakeDueEstablished(i, due) ==
  /\ due => Established(i) /\ (MayBeDue(i.rx, TIMEOUT) \/ MayBeDue(i.age, ROTATION))
  /\ Established(i) /\ (IsDue(i.rx, TIMEOUT) \/ IsDue(i.age, ROTATION)) => due
\* What the timers decide: due is open only while an age is at its interval.
HandshakeDue(i, due) ==
  /\ due => \/ MayBeDue(i.rx, TIMEOUT)
            \/ Established(i) /\ MayBeDue(i.age, ROTATION)
  /\ \/ IsDue(i.rx, TIMEOUT)
     \/ Established(i) /\ IsDue(i.age, ROTATION)
     => due

\* The end of an iteration: i is the initiator as the timers find it, the
\* others are what is under way to it and what it missed.
InitiatorTimers(i, responses, packets, lost, due, resolved) ==
  /\ HandshakeDue(i, due)
  /\ resolved \/ (due /\ ~ i.resolved /\ ~ calm)
  /\ turn' = turn \ {"I"}
  /\ init' = IF due THEN initiate_handshake(i, resolved) ELSE i
  /\ IF due /\ CanSendInit(i, resolved) THEN SendInit
     ELSE /\ resps' = responses /\ data' = packets /\ missed' = lost
          /\ inits' = IF Established(i) THEN Superseded ELSE inits
  /\ UNCHANGED <<resp, calm, down>>

InitiatorIdle(due, resolved) ==
  /\ "I" \in turn
  /\ InitiatorTimers(init, resps, data, missed, due, resolved)

\* The first RESPONSE to the outstanding attempt; the state then refuses others.
HandleResponse(m, due) ==
  /\ ~ Established(init)
  /\ InitiatorTimers([init EXCEPT !.key = m.key, !.rx = 0, !.age = 0], {},
                     {d \in data : d.key = m.key}, 0, due, TRUE)

\* Mutant: only a packet counts as activity, not a keepalive.
OpenDataQuietly(m, due) ==
  /\ m.key = init.key
  /\ InitiatorTimers(init, resps, data \ {m}, 0, due, TRUE)
\* DATA under the initiator's keys: a keepalive, or a packet that tun_write takes.
OpenData(m, due) ==
  /\ m.key = init.key
  /\ InitiatorTimers([init EXCEPT !.rx = 0], resps, data \ {m}, 0, due, TRUE)

\* DATA under the keys of a RESPONSE that has not arrived is dropped.
DropData(m, due) ==
  /\ m.key # init.key
  /\ InitiatorTimers(init, resps, data \ {m}, missed, due, TRUE)

RestartInitiator(resolved) ==
  /\ ~ calm
  /\ init' = initiate_handshake([resolved |-> FALSE, rx |-> 0, age |-> ROTATION + 1,
                                 key |-> NoKey], resolved)
  /\ IF resolved THEN SendInit
     ELSE /\ inits' = Superseded
          /\ resps' = {} /\ data' = {} /\ missed' = 0
  /\ UNCHANGED <<resp, turn, calm, down>>

-----------------------------------------------------------------------------
(***************************************************************************)
(* The responder                                                           *)
(***************************************************************************)

\* What it sends under r's keys reaches the initiator if r's address is right;
\* it is of use if the initiator has the keys or may still get them.
Sent(r, responses) ==
  IF r.addr = Here /\ r.key \in {init.key} \union {m.key : m \in responses}
  THEN {[key |-> r.key, age |-> 0]} ELSE {}

CanKeepalive(r) == r.addr # NoAddr /\ Established(r)
KeepaliveDue(r, due) ==
  /\ due => CanKeepalive(r) /\ MayBeDue(r.tx, KEEPALIVE)
  /\ CanKeepalive(r) /\ IsDue(r.tx, KEEPALIVE) => due

\* The end of an iteration, with the RESPONSEs then under way.
ResponderTimers(r, responses, due) ==
  /\ KeepaliveDue(r, due)
  /\ turn' = turn \ {"R"}
  /\ resp' = IF due THEN [r EXCEPT !.tx = 0] ELSE r
  /\ data' = data \union IF due THEN Sent(r, responses) ELSE {}
  /\ resps' = responses
  /\ missed' = IF r.key = resp.key THEN missed ELSE 0
  /\ UNCHANGED <<init, calm, down>>

ResponderIdle(due) ==
  /\ "R" \in turn
  /\ ResponderTimers(resp, resps, due)
  /\ UNCHANGED inits

\* A packet from its TUN device; a keepalive is not due after it.
SendPacket ==
  /\ Established(resp) /\ resp.addr # NoAddr
  /\ turn' = turn \ {"R"}
  /\ resp' = [resp EXCEPT !.tx = 0]
  /\ data' = data \union Sent(resp, resps)
  /\ UNCHANGED <<init, inits, resps, calm, missed, down>>

\* msgs after a copy of the k-th INIT was taken from the network.
Taken(msgs, k) ==
  IF msgs[k].copies > 1
  THEN [msgs EXCEPT ![k].copies = @ - 1]
  ELSE [j \in 1 .. Len(msgs) - 1 |-> IF j < k THEN msgs[j] ELSE msgs[j + 1]]

\* The INITs when the counter of the k-th is the highest seen: none up to it, its
\* own copies included, is fresh any more.
Overtaken(k) ==
  [j \in 1 .. Len(inits) |->
     IF j <= k THEN [inits[j] EXCEPT !.fresh = FALSE] ELSE inits[j]]

\* A fresh INIT: new keys, and a RESPONSE to where it came from, which is the
\* address the responder holds from then on.  When the RESPONSE cannot be sent
\* the keys are new all the same.
HandleInit(k, key, sent, due) ==
  LET m   == inits[k]
      r   == IF sent THEN [addr |-> m.src, tx |-> 0, key |-> key]
                     ELSE [resp EXCEPT !.key = key]
      out == IF sent /\ m.cur /\ m.src = Here
             THEN {[key |-> key, age |-> 0]} ELSE {}
  IN  /\ m.fresh /\ Fresh(key)
      /\ sent \/ ~ calm
      /\ inits' = Taken(Overtaken(k), k)
      /\ ResponderTimers(r, resps \union out, due)

RefuseInit(k, due) ==
  /\ ~ inits[k].fresh
  /\ inits' = Taken(inits, k)
  /\ ResponderTimers(resp, resps, due)

RestartResponder ==
  /\ ~ calm
  /\ resp' = [addr |-> NoAddr, tx |-> KEEPALIVE + 1, key |-> NoKey]
  /\ inits' = [k \in 1 .. Len(inits) |-> [inits[k] EXCEPT !.fresh = TRUE]]
  /\ missed' = 0
  /\ UNCHANGED <<init, resps, data, turn, calm, down>>

-----------------------------------------------------------------------------
(***************************************************************************)
(* The network, time and the end of the faults                             *)
(***************************************************************************)

\* What a send call did not take counts as lost, and so does a packet that
\* tun_write did not take: the initiator's timer treats both alike.
LoseInit(k) ==
  /\ ~ calm
  /\ inits' = Taken(inits, k)
  /\ UNCHANGED <<init, resp, resps, data, turn, calm, missed, down>>

LoseResponse(m) ==
  /\ ~ calm
  /\ resps' = resps \ {m}
  /\ data' = {d \in data : d.key # m.key}
  /\ UNCHANGED <<init, resp, inits, turn, calm, missed, down>>

LoseData(m) ==
  /\ ~ calm
  /\ data' = data \ {m}
  /\ missed' = IF InService /\ m.key = init.key THEN Least(missed + 1, 2) ELSE missed
  /\ UNCHANGED <<init, resp, inits, resps, turn, calm, down>>

DuplicateInit(k) ==
  /\ ~ calm
  /\ Len(inits) + Cardinality(resps) < MaxInits /\ inits[k].copies < MaxCopies
  /\ inits' = [inits EXCEPT ![k].copies = @ + 1]
  /\ UNCHANGED <<init, resp, resps, data, turn, calm, missed, down>>

\* The initiator gets another address; what is under way to the old one is lost.
Move ==
  /\ ~ calm
  /\ resp' = [resp EXCEPT !.addr = IF @ = Here THEN Gone ELSE @]
  /\ inits' = [k \in 1 .. Len(inits) |-> [inits[k] EXCEPT !.src = Gone]]
  /\ resps' = {} /\ data' = {} /\ missed' = 0
  /\ UNCHANGED <<init, turn, calm, down>>

\* Both loops have been round, and no datagram is overdue.  Until calm sets in
\* handshake messages may be late, and a DATA packet that is late is lost.
Tick ==
  /\ turn = {}
  /\ \A m \in data : m.age < DELAY
  /\ calm => /\ \A m \in resps : m.age < DELAY
             /\ \A k \in 1 .. Len(inits) : inits[k].age < DELAY
  /\ init' = [init EXCEPT !.rx = Least(@ + 1, TIMEOUT + 1),
                          !.age = Least(@ + 1, ROTATION + 1)]
  /\ resp' = [resp EXCEPT !.tx = Least(@ + 1, KEEPALIVE + 1)]
  /\ inits' = [k \in 1 .. Len(inits) |-> [inits[k] EXCEPT !.age = Least(@ + 1, DELAY)]]
  /\ resps' = {[m EXCEPT !.age = Least(@ + 1, DELAY)] : m \in resps}
  /\ data' = {[m EXCEPT !.age = @ + 1] : m \in data}
  /\ turn' = {"I", "R"}
  /\ down' = IF calm /\ ~ InService THEN Least(down + 1, OutageBound + 1) ELSE 0
  /\ UNCHANGED <<calm, missed>>

Calm ==
  /\ calm' = TRUE
  /\ UNCHANGED <<init, resp, inits, resps, data, turn, missed, down>>

Init ==
  /\ init = [resolved |-> FALSE, rx |-> 0, age |-> ROTATION + 1, key |-> NoKey]
  /\ resp = [addr |-> NoAddr, tx |-> KEEPALIVE + 1, key |-> NoKey]
  /\ inits = <<>> /\ resps = {} /\ data = {}
  /\ turn = {"I", "R"}
  /\ calm = FALSE /\ missed = 0 /\ down = 0

Faults ==
  \/ \E resolved \in BOOLEAN : RestartInitiator(resolved)
  \/ RestartResponder
  \/ \E k \in 1 .. Len(inits) : LoseInit(k)
  \/ \E m \in resps : LoseResponse(m)
  \/ \E m \in data : LoseData(m)
  \/ \E k \in 1 .. Len(inits) : DuplicateInit(k)
  \/ Move

Keys == 1 .. MaxInits + 2 * (DELAY + 1) + 3   \* more than can be in use

Receive(due) ==
  \/ \E m \in resps : HandleResponse(m, due)
  \/ \E m \in data : OpenData(m, due)
  \/ \E m \in data : DropData(m, due)
  \/ \E k \in 1 .. Len(inits), key \in Keys, sent \in BOOLEAN : HandleInit(k, key, sent, due)
  \/ \E k \in 1 .. Len(inits) : RefuseInit(k, due)

Next ==
  \/ Tick
  \/ \E due, resolved \in BOOLEAN : InitiatorIdle(due, resolved)
  \/ \E due \in BOOLEAN : ResponderIdle(due)
  \/ SendPacket
  \/ \E due \in BOOLEAN : Receive(due)
  \/ Faults
  \/ Calm

\* poll returns within POLL_TIMEOUT_MS, a datagram that is due has arrived and is
\* read, and time passes.  No unit of time has infinitely many of these steps.
Progress ==
  \/ Tick
  \/ \E due, resolved \in BOOLEAN : InitiatorIdle(due, resolved)
  \/ \E due \in BOOLEAN : ResponderIdle(due)
  \/ \E m \in resps, due \in BOOLEAN : m.age = DELAY /\ HandleResponse(m, due)
  \/ \E m \in data, due \in BOOLEAN :
       m.age = DELAY /\ (OpenData(m, due) \/ DropData(m, due))
  \/ \E k \in 1 .. Len(inits), key \in Keys, due \in BOOLEAN :
       /\ inits[k].age = DELAY
       /\ HandleInit(k, key, TRUE, due) \/ RefuseInit(k, due)

\* Nothing is assumed of faults, of calm or of packets, which may keep both loops
\* busy without end.
Fairness == WF_vars(Progress)

Spec == Init /\ [][Next]_vars /\ Fairness

-----------------------------------------------------------------------------
(***************************************************************************)
(* Properties                                                              *)
(***************************************************************************)
InTransit == [key : Nat, age : 0 .. DELAY]

\* Both sides, everything under way and the histories have their types.
TypeOK ==
  /\ init \in [resolved : BOOLEAN, rx : 0 .. TIMEOUT + 1, age : 0 .. ROTATION + 1,
              key : Nat]
  /\ resp \in [addr : {NoAddr, Here, Gone}, tx : 0 .. KEEPALIVE + 1, key : Nat]
  /\ \A k \in 1 .. Len(inits) :
       inits[k] \in [src : {Here, Gone}, cur : BOOLEAN, fresh : BOOLEAN,
                    copies : 1 .. MaxCopies, age : 0 .. DELAY]
  /\ resps \subseteq InTransit /\ data \subseteq InTransit
  /\ turn \subseteq {"I", "R"} /\ calm \in BOOLEAN
  /\ missed \in 0 .. 2 /\ down \in 0 .. OutageBound + 1

\* Once the faults have stopped the relationship gets back into service, from
\* whatever state losses, restarts of both sides, moves and failed calls have left
\* it in: the timers of main.c alone see to it, with nobody told of a fault.
Recovers == calm ~> InService

\* It takes no longer than a datagram's way (the last one that still counted as
\* activity), a timeout with what the loop's period adds to it, and the way of
\* an INIT and its RESPONSE, a key rotation in between included.
OutageBounded == down <= OutageBound

\* One lost keepalive never costs a session that works: an initiator whose
\* dead-peer timer runs out has missed at least two datagrams since it last
\* heard from the responder, whatever was late or overtaken.
ToleratesOneLoss ==
  (InService /\ init.rx >= TIMEOUT) => missed >= 2
=============================================================================
