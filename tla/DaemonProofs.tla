---------------------------- MODULE DaemonProofs ----------------------------
(***************************************************************************)
(* Two promises of the event loop, for any number of peers, any intervals  *)
(* and any network: attempts at a handshake are spaced, and an established *)
(* session knows where to send.                                            *)
(***************************************************************************)
EXTENDS Daemon, WellFoundedInduction, TLAPS

SessionFields == {"role", "state", "static_keys", "local_eph_pk", "local_eph_sk",
                  "handshake_counter", "pending_handshake_counter",
                  "have_seen_handshake", "highest_handshake_counter_seen",
                  "data_keys", "tx_counter", "replay"}
PeerFields == {"addr_resolved", "addr", "session", "rx_age", "tx_age", "key_age", "stats"}

IsSession(s) ==
  /\ DOMAIN s = SessionFields
  /\ s.handshake_counter \in Nat /\ s.pending_handshake_counter \in Nat

IsPeer(p) ==
  /\ DOMAIN p = PeerFields /\ IsSession(p.session)
  /\ p.rx_age \in 0 .. TIMEOUT /\ p.key_age \in 0 .. ROTATION

-----------------------------------------------------------------------------
(***************************************************************************)
(* The inductive invariant                                                 *)
(***************************************************************************)

\* The age of the last attempt bounds what the two timers that start a handshake
\* look at: it counts as activity, and the keys are younger.  A session that the
\* hub initiated is established by a datagram from the peer's known address.
SpacedBy(role, p, age) ==
  role = INITIATOR =>
    /\ p.rx_age <= age
    /\ p.session.state = ESTABLISHED =>
         p.addr_resolved /\ (p.key_age <= age \/ age = TIMEOUT)

KnownBy(p, may) == p.session.state = ESTABLISHED => p.addr_resolved \/ may

SpacedPeer(n) == SpacedBy(RoleOf[n], ps[n], since[n])
Knows(n) == KnownBy(ps[n], unanswered[n])

\* No attempt was made at a peer that the loop at startup has not come to.
NotStarted ==
  \A k \in 1 .. Len(PeerList) :
    phase = <<"start", k>> => \A j \in k .. Len(PeerList) : since[PeerList[j]] = TIMEOUT

LoopInv ==
  /\ DOMAIN ps = Nodes /\ \A n \in Nodes : IsPeer(ps[n])
  /\ since \in [Nodes -> 0 .. TIMEOUT]
  /\ unanswered \in [Nodes -> BOOLEAN]
  /\ NotStarted
  /\ \A n \in Nodes : SpacedPeer(n) /\ Knows(n)

-----------------------------------------------------------------------------
(***************************************************************************)
(* The session functions and the two counters of INITs                     *)
(***************************************************************************)
KeepsCounters(s, t) ==
  /\ IsSession(t)
  /\ t.handshake_counter = s.handshake_counter
  /\ t.pending_handshake_counter = s.pending_handshake_counter

\* A new handshake leaves the counters alone; only session_build_init moves them.
LEMMA StartKeeps ==
  ASSUME NEW s, IsSession(s), NEW eph
  PROVE  /\ KeepsCounters(s, session_start_handshake(s, eph))
         /\ session_start_handshake(s, eph).state = PENDING
BY DEF IsSession, SessionFields, KeepsCounters, session_start_handshake

\* Building an INIT leaves a session.
LEMMA BuildInitIsSession ==
  ASSUME NEW s, IsSession(s)
  PROVE  IsSession(session_build_init(s)) /\ session_build_init(s).state = s.state
BY DEF IsSession, SessionFields, session_build_init

\* session_init leaves a session that waits for a handshake.
LEMMA InitIsSession ==
  ASSUME NEW role, NEW local, NEW peer, NEW t \in Nat, NEW eph
  PROVE  /\ IsSession(session_init(role, local, peer, t, eph))
         /\ session_init(role, local, peer, t, eph).state = PENDING
<1> DEFINE s == [role                           |-> role,
                 state                          |-> PENDING,
                 static_keys                    |-> crypto_derive_session_keys(
                                                      role, local, local, peer),
                 local_eph_pk                   |-> Wiped,
                 local_eph_sk                   |-> Wiped,
                 handshake_counter              |-> t,
                 pending_handshake_counter      |-> 0,
                 have_seen_handshake            |-> FALSE,
                 highest_handshake_counter_seen |-> 0,
                 data_keys                      |-> ZeroKeys,
                 tx_counter                     |-> 0,
                 replay                         |-> ZeroReplayState]
<1>1. IsSession(s)
  BY DEF IsSession, SessionFields
<1>2. session_init(role, local, peer, t, eph) = session_start_handshake(s, eph)
  BY DEF session_init
<1> HIDE DEF s
<1> QED
  BY <1>1, <1>2, StartKeeps DEF KeepsCounters

\* Handling an INIT leaves the counters of INITs sent alone, and establishes a
\* session only by accepting it.
LEMMA HandleInitKeeps ==
  ASSUME NEW s, IsSession(s), NEW m, NEW eph
  PROVE  /\ KeepsCounters(s, session_handle_init(s, m, eph))
         /\ session_handle_init(s, m, eph).state = ESTABLISHED =>
              s.state = ESTABLISHED \/ CanHandleInit(s, m)
<1> DEFINE t == Reconnected(s, eph)
<1>1. KeepsCounters(s, t) /\ KeepsCounters(s, s)
  BY StartKeeps DEF Reconnected, KeepsCounters
<1>2. t.state = ESTABLISHED => s.state = ESTABLISHED
  BY DEF Reconnected
<1> HIDE DEF t
<1>3. CASE CanHandleInit(s, m)
  <2>1. session_handle_init(s, m, eph) =
          [t EXCEPT !.data_keys    = crypto_derive_session_keys(
                                       t.role, t.local_eph_pk, t.local_eph_sk, m.body),
                    !.local_eph_sk = Wiped,
                    !.have_seen_handshake            = TRUE,
                    !.highest_handshake_counter_seen = m.counter,
                    !.state        = ESTABLISHED]
    BY <1>3 DEF session_handle_init, t, CanHandleInit
  <2> QED
    BY <1>1, <1>3, <2>1 DEF KeepsCounters, IsSession, SessionFields
<1>4. CASE ~ CanHandleInit(s, m)
  <2>1. session_handle_init(s, m, eph) \in {t, s}
    BY <1>4 DEF session_handle_init, t, CanHandleInit
  <2> QED
    BY <1>1, <1>2, <2>1
<1> QED
  BY <1>3, <1>4

\* Handling a RESPONSE leaves them alone.
LEMMA HandleResponseKeeps ==
  ASSUME NEW s, IsSession(s), NEW m
  PROVE  KeepsCounters(s, session_handle_response(s, m))
BY DEF IsSession, SessionFields, KeepsCounters, session_handle_response

\* Sealing and opening DATA leave them, and the state, alone.
LEMMA DataKeeps ==
  ASSUME NEW s, IsSession(s), NEW m
  PROVE  /\ KeepsCounters(s, session_seal_data(s)) /\ session_seal_data(s).state = s.state
         /\ KeepsCounters(s, session_open_data(s, m))
         /\ session_open_data(s, m).state = s.state
BY DEF IsSession, SessionFields, KeepsCounters, session_seal_data, session_open_data

-----------------------------------------------------------------------------
(***************************************************************************)
(* Steps without an attempt                                                *)
(***************************************************************************)

\* What such a step may do to a peer p of the hub, which becomes q; may says that
\* the peer may come to be established without a known address.
Quiet(role, p, q, may) ==
  /\ IsPeer(q)
  /\ q.session.pending_handshake_counter = p.session.pending_handshake_counter
  /\ p.addr_resolved => q.addr_resolved
  /\ role = INITIATOR => /\ q.rx_age \in {0, p.rx_age}
                         /\ q.session.state = ESTABLISHED =>
                              \/ q.key_age = 0 /\ q.addr_resolved
                              \/ p.session.state = ESTABLISHED /\ q.key_age = p.key_age
  /\ q.session.state = ESTABLISHED =>
       p.session.state = ESTABLISHED \/ q.addr_resolved \/ may

\* A peer that does not change is quiet.
LEMMA SameIsQuiet ==
  ASSUME NEW role, NEW p, IsPeer(p), NEW may
  PROVE  Quiet(role, p, p, may)
BY Zenon DEF Quiet

\* A step that is quiet for every peer keeps the invariant, and is no attempt.
LEMMA QuietStep ==
  ASSUME LoopInv, DOMAIN ps' = Nodes,
         \A n \in Nodes : Quiet(RoleOf[n], ps[n], ps'[n], unanswered'[n]),
         unanswered' \in [Nodes -> BOOLEAN],
         \A n \in Nodes : unanswered[n] => unanswered'[n],
         UNCHANGED since,
         UNCHANGED phase \/ phase' \in {<<"tun">>, <<"udp">>}
                         \/ \E k \in 1 .. Len(PeerList) + 1 : phase' = <<"timers", k>>
  PROVE  /\ LoopInv'
         /\ \A n \in Nodes : ps'[n].session.pending_handshake_counter
                               = ps[n].session.pending_handshake_counter
<1>1. \A n \in Nodes : IsPeer(ps'[n])
  BY Zenon DEF Quiet
<1>2. NotStarted'
  BY DEF LoopInv, NotStarted
<1>3. ASSUME NEW n \in Nodes PROVE SpacedPeer(n)'
  <2>1. /\ ps[n].rx_age \in Nat /\ ps[n].key_age \in Nat /\ since[n] \in Nat
        /\ SpacedPeer(n) /\ since'[n] = since[n]
    BY TimerAssumption DEF LoopInv, IsPeer
  <2>2. Quiet(RoleOf[n], ps[n], ps'[n], unanswered'[n])
    BY Zenon
  <2> QED
    BY <2>1, <2>2 DEF SpacedPeer, SpacedBy, Quiet
<1>4. ASSUME NEW n \in Nodes PROVE Knows(n)'
  <2>1. Quiet(RoleOf[n], ps[n], ps'[n], unanswered'[n]) /\ Knows(n)
    BY Zenon DEF LoopInv
  <2> QED
    BY Zenon, <2>1 DEF Quiet, Knows, KnownBy
<1>5. \A n \in Nodes : ps'[n].session.pending_handshake_counter
                         = ps[n].session.pending_handshake_counter
  BY DEF Quiet
<1> QED
  BY Zenon, <1>1, <1>2, <1>3, <1>4, <1>5 DEF LoopInv

\* One peer changes, quietly.
LEMMA OneQuietly ==
  ASSUME LoopInv, NEW n \in Nodes, NEW q, ps' = [ps EXCEPT ![n] = q],
         Quiet(RoleOf[n], ps[n], q, unanswered'[n])
  PROVE  /\ DOMAIN ps' = Nodes
         /\ \A o \in Nodes : Quiet(RoleOf[o], ps[o], ps'[o], unanswered'[o])
<1>1. DOMAIN ps = Nodes /\ \A o \in Nodes : IsPeer(ps[o])
  BY DEF LoopInv
<1>2. ps'[n] = q /\ \A o \in Nodes \ {n} : ps'[o] = ps[o]
  BY Zenon, <1>1
<1> QED
  BY Zenon, <1>1, <1>2, SameIsQuiet

\* Sealing a packet for a peer, sent or not, is quiet.
LEMMA AfterSendQuiet ==
  ASSUME NEW role, NEW p, IsPeer(p), NEW sent \in BOOLEAN, NEW may
  PROVE  Quiet(role, p, AfterSend(p, sent), may)
<1> DEFINE s == session_seal_data(p.session)
<1>1. KeepsCounters(p.session, s) /\ s.state = p.session.state
  BY DataKeeps DEF IsPeer
<1> HIDE DEF s
<1>2. /\ DOMAIN AfterSend(p, sent) = PeerFields /\ AfterSend(p, sent).session = s
      /\ AfterSend(p, sent).rx_age = p.rx_age /\ AfterSend(p, sent).key_age = p.key_age
      /\ AfterSend(p, sent).addr_resolved = p.addr_resolved
  BY Zenon DEF AfterSend, IsPeer, PeerFields, s
<1> QED
  BY <1>1, <1>2 DEF Quiet, IsPeer, KeepsCounters

\* So is a session_handle_init on a responder's session, as far as may covers it.
LEMMA HandledInitQuiet ==
  ASSUME NEW role, role # INITIATOR, NEW p, IsPeer(p), NEW m, NEW may,
         CanHandleInit(p.session, m) => p.addr_resolved \/ may
  PROVE  /\ Quiet(role, p, HandledInit(p, m), may)
         /\ DOMAIN HandledInit(p, m) = PeerFields
         /\ HandledInit(p, m).addr_resolved = p.addr_resolved
<1> DEFINE s == session_handle_init(p.session, m, FreshKey(Hub, 1))
<1>1. /\ KeepsCounters(p.session, s)
      /\ s.state = ESTABLISHED => p.session.state = ESTABLISHED \/ CanHandleInit(p.session, m)
  BY HandleInitKeeps DEF IsPeer
<1> HIDE DEF s
<1>2. /\ DOMAIN HandledInit(p, m) = PeerFields /\ HandledInit(p, m).session = s
      /\ HandledInit(p, m).rx_age = p.rx_age /\ HandledInit(p, m).key_age = p.key_age
      /\ HandledInit(p, m).addr_resolved = p.addr_resolved
  BY DEF HandledInit, IsPeer, PeerFields, s
<1> QED
  BY Zenon, <1>1, <1>2 DEF Quiet, IsPeer, KeepsCounters

\* And what follows it when the RESPONSE was sent.
LEMMA AnsweredQuiet ==
  ASSUME NEW role, role # INITIATOR, NEW p, NEW q, Quiet(role, p, q, TRUE),
         DOMAIN q = PeerFields, NEW may, NEW from
  PROVE  /\ q.addr_resolved => Quiet(role, p, Answered(q), may)
         /\ Quiet(role, p, Answered(Learned(q, from)), may)
<1>1. /\ DOMAIN Answered(q) = PeerFields /\ Answered(q).session = q.session
      /\ Answered(q).rx_age = 0 /\ Answered(q).key_age = 0
      /\ Answered(q).addr_resolved = q.addr_resolved
  BY DEF Answered, PeerFields
<1> DEFINE l == Learned(q, from)
<1>2. DOMAIN l = PeerFields /\ l.session = q.session /\ l.addr_resolved = TRUE
  BY DEF Learned, PeerFields
<1> HIDE DEF l
<1>3. /\ DOMAIN Answered(l) = PeerFields /\ Answered(l).session = q.session
      /\ Answered(l).rx_age = 0 /\ Answered(l).key_age = 0
      /\ Answered(l).addr_resolved = TRUE
  BY <1>2 DEF Answered, PeerFields
<1>4. 0 \in 0 .. TIMEOUT /\ 0 \in 0 .. ROTATION
  BY TimerAssumption
<1>5. q.addr_resolved => Quiet(role, p, Answered(q), may)
  BY Zenon, <1>1, <1>4 DEF Quiet, IsPeer
<1>6. Quiet(role, p, Answered(l), may)
  BY <1>3, <1>4 DEF Quiet, IsPeer
<1> QED
  BY Zenon, <1>5, <1>6 DEF l

-----------------------------------------------------------------------------
(***************************************************************************)
(* Whom a datagram is attributed to                                        *)
(***************************************************************************)

\* A set of indices has a least one.
LEMMA LeastIndex ==
  ASSUME NEW S \in SUBSET Nat, S # {}
  PROVE  \E k \in S : \A j \in S : k <= j
<1>1. PICK k \in S : \A j \in S : ~ (<<j, k>> \in OpToRel(<, Nat))
  BY Zenon, NatLessThanWellFounded, WFMin
<1>2. ASSUME NEW j \in S PROVE k <= j
  <2>1. ~ (<<j, k>> \in {ss \in Nat \X Nat : ss[1] < ss[2]})
    BY SMTT(30), <1>1 DEF OpToRel
  <2> QED
    BY SMTT(30), <2>1
<1> QED
  BY <1>2

\* find_peer_by_addr finds a peer whose address is known.
LEMMA FoundByAddr ==
  ASSUME NEW from, find_peer_by_addr(from) \in Nodes
  PROVE  ps[find_peer_by_addr(from)].addr_resolved
BY Zenon, ListAssumption DEF find_peer_by_addr, FirstPeer

\* find_responder_for_init gives the first responder that takes the INIT, if any.
LEMMA MatchedFirst ==
  ASSUME NEW m
  PROVE  LET matched == find_responder_for_init(m)
         IN  \/ /\ matched = NULL
                /\ \A k \in 1 .. Len(PeerList) :
                     RoleOf[PeerList[k]] = RESPONDER =>
                       ~ CanHandleInit(ps[PeerList[k]].session, m)
             \/ \E j \in 1 .. Len(PeerList) :
                  /\ matched = PeerList[j] /\ RoleOf[matched] = RESPONDER
                  /\ \A k \in 1 .. j - 1 :
                       RoleOf[PeerList[k]] = RESPONDER =>
                         ~ CanHandleInit(ps[PeerList[k]].session, m)
<1> DEFINE takes(n) == RoleOf[n] = RESPONDER /\ CanHandleInit(ps[n].session, m)
           first == {k \in 1 .. Len(PeerList) :
                       takes(PeerList[k]) /\ \A j \in 1 .. k - 1 : ~ takes(PeerList[j])}
           found == {k \in 1 .. Len(PeerList) : takes(PeerList[k])}
<1>1. find_responder_for_init(m) =
        IF first = {} THEN NULL ELSE PeerList[CHOOSE k \in first : TRUE]
  BY Zenon DEF find_responder_for_init, FirstPeer
<1>2. CASE first = {}
  <2>1. found \in SUBSET Nat
    OBVIOUS
  <2>2. found = {}
    <3> SUFFICES ASSUME found # {} PROVE FALSE
      OBVIOUS
    <3>1. PICK k \in found : \A j \in found : k <= j
      BY Zenon, <2>1, LeastIndex
    <3>2. ASSUME NEW j \in 1 .. k - 1 PROVE j \in 1 .. Len(PeerList) /\ j \notin found
      BY <3>1, ListAssumption
    <3> HIDE DEF takes
    <3> QED
      BY Zenon, <1>2, <3>1, <3>2
  <2> QED
    BY Zenon, <1>1, <1>2, <2>2
<1>3. CASE first # {}
  BY Zenon, <1>1, <1>3
<1> QED
  BY Zenon, <1>2, <1>3

-----------------------------------------------------------------------------
(***************************************************************************)
(* Attempts                                                                *)
(***************************************************************************)

\* initiate_handshake counts as activity, and sends the INIT of a new handshake
\* if the endpoint is or gets resolved.
LEMMA InitiatePeer ==
  ASSUME NEW p, IsPeer(p), NEW n, NEW eph, NEW resolved \in BOOLEAN
  PROVE  /\ IsPeer(initiate_handshake(p, n, eph, resolved))
         /\ initiate_handshake(p, n, eph, resolved).rx_age = 0
         /\ CanSendInit(p, resolved) =>
              initiate_handshake(p, n, eph, resolved).session.state = PENDING
         /\ ~ CanSendInit(p, resolved) =>
              initiate_handshake(p, n, eph, resolved) = [p EXCEPT !.rx_age = 0]
<1> DEFINE q == initiate_handshake(p, n, eph, resolved)
           s == session_build_init(session_start_handshake(p.session, eph))
<1>1. IsSession(s) /\ s.state = PENDING
  BY StartKeeps, BuildInitIsSession DEF IsPeer, KeepsCounters
<1>2. 0 \in 0 .. TIMEOUT
  BY TimerAssumption
<1> HIDE DEF s
<1>3. CASE CanSendInit(p, resolved)
  <2>1. q = [p EXCEPT !.addr = IF p.addr_resolved THEN @ ELSE at[n],
                      !.addr_resolved = TRUE, !.session = s, !.rx_age = 0, !.tx_age = 0]
    BY <1>3 DEF initiate_handshake, s
  <2>2. /\ DOMAIN q = PeerFields /\ q.session = s /\ q.rx_age = 0
        /\ q.key_age = p.key_age
    BY <2>1 DEF IsPeer, PeerFields
  <2> QED
    BY Zenon, <1>1, <1>2, <1>3, <2>2 DEF IsPeer
<1>4. CASE ~ CanSendInit(p, resolved)
  <2>1. q = [p EXCEPT !.rx_age = 0]
    BY <1>4 DEF initiate_handshake
  <2>2. /\ DOMAIN q = PeerFields /\ q.session = p.session /\ q.rx_age = 0
        /\ q.key_age = p.key_age
    BY Zenon, <2>1 DEF IsPeer, PeerFields
  <2> QED
    BY Zenon, <1>2, <1>4, <2>1, <2>2 DEF IsPeer
<1> QED
  BY Zenon, <1>3, <1>4

\* An attempt, successful or not, at a peer that the hub initiates.
LEMMA AttemptSpaced ==
  ASSUME NEW p, IsPeer(p), NEW n, NEW eph, NEW ok \in BOOLEAN, NEW may, NEW role,
         p.session.state = ESTABLISHED => p.addr_resolved
  PROVE  LET q == initiate_handshake(p, n, eph, ok)
         IN  IsPeer(q) /\ SpacedBy(role, q, 0) /\ KnownBy(q, may)
<1> DEFINE q == initiate_handshake(p, n, eph, ok)
<1>1. /\ IsPeer(q) /\ q.rx_age = 0
      /\ CanSendInit(p, ok) => q.session.state = PENDING
      /\ ~ CanSendInit(p, ok) => q = [p EXCEPT !.rx_age = 0]
  BY InitiatePeer
<1> HIDE DEF q
<1>2. q.session.state # ESTABLISHED
  <2>1. CASE CanSendInit(p, ok)
    BY <1>1, <2>1 DEF PENDING, ESTABLISHED
  <2>2. CASE ~ CanSendInit(p, ok)
    <3>1. q.session = p.session /\ ~ p.addr_resolved
      BY Zenon, <1>1, <2>2 DEF IsPeer, PeerFields, CanSendInit
    <3> QED
      BY Zenon, <3>1
  <2> QED
    BY Zenon, <2>1, <2>2
<1>3. SpacedBy(role, q, 0)
  BY <1>1, <1>2 DEF SpacedBy
<1>4. KnownBy(q, may)
  BY Zenon, <1>2 DEF KnownBy
<1> QED
  BY Zenon, <1>1, <1>3, <1>4 DEF q

\* An age stays within its limit, and one that was the greater does so.
LEMMA AgedFacts ==
  ASSUME NEW limit \in Nat, NEW age \in 0 .. limit, NEW t \in Nat
  PROVE  /\ Aged(age, t, limit) \in 0 .. limit
         /\ age = limit => Aged(age, t, limit) = limit
         /\ \A more \in Nat : \A a \in 0 .. more :
              (limit <= more /\ a <= age) =>
                \/ Aged(a, t, more) <= Aged(age, t, limit)
                \/ Aged(age, t, limit) = limit
         /\ \A a \in 0 .. age : Aged(a, t, limit) <= Aged(age, t, limit)
BY DEF Aged

\* Time makes a peer's timestamps older and leaves the rest of its record alone.
LEMMA OlderFacts ==
  ASSUME NEW p, DOMAIN p = PeerFields, NEW t
  PROVE  /\ DOMAIN Older(p, t) = PeerFields
         /\ Older(p, t).session = p.session
         /\ Older(p, t).addr_resolved = p.addr_resolved /\ Older(p, t).addr = p.addr
         /\ Older(p, t).stats = p.stats
         /\ Older(p, t).rx_age = Aged(p.rx_age, t, TIMEOUT)
         /\ Older(p, t).tx_age = Aged(p.tx_age, t, KEEPALIVE)
         /\ Older(p, t).key_age = Aged(p.key_age, t, ROTATION)
BY Zenon DEF Older, PeerFields

\* All ages grow alike, so the attempts stay spaced.
LEMMA OlderSpaced ==
  ASSUME NEW p, IsPeer(p), NEW age \in 0 .. TIMEOUT, NEW t \in Nat, NEW role, NEW may,
         SpacedBy(role, p, age), KnownBy(p, may)
  PROVE  /\ IsPeer(Older(p, t)) /\ Aged(age, t, TIMEOUT) \in 0 .. TIMEOUT
         /\ SpacedBy(role, Older(p, t), Aged(age, t, TIMEOUT))
         /\ KnownBy(Older(p, t), may)
<1> DEFINE q == Older(p, t)
           b == Aged(age, t, TIMEOUT)
<1>1. /\ DOMAIN q = PeerFields /\ q.session = p.session /\ q.addr_resolved = p.addr_resolved
      /\ q.rx_age = Aged(p.rx_age, t, TIMEOUT) /\ q.key_age = Aged(p.key_age, t, ROTATION)
  BY Zenon, OlderFacts DEF IsPeer
<1>2. /\ TIMEOUT \in Nat /\ ROTATION \in Nat /\ TIMEOUT <= ROTATION
      /\ p.rx_age \in 0 .. TIMEOUT /\ p.key_age \in 0 .. ROTATION
  BY TimerAssumption DEF IsPeer
<1>3. /\ b \in 0 .. TIMEOUT /\ (age = TIMEOUT => b = TIMEOUT)
      /\ q.rx_age \in 0 .. TIMEOUT /\ q.key_age \in 0 .. ROTATION
  BY Zenon, <1>1, <1>2, AgedFacts
<1>4. p.rx_age <= age => q.rx_age <= b
  BY <1>1, <1>2 DEF Aged
<1>5. p.key_age <= age => q.key_age <= b \/ b = TIMEOUT
  BY Zenon, <1>1, <1>2, AgedFacts
<1> HIDE DEF q, b
<1>6. IsPeer(q) /\ KnownBy(q, may)
  BY Zenon, <1>1, <1>3 DEF IsPeer, KnownBy
<1>7. SpacedBy(role, q, b)
  BY Zenon, <1>1, <1>3, <1>4, <1>5 DEF SpacedBy
<1> QED
  BY Zenon, <1>3, <1>6, <1>7 DEF q, b

\* What peers and attempts satisfy, the invariant's variables do some time later.
LEMMA LaterKeepsInv ==
  ASSUME NEW peers, NEW attempts, NEW t \in Nat, Later(peers, attempts, t),
         \A n \in Nodes : /\ IsPeer(peers[n]) /\ attempts[n] \in 0 .. TIMEOUT
                          /\ SpacedBy(RoleOf[n], peers[n], attempts[n])
                          /\ KnownBy(peers[n], unanswered'[n]),
         unanswered' \in [Nodes -> BOOLEAN], NotStarted'
  PROVE  LoopInv' /\ \A n \in Nodes : ps'[n].session = peers[n].session
<1>1. /\ DOMAIN ps' = Nodes /\ DOMAIN since' = Nodes
      /\ since' = [n \in Nodes |-> Aged(attempts[n], t, TIMEOUT)]
      /\ \A n \in Nodes : /\ ps'[n] = Older(peers[n], t)
                          /\ since'[n] = Aged(attempts[n], t, TIMEOUT)
  BY Zenon DEF Later
<1>2. ASSUME NEW n \in Nodes
      PROVE  /\ IsPeer(ps'[n]) /\ since'[n] \in 0 .. TIMEOUT
             /\ SpacedBy(RoleOf[n], ps'[n], since'[n]) /\ KnownBy(ps'[n], unanswered'[n])
             /\ ps'[n].session = peers[n].session
  <2>1. /\ IsPeer(peers[n]) /\ attempts[n] \in 0 .. TIMEOUT
        /\ SpacedBy(RoleOf[n], peers[n], attempts[n])
        /\ KnownBy(peers[n], unanswered'[n])
    OBVIOUS
  <2>2. Older(peers[n], t).session = peers[n].session
    BY Zenon, <2>1, OlderFacts DEF IsPeer
  <2> DEFINE may == unanswered'[n]
             p == peers[n]
             age == attempts[n]
  <2>3. /\ IsPeer(p) /\ age \in 0 .. TIMEOUT /\ SpacedBy(RoleOf[n], p, age)
        /\ KnownBy(p, may)
    BY Zenon, <2>1
  <2> HIDE DEF may, p, age
  <2>4. /\ IsPeer(Older(p, t)) /\ Aged(age, t, TIMEOUT) \in 0 .. TIMEOUT
        /\ SpacedBy(RoleOf[n], Older(p, t), Aged(age, t, TIMEOUT))
        /\ KnownBy(Older(p, t), may)
    BY Zenon, <2>3, OlderSpaced
  <2>5. ps'[n] = Older(p, t) /\ since'[n] = Aged(age, t, TIMEOUT) /\ may = unanswered'[n]
    BY Zenon, <1>1 DEF p, age, may
  <2> QED
    BY Zenon, <2>2, <2>4, <2>5 DEF p
<1>3. since' \in [Nodes -> 0 .. TIMEOUT]
  BY Zenon, <1>1, <1>2
<1>4. \A n \in Nodes : SpacedPeer(n)' /\ Knows(n)'
  BY Zenon, <1>2 DEF SpacedPeer, Knows
<1> QED
  BY Zenon, <1>1, <1>2, <1>3, <1>4 DEF LoopInv

\* One peer changes before time passes.
LEMMA OneLaterKeepsInv ==
  ASSUME LoopInv, NEW n \in Nodes, NEW q, NEW age \in 0 .. TIMEOUT, NEW t \in Nat,
         IsPeer(q), SpacedBy(RoleOf[n], q, age), KnownBy(q, unanswered[n]),
         NEW attempts, attempts = [since EXCEPT ![n] = age],
         Later([ps EXCEPT ![n] = q], attempts, t),
         UNCHANGED unanswered, NotStarted'
  PROVE  /\ LoopInv' /\ ps'[n].session = q.session
         /\ \A o \in Nodes \ {n} : ps'[o].session = ps[o].session
<1> DEFINE peers == [ps EXCEPT ![n] = q]
<1>1. /\ peers[n] = q /\ \A o \in Nodes \ {n} : peers[o] = ps[o]
      /\ attempts[n] = age /\ \A o \in Nodes \ {n} : attempts[o] = since[o]
  BY Zenon DEF LoopInv
<1>2. ASSUME NEW o \in Nodes
      PROVE  /\ IsPeer(ps[o]) /\ since[o] \in 0 .. TIMEOUT
             /\ SpacedBy(RoleOf[o], ps[o], since[o]) /\ KnownBy(ps[o], unanswered'[o])
  BY Zenon DEF LoopInv, SpacedPeer, Knows
<1>3. unanswered' \in [Nodes -> BOOLEAN] /\ KnownBy(q, unanswered'[n])
  BY Zenon DEF LoopInv
<1>4. \A o \in Nodes : /\ IsPeer(peers[o]) /\ attempts[o] \in 0 .. TIMEOUT
                       /\ SpacedBy(RoleOf[o], peers[o], attempts[o])
                       /\ KnownBy(peers[o], unanswered'[o])
  BY Zenon, <1>1, <1>2, <1>3
<1>5. Later(peers, attempts, t)
  OBVIOUS
<1> HIDE DEF peers
<1>6. LoopInv' /\ \A o \in Nodes : ps'[o].session = peers[o].session
  BY Zenon, <1>3, <1>4, <1>5, LaterKeepsInv
<1> QED
  BY Zenon, <1>1, <1>6

\* Starting a peer.
LEMMA StartKeepsInv ==
  ASSUME LoopInv, NEW k \in 1 .. Len(PeerList), NEW resolved \in BOOLEAN,
         NEW t \in ResolveTimes, StartPeer(k, resolved, t)
  PROVE  LoopInv' /\ since[PeerList[k]] = TIMEOUT
                  /\ \A o \in Nodes \ {PeerList[k]} : ps'[o].session = ps[o].session
<1> DEFINE n == PeerList[k]
           p == [ZeroPeer EXCEPT
                   !.session = session_init(RoleOf[n], LongTerm(Hub), LongTerm(n), 1,
                                            FreshKey(Hub, 1)),
                   !.rx_age  = 0]
<1>1. n \in Nodes /\ phase = <<"start", k>> /\ Len(PeerList) \in Nat /\ t \in Nat
  BY Zenon, ListAssumption, ResolveAssumption DEF Nodes, StartPeer
<1>2. since[n] = TIMEOUT
  <2>1. k \in k .. Len(PeerList)
    BY <1>1
  <2> QED
    BY <1>1, <2>1 DEF LoopInv, NotStarted
<1>3. IsPeer(p) /\ p.session.state = PENDING /\ p.rx_age = 0
  <2> DEFINE s == session_init(RoleOf[n], LongTerm(Hub), LongTerm(n), 1, FreshKey(Hub, 1))
  <2>1. IsSession(s) /\ s.state = PENDING
    BY InitIsSession
  <2> HIDE DEF s
  <2>2. p = [ZeroPeer EXCEPT !.session = s, !.rx_age = 0]
    BY DEF s
  <2>3. /\ DOMAIN p = PeerFields /\ p.session = s
        /\ p.rx_age = 0 /\ p.key_age = ROTATION
    BY Zenon, <2>2 DEF ZeroPeer, PeerFields
  <2>4. 0 \in 0 .. TIMEOUT /\ ROTATION \in 0 .. ROTATION
    BY TimerAssumption
  <2> HIDE DEF p
  <2> QED
    BY Zenon, <2>1, <2>3, <2>4 DEF IsPeer
<1>4. \/ since' = since
      \/ since' = [o \in Nodes |-> Aged([since EXCEPT ![n] = 0][o], t, TIMEOUT)]
  BY Zenon DEF StartPeer, Later
<1>5. p.session.state # ESTABLISHED
  BY <1>3 DEF PENDING, ESTABLISHED
<1> HIDE DEF p
<1>6. NotStarted'
  <2> SUFFICES ASSUME NEW i \in 1 .. Len(PeerList), phase' = <<"start", i>>,
                      NEW j \in i .. Len(PeerList)
               PROVE  since'[PeerList[j]] = TIMEOUT
    BY DEF NotStarted
  <2>1. phase' = IF After(k) = 0 THEN <<"tun">> ELSE <<"start", After(k)>>
    BY DEF StartPeer
  <2>2. i = k + 1
    BY <1>1, <2>1 DEF After
  <2>3. j \in k .. Len(PeerList) /\ j \in 1 .. Len(PeerList) /\ j # k
    BY <1>1, <2>2
  <2>4. since[PeerList[j]] = TIMEOUT /\ PeerList[j] # n /\ PeerList[j] \in Nodes
    BY Zenon, <1>1, <2>3, ListAssumption DEF LoopInv, NotStarted, Nodes
  <2>5. TIMEOUT \in Nat /\ TIMEOUT \in 0 .. TIMEOUT
    BY TimerAssumption
  <2>6. Aged(TIMEOUT, t, TIMEOUT) = TIMEOUT
    BY Zenon, <1>1, <2>5, AgedFacts
  <2>7. [since EXCEPT ![n] = 0][PeerList[j]] = TIMEOUT
    BY Zenon, <2>4 DEF LoopInv
  <2> QED
    BY Zenon, <1>4, <2>4, <2>6, <2>7
<1>7. CASE RoleOf[n] = INITIATOR
  <2> DEFINE q == initiate_handshake(p, n, FreshKey(Hub, 2), resolved)
  <2>1. /\ Later([ps EXCEPT ![n] = q], [since EXCEPT ![n] = 0], t)
        /\ UNCHANGED unanswered
    BY Zenon, <1>7 DEF StartPeer, p
  <2>2. IsPeer(q) /\ SpacedBy(RoleOf[n], q, 0) /\ KnownBy(q, unanswered[n])
    BY Zenon, <1>3, <1>5, AttemptSpaced
  <2>3. 0 \in 0 .. TIMEOUT
    BY TimerAssumption
  <2> HIDE DEF q
  <2> QED
    BY Zenon, <1>1, <1>2, <1>6, <2>1, <2>2, <2>3, OneLaterKeepsInv
<1>8. CASE RoleOf[n] # INITIATOR
  <2>1. /\ ps' = [ps EXCEPT ![n] = p]
        /\ UNCHANGED <<unanswered, since>>
    BY Zenon, <1>8 DEF StartPeer, p
  <2>2. DOMAIN ps' = Nodes /\ ps'[n] = p /\ \A o \in Nodes \ {n} : ps'[o] = ps[o]
    BY Zenon, <1>1, <2>1 DEF LoopInv
  <2>3. \A o \in Nodes : IsPeer(ps'[o])
    BY Zenon, <1>3, <2>2 DEF LoopInv
  <2>4. \A o \in Nodes : SpacedPeer(o)' /\ Knows(o)'
    BY Zenon, <1>5, <1>8, <2>1, <2>2
    DEF LoopInv, SpacedPeer, SpacedBy, Knows, KnownBy
  <2> QED
    BY Zenon, <1>2, <1>6, <2>1, <2>2, <2>3, <2>4 DEF LoopInv
<1> QED
  BY Zenon, <1>7, <1>8

\* Waiting in poll.
LEMMA WaitKeepsInv ==
  ASSUME LoopInv, Wait
  PROVE  /\ LoopInv'
         /\ \A n \in Nodes : ps'[n].session = ps[n].session
<1>1. /\ Later(ps, since, 1) /\ UNCHANGED unanswered /\ phase = <<"tun">> /\ phase' = phase
  BY Zenon DEF Wait
<1>2. NotStarted'
  BY <1>1 DEF NotStarted
<1>3. \A n \in Nodes : /\ IsPeer(ps[n]) /\ since[n] \in 0 .. TIMEOUT
                       /\ SpacedBy(RoleOf[n], ps[n], since[n])
                       /\ KnownBy(ps[n], unanswered'[n])
  BY Zenon, <1>1 DEF LoopInv, SpacedPeer, Knows
<1>4. unanswered' \in [Nodes -> BOOLEAN] /\ 1 \in Nat
  BY Zenon, <1>1 DEF LoopInv
<1> QED
  BY Zenon, <1>1, <1>2, <1>3, <1>4, LaterKeepsInv

\* A keepalive leaves what the timers look at next as it was.
LEMMA AfterKeepalivePeer ==
  ASSUME NEW p, IsPeer(p), NEW sent \in BOOLEAN
  PROVE  LET q == AfterKeepalive(p, sent)
         IN  /\ IsPeer(q) /\ q.rx_age = p.rx_age /\ q.key_age = p.key_age
             /\ q.addr_resolved = p.addr_resolved
             /\ q.session.state = p.session.state
             /\ q.session.pending_handshake_counter = p.session.pending_handshake_counter
<1> DEFINE s == session_seal_data(p.session)
           a == AfterSend(p, sent)
           q == [a EXCEPT !.tx_age = 0]
<1>1. KeepsCounters(p.session, s) /\ s.state = p.session.state
  BY DataKeeps DEF IsPeer
<1> HIDE DEF s
<1>2. /\ DOMAIN a = PeerFields /\ a.session = s
      /\ a.rx_age = p.rx_age /\ a.key_age = p.key_age
      /\ a.addr_resolved = p.addr_resolved
  BY DEF AfterSend, IsPeer, PeerFields, s
<1> HIDE DEF a
<1>3. /\ DOMAIN q = PeerFields /\ q.session = s
      /\ q.rx_age = p.rx_age /\ q.key_age = p.key_age
      /\ q.addr_resolved = p.addr_resolved
  BY Zenon, <1>2 DEF PeerFields
<1>4. AfterKeepalive(p, sent) = q \/ AfterKeepalive(p, sent) = p
  BY Zenon DEF AfterKeepalive, a
<1> HIDE DEF q
<1> QED
  BY Zenon, <1>1, <1>3, <1>4 DEF IsPeer, KeepsCounters

\* The pass over the timers is never ahead of its reading of the clock.
LagOK == lag \in Nat

\* The timers of one peer: an attempt only when the last one is long ago.
LEMMA TimersKeepInv ==
  ASSUME LoopInv, LagOK, NEW k \in 1 .. Len(PeerList), NEW ok \in BOOLEAN,
         NEW t \in ResolveTimes, Timers(k, ok, t)
  PROVE  /\ LoopInv'
         /\ \A o \in Nodes : \/ since[o] >= TIMEOUT
                             \/ ps'[o].session.pending_handshake_counter
                                  = ps[o].session.pending_handshake_counter
<1> DEFINE n == PeerList[k]
           p == AfterKeepalive(ps[n], ok)
           q == initiate_handshake(p, n, FreshKey(Hub, 1), ok)
           passed == IF After(k) = 0 THEN lag + t ELSE 0
<1>1. n \in Nodes /\ IsPeer(ps[n]) /\ UNCHANGED unanswered
  BY Zenon DEF Nodes, LoopInv, Timers
<1>2. /\ IsPeer(p) /\ p.rx_age = ps[n].rx_age /\ p.key_age = ps[n].key_age
      /\ p.addr_resolved = ps[n].addr_resolved
      /\ p.session.state = ps[n].session.state
      /\ p.session.pending_handshake_counter = ps[n].session.pending_handshake_counter
  BY Zenon, <1>1, AfterKeepalivePeer
<1>3. phase' = IF After(k) = 0 THEN <<"tun">> ELSE <<"timers", After(k)>>
  BY Zenon DEF Timers
<1>4. \/ /\ HandshakeDue(p, n)
         /\ Later([ps EXCEPT ![n] = q], [since EXCEPT ![n] = 0], passed)
      \/ Later([ps EXCEPT ![n] = p], since, passed)
  BY Zenon DEF Timers
<1>5. passed \in Nat
  BY ResolveAssumption DEF LagOK
<1>6. NotStarted'
  BY Zenon, <1>3 DEF NotStarted
<1>7. /\ SpacedBy(RoleOf[n], ps[n], since[n]) /\ KnownBy(ps[n], unanswered[n])
      /\ since[n] \in 0 .. TIMEOUT /\ since = [since EXCEPT ![n] = since[n]]
      /\ ps[n].rx_age \in 0 .. TIMEOUT /\ ps[n].key_age \in 0 .. ROTATION
  BY Zenon, <1>1 DEF LoopInv, SpacedPeer, Knows, IsPeer
<1> HIDE DEF p, passed
<1>8. CASE /\ HandshakeDue(p, n)
           /\ Later([ps EXCEPT ![n] = q], [since EXCEPT ![n] = 0], passed)
  <2>1. /\ RoleOf[n] = INITIATOR
        /\ \/ ps[n].rx_age >= TIMEOUT
           \/ ps[n].session.state = ESTABLISHED /\ ps[n].key_age >= ROTATION
    BY Zenon, <1>2, <1>8 DEF HandshakeDue
  <2>2. since[n] >= TIMEOUT
    <3>1. CASE ps[n].rx_age >= TIMEOUT
      BY SMTT(30), <1>7, <2>1, <3>1, TimerAssumption DEF SpacedBy
    <3>2. CASE ps[n].session.state = ESTABLISHED /\ ps[n].key_age >= ROTATION
      BY SMTT(30), <1>7, <2>1, <3>2, TimerAssumption DEF SpacedBy
    <3> QED
      BY Zenon, <2>1, <3>1, <3>2
  <2>3. p.session.state = ESTABLISHED => p.addr_resolved
    BY Zenon, <1>2, <1>7, <2>1 DEF SpacedBy
  <2>4. IsPeer(q) /\ SpacedBy(RoleOf[n], q, 0) /\ KnownBy(q, unanswered[n])
    BY Zenon, <1>2, <2>3, AttemptSpaced
  <2>5. 0 \in 0 .. TIMEOUT
    BY TimerAssumption
  <2> HIDE DEF q
  <2>6. LoopInv' /\ \A o \in Nodes \ {n} : ps'[o].session = ps[o].session
    BY Zenon, <1>1, <1>5, <1>6, <1>8, <2>4, <2>5, OneLaterKeepsInv
  <2> QED
    BY Zenon, <2>2, <2>6
<1>9. CASE Later([ps EXCEPT ![n] = p], since, passed)
  <2>1. SpacedBy(RoleOf[n], p, since[n]) /\ KnownBy(p, unanswered[n])
    BY Zenon, <1>2, <1>7 DEF SpacedBy, KnownBy
  <2>2. /\ LoopInv' /\ ps'[n].session = p.session
        /\ \A o \in Nodes \ {n} : ps'[o].session = ps[o].session
    BY Zenon, <1>1, <1>2, <1>5, <1>6, <1>7, <1>9, <2>1, OneLaterKeepsInv
  <2> QED
    BY Zenon, <1>2, <2>2
<1> QED
  BY Zenon, <1>4, <1>8, <1>9

-----------------------------------------------------------------------------
(***************************************************************************)
(* The TUN device and the socket                                           *)
(***************************************************************************)

\* What a step without an attempt leaves to show.
QuietlyOn ==
  /\ UNCHANGED since
  /\ phase' \in {<<"udp">>, <<"timers", 1>>}

\* Such a step that is quiet for every peer keeps the invariant.
LEMMA QuietlyOnKeepsInv ==
  ASSUME LoopInv, QuietlyOn, UNCHANGED unanswered, DOMAIN ps' = Nodes,
         \A n \in Nodes : Quiet(RoleOf[n], ps[n], ps'[n], unanswered'[n])
  PROVE  /\ LoopInv'
         /\ \A n \in Nodes : ps'[n].session.pending_handshake_counter
                               = ps[n].session.pending_handshake_counter
<1>1. \/ phase' \in {<<"tun">>, <<"udp">>}
      \/ \E k \in 1 .. Len(PeerList) + 1 : phase' = <<"timers", k>>
  BY ListAssumption DEF QuietlyOn
<1>2. /\ unanswered' \in [Nodes -> BOOLEAN] /\ UNCHANGED since
      /\ \A n \in Nodes : unanswered[n] => unanswered'[n]
  BY Zenon DEF LoopInv, QuietlyOn
<1> QED
  BY Zenon, <1>1, <1>2, QuietStep

\* A change of the counters that log_stats prints is quiet.
LEMMA CountingQuiet ==
  ASSUME NEW role, NEW p, NEW q, NEW may, Quiet(role, p, q, may), NEW r,
         DOMAIN r = DOMAIN q, r.session = q.session, r.rx_age = q.rx_age,
         r.key_age = q.key_age, r.addr_resolved = q.addr_resolved
  PROVE  Quiet(role, p, r, may)
BY Zenon DEF Quiet, IsPeer

\* A packet from the TUN device is quiet: sealed and sent, or dropped.
LEMMA TunReadQuiet ==
  ASSUME LoopInv, NEW packet \in Packets, NEW sent \in BOOLEAN, TunRead(packet, sent)
  PROVE  /\ QuietlyOn /\ UNCHANGED unanswered /\ DOMAIN ps' = Nodes
         /\ \A n \in Nodes : Quiet(RoleOf[n], ps[n], ps'[n], unanswered'[n])
<1> DEFINE k == RouteOf(Routes, packet)
           n == TunPeer(k)
<1>0. /\ QuietlyOn /\ UNCHANGED unanswered /\ DOMAIN ps = Nodes
      /\ \A o \in Nodes : IsPeer(ps[o])
  BY Zenon DEF TunRead, QuietlyOn, LoopInv
<1>1. CASE UNCHANGED ps
  BY Zenon, <1>0, <1>1, SameIsQuiet
<1>2. CASE ps' = [ps EXCEPT ![n].stats.drops = @ + 1]
  <2>1. CASE n \notin Nodes
    <3>1. DOMAIN ps' = Nodes /\ \A o \in Nodes : ps'[o] = ps[o]
      BY Zenon, <1>0, <1>2, <2>1
    <3> QED
      BY Zenon, <1>0, <3>1, SameIsQuiet
  <2>2. CASE n \in Nodes
    <3> DEFINE q == [ps[n] EXCEPT !.stats.drops = @ + 1]
    <3>1. ps' = [ps EXCEPT ![n] = q]
      BY Zenon, <1>2
    <3>2. /\ DOMAIN q = DOMAIN ps[n] /\ q.session = ps[n].session
          /\ q.rx_age = ps[n].rx_age /\ q.key_age = ps[n].key_age
          /\ q.addr_resolved = ps[n].addr_resolved
      BY Zenon, <1>0, <2>2 DEF IsPeer, PeerFields
    <3> HIDE DEF q
    <3>3. Quiet(RoleOf[n], ps[n], q, unanswered'[n])
      BY Zenon, <1>0, <2>2, <3>2, SameIsQuiet, CountingQuiet
    <3> QED
      BY Zenon, <1>0, <2>2, <3>1, <3>3, OneQuietly
  <2> QED
    BY Zenon, <2>1, <2>2
<1>3. CASE ps' = [ps EXCEPT ![n] = AfterSend(@, sent)]
  <2>1. CASE n \notin Nodes
    <3>1. DOMAIN ps' = Nodes /\ \A o \in Nodes : ps'[o] = ps[o]
      BY Zenon, <1>0, <1>3, <2>1
    <3> QED
      BY <1>0, <3>1, SameIsQuiet
  <2>2. CASE n \in Nodes
    <3>1. ps' = [ps EXCEPT ![n] = AfterSend(ps[n], sent)]
      BY Zenon, <1>3
    <3>2. Quiet(RoleOf[n], ps[n], AfterSend(ps[n], sent), unanswered'[n])
      BY Zenon, <1>0, <2>2, AfterSendQuiet
    <3> QED
      BY Zenon, <1>0, <2>2, <3>1, <3>2, OneQuietly
  <2> QED
    BY <2>1, <2>2
<1> QED
  BY Zenon, <1>1, <1>2, <1>3 DEF TunRead

\* An INIT from an unknown address: the sessions before the one that matches do
\* not take it, and that one learns the address or is marked as unanswered.
LEMMA UnknownInitKeepsInv ==
  ASSUME LoopInv, NEW d \in net, NEW sent \in BOOLEAN, UnknownInit(d, sent)
  PROVE  /\ LoopInv'
         /\ \A n \in Nodes : ps'[n].session.pending_handshake_counter
                               = ps[n].session.pending_handshake_counter
<1> DEFINE matched == find_responder_for_init(d.msg)
           tries == {n \in Nodes : /\ RoleOf[n] = RESPONDER
                                   /\ \A k, j \in 1 .. Len(PeerList) :
                                        (PeerList[k] = n /\ PeerList[j] = matched) => k <= j}
           P(n) == IF n \in tries THEN HandledInit(ps[n], d.msg) ELSE ps[n]
<1>0. /\ UNCHANGED since /\ phase' = <<"timers", 1>>
      /\ ps' = [n \in Nodes |-> IF n = matched /\ sent
                                THEN Answered(Learned(P(n), d.src)) ELSE P(n)]
      /\ unanswered' = [n \in Nodes |-> unanswered[n] \/ (n = matched /\ ~ sent)]
  BY Zenon DEF UnknownInit, Receive
<1>1. ASSUME NEW n \in tries, n # matched PROVE ~ CanHandleInit(ps[n].session, d.msg)
  <2>1. PICK i \in 1 .. Len(PeerList) : n = PeerList[i]
    BY Zenon DEF Nodes
  <2>2. CASE matched = NULL /\ \A k \in 1 .. Len(PeerList) :
                RoleOf[PeerList[k]] = RESPONDER =>
                  ~ CanHandleInit(ps[PeerList[k]].session, d.msg)
    BY Zenon, <2>1, <2>2
  <2>3. ASSUME NEW j \in 1 .. Len(PeerList), matched = PeerList[j],
               \A k \in 1 .. j - 1 : RoleOf[PeerList[k]] = RESPONDER =>
                                       ~ CanHandleInit(ps[PeerList[k]].session, d.msg)
        PROVE  ~ CanHandleInit(ps[n].session, d.msg)
    <3>1. i <= j
      BY Zenon, <2>1, <2>3
    <3>2. i # j
      BY Zenon, <1>1, <2>1, <2>3
    <3>3. i \in 1 .. j - 1
      BY <3>1, <3>2
    <3> QED
      BY Zenon, <2>1, <2>3, <3>3
  <2> QED
    BY Zenon, <2>2, <2>3, MatchedFirst
<1>2. ASSUME matched \in Nodes PROVE RoleOf[matched] = RESPONDER
  BY Zenon, <1>2, MatchedFirst, ListAssumption
<1> HIDE DEF matched, tries
<1>3. \A n \in tries : n \in Nodes /\ RoleOf[n] = RESPONDER
  BY DEF tries
<1>4. /\ unanswered' \in [Nodes -> BOOLEAN]
      /\ \A n \in Nodes : unanswered[n] => unanswered'[n]
      /\ \A n \in Nodes : (n = matched /\ ~ sent) => unanswered'[n]
  BY Zenon, <1>0 DEF LoopInv
<1>5. ASSUME NEW n \in Nodes
      PROVE  Quiet(RoleOf[n], ps[n], ps'[n], unanswered'[n])
  <2>0. IsPeer(ps[n]) /\ DOMAIN ps[n] = PeerFields
    BY Zenon DEF LoopInv, IsPeer
  <2>1. CASE ~ (n = matched /\ sent)
    <3>1. ps'[n] = P(n)
      BY Zenon, <1>0, <2>1
    <3>2. CASE n \in tries
      <4>1. CanHandleInit(ps[n].session, d.msg) => unanswered'[n]
        BY Zenon, <1>1, <1>4, <2>1, <3>2
      <4>2. RoleOf[n] # INITIATOR
        BY Zenon, <1>3, <3>2 DEF INITIATOR, RESPONDER
      <4>3. Quiet(RoleOf[n], ps[n], HandledInit(ps[n], d.msg), unanswered'[n])
        BY Zenon, <2>0, <4>1, <4>2, HandledInitQuiet
      <4> QED
        BY Zenon, <3>1, <3>2, <4>3
    <3>3. CASE n \notin tries
      BY Zenon, <2>0, <3>1, <3>3, SameIsQuiet
    <3> QED
      BY Zenon, <3>2, <3>3
  <2>2. CASE n = matched /\ sent
    <3>1. RoleOf[n] # INITIATOR
      BY Zenon, <1>2, <2>2 DEF INITIATOR, RESPONDER
    <3>2. Quiet(RoleOf[n], ps[n], P(n), TRUE) /\ DOMAIN P(n) = PeerFields
      BY Zenon, <2>0, <3>1, HandledInitQuiet, SameIsQuiet
    <3>3. ps'[n] = Answered(Learned(P(n), d.src))
      BY Zenon, <1>0, <2>2
    <3> HIDE DEF P
    <3> QED
      BY Zenon, <3>1, <3>2, <3>3, AnsweredQuiet
  <2> QED
    BY Zenon, <2>1, <2>2
<1>6. DOMAIN ps' = Nodes /\ \E k \in 1 .. Len(PeerList) + 1 : phase' = <<"timers", k>>
  BY <1>0, ListAssumption
<1> QED
  BY Zenon, <1>0, <1>4, <1>5, <1>6, QuietStep

\* An INIT from a known address.
LEMMA KnownInitKeepsInv ==
  ASSUME LoopInv, NEW n \in Nodes, NEW d \in net, NEW sent \in BOOLEAN,
         KnownInit(n, d, sent)
  PROVE  /\ LoopInv'
         /\ \A o \in Nodes : ps'[o].session.pending_handshake_counter
                               = ps[o].session.pending_handshake_counter
<1> DEFINE p == HandledInit(ps[n], d.msg)
           q == IF ~ CanHandleInit(ps[n].session, d.msg)
                THEN [p EXCEPT !.stats.auth_failures = @ + 1]
                ELSE IF sent THEN Answered(p) ELSE p
<1>1. /\ UNCHANGED since /\ phase' = <<"timers", 1>>
      /\ n = find_peer_by_addr(d.src) /\ RoleOf[n] = RESPONDER
      /\ ps' = [ps EXCEPT ![n] = q]
      /\ unanswered' = [unanswered EXCEPT ![n] = @ \/ ~ sent]
  BY Zenon DEF KnownInit, Receive
<1>2. ps[n].addr_resolved /\ IsPeer(ps[n]) /\ RoleOf[n] # INITIATOR
  BY Zenon, <1>1, FoundByAddr DEF LoopInv, INITIATOR, RESPONDER
<1>3. /\ Quiet(RoleOf[n], ps[n], p, unanswered'[n]) /\ Quiet(RoleOf[n], ps[n], p, TRUE)
      /\ DOMAIN p = PeerFields /\ p.addr_resolved
  <2>1. \A may : Quiet(RoleOf[n], ps[n], p, may)
    BY Zenon, <1>2, HandledInitQuiet
  <2>2. DOMAIN p = PeerFields /\ p.addr_resolved = ps[n].addr_resolved
    BY Zenon, <1>2 DEF HandledInit, IsPeer, PeerFields
  <2> QED
    BY Zenon, <1>2, <2>1, <2>2
<1>4. Quiet(RoleOf[n], ps[n], q, unanswered'[n])
  <2> HIDE DEF p
  <2>1. CASE ~ CanHandleInit(ps[n].session, d.msg)
    <3>1. /\ DOMAIN q = DOMAIN p /\ q.session = p.session
          /\ q.rx_age = p.rx_age /\ q.key_age = p.key_age
          /\ q.addr_resolved = p.addr_resolved
      BY Zenon, <1>3, <2>1 DEF PeerFields
    <3> HIDE DEF q
    <3> QED
      BY Zenon, <1>3, <3>1, CountingQuiet
  <2>2. CASE CanHandleInit(ps[n].session, d.msg) /\ sent
    BY Zenon, <1>2, <1>3, <2>2, AnsweredQuiet
  <2>3. CASE CanHandleInit(ps[n].session, d.msg) /\ ~ sent
    BY <1>3, <2>3
  <2> QED
    BY Zenon, <2>1, <2>2, <2>3
<1> HIDE DEF q
<1>5. DOMAIN ps' = Nodes /\ \A o \in Nodes : Quiet(RoleOf[o], ps[o], ps'[o], unanswered'[o])
  BY Zenon, <1>1, <1>4, OneQuietly
<1>6. /\ unanswered' \in [Nodes -> BOOLEAN]
      /\ \A o \in Nodes : unanswered[o] => unanswered'[o]
  BY Zenon, <1>1 DEF LoopInv
<1>7. \E k \in 1 .. Len(PeerList) + 1 : phase' = <<"timers", k>>
  BY <1>1, ListAssumption
<1> QED
  BY Zenon, <1>1, <1>5, <1>6, <1>7, QuietStep

\* A RESPONSE from a known address, to the one session that can be waiting for it.
LEMMA KnownResponseQuiet ==
  ASSUME LoopInv, NEW n \in Nodes, NEW d \in net, KnownResponse(n, d)
  PROVE  /\ QuietlyOn /\ UNCHANGED unanswered /\ DOMAIN ps' = Nodes
         /\ \A o \in Nodes : Quiet(RoleOf[o], ps[o], ps'[o], unanswered'[o])
<1> DEFINE s == session_handle_response(ps[n].session, d.msg)
           done == [ps[n] EXCEPT !.session = s, !.rx_age = 0, !.key_age = 0,
                                 !.stats.handshakes = @ + 1]
           failed == [ps[n] EXCEPT !.stats.auth_failures = @ + 1]
<1>1. /\ QuietlyOn /\ UNCHANGED unanswered /\ n = find_peer_by_addr(d.src)
      /\ ps' = [ps EXCEPT ![n] = done] \/ ps' = [ps EXCEPT ![n] = failed]
  BY Zenon DEF KnownResponse, Receive, QuietlyOn
<1>2. ps[n].addr_resolved /\ IsPeer(ps[n])
  BY Zenon, <1>1, FoundByAddr DEF LoopInv
<1>3. KeepsCounters(ps[n].session, s)
  BY Zenon, <1>2, HandleResponseKeeps DEF IsPeer
<1> HIDE DEF s
<1>4. Quiet(RoleOf[n], ps[n], done, unanswered'[n])
  <2>1. /\ DOMAIN done = PeerFields /\ done.session = s
        /\ done.rx_age = 0 /\ done.key_age = 0
        /\ done.addr_resolved = ps[n].addr_resolved
    BY Zenon, <1>2 DEF IsPeer, PeerFields
  <2>2. 0 \in 0 .. TIMEOUT /\ 0 \in 0 .. ROTATION
    BY TimerAssumption
  <2> HIDE DEF done
  <2> QED
    BY Zenon, <1>2, <1>3, <2>1, <2>2 DEF Quiet, IsPeer, KeepsCounters
<1>5. Quiet(RoleOf[n], ps[n], failed, unanswered'[n])
  <2>1. /\ DOMAIN failed = DOMAIN ps[n] /\ failed.session = ps[n].session
        /\ failed.rx_age = ps[n].rx_age /\ failed.key_age = ps[n].key_age
        /\ failed.addr_resolved = ps[n].addr_resolved
    BY Zenon, <1>2 DEF IsPeer, PeerFields
  <2> HIDE DEF failed
  <2> QED
    BY Zenon, <1>2, <2>1, SameIsQuiet, CountingQuiet
<1> HIDE DEF done, failed
<1> QED
  BY Zenon, <1>1, <1>4, <1>5, OneQuietly

\* The four outcomes of DATA from a known address: refused, a keepalive, a packet
\* the TUN device takes and one it does not.
\* DATA from a known address.
LEMMA KnownDataQuiet ==
  ASSUME LoopInv, NEW n \in Nodes, NEW d \in net, NEW written \in BOOLEAN,
         KnownData(n, d, written)
  PROVE  /\ QuietlyOn /\ UNCHANGED unanswered /\ DOMAIN ps' = Nodes
         /\ \A o \in Nodes : Quiet(RoleOf[o], ps[o], ps'[o], unanswered'[o])
<1> DEFINE s == session_open_data(ps[n].session, d.msg)
           opened == [ps[n] EXCEPT !.session = s]
           heard  == [opened EXCEPT !.rx_age = 0]
           failed == [opened EXCEPT !.stats.auth_failures = @ + 1,
                                    !.stats.drops = @ + 1]
           packet == [opened EXCEPT !.rx_age = 0, !.stats.packets_rx = @ + 1]
<1>1. IsPeer(ps[n]) /\ DOMAIN ps = Nodes
  BY Zenon DEF LoopInv
<1>2. KeepsCounters(ps[n].session, s) /\ s.state = ps[n].session.state
  BY Zenon, <1>1, DataKeeps DEF IsPeer
<1>3. /\ QuietlyOn /\ UNCHANGED unanswered
      /\ \E q \in {opened, heard, failed, packet} : ps' = [ps EXCEPT ![n] = q]
  <2> DEFINE opens == CanOpenData(ps[n].session, d.msg)
             packets == opens /\ d.msg.body # EMPTY_PAYLOAD
  <2>1. Receive(d, {}, written) /\ UNCHANGED <<environment, unanswered, since>>
    BY DEF KnownData
  <2>2. ps' = [ps EXCEPT ![n] = CASE ~ opens -> failed
                                  [] opens /\ ~ packets -> heard
                                  [] packets /\ written -> packet
                                  [] packets /\ ~ written -> opened]
    BY Zenon DEF KnownData
  <2> HIDE DEF opened, heard, packet, failed
  <2>3. CASE ~ opens
    BY Zenon, <2>1, <2>2, <2>3 DEF Receive, QuietlyOn
  <2>4. CASE opens /\ ~ packets
    BY Zenon, <2>1, <2>2, <2>4 DEF Receive, QuietlyOn
  <2>5. CASE packets /\ written
    BY Zenon, <2>1, <2>2, <2>5 DEF Receive, QuietlyOn
  <2>6. CASE packets /\ ~ written
    BY Zenon, <2>1, <2>2, <2>6 DEF Receive, QuietlyOn
  <2> QED
    BY Zenon, <2>3, <2>4, <2>5, <2>6
<1> HIDE DEF s
<1>4. Quiet(RoleOf[n], ps[n], opened, unanswered'[n]) /\ DOMAIN opened = PeerFields
  <2>1. /\ DOMAIN opened = PeerFields /\ opened.session = s
        /\ opened.rx_age = ps[n].rx_age /\ opened.key_age = ps[n].key_age
        /\ opened.addr_resolved = ps[n].addr_resolved
    BY Zenon, <1>1 DEF IsPeer, PeerFields
  <2> HIDE DEF opened
  <2> QED
    BY Zenon, <1>1, <1>2, <2>1 DEF Quiet, IsPeer, KeepsCounters
<1> HIDE DEF opened
<1>5. Quiet(RoleOf[n], ps[n], heard, unanswered'[n])
  <2>1. /\ DOMAIN heard = PeerFields /\ heard.session = opened.session
        /\ heard.rx_age = 0 /\ heard.key_age = opened.key_age
        /\ heard.addr_resolved = opened.addr_resolved
    BY Zenon, <1>4 DEF PeerFields
  <2>2. 0 \in 0 .. TIMEOUT
    BY TimerAssumption
  <2> HIDE DEF heard
  <2> QED
    BY Zenon, <1>4, <2>1, <2>2 DEF Quiet, IsPeer
<1>6. Quiet(RoleOf[n], ps[n], failed, unanswered'[n])
  <2>1. /\ DOMAIN failed = DOMAIN opened /\ failed.session = opened.session
        /\ failed.rx_age = opened.rx_age /\ failed.key_age = opened.key_age
        /\ failed.addr_resolved = opened.addr_resolved
    BY Zenon, <1>4 DEF PeerFields
  <2> HIDE DEF failed
  <2> QED
    BY Zenon, <1>4, <2>1, CountingQuiet
<1>7. Quiet(RoleOf[n], ps[n], packet, unanswered'[n])
  <2>1. /\ DOMAIN packet = DOMAIN heard /\ packet.session = heard.session
        /\ packet.rx_age = heard.rx_age /\ packet.key_age = heard.key_age
        /\ packet.addr_resolved = heard.addr_resolved
    BY <1>4 DEF PeerFields
  <2> HIDE DEF packet, heard
  <2> QED
    BY Zenon, <1>5, <2>1, CountingQuiet
<1> HIDE DEF heard
<1> HIDE DEF failed, packet
<1> QED
  BY Zenon, <1>3, <1>4, <1>5, <1>6, <1>7, OneQuietly

\* A handshake message of the wrong kind is only counted.
LEMMA UnexpectedQuiet ==
  ASSUME LoopInv, NEW n \in Nodes, NEW d \in net, Unexpected(n, d)
  PROVE  /\ QuietlyOn /\ UNCHANGED unanswered /\ DOMAIN ps' = Nodes
         /\ \A o \in Nodes : Quiet(RoleOf[o], ps[o], ps'[o], unanswered'[o])
<1> DEFINE q == [ps[n] EXCEPT !.stats.drops = @ + 1]
<1>1. /\ QuietlyOn /\ UNCHANGED unanswered /\ ps' = [ps EXCEPT ![n] = q]
  BY Zenon DEF Unexpected, Receive, QuietlyOn
<1>2. /\ IsPeer(ps[n]) /\ DOMAIN q = DOMAIN ps[n] /\ q.session = ps[n].session
      /\ q.rx_age = ps[n].rx_age /\ q.key_age = ps[n].key_age
      /\ q.addr_resolved = ps[n].addr_resolved
  BY Zenon DEF LoopInv, IsPeer, PeerFields
<1> HIDE DEF q
<1>3. Quiet(RoleOf[n], ps[n], q, unanswered'[n])
  BY Zenon, <1>2, SameIsQuiet, CountingQuiet
<1> QED
  BY Zenon, <1>1, <1>3, OneQuietly

-----------------------------------------------------------------------------
(***************************************************************************)
(* The whole loop                                                          *)
(***************************************************************************)

\* The daemon starts with records of zeros, of sessions that are not established.
LEMMA LoopInitInv == Init => LoopInv
<1> SUFFICES ASSUME Init PROVE LoopInv
  BY Zenon
<1>1. IsSession(NoSession) /\ NoSession.state = PENDING
  BY Zenon, InitIsSession DEF NoSession
<1>2. /\ IsPeer(ZeroPeer) /\ ZeroPeer.session.state # ESTABLISHED
      /\ ZeroPeer.rx_age = TIMEOUT
  <2>1. /\ DOMAIN ZeroPeer = PeerFields /\ ZeroPeer.session = NoSession
        /\ ZeroPeer.rx_age = TIMEOUT /\ ZeroPeer.key_age = ROTATION
    BY DEF ZeroPeer, PeerFields
  <2>2. TIMEOUT \in 0 .. TIMEOUT /\ ROTATION \in 0 .. ROTATION
    BY TimerAssumption
  <2> QED
    BY Zenon, <1>1, <2>1, <2>2 DEF IsPeer, PENDING, ESTABLISHED
<1>3. /\ DOMAIN ps = Nodes /\ \A n \in Nodes : ps[n] = ZeroPeer
      /\ since = [n \in Nodes |-> TIMEOUT] /\ unanswered = [n \in Nodes |-> FALSE]
  BY Zenon DEF Init
<1>4. since \in [Nodes -> 0 .. TIMEOUT] /\ unanswered \in [Nodes -> BOOLEAN]
  BY <1>3, TimerAssumption
<1>5. NotStarted
  <2>1. \A j \in 1 .. Len(PeerList) : PeerList[j] \in Nodes
    BY Zenon DEF Nodes
  <2>2. \A k \in 1 .. Len(PeerList) : \A j \in k .. Len(PeerList) : PeerList[j] \in Nodes
    BY <2>1, ListAssumption
  <2> QED
    BY Zenon, <1>3, <2>2 DEF NotStarted
<1>6. \A n \in Nodes : SpacedPeer(n) /\ Knows(n)
  BY <1>2, <1>3, TimerAssumption DEF SpacedPeer, SpacedBy, Knows, KnownBy
<1> QED
  BY Zenon, <1>2, <1>3, <1>4, <1>5, <1>6 DEF LoopInv

\* The attempts of a step are spaced.
Spaced ==
  \A n \in Nodes :
    \/ since[n] >= TIMEOUT
    \/ ps'[n].session.pending_handshake_counter = ps[n].session.pending_handshake_counter

\* A pass begins without lag.
LEMMA LagInit == Init => LagOK
BY DEF Init, LagOK

\* Only the timers move the lag, and end with what is left of it.
LEMMA LagNext == LagOK /\ [Next]_vars => LagOK'
<1> SUFFICES ASSUME LagOK, [Next]_vars PROVE LagOK'
  BY Zenon
<1>1. ASSUME NEW k, NEW ok, NEW t \in ResolveTimes, Timers(k, ok, t) PROVE LagOK'
  <2>1. lag' = lag + t - (IF After(k) = 0 THEN lag + t ELSE 0)
    BY Zenon, <1>1 DEF Timers
  <2> QED
    BY <2>1, ResolveAssumption DEF LagOK
<1>2. ASSUME UNCHANGED lag PROVE LagOK'
  BY Zenon, <1>2 DEF LagOK
<1>3. CASE NodeStep \/ UNCHANGED vars
  BY Zenon, <1>2, <1>3
  DEF NodeStep, NodeInitiate, NodeHandleInit, NodeHandleResponse, NodeSend, Move, PassOn,
      hub, vars
<1>4. CASE HubStep
  <2>1. ASSUME NEW k, NEW resolved, NEW t, StartPeer(k, resolved, t) PROVE UNCHANGED lag
    BY Zenon, <2>1 DEF StartPeer
  <2>2. (Wait \/ NoTunPacket \/ NoDatagram) => UNCHANGED lag
    BY Zenon DEF Wait, NoTunPacket, NoDatagram
  <2>3. ASSUME NEW packet, NEW sent, TunRead(packet, sent) PROVE UNCHANGED lag
    BY Zenon, <2>3 DEF TunRead
  <2>4. ASSUME NEW d, NEW sent, UnknownInit(d, sent) PROVE UNCHANGED lag
    BY Zenon, <2>4 DEF UnknownInit
  <2>5. ASSUME NEW n, NEW d, NEW sent, KnownInit(n, d, sent) PROVE UNCHANGED lag
    BY Zenon, <2>5 DEF KnownInit
  <2>6. ASSUME NEW n, NEW d, NEW written, KnownData(n, d, written) PROVE UNCHANGED lag
    BY Zenon, <2>6 DEF KnownData
  <2>7. ASSUME NEW n, NEW d, UnknownOther(d) \/ KnownResponse(n, d) \/ Unexpected(n, d)
        PROVE  UNCHANGED lag
    BY Zenon, <2>7 DEF UnknownOther, KnownResponse, Unexpected
  <2> QED
    BY Zenon, <1>1, <1>2, <1>4, <2>1, <2>2, <2>3, <2>4, <2>5, <2>6, <2>7 DEF HubStep
<1> QED
  BY Zenon, <1>3, <1>4 DEF Next

\* Every step keeps the invariant, and its attempts are spaced.
LEMMA LoopNext == LoopInv /\ LagOK /\ [Next]_vars => LoopInv' /\ LagOK' /\ Spaced
<1> SUFFICES ASSUME LoopInv, LagOK, [Next]_vars PROVE LoopInv' /\ Spaced
  BY Zenon, LagNext
<1>1. ASSUME UNCHANGED <<ps, phase, unanswered, since>> PROVE LoopInv' /\ Spaced
  <2>1. LoopInv'
    BY Zenon, <1>1 DEF LoopInv, NotStarted, SpacedPeer, Knows
  <2>2. Spaced
    BY Zenon, <1>1 DEF Spaced
  <2> QED
    BY Zenon, <2>1, <2>2
<1>2. ASSUME QuietlyOn, UNCHANGED unanswered, DOMAIN ps' = Nodes,
             \A n \in Nodes : Quiet(RoleOf[n], ps[n], ps'[n], unanswered'[n])
      PROVE  LoopInv' /\ Spaced
  BY Zenon, <1>2, QuietlyOnKeepsInv DEF Spaced
<1>3. ASSUME QuietlyOn, UNCHANGED <<ps, unanswered>> PROVE LoopInv' /\ Spaced
  <2>1. DOMAIN ps = Nodes /\ \A n \in Nodes : IsPeer(ps[n])
    BY Zenon DEF LoopInv
  <2>2. DOMAIN ps' = Nodes /\ \A n \in Nodes : Quiet(RoleOf[n], ps[n], ps'[n], unanswered'[n])
    BY Zenon, <1>3, <2>1, SameIsQuiet
  <2> QED
    BY Zenon, <1>2, <1>3, <2>2
<1>4. ASSUME NEW k \in 1 .. Len(PeerList), NEW resolved \in BOOLEAN,
             NEW t \in ResolveTimes, StartPeer(k, resolved, t)
      PROVE  LoopInv' /\ Spaced
  BY <1>4, StartKeepsInv, TimerAssumption DEF Spaced
<1>5. CASE Wait
  BY Zenon, <1>5, WaitKeepsInv DEF Spaced
<1>6. CASE NoTunPacket
  BY Zenon, <1>3, <1>6 DEF NoTunPacket, QuietlyOn
<1>7. ASSUME NEW packet \in Packets, NEW sent \in BOOLEAN, TunRead(packet, sent)
      PROVE  LoopInv' /\ Spaced
  BY Zenon, <1>2, <1>7, TunReadQuiet
<1>8. CASE NoDatagram
  BY Zenon, <1>3, <1>8 DEF NoDatagram, QuietlyOn
<1>9. ASSUME NEW d \in net, NEW sent \in BOOLEAN, UnknownInit(d, sent)
      PROVE  LoopInv' /\ Spaced
  BY Zenon, <1>9, UnknownInitKeepsInv DEF Spaced
<1>10. ASSUME NEW d \in net, UnknownOther(d) PROVE LoopInv' /\ Spaced
  BY Zenon, <1>3, <1>10 DEF UnknownOther, Receive, QuietlyOn
<1>11. ASSUME NEW n \in Nodes, NEW d \in net, NEW sent \in BOOLEAN, KnownInit(n, d, sent)
       PROVE  LoopInv' /\ Spaced
  BY Zenon, <1>11, KnownInitKeepsInv DEF Spaced
<1>12. ASSUME NEW n \in Nodes, NEW d \in net, KnownResponse(n, d) PROVE LoopInv' /\ Spaced
  BY Zenon, <1>2, <1>12, KnownResponseQuiet
<1>13. ASSUME NEW n \in Nodes, NEW d \in net, NEW written \in BOOLEAN,
              KnownData(n, d, written)
       PROVE  LoopInv' /\ Spaced
  BY Zenon, <1>2, <1>13, KnownDataQuiet
<1>14. ASSUME NEW n \in Nodes, NEW d \in net, Unexpected(n, d) PROVE LoopInv' /\ Spaced
  BY SMTT(30), <1>2, <1>14, UnexpectedQuiet
<1>15. ASSUME NEW k \in 1 .. Len(PeerList), NEW ok \in BOOLEAN, NEW t \in ResolveTimes,
              Timers(k, ok, t)
       PROVE  LoopInv' /\ Spaced
  BY Zenon, <1>15, TimersKeepInv DEF Spaced
<1>16. CASE NodeStep \/ UNCHANGED vars
  <2>1. UNCHANGED <<ps, phase, unanswered, since>>
    BY Zenon, <1>16 DEF NodeStep, NodeInitiate, NodeHandleInit, NodeHandleResponse, NodeSend,
                 Move, PassOn, hub, vars
  <2> QED
    BY Zenon, <1>1, <2>1
<1>17. CASE HubStep
  BY Zenon, <1>4, <1>5, <1>6, <1>7, <1>8, <1>9, <1>10, <1>11, <1>12, <1>13, <1>14, <1>15, <1>17
  DEF HubStep
<1> QED
  BY Zenon, <1>16, <1>17 DEF Next

\* For any number of peers in any roles, any intervals, any network, faults and
\* moves, and however long udp_resolve blocks: the readings of the clock that
\* initiate_handshake is called with for a peer and that lead to an INIT are
\* SESSION_TIMEOUT_MS or more after the one of the attempt before.
THEOREM HandshakesSpaced == Spec => AttemptsSpaced
<1>1. Init => LoopInv /\ LagOK
  BY LoopInitInv, LagInit
<1>2. LoopInv /\ LagOK /\ [Next]_vars => LoopInv' /\ LagOK'
  BY Zenon, LoopNext
<1>3. LoopInv /\ LagOK /\ [Next]_vars =>
        [\A n \in Nodes : ps'[n].session.pending_handshake_counter
                            > ps[n].session.pending_handshake_counter
                          => since[n] >= TIMEOUT]_vars
  <2> SUFFICES ASSUME LoopInv, LagOK, [Next]_vars, NEW n \in Nodes,
                      ps'[n].session.pending_handshake_counter
                        > ps[n].session.pending_handshake_counter
               PROVE  since[n] >= TIMEOUT
    BY Zenon
  <2>1. Spaced
    BY Zenon, LoopNext
  <2>2. ps[n].session.pending_handshake_counter \in Nat
    BY DEF LoopInv, IsPeer, IsSession
  <2> QED
    BY <2>1, <2>2 DEF Spaced
<1> QED
  BY <1>1, <1>2, <1>3, PTL DEF Spec, AttemptsSpaced

\* Likewise: a session that main.c has established has an address to send to,
\* or the RESPONSE that established it could not be sent.
THEOREM EstablishedKnows == Spec => []EstablishedHasAddress
<1>1. Init => LoopInv /\ LagOK
  BY LoopInitInv, LagInit
<1>2. LoopInv /\ LagOK /\ [Next]_vars => LoopInv' /\ LagOK'
  BY LoopNext
<1>3. LoopInv => EstablishedHasAddress
  BY DEF LoopInv, Knows, KnownBy, Established, EstablishedHasAddress
<1> QED
  BY <1>1, <1>2, <1>3, PTL DEF Spec
=============================================================================
