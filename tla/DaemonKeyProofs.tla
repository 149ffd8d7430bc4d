-------------------------- MODULE DaemonKeyProofs --------------------------
(***************************************************************************)
(* Keys and addresses of the event loop, for every list of peers.  Of the  *)
(* datagrams, whichever are lost, late or repeated and wherever they come  *)
(* from, only those sealed for a session get through to it: it only ever   *)
(* holds keys shared with the peer it was configured for, the address of a *)
(* peer is one it has had or one that an INIT of its own was passed on     *)
(* from, and follows only INITs newer than all before, and a packet is     *)
(* sealed only for the peer its destination routes to.  The inductive      *)
(* invariant, KeyInv, says so of the handshake messages under way, too.    *)
(***************************************************************************)
EXTENDS Daemon, ReplayWindowProofs

SessionFields == {"role", "state", "static_keys", "local_eph_pk", "local_eph_sk",
                  "handshake_counter", "pending_handshake_counter",
                  "have_seen_handshake", "highest_handshake_counter_seen",
                  "data_keys", "tx_counter", "replay"}
PeerFields == {"addr_resolved", "addr", "session", "rx_age", "tx_age", "key_age", "stats"}

\* The records KnownData may leave of p on reading m.
DataOutcomes(p, m) ==
  LET opened == [p EXCEPT !.session = session_open_data(p.session, m)]
  IN  {opened, [opened EXCEPT !.rx_age = 0],
       [opened EXCEPT !.stats.auth_failures = @ + 1, !.stats.drops = @ + 1],
       [opened EXCEPT !.rx_age = 0, !.stats.packets_rx = @ + 1]}

\* KnownData leaves one of four records: the session after session_open_data, with
\* the counters of a failure, the age of a keepalive or those of a packet.
LEMMA KnownDataEffect ==
  ASSUME NEW n \in Nodes, NEW d \in net, NEW written \in BOOLEAN, KnownData(n, d, written)
  PROVE  /\ Receive(d, {}, written) /\ UNCHANGED <<environment, unanswered, since>>
         /\ \E q \in DataOutcomes(ps[n], d.msg) : ps' = [ps EXCEPT ![n] = q]
<1> DEFINE opened == [ps[n] EXCEPT !.session = session_open_data(ps[n].session, d.msg)]
           heard  == [opened EXCEPT !.rx_age = 0]
           failed == [opened EXCEPT !.stats.auth_failures = @ + 1,
                                    !.stats.drops = @ + 1]
           packet == [opened EXCEPT !.rx_age = 0, !.stats.packets_rx = @ + 1]
<1>1. Receive(d, {}, written) /\ UNCHANGED <<environment, unanswered, since>>
  BY DEF KnownData
<1>2. DataOutcomes(ps[n], d.msg) = {opened, heard, failed, packet}
  BY DEF DataOutcomes
<1>3. ps' = [ps EXCEPT ![n] =
               CASE ~ CanOpenData(ps[n].session, d.msg) -> failed
                 [] CanOpenData(ps[n].session, d.msg)
                      /\ ~ (CanOpenData(ps[n].session, d.msg)
                              /\ d.msg.body # EMPTY_PAYLOAD) -> heard
                 [] (CanOpenData(ps[n].session, d.msg)
                       /\ d.msg.body # EMPTY_PAYLOAD) /\ written -> packet
                 [] (CanOpenData(ps[n].session, d.msg)
                       /\ d.msg.body # EMPTY_PAYLOAD) /\ ~ written -> opened]
  BY Zenon DEF KnownData
<1> HIDE DEF opened, heard, packet, failed
<1>4. CASE ~ CanOpenData(ps[n].session, d.msg)
  BY Zenon, <1>1, <1>2, <1>3, <1>4
<1>5. CASE CanOpenData(ps[n].session, d.msg) /\ d.msg.body = EMPTY_PAYLOAD
  BY <1>1, <1>2, <1>3, <1>5
<1>6. CASE CanOpenData(ps[n].session, d.msg) /\ d.msg.body # EMPTY_PAYLOAD /\ written
  BY Zenon, <1>1, <1>2, <1>3, <1>6
<1>7. CASE CanOpenData(ps[n].session, d.msg) /\ d.msg.body # EMPTY_PAYLOAD /\ ~ written
  BY Zenon, <1>1, <1>2, <1>3, <1>7
<1> QED
  BY Zenon, <1>4, <1>5, <1>6, <1>7


(***************************************************************************)
(* Whose keys and addresses the hub uses                                   *)
(***************************************************************************)

\* The static keys that me, in a role, derives for its session with other.
StaticKeys(role, me, other) ==
  crypto_derive_session_keys(role, LongTerm(me), LongTerm(me), LongTerm(other))

\* s is a session of me with other: its static keys are theirs, its ephemeral
\* key pair is one of me's, and its counters are numbers.
Owned(s, role, me, other) ==
  /\ DOMAIN s = SessionFields
  /\ s.role = role /\ s.static_keys = StaticKeys(role, me, other)
  /\ s.local_eph_pk[1] = me
  /\ s.tx_counter \in Nat /\ s.replay \in ReplayState
  /\ s.handshake_counter \in Nat /\ s.highest_handshake_counter_seen \in Nat
  /\ s.have_seen_handshake \in BOOLEAN

Between(key, n) == n \in {key.client[1], key.server[1]}

\* Once established, both of its data keys were made with a key pair of other.
DataWith(s, other) ==
  s.state = ESTABLISHED => Between(s.data_keys.rx, other) /\ Between(s.data_keys.tx, other)

\* The key under which n's handshake messages reach the hub, and the hub's n.
FromKey(n) == StaticKeys(RoleOf[n], Hub, n).rx
ToKey(n)   == StaticKeys(RoleOf[n], Hub, n).tx

\* A handshake message is the hub's, or carries a key pair of the node whose static
\* key it is sealed with.  An INIT comes from an address that node has had, or one
\* that an INIT of it was passed on from.
HandshakeFrom(d) ==
  \/ \E n \in Nodes : d.msg.key = ToKey(n)
  \/ \E n \in Nodes : /\ d.msg.key = FromKey(n) /\ d.msg.body[1] = n
                      /\ d.msg.type = INIT => d.src \in origins[n]

ForRoute(d) ==
  (d.src = HubAddr /\ d.msg.type = DATA /\ d.msg.body # EMPTY_PAYLOAD) =>
    LET k == RouteOf(Routes, d.msg.body)
    IN  k # NoPeer /\ SealedWith(d.msg, PeerList[k])

Sound(d) ==
  /\ d.src \in Addrs \union {HubAddr} /\ d.dst \in Addrs \union {HubAddr, NoAddr}
  /\ d.msg.type \in {INIT, RESPONSE} => HandshakeFrom(d)
  /\ d.msg.counter \in Nat
  /\ ForRoute(d)

Stats == [packets_tx : Nat, packets_rx : Nat, handshakes : Nat, auth_failures : Nat,
          drops : Nat]

\* What the hub holds about n outside the session, homes being where n has been.
PlacedPeer(p, homes) ==
  /\ DOMAIN p = PeerFields
  /\ p.addr_resolved \in BOOLEAN
  /\ p.addr_resolved => p.addr \in homes
  /\ p.addr \in Addrs \union {NoAddr}
  /\ p.rx_age \in 0 .. TIMEOUT /\ p.tx_age \in 0 .. KEEPALIVE /\ p.key_age \in 0 .. ROTATION
  /\ p.stats \in Stats

\* The address of a peer that initiates is known only from an INIT of it.
HubPeer(p, n, homes) ==
  /\ PlacedPeer(p, homes)
  /\ Owned(p.session, RoleOf[n], Hub, n) /\ DataWith(p.session, n)
  /\ RoleOf[n] = RESPONDER /\ p.addr_resolved => p.session.have_seen_handshake

\* The loop at startup has not come to n.
Unstarted(n) ==
  \E j, k \in 1 .. Len(PeerList) : k <= j /\ phase = <<"start", k>> /\ n = PeerList[j]

Phases == {<<"tun">>, <<"udp">>} \union ({"start", "timers"} \X (1 .. Len(PeerList)))

NodesInv ==
  /\ DOMAIN node = Nodes /\ \A n \in Nodes : Owned(node[n], NodeRole(n), n, Hub)
  /\ at \in [Nodes -> Addrs] /\ origins \in [Nodes -> SUBSET Addrs]
  /\ \A n \in Nodes : at[n] \in origins[n]

PeersInv ==
  /\ DOMAIN ps = Nodes /\ phase \in Phases
  /\ \A n \in Nodes : HubPeer(ps[n], n, origins[n]) \/ (Unstarted(n) /\ ps[n] = ZeroPeer)

NetInv == \A d \in net : Sound(d)

KeyInv == NodesInv /\ PeersInv /\ NetInv

\* A peer that was not started has no address.
Untouched == \A n \in Nodes : Unstarted(n) => ~ ps[n].addr_resolved

-----------------------------------------------------------------------------
(***************************************************************************)
(* The session functions and whose keys a session holds                    *)
(***************************************************************************)

\* An exchange with a key pair of other gives keys made with it.
LEMMA DerivedBetween ==
  ASSUME NEW role, NEW pk, NEW sk, NEW remote
  PROVE  LET keys == crypto_derive_session_keys(role, pk, sk, remote)
         IN  Between(keys.rx, remote[1]) /\ Between(keys.tx, remote[1])
BY DEF crypto_derive_session_keys, KxKey, Between

\* session_start_handshake: a new key pair, and no data keys in use.
LEMMA StartOwned ==
  ASSUME NEW s, NEW role, NEW me, NEW other, NEW eph, Owned(s, role, me, other), eph[1] = me
  PROVE  /\ Owned(session_start_handshake(s, eph), role, me, other)
         /\ session_start_handshake(s, eph).state = PENDING
<1>1. ResetReplay(s.replay) \in ReplayState
  BY ResetExact DEF Owned
<1>2. session_start_handshake(s, eph) =
        [s EXCEPT !.local_eph_pk = eph, !.local_eph_sk = eph, !.state = PENDING,
                  !.tx_counter = 0, !.replay = ResetReplay(s.replay)]
  BY DEF session_start_handshake
<1> QED
  BY <1>1, <1>2 DEF Owned, SessionFields

\* It remembers the INITs it has seen.
LEMMA StartRemembers ==
  ASSUME NEW s, DOMAIN s = SessionFields, NEW eph
  PROVE  session_start_handshake(s, eph).have_seen_handshake = s.have_seen_handshake
BY Zenon DEF session_start_handshake, SessionFields

\* A session that is pending uses no data keys.
LEMMA PendingDataWith ==
  ASSUME NEW s, NEW other, s.state = PENDING
  PROVE  DataWith(s, other)
BY DEF DataWith, PENDING, ESTABLISHED

\* session_init derives the static keys.
LEMMA InitOwned ==
  ASSUME NEW role, NEW me, NEW other, NEW t \in Nat, NEW eph, eph[1] = me
  PROVE  /\ Owned(session_init(role, LongTerm(me), LongTerm(other), t, eph), role, me, other)
         /\ session_init(role, LongTerm(me), LongTerm(other), t, eph).state = PENDING
<1> DEFINE z == [role                           |-> role,
                 state                          |-> PENDING,
                 static_keys                    |-> crypto_derive_session_keys(
                                                      role, LongTerm(me), LongTerm(me),
                                                      LongTerm(other)),
                 local_eph_pk                   |-> Wiped,
                 local_eph_sk                   |-> Wiped,
                 handshake_counter              |-> t,
                 pending_handshake_counter      |-> 0,
                 have_seen_handshake            |-> FALSE,
                 highest_handshake_counter_seen |-> 0,
                 data_keys                      |-> ZeroKeys,
                 tx_counter                     |-> 0,
                 replay                         |-> ZeroReplayState]
           s == session_start_handshake(z, eph)
<1>1. /\ DOMAIN z = SessionFields /\ z.role = role
      /\ z.static_keys = StaticKeys(role, me, other) /\ z.replay = ZeroReplayState
      /\ z.handshake_counter = t /\ z.highest_handshake_counter_seen = 0
      /\ z.have_seen_handshake = FALSE
  BY DEF SessionFields, StaticKeys
<1>2. session_init(role, LongTerm(me), LongTerm(other), t, eph) = s
  BY DEF session_init
<1> HIDE DEF z
<1>3. ResetReplay(ZeroReplayState) \in ReplayState
  BY Zenon DEF ResetReplay, ZeroReplayState, ReplayState
<1>4. s = [z EXCEPT !.local_eph_pk = eph, !.local_eph_sk = eph, !.state = PENDING,
                    !.tx_counter = 0, !.replay = ResetReplay(ZeroReplayState)]
  BY Zenon, <1>1 DEF session_start_handshake
<1> HIDE DEF s
<1>5. 0 \in Nat
  OBVIOUS
<1>6. Owned(s, role, me, other) /\ s.state = PENDING
  BY Zenon, <1>1, <1>3, <1>4, <1>5 DEF Owned, SessionFields
<1> QED
  BY Zenon, <1>2, <1>6

\* session_build_init touches no key.
LEMMA BuildOwned ==
  ASSUME NEW s, NEW role, NEW me, NEW other, Owned(s, role, me, other)
  PROVE  /\ Owned(session_build_init(s), role, me, other)
         /\ session_build_init(s).state = s.state
BY DEF Owned, SessionFields, session_build_init

\* session_handle_init: an INIT that is not fresh changes nothing, and one with a
\* key pair of other leads to data keys with other.
LEMMA HandleInitOwned ==
  ASSUME NEW s, NEW role, NEW me, NEW other, Owned(s, role, me, other), NEW m, NEW eph,
         eph[1] = me, m.counter \in Nat
  PROVE  LET t == session_handle_init(s, m, eph)
         IN  /\ Owned(t, role, me, other)
             /\ ~ FreshInit(s, m) => t = s
             /\ s.have_seen_handshake \/ CanHandleInit(s, m) => t.have_seen_handshake
             /\ (DataWith(s, other) /\ m.body[1] = other) => DataWith(t, other)
<1> DEFINE r == Reconnected(s, eph)
           t == session_handle_init(s, m, eph)
           keys == crypto_derive_session_keys(r.role, r.local_eph_pk, r.local_eph_sk, m.body)
<1>1. /\ Owned(r, role, me, other) /\ (DataWith(s, other) => DataWith(r, other))
      /\ r.have_seen_handshake = s.have_seen_handshake
  <2>1. CASE s.state = ESTABLISHED
    <3>1. r = session_start_handshake(s, eph)
      BY Zenon, <2>1 DEF Reconnected
    <3>2. r.have_seen_handshake = s.have_seen_handshake
      BY Zenon, <3>1, StartRemembers DEF Owned
    <3> QED
      BY Zenon, <3>1, <3>2, StartOwned, PendingDataWith
  <2>2. CASE s.state # ESTABLISHED
    BY Zenon, <2>2 DEF Reconnected
  <2> QED
    BY Zenon, <2>1, <2>2
<1>2. CASE CanHandleInit(s, m)
  <2>1. t = [r EXCEPT !.data_keys = keys, !.local_eph_sk = Wiped,
                      !.have_seen_handshake = TRUE,
                      !.highest_handshake_counter_seen = m.counter,
                      !.state = ESTABLISHED]
    BY Zenon, <1>2 DEF session_handle_init, CanHandleInit
  <2>2. Between(keys.rx, m.body[1]) /\ Between(keys.tx, m.body[1])
    BY DerivedBetween
  <2>3. FreshInit(s, m)
    BY <1>2 DEF CanHandleInit
  <2> HIDE DEF r, keys, t
  <2>4. Owned(t, role, me, other) /\ t.data_keys = keys /\ t.have_seen_handshake
    BY Zenon, <1>1, <2>1 DEF Owned, SessionFields
  <2> QED
    BY <2>2, <2>3, <2>4 DEF DataWith, t
<1>3. CASE ~ CanHandleInit(s, m)
  <2>1. t \in {r, s} /\ (~ FreshInit(s, m) => t = s)
    BY Zenon, <1>3 DEF session_handle_init, CanHandleInit
  <2> QED
    BY Zenon, <1>1, <1>3, <2>1
<1> QED
  BY Zenon, <1>2, <1>3

\* session_handle_response: likewise.
LEMMA HandleResponseOwned ==
  ASSUME NEW s, NEW role, NEW me, NEW other, Owned(s, role, me, other), NEW m
  PROVE  LET t == session_handle_response(s, m)
         IN  /\ Owned(t, role, me, other)
             /\ ~ CanHandleResponse(s, m) => t = s
             /\ t.have_seen_handshake = s.have_seen_handshake
             /\ (DataWith(s, other) /\ m.body[1] = other) => DataWith(t, other)
<1> DEFINE t == session_handle_response(s, m)
           keys == crypto_derive_session_keys(s.role, s.local_eph_pk, s.local_eph_sk, m.body)
<1>1. CASE CanHandleResponse(s, m)
  <2>1. t = [s EXCEPT !.data_keys = keys, !.local_eph_sk = Wiped, !.state = ESTABLISHED]
    BY Zenon, <1>1 DEF session_handle_response
  <2>2. Between(keys.rx, m.body[1]) /\ Between(keys.tx, m.body[1])
    BY DerivedBetween
  <2> HIDE DEF keys, t
  <2>4. /\ Owned(t, role, me, other) /\ t.data_keys = keys
        /\ t.have_seen_handshake = s.have_seen_handshake
    BY <2>1 DEF Owned, SessionFields
  <2> QED
    BY <1>1, <2>2, <2>4 DEF DataWith, t
<1>2. CASE ~ CanHandleResponse(s, m)
  BY <1>2 DEF session_handle_response
<1> QED
  BY Zenon, <1>1, <1>2

\* Sealing and opening DATA touch no key.
LEMMA SealOwned ==
  ASSUME NEW s, NEW role, NEW me, NEW other, Owned(s, role, me, other)
  PROVE  /\ Owned(session_seal_data(s), role, me, other)
         /\ DataWith(s, other) => DataWith(session_seal_data(s), other)
         /\ session_seal_data(s).have_seen_handshake = s.have_seen_handshake
BY DEF Owned, SessionFields, session_seal_data, DataWith

\* session_open_data: DATA that does not authenticate changes nothing, and no DATA
\* changes a key.
LEMMA OpenOwned ==
  ASSUME NEW s, NEW role, NEW me, NEW other, Owned(s, role, me, other), NEW m,
         m.counter \in Nat
  PROVE  LET t == session_open_data(s, m)
         IN  /\ Owned(t, role, me, other)
             /\ ~ AuthenticData(s, m) => t = s
             /\ t.have_seen_handshake = s.have_seen_handshake
             /\ DataWith(s, other) => DataWith(t, other)
<1> DEFINE t == session_open_data(s, m)
<1>1. CASE AuthenticData(s, m)
  <2>1. t = [s EXCEPT !.replay = ReplayMark(s.replay, m.counter)]
    BY Zenon, <1>1 DEF session_open_data
  <2>2. ReplayMark(s.replay, m.counter) \in ReplayState
    BY Zenon, <1>1, MarkType DEF Owned, AuthenticData
  <2> HIDE DEF t
  <2>3. /\ Owned(t, role, me, other) /\ t.state = s.state /\ t.data_keys = s.data_keys
        /\ t.have_seen_handshake = s.have_seen_handshake
    BY <2>1, <2>2 DEF Owned, SessionFields
  <2> QED
    BY <1>1, <2>3 DEF DataWith, t
<1>2. CASE ~ AuthenticData(s, m)
  BY Zenon, <1>2 DEF session_open_data
<1> QED
  BY Zenon, <1>1, <1>2

-----------------------------------------------------------------------------
(***************************************************************************)
(* Handshake messages and whose they are                                   *)
(***************************************************************************)

\* The static keys of two nodes differ, and so do those of the two directions.
LEMMA KeysApart ==
  ASSUME NEW n \in Nodes, NEW m \in Nodes
  PROVE  /\ FromKey(n) = FromKey(m) => n = m
         /\ ToKey(n) # FromKey(m)
         /\ Between(FromKey(n), n)
         /\ StaticKeys(NodeRole(n), n, Hub).tx = FromKey(n)
<1>1. n # Hub /\ m # Hub
  BY Zenon, ListAssumption
<1>2. \A x : x \in Nodes =>
        /\ RoleOf[x] = INITIATOR =>
             /\ FromKey(x) = KxKey({LongTerm(Hub), LongTerm(x)}, LongTerm(Hub), LongTerm(x), "s2c")
             /\ ToKey(x)   = KxKey({LongTerm(Hub), LongTerm(x)}, LongTerm(Hub), LongTerm(x), "c2s")
        /\ RoleOf[x] # INITIATOR =>
             /\ FromKey(x) = KxKey({LongTerm(Hub), LongTerm(x)}, LongTerm(x), LongTerm(Hub), "c2s")
             /\ ToKey(x)   = KxKey({LongTerm(Hub), LongTerm(x)}, LongTerm(x), LongTerm(Hub), "s2c")
  BY Zenon DEF FromKey, ToKey, StaticKeys, crypto_derive_session_keys
<1>3. FromKey(n) = FromKey(m) => n = m
  BY <1>1, <1>2 DEF KxKey, LongTerm
<1>4. ToKey(n) # FromKey(m)
  BY <1>1, <1>2 DEF KxKey, LongTerm
<1>5. Between(FromKey(n), n)
  BY <1>2 DEF KxKey, LongTerm, Between
<1>6. StaticKeys(NodeRole(n), n, Hub).tx = FromKey(n)
  <2>1. {LongTerm(n), LongTerm(Hub)} = {LongTerm(Hub), LongTerm(n)}
    BY Zenon
  <2>2. CASE RoleOf[n] = INITIATOR
    <3>1. StaticKeys(NodeRole(n), n, Hub).tx =
            KxKey({LongTerm(n), LongTerm(Hub)}, LongTerm(Hub), LongTerm(n), "s2c")
      BY Zenon, <2>2 DEF StaticKeys, crypto_derive_session_keys, NodeRole, INITIATOR, RESPONDER
    <3> QED
      BY Zenon, <1>2, <2>1, <2>2, <3>1
  <2>3. CASE RoleOf[n] # INITIATOR
    <3>1. StaticKeys(NodeRole(n), n, Hub).tx =
            KxKey({LongTerm(n), LongTerm(Hub)}, LongTerm(n), LongTerm(Hub), "c2s")
      BY Zenon, <2>3 DEF StaticKeys, crypto_derive_session_keys, NodeRole, INITIATOR, RESPONDER
    <3> QED
      BY Zenon, <1>2, <2>1, <2>3, <3>1
  <2> QED
    BY <2>2, <2>3
<1> QED
  BY Zenon, <1>3, <1>4, <1>5, <1>6

\* What opens under the hub's static keys for n came from n.
LEMMA OpensFrom ==
  ASSUME NEW d, Sound(d), NEW n \in Nodes, d.msg.type \in {INIT, RESPONSE},
         d.msg.key = FromKey(n)
  PROVE  (d.msg.type = INIT => d.src \in origins[n]) /\ d.msg.body[1] = n
<1>1. HandshakeFrom(d)
  BY Zenon DEF Sound
<1>2. \A m \in Nodes : d.msg.key # ToKey(m)
  BY KeysApart
<1>3. \A m \in Nodes : d.msg.key = FromKey(m) => m = n
  BY Zenon, KeysApart
<1> QED
  BY Zenon, <1>1, <1>2, <1>3 DEF HandshakeFrom

\* An INIT that the hub's session for n finds fresh, and a RESPONSE that it takes.
LEMMA AcceptedFrom ==
  ASSUME NEW d, Sound(d), NEW n \in Nodes, NEW s, Owned(s, RoleOf[n], Hub, n),
         FreshInit(s, d.msg) \/ CanHandleResponse(s, d.msg)
  PROVE  /\ d.msg.type = INIT => d.src \in origins[n]
         /\ d.msg.body[1] = n /\ Between(d.msg.key, n)
<1>1. d.msg.type \in {INIT, RESPONSE} /\ d.msg.key = s.static_keys.rx
  BY Zenon DEF FreshInit, CanHandleResponse, crypto_open
<1>2. d.msg.key = FromKey(n)
  BY Zenon, <1>1 DEF Owned, FromKey
<1> QED
  BY Zenon, <1>1, <1>2, OpensFrom, KeysApart

\* What the hub sends is sound: an INIT or a RESPONSE under its static keys, ...
LEMMA HubHandshakeSound ==
  ASSUME NEW n \in Nodes, NEW s, Owned(s, RoleOf[n], Hub, n), NEW type \in {INIT, RESPONSE},
         NEW counter \in Nat, NEW body, NEW dst \in Addrs \union {HubAddr, NoAddr}
  PROVE  Sound(Datagram(HubAddr, dst, crypto_seal(type, s.static_keys.tx, counter, body)))
<1> DEFINE d == Datagram(HubAddr, dst, crypto_seal(type, s.static_keys.tx, counter, body))
<1>1. /\ d.src = HubAddr /\ d.dst = dst /\ d.msg.type = type
      /\ d.msg.key = s.static_keys.tx /\ d.msg.counter = counter
  BY Zenon DEF Datagram, crypto_seal
<1>2. d.msg.key = ToKey(n)
  BY Zenon, <1>1 DEF Owned, ToKey
<1>3. d.msg.type # DATA
  BY Zenon, <1>1 DEF INIT, RESPONSE, DATA
<1> HIDE DEF d
<1>4. Sound(d)
  BY Zenon, <1>1, <1>2, <1>3 DEF Sound, HandshakeFrom, ForRoute
<1> QED
  BY Zenon, <1>4 DEF d

\* ... a keepalive, or a packet for the peer it is routed to.
LEMMA HubDataSound ==
  ASSUME NEW n \in Nodes, NEW s, Owned(s, RoleOf[n], Hub, n), DataWith(s, n),
         s.state = ESTABLISHED, NEW payload, NEW dst \in Addrs \union {HubAddr, NoAddr},
         \/ payload = EMPTY_PAYLOAD
         \/ RouteOf(Routes, payload) # NoPeer /\ n = PeerList[RouteOf(Routes, payload)]
  PROVE  Sound(Datagram(HubAddr, dst, DataMessage(s, payload)))
<1> DEFINE d == Datagram(HubAddr, dst, DataMessage(s, payload))
<1>1. /\ d.src = HubAddr /\ d.dst = dst /\ d.msg.type = DATA
      /\ d.msg.key = s.data_keys.tx /\ d.msg.counter = s.tx_counter /\ d.msg.body = payload
  BY Zenon DEF Datagram, DataMessage, crypto_seal
<1>2. SealedWith(d.msg, n) /\ d.msg.counter \in Nat
  BY Zenon, <1>1 DEF Owned, DataWith, SealedWith, Between
<1>3. d.msg.type \notin {INIT, RESPONSE}
  BY Zenon, <1>1 DEF INIT, RESPONSE, DATA
<1> HIDE DEF d
<1>4. Sound(d)
  BY Zenon, <1>1, <1>2, <1>3 DEF Sound, ForRoute
<1> QED
  BY Zenon, <1>4 DEF d

\* What a node sends from where it is: handshake messages and DATA.
LEMMA NodeHandshakeSound ==
  ASSUME NodesInv, NEW n \in Nodes, NEW s, Owned(s, NodeRole(n), n, Hub),
         NEW type \in {INIT, RESPONSE}, NEW counter \in Nat, NEW body, body[1] = n
  PROVE  Sound(Datagram(at[n], HubAddr, crypto_seal(type, s.static_keys.tx, counter, body)))
<1> DEFINE d == Datagram(at[n], HubAddr, crypto_seal(type, s.static_keys.tx, counter, body))
<1>1. /\ d.src = at[n] /\ d.dst = HubAddr /\ d.msg.type = type
      /\ d.msg.key = s.static_keys.tx /\ d.msg.body = body /\ d.msg.counter = counter
  BY Zenon DEF Datagram, crypto_seal
<1>2. d.msg.key = FromKey(n)
  BY Zenon, <1>1, KeysApart DEF Owned
<1>3. d.msg.type # DATA
  BY Zenon, <1>1 DEF INIT, RESPONSE, DATA
<1>4. at[n] \in Addrs /\ at[n] \in origins[n]
  BY Zenon DEF NodesInv
<1> HIDE DEF d
<1>5. Sound(d)
  BY Zenon, <1>1, <1>2, <1>3, <1>4 DEF Sound, HandshakeFrom, ForRoute
<1> QED
  BY Zenon, <1>5 DEF d

\* A node's DATA is sealed with the keys it shares with the hub.
LEMMA NodeDataSound ==
  ASSUME NodesInv, NEW n \in Nodes, NEW s, Owned(s, NodeRole(n), n, Hub), NEW payload
  PROVE  Sound(Datagram(at[n], HubAddr, DataMessage(s, payload)))
<1> DEFINE d == Datagram(at[n], HubAddr, DataMessage(s, payload))
<1>1. /\ d.src = at[n] /\ d.dst = HubAddr /\ d.msg.type = DATA
      /\ d.msg.counter = s.tx_counter
  BY Zenon DEF Datagram, DataMessage, crypto_seal
<1>2. d.msg.counter \in Nat /\ at[n] \in Addrs /\ at[n] # HubAddr
  BY <1>1, ListAssumption DEF Owned, NodesInv
<1>3. d.msg.type \notin {INIT, RESPONSE}
  BY Zenon, <1>1 DEF INIT, RESPONSE, DATA
<1> HIDE DEF d
<1>4. Sound(d)
  BY Zenon, <1>1, <1>2, <1>3 DEF Sound, ForRoute
<1> QED
  BY Zenon, <1>4 DEF d

\* RouteOf gives the index of a peer, or none.
LEMMA RouteIsPeer ==
  ASSUME NEW packet, RouteOf(Routes, packet) # NoPeer
  PROVE  /\ RouteOf(Routes, packet) \in 1 .. Len(PeerList)
         /\ PeerList[RouteOf(Routes, packet)] \in Nodes
BY Zenon, ListAssumption DEF RouteOf, routing_find_peer_for_dest, Nodes

-----------------------------------------------------------------------------
(***************************************************************************)
(* What main.c does to the record of a peer                                *)
(***************************************************************************)

\* Another session of the same two, or more homes.
LEMMA PeerWithSession ==
  ASSUME NEW p, NEW n, NEW homes, HubPeer(p, n, homes), NEW s,
         Owned(s, RoleOf[n], Hub, n), DataWith(s, n),
         p.session.have_seen_handshake => s.have_seen_handshake
  PROVE  /\ HubPeer([p EXCEPT !.session = s], n, homes)
         /\ [p EXCEPT !.session = s].session = s
         /\ [p EXCEPT !.session = s].addr_resolved = p.addr_resolved
         /\ [p EXCEPT !.session = s].addr = p.addr
BY Zenon DEF HubPeer, PlacedPeer, PeerFields

\* A record stays right when its peer has moved.
LEMMA MoreHomes ==
  ASSUME NEW p, NEW n, NEW homes, HubPeer(p, n, homes), NEW more, homes \subseteq more
  PROVE  HubPeer(p, n, more)
BY Zenon DEF HubPeer, PlacedPeer

\* The counters that log_stats prints.
LEMMA CountedPeer ==
  ASSUME NEW p, NEW n, NEW homes, HubPeer(p, n, homes)
  PROVE  /\ HubPeer([p EXCEPT !.stats.packets_tx = @ + 1], n, homes)
         /\ HubPeer([p EXCEPT !.stats.packets_rx = @ + 1], n, homes)
         /\ HubPeer([p EXCEPT !.stats.handshakes = @ + 1], n, homes)
         /\ HubPeer([p EXCEPT !.stats.auth_failures = @ + 1], n, homes)
         /\ HubPeer([p EXCEPT !.stats.drops = @ + 1], n, homes)
<1>1. /\ [p.stats EXCEPT !.packets_tx = @ + 1] \in Stats
      /\ [p.stats EXCEPT !.packets_rx = @ + 1] \in Stats
      /\ [p.stats EXCEPT !.handshakes = @ + 1] \in Stats
      /\ [p.stats EXCEPT !.auth_failures = @ + 1] \in Stats
      /\ [p.stats EXCEPT !.drops = @ + 1] \in Stats
  BY DEF HubPeer, PlacedPeer, Stats
<1>2. ASSUME NEW c \in Stats PROVE HubPeer([p EXCEPT !.stats = c], n, homes)
  BY DEF HubPeer, PlacedPeer, PeerFields
<1>3. /\ [p EXCEPT !.stats.packets_tx = @ + 1] =
           [p EXCEPT !.stats = [p.stats EXCEPT !.packets_tx = @ + 1]]
      /\ [p EXCEPT !.stats.packets_rx = @ + 1] =
           [p EXCEPT !.stats = [p.stats EXCEPT !.packets_rx = @ + 1]]
      /\ [p EXCEPT !.stats.handshakes = @ + 1] =
           [p EXCEPT !.stats = [p.stats EXCEPT !.handshakes = @ + 1]]
      /\ [p EXCEPT !.stats.auth_failures = @ + 1] =
           [p EXCEPT !.stats = [p.stats EXCEPT !.auth_failures = @ + 1]]
      /\ [p EXCEPT !.stats.drops = @ + 1] =
           [p EXCEPT !.stats = [p.stats EXCEPT !.drops = @ + 1]]
  BY Zenon
<1> QED
  BY Zenon, <1>1, <1>2, <1>3

\* The ages that start again.
LEMMA RestartedPeer ==
  ASSUME NEW p, NEW n, NEW homes, HubPeer(p, n, homes)
  PROVE  /\ HubPeer([p EXCEPT !.rx_age = 0], n, homes)
         /\ HubPeer([p EXCEPT !.tx_age = 0], n, homes)
         /\ HubPeer([p EXCEPT !.key_age = 0], n, homes)
BY TimerAssumption DEF HubPeer, PlacedPeer, PeerFields

\* A DATA packet was sealed for the peer.
LEMMA AfterSendPeer ==
  ASSUME NEW p, NEW n, NEW homes, HubPeer(p, n, homes), NEW sent \in BOOLEAN
  PROVE  HubPeer(AfterSend(p, sent), n, homes) /\ AfterSend(p, sent).addr = p.addr
<1> DEFINE s == session_seal_data(p.session)
           q == [p EXCEPT !.session = s]
           r == [q EXCEPT !.tx_age = 0]
<1>1. /\ Owned(s, RoleOf[n], Hub, n) /\ DataWith(s, n)
      /\ s.have_seen_handshake = p.session.have_seen_handshake
  BY SealOwned DEF HubPeer
<1> HIDE DEF s
<1>2. HubPeer(q, n, homes)
  BY <1>1, PeerWithSession
<1>3. HubPeer(r, n, homes)
  BY Zenon, <1>2, RestartedPeer
<1>4. HubPeer([r EXCEPT !.stats.packets_tx = @ + 1], n, homes)
  BY Zenon, <1>3, CountedPeer
<1>5. AfterSend(p, sent) \in {[r EXCEPT !.stats.packets_tx = @ + 1], q}
  BY DEF AfterSend, s, HubPeer, PlacedPeer, PeerFields
<1>6. AfterSend(p, sent).addr = p.addr
  BY Zenon DEF AfterSend, HubPeer, PlacedPeer, PeerFields
<1> QED
  BY Zenon, <1>2, <1>4, <1>5, <1>6

\* A keepalive, sent or not (main.c, the timers).
LEMMA AfterKeepaliveHubPeer ==
  ASSUME NEW p, NEW n, NEW homes, HubPeer(p, n, homes), NEW sent \in BOOLEAN
  PROVE  HubPeer(AfterKeepalive(p, sent), n, homes) /\ AfterKeepalive(p, sent).addr = p.addr
<1> DEFINE q == AfterSend(p, sent)
           r == [q EXCEPT !.tx_age = 0]
<1>1. HubPeer(q, n, homes) /\ q.addr = p.addr
  BY Zenon, AfterSendPeer
<1>2. AfterKeepalive(p, sent) \in {r, p}
  BY Zenon DEF AfterKeepalive
<1> HIDE DEF q
<1>3. HubPeer(r, n, homes) /\ r.addr = p.addr
  <2>1. r.addr = q.addr
    BY Zenon, <1>1 DEF HubPeer, PlacedPeer, PeerFields
  <2> QED
    BY Zenon, <1>1, <2>1, RestartedPeer
<1> QED
  BY Zenon, <1>2, <1>3

\* session_handle_init on the peer's session, for an INIT that is fresh only if
\* it carries a key pair of the peer.
LEMMA HandledInitPeer ==
  ASSUME NEW p, NEW n, NEW homes, HubPeer(p, n, homes), NEW m,
         FreshInit(p.session, m) => m.body[1] = n, m.counter \in Nat
  PROVE  /\ HubPeer(HandledInit(p, m), n, homes)
         /\ ~ FreshInit(p.session, m) => HandledInit(p, m).session = p.session
         /\ HandledInit(p, m).addr_resolved = p.addr_resolved
         /\ HandledInit(p, m).addr = p.addr
<1> DEFINE eph == FreshKey(Hub, 1)
           s == session_handle_init(p.session, m, eph)
<1>0. eph[1] = Hub
  BY DEF FreshKey, Ephemeral
<1>1. HandledInit(p, m) = [p EXCEPT !.session = s]
  BY Zenon DEF HandledInit
<1> HIDE DEF eph
<1>2. /\ Owned(s, RoleOf[n], Hub, n)
      /\ ~ FreshInit(p.session, m) => s = p.session
      /\ p.session.have_seen_handshake \/ CanHandleInit(p.session, m) => s.have_seen_handshake
      /\ m.body[1] = n => DataWith(s, n)
  BY <1>0, HandleInitOwned DEF HubPeer
<1> HIDE DEF s
<1>3. DataWith(s, n)
  BY Zenon, <1>2 DEF HubPeer
<1> QED
  BY <1>1, <1>2, <1>3, PeerWithSession

\* An INIT that is taken is remembered.
LEMMA HandledInitSeen ==
  ASSUME NEW p, NEW n, NEW homes, HubPeer(p, n, homes), NEW m, CanHandleInit(p.session, m),
         m.counter \in Nat
  PROVE  HandledInit(p, m).session.have_seen_handshake
<1> DEFINE eph == FreshKey(Hub, 1)
           s == session_handle_init(p.session, m, eph)
<1>1. eph[1] = Hub
  BY Zenon DEF FreshKey, Ephemeral
<1>2. HandledInit(p, m).session = s
  BY Zenon DEF HandledInit, HubPeer, PlacedPeer, PeerFields
<1>3. Owned(p.session, RoleOf[n], Hub, n)
  BY Zenon DEF HubPeer
<1> HIDE DEF eph
<1>4. s.have_seen_handshake
  BY Zenon, <1>1, <1>3, HandleInitOwned
<1> QED
  BY Zenon, <1>2, <1>4

\* What main.c resets after a RESPONSE it could send.
LEMMA AnsweredPeer ==
  ASSUME NEW p, NEW n, NEW homes, HubPeer(p, n, homes)
  PROVE  /\ HubPeer(Answered(p), n, homes) /\ Answered(p).session = p.session
         /\ Answered(p).addr = p.addr
<1> DEFINE a == [p EXCEPT !.rx_age = 0]
           b == [a EXCEPT !.tx_age = 0]
           c == [b EXCEPT !.key_age = 0]
<1>1. HubPeer(a, n, homes)
  BY Zenon, RestartedPeer
<1>2. HubPeer(b, n, homes)
  BY Zenon, <1>1, RestartedPeer
<1>3. HubPeer(c, n, homes)
  BY Zenon, <1>2, RestartedPeer
<1>4. HubPeer([c EXCEPT !.stats.handshakes = @ + 1], n, homes)
  BY Zenon, <1>3, CountedPeer
<1>5. /\ Answered(p) = [c EXCEPT !.stats.handshakes = @ + 1]
      /\ Answered(p).session = p.session /\ Answered(p).addr = p.addr
  BY DEF Answered, HubPeer, PlacedPeer, PeerFields
<1> QED
  BY <1>4, <1>5

\* peer_set_addr with the source of an authentic INIT.
LEMMA LearnedPeer ==
  ASSUME NEW p, NEW n, NEW homes \in SUBSET Addrs, HubPeer(p, n, homes), NEW from \in homes,
         p.session.have_seen_handshake
  PROVE  /\ HubPeer(Learned(p, from), n, homes) /\ Learned(p, from).session = p.session
         /\ Learned(p, from).addr = from
BY Zenon DEF HubPeer, PlacedPeer, PeerFields, Learned

\* initiate_handshake: the address is known or is the one n has now, and the INIT
\* is sealed with the hub's static key for n.
LEMMA InitiateHubPeer ==
  ASSUME NodesInv, NEW n \in Nodes, NEW p, HubPeer(p, n, origins[n]), NEW eph, eph[1] = Hub,
         NEW resolved \in BOOLEAN, RoleOf[n] = INITIATOR
  PROVE  /\ HubPeer(initiate_handshake(p, n, eph, resolved), n, origins[n])
         /\ p.addr_resolved => initiate_handshake(p, n, eph, resolved).addr = p.addr
         /\ \A d \in InitDatagrams(p, n, eph, resolved) : Sound(d)
<1> DEFINE st == session_start_handshake(p.session, eph)
           s  == session_build_init(st)
           a  == IF p.addr_resolved THEN p.addr ELSE at[n]
           q  == [p EXCEPT !.addr = a, !.addr_resolved = TRUE, !.session = s,
                           !.rx_age = 0, !.tx_age = 0]
<1>1. Owned(st, RoleOf[n], Hub, n) /\ st.state = PENDING
  <2>1. Owned(p.session, RoleOf[n], Hub, n)
    BY Zenon DEF HubPeer
  <2> QED
    BY Zenon, <2>1, StartOwned
<1>2. Owned(s, RoleOf[n], Hub, n) /\ s.state = PENDING
  BY Zenon, <1>1, BuildOwned
<1>3. a \in origins[n] /\ a \in Addrs /\ (p.addr_resolved => a = p.addr)
  BY Zenon DEF HubPeer, PlacedPeer, NodesInv
<1>4. CASE CanSendInit(p, resolved)
  <2>1. initiate_handshake(p, n, eph, resolved) = q
    BY Zenon, <1>4 DEF initiate_handshake
  <2>2. InitDatagrams(p, n, eph, resolved) = {Datagram(HubAddr, q.addr, InitMessage(st))}
    BY Zenon, <1>4, <2>1 DEF InitDatagrams
  <2> HIDE DEF st, s, a
  <2>3. HubPeer(q, n, origins[n]) /\ q.addr = a
    BY <1>2, <1>3, PendingDataWith, TimerAssumption
    DEF HubPeer, PlacedPeer, PeerFields, INITIATOR, RESPONDER
  <2> HIDE DEF q
  <2>4. Sound(Datagram(HubAddr, q.addr, InitMessage(st)))
    BY Zenon, <1>1, <1>3, <2>3, HubHandshakeSound DEF InitMessage, Owned
  <2> QED
    BY Zenon, <1>3, <2>1, <2>2, <2>3, <2>4
<1>5. CASE ~ CanSendInit(p, resolved)
  BY Zenon, <1>5, RestartedPeer DEF initiate_handshake, InitDatagrams, CanSendInit
<1> QED
  BY Zenon, <1>4, <1>5

\* Time makes a peer's timestamps older and leaves the rest of its record alone.
LEMMA OlderFacts ==
  ASSUME NEW p, DOMAIN p = PeerFields, NEW t
  PROVE  /\ DOMAIN Older(p, t) = PeerFields
         /\ Older(p, t).session = p.session
         /\ Older(p, t).addr_resolved = p.addr_resolved /\ Older(p, t).addr = p.addr
         /\ Older(p, t).stats = p.stats
         /\ Older(p, t).rx_age = Aged(p.rx_age, t, TIMEOUT)
         /\ Older(p, t).tx_age = Aged(p.tx_age, t, KEEPALIVE)
         /\ Older(p, t).key_age = Aged(p.key_age, t, ROTATION)
BY Zenon DEF Older, PeerFields

\* Time passes.
LEMMA OlderPeer ==
  ASSUME NEW p, NEW n, NEW homes, HubPeer(p, n, homes), NEW t \in Nat
  PROVE  /\ HubPeer(Older(p, t), n, homes) /\ Older(p, t).addr = p.addr
         /\ Older(p, t).addr_resolved = p.addr_resolved
<1> DEFINE q == Older(p, t)
<1>1. /\ DOMAIN q = PeerFields /\ q.session = p.session /\ q.stats = p.stats
      /\ q.addr_resolved = p.addr_resolved /\ q.addr = p.addr
      /\ q.rx_age = Aged(p.rx_age, t, TIMEOUT) /\ q.tx_age = Aged(p.tx_age, t, KEEPALIVE)
      /\ q.key_age = Aged(p.key_age, t, ROTATION)
  BY Zenon, OlderFacts DEF HubPeer, PlacedPeer
<1>2. /\ p.rx_age \in 0 .. TIMEOUT /\ p.tx_age \in 0 .. KEEPALIVE
      /\ p.key_age \in 0 .. ROTATION
  BY Zenon DEF HubPeer, PlacedPeer
<1> HIDE DEF q
<1>3. /\ q.rx_age \in 0 .. TIMEOUT /\ q.tx_age \in 0 .. KEEPALIVE
      /\ q.key_age \in 0 .. ROTATION
  BY <1>1, <1>2, TimerAssumption DEF Aged
<1>4. HubPeer(q, n, homes)
  BY Zenon, <1>1, <1>3 DEF HubPeer, PlacedPeer
<1> QED
  BY Zenon, <1>1, <1>4 DEF q

\* A record that was not started is as old as can be.
LEMMA OlderZero ==
  ASSUME NEW t \in Nat
  PROVE  Older(ZeroPeer, t) = ZeroPeer
<1>1. /\ ZeroPeer.rx_age = TIMEOUT /\ ZeroPeer.tx_age = KEEPALIVE
      /\ ZeroPeer.key_age = ROTATION
  BY Zenon DEF ZeroPeer
<1>2. /\ Aged(TIMEOUT, t, TIMEOUT) = TIMEOUT /\ Aged(KEEPALIVE, t, KEEPALIVE) = KEEPALIVE
      /\ Aged(ROTATION, t, ROTATION) = ROTATION
  BY TimerAssumption DEF Aged
<1>3. Older(ZeroPeer, t) = [ZeroPeer EXCEPT !.rx_age = TIMEOUT, !.tx_age = KEEPALIVE,
                                            !.key_age = ROTATION]
  BY Zenon, <1>1, <1>2 DEF Older
<1> QED
  BY Zenon, <1>3 DEF ZeroPeer

\* Later passes the same time for every peer.
LEMMA LaterPeers ==
  ASSUME NEW peers, NEW attempts, NEW t \in Nat, Later(peers, attempts, t)
  PROVE  /\ DOMAIN ps' = Nodes
         /\ \A o \in Nodes : \A homes :
              HubPeer(peers[o], o, homes) =>
                /\ HubPeer(ps'[o], o, homes) /\ ps'[o].addr = peers[o].addr
                /\ ps'[o].addr_resolved = peers[o].addr_resolved
         /\ \A o \in Nodes : peers[o] = ZeroPeer => ps'[o] = ZeroPeer
<1>1. ps' = [o \in Nodes |-> Older(peers[o], t)]
  BY Zenon DEF Later
<1>2. DOMAIN ps' = Nodes /\ \A o \in Nodes : ps'[o] = Older(peers[o], t)
  BY Zenon, <1>1
<1>3. ASSUME NEW o \in Nodes, NEW homes, HubPeer(peers[o], o, homes)
      PROVE  /\ HubPeer(Older(peers[o], t), o, homes)
             /\ Older(peers[o], t).addr = peers[o].addr
             /\ Older(peers[o], t).addr_resolved = peers[o].addr_resolved
  BY Zenon, <1>3, OlderPeer
<1>4. Older(ZeroPeer, t) = ZeroPeer
  BY Zenon, OlderZero
<1> QED
  BY Zenon, <1>2, <1>3, <1>4

-----------------------------------------------------------------------------
(***************************************************************************)
(* Steps of the hub                                                        *)
(***************************************************************************)

\* No address that is known changes.
Steady == \A n \in Nodes : ps[n].addr_resolved => ps'[n].addr = ps[n].addr

\* What such a step has to show.
LEMMA HubKeepsKeys ==
  ASSUME KeyInv, UNCHANGED environment, DOMAIN ps' = Nodes, phase' \in Phases,
         \A n \in Nodes : \/ HubPeer(ps'[n], n, origins[n])
                          \/ Unstarted(n)' /\ ps'[n] = ZeroPeer,
         NEW out, \A d \in out : Sound(d), net' \subseteq net \union out
  PROVE  KeyInv'
<1>1. UNCHANGED <<node, at, origins>>
  BY Zenon DEF environment
<1>2. NodesInv'
  BY Zenon, <1>1 DEF KeyInv, NodesInv
<1>3. PeersInv'
  BY Zenon, <1>1 DEF PeersInv
<1>4. \A d \in net' : Sound(d)
  BY Zenon DEF KeyInv, NetInv
<1>5. NetInv'
  BY Zenon, <1>1, <1>4 DEF NetInv, Sound, HandshakeFrom, ForRoute
<1> QED
  BY Zenon, <1>2, <1>3, <1>5 DEF KeyInv

\* The same of a step that sends nothing.
LEMMA SilentKeepsKeys ==
  ASSUME KeyInv, UNCHANGED environment, DOMAIN ps' = Nodes, phase' \in Phases,
         \A n \in Nodes : HubPeer(ps'[n], n, origins[n]), net' \subseteq net
  PROVE  KeyInv'
<1>1. net' \subseteq net \union {} /\ \A d \in {} : Sound(d)
  BY Zenon
<1>2. \A n \in Nodes : HubPeer(ps'[n], n, origins[n]) \/ (Unstarted(n)' /\ ps'[n] = ZeroPeer)
  BY Zenon
<1> DEFINE none == {}
<1>3. net' \subseteq net \union none /\ \A d \in none : Sound(d)
  BY Zenon, <1>1
<1> HIDE DEF none
<1> QED
  BY Zenon, <1>2, <1>3, HubKeepsKeys

\* Once the loop runs, every peer was started.
LEMMA AllStarted ==
  ASSUME KeyInv, \A k \in 1 .. Len(PeerList) : phase # <<"start", k>>
  PROVE  \A n \in Nodes : HubPeer(ps[n], n, origins[n])
BY Zenon DEF KeyInv, PeersInv, Unstarted

\* One peer changes.
LEMMA OnePeerKeepsKeys ==
  ASSUME KeyInv, \A k \in 1 .. Len(PeerList) : phase # <<"start", k>>,
         NEW n \in Nodes, NEW q, HubPeer(q, n, origins[n]), ps' = [ps EXCEPT ![n] = q]
  PROVE  /\ DOMAIN ps' = Nodes /\ \A o \in Nodes : HubPeer(ps'[o], o, origins[o])
         /\ ps'[n] = q /\ \A o \in Nodes \ {n} : ps'[o] = ps[o]
<1>1. DOMAIN ps = Nodes
  BY Zenon DEF KeyInv, PeersInv
<1>2. ps'[n] = q /\ DOMAIN ps' = Nodes /\ \A o \in Nodes \ {n} : ps'[o] = ps[o]
  BY Zenon, <1>1
<1> QED
  BY Zenon, <1>2, AllStarted

\* One peer changes, and then time passes.
LEMMA OneLaterKeepsKeys ==
  ASSUME KeyInv, \A k \in 1 .. Len(PeerList) : phase # <<"start", k>>,
         NEW n \in Nodes, NEW q, HubPeer(q, n, origins[n]),
         ps[n].addr_resolved => q.addr = ps[n].addr,
         NEW attempts, NEW t \in Nat, Later([ps EXCEPT ![n] = q], attempts, t)
  PROVE  /\ DOMAIN ps' = Nodes /\ \A o \in Nodes : HubPeer(ps'[o], o, origins[o])
         /\ Steady
<1> DEFINE peers == [ps EXCEPT ![n] = q]
<1>1. DOMAIN ps = Nodes /\ \A o \in Nodes : HubPeer(ps[o], o, origins[o])
  BY Zenon, AllStarted DEF KeyInv, PeersInv
<1>2. peers[n] = q /\ \A o \in Nodes \ {n} : peers[o] = ps[o]
  BY Zenon, <1>1
<1>3. Later(peers, attempts, t)
  OBVIOUS
<1> HIDE DEF peers
<1>4. \A o \in Nodes : /\ HubPeer(peers[o], o, origins[o])
                       /\ ps[o].addr_resolved => peers[o].addr = ps[o].addr
  BY Zenon, <1>1, <1>2
<1>5. DOMAIN ps' = Nodes /\ \A o \in Nodes : /\ HubPeer(ps'[o], o, origins[o])
                                             /\ ps'[o].addr = peers[o].addr
  BY Zenon, <1>3, <1>4, LaterPeers
<1> QED
  BY Zenon, <1>4, <1>5 DEF Steady

\* The turns of a loop over the peers.
LEMMA PhaseFacts ==
  /\ <<"tun">> \in Phases /\ <<"udp">> \in Phases /\ <<"timers", 1>> \in Phases
  /\ \A k \in 1 .. Len(PeerList) :
       After(k) = 0 \/ (After(k) = k + 1 /\ After(k) \in 1 .. Len(PeerList))
  /\ \A k \in 1 .. Len(PeerList) : k # Len(PeerList) <=> After(k) # 0
  /\ \A k \in 1 .. Len(PeerList) : <<"start", k>> \in Phases /\ <<"timers", k>> \in Phases
  /\ \A k : /\ <<"start", k>> # <<"tun">> /\ <<"start", k>> # <<"udp">>
            /\ \A j : <<"start", k>> # <<"timers", j>>
  /\ \A j, k : <<"start", j>> = <<"start", k>> => j = k
<1>1. 1 \in 1 .. Len(PeerList)
  BY ListAssumption
<1> QED
  BY <1>1, ListAssumption DEF Phases, After

\* The session that startup makes for a peer.
LEMMA HubSessionInit ==
  ASSUME NEW n, NEW eph, eph[1] = Hub
  PROVE  /\ Owned(session_init(RoleOf[n], LongTerm(Hub), LongTerm(n), 1, eph), RoleOf[n], Hub, n)
         /\ DataWith(session_init(RoleOf[n], LongTerm(Hub), LongTerm(n), 1, eph), n)
<1>1. 1 \in Nat
  OBVIOUS
<1> QED
  BY Zenon, <1>1, InitOwned, PendingDataWith

\* Starting a peer: its static keys are those with its own long-term key.
LEMMA StartKeepsKeys ==
  ASSUME KeyInv, Untouched, NEW k \in 1 .. Len(PeerList), NEW resolved \in BOOLEAN,
         NEW t \in ResolveTimes, StartPeer(k, resolved, t)
  PROVE  KeyInv' /\ Untouched' /\ Steady
<1> DEFINE n == PeerList[k]
           p == [ZeroPeer EXCEPT
                   !.session = session_init(RoleOf[n], LongTerm(Hub), LongTerm(n), 1,
                                            FreshKey(Hub, 1)),
                   !.rx_age  = 0]
           i == initiate_handshake(p, n, FreshKey(Hub, 2), resolved)
           out == IF RoleOf[n] = INITIATOR
                  THEN InitDatagrams(p, n, FreshKey(Hub, 2), resolved) ELSE {}
<1>1. /\ n \in Nodes /\ phase = <<"start", k>> /\ DOMAIN ps = Nodes /\ NodesInv
      /\ ~ ps[n].addr_resolved /\ t \in Nat
  <2>1. n \in Nodes /\ phase = <<"start", k>>
    BY Zenon DEF Nodes, StartPeer
  <2>2. Unstarted(n)
    BY <2>1 DEF Unstarted
  <2> QED
    BY Zenon, <2>1, <2>2, ResolveAssumption DEF KeyInv, PeersInv, Untouched
<1>2. FreshKey(Hub, 1)[1] = Hub /\ FreshKey(Hub, 2)[1] = Hub
  BY Zenon DEF FreshKey, Ephemeral
<1>3. HubPeer(p, n, origins[n])
  <2> DEFINE s == session_init(RoleOf[n], LongTerm(Hub), LongTerm(n), 1, FreshKey(Hub, 1))
  <2>1. Owned(s, RoleOf[n], Hub, n) /\ DataWith(s, n)
    BY Zenon, <1>2, HubSessionInit
  <2> HIDE DEF s
  <2>2. p = [ZeroPeer EXCEPT !.session = s, !.rx_age = 0]
    BY Zenon DEF s
  <2>3. ZeroStats \in Stats
    BY DEF ZeroStats, Stats
  <2>4. /\ DOMAIN p = PeerFields /\ p.session = s /\ p.addr_resolved = FALSE
        /\ p.addr = NoAddr /\ p.rx_age = 0 /\ p.tx_age = KEEPALIVE
        /\ p.key_age = ROTATION /\ p.stats = ZeroStats
    BY Zenon, <2>2 DEF ZeroPeer, PeerFields
  <2> HIDE DEF p
  <2>5. PlacedPeer(p, origins[n])
    <3>1. p.addr_resolved \in BOOLEAN /\ (p.addr_resolved => p.addr \in origins[n])
      BY Zenon, <2>4
    <3>2. /\ p.rx_age \in 0 .. TIMEOUT /\ p.tx_age \in 0 .. KEEPALIVE
          /\ p.key_age \in 0 .. ROTATION
      BY <2>4, TimerAssumption
    <3> QED
      BY Zenon, <2>3, <2>4, <3>1, <3>2 DEF PlacedPeer
  <2> QED
    BY Zenon, <2>1, <2>4, <2>5 DEF HubPeer
<1>4. \/ /\ RoleOf[n] = INITIATOR
         /\ Later([ps EXCEPT ![n] = i], [since EXCEPT ![n] = 0], t)
      \/ RoleOf[n] # INITIATOR /\ ps' = [ps EXCEPT ![n] = p]
  BY Zenon DEF StartPeer
<1>5. net' \subseteq net \union out /\ UNCHANGED environment
  BY Zenon DEF StartPeer, environment
<1>6. phase' = IF After(k) = 0 THEN <<"tun">> ELSE <<"start", After(k)>>
  BY Zenon DEF StartPeer
<1> HIDE DEF p
<1>7. /\ RoleOf[n] = INITIATOR => HubPeer(i, n, origins[n])
      /\ \A d \in out : Sound(d)
  BY Zenon, <1>1, <1>2, <1>3, InitiateHubPeer
<1> HIDE DEF out, i
<1>8. /\ DOMAIN ps' = Nodes /\ HubPeer(ps'[n], n, origins[n])
      /\ \A o \in Nodes \ {n} :
           \/ /\ HubPeer(ps'[o], o, origins[o]) /\ ps'[o].addr = ps[o].addr
              /\ ps'[o].addr_resolved = ps[o].addr_resolved
           \/ Unstarted(o) /\ ps[o] = ZeroPeer /\ ps'[o] = ZeroPeer
  <2>0. \A o \in Nodes : HubPeer(ps[o], o, origins[o]) \/ (Unstarted(o) /\ ps[o] = ZeroPeer)
    BY Zenon DEF KeyInv, PeersInv
  <2>1. CASE RoleOf[n] = INITIATOR /\ Later([ps EXCEPT ![n] = i], [since EXCEPT ![n] = 0], t)
    <3> DEFINE peers == [ps EXCEPT ![n] = i]
               attempts == [since EXCEPT ![n] = 0]
    <3>1. peers[n] = i /\ \A o \in Nodes \ {n} : peers[o] = ps[o]
      BY Zenon, <1>1
    <3>2. Later(peers, attempts, t)
      BY Zenon, <2>1
    <3> HIDE DEF peers, attempts
    <3>3. /\ DOMAIN ps' = Nodes
          /\ \A o \in Nodes : /\ HubPeer(peers[o], o, origins[o]) =>
                                   /\ HubPeer(ps'[o], o, origins[o])
                                   /\ ps'[o].addr = peers[o].addr
                                   /\ ps'[o].addr_resolved = peers[o].addr_resolved
                              /\ peers[o] = ZeroPeer => ps'[o] = ZeroPeer
      BY Zenon, <1>1, <3>2, LaterPeers
    <3>4. HubPeer(ps'[n], n, origins[n])
      BY Zenon, <1>1, <1>7, <2>1, <3>1, <3>3
    <3>5. ASSUME NEW o \in Nodes \ {n}
          PROVE  \/ /\ HubPeer(ps'[o], o, origins[o]) /\ ps'[o].addr = ps[o].addr
                    /\ ps'[o].addr_resolved = ps[o].addr_resolved
                 \/ Unstarted(o) /\ ps[o] = ZeroPeer /\ ps'[o] = ZeroPeer
      <4>1. CASE HubPeer(ps[o], o, origins[o])
        BY Zenon, <3>1, <3>3, <4>1
      <4>2. CASE Unstarted(o) /\ ps[o] = ZeroPeer
        BY Zenon, <3>1, <3>3, <4>2
      <4> QED
        BY Zenon, <2>0, <4>1, <4>2
    <3> QED
      BY Zenon, <3>3, <3>4, <3>5
  <2>2. CASE ps' = [ps EXCEPT ![n] = p]
    <3>1. DOMAIN ps' = Nodes /\ ps'[n] = p /\ \A o \in Nodes \ {n} : ps'[o] = ps[o]
      BY Zenon, <1>1, <2>2
    <3> QED
      BY Zenon, <1>3, <2>0, <3>1
  <2> QED
    BY Zenon, <1>4, <2>1, <2>2
<1>9. phase' \in Phases
  BY Zenon, <1>6, PhaseFacts
<1>10. ASSUME NEW o \in Nodes \ {n}, Unstarted(o) PROVE Unstarted(o)'
  <2>1. PICK j \in 1 .. Len(PeerList), l \in 1 .. Len(PeerList) :
          l <= j /\ phase = <<"start", l>> /\ o = PeerList[j]
    BY Zenon, <1>10 DEF Unstarted
  <2>2. l = k /\ j # k
    BY <1>1, <1>10, <2>1
  <2>3. k + 1 <= j /\ k # Len(PeerList)
    BY <2>1, <2>2, ListAssumption
  <2>4. After(k) = k + 1 /\ k + 1 \in 1 .. Len(PeerList) /\ phase' = <<"start", k + 1>>
    BY Zenon, <1>6, <2>3, PhaseFacts
  <2> QED
    BY Zenon, <2>1, <2>3, <2>4 DEF Unstarted
<1>11. \A o \in Nodes : HubPeer(ps'[o], o, origins[o]) \/ (Unstarted(o)' /\ ps'[o] = ZeroPeer)
  BY Zenon, <1>8, <1>10
<1>12. KeyInv'
  BY Zenon, <1>5, <1>7, <1>8, <1>9, <1>11, HubKeepsKeys
<1>13. Steady
  BY Zenon, <1>1, <1>8 DEF Steady
<1>14. ASSUME NEW o \in Nodes, Unstarted(o)' PROVE ~ ps'[o].addr_resolved
  <2>1. PICK j \in 1 .. Len(PeerList), l \in 1 .. Len(PeerList) :
          l <= j /\ phase' = <<"start", l>> /\ o = PeerList[j]
    BY Zenon, <1>14 DEF Unstarted
  <2>2. l = k + 1
    BY Zenon, <1>6, <2>1, PhaseFacts
  <2>3. k <= j /\ j # k
    BY <2>1, <2>2
  <2>4. o # n
    BY Zenon, <2>1, <2>3, ListAssumption
  <2>5. Unstarted(o)
    BY Zenon, <1>1, <2>1, <2>3 DEF Unstarted
  <2> QED
    BY Zenon, <1>8, <2>4, <2>5 DEF Untouched
<1> QED
  BY Zenon, <1>12, <1>13, <1>14 DEF Untouched

\* Waiting in poll.
LEMMA WaitKeepsKeys ==
  ASSUME KeyInv, Wait
  PROVE  KeyInv' /\ Steady
<1>1. /\ Later(ps, since, 1) /\ UNCHANGED <<net, environment>>
      /\ phase = <<"tun">> /\ phase' = phase
  BY Zenon DEF Wait, environment
<1>2. \A n \in Nodes : HubPeer(ps[n], n, origins[n])
  BY Zenon, <1>1, AllStarted, PhaseFacts
<1>3. 1 \in Nat
  OBVIOUS
<1>4. DOMAIN ps' = Nodes /\ \A n \in Nodes : /\ HubPeer(ps'[n], n, origins[n])
                                             /\ ps'[n].addr = ps[n].addr
  BY Zenon, <1>1, <1>2, <1>3, LaterPeers
<1>5. phase' \in Phases
  BY Zenon, <1>1, PhaseFacts
<1>6. net' \subseteq net /\ UNCHANGED environment
  BY Zenon, <1>1
<1>7. KeyInv'
  BY Zenon, <1>4, <1>5, <1>6, SilentKeepsKeys
<1> QED
  BY Zenon, <1>4, <1>7 DEF Steady

\* A packet from the TUN device goes, if anywhere, to the peer it is routed to.
LEMMA TunReadKeepsKeys ==
  ASSUME KeyInv, NEW packet \in Packets, NEW sent \in BOOLEAN, TunRead(packet, sent)
  PROVE  KeyInv' /\ Steady
<1> DEFINE k == RouteOf(Routes, packet)
           n == TunPeer(k)
           dg == Datagram(HubAddr, ps[n].addr, DataMessage(ps[n].session, packet))
<1>1. phase = <<"tun">> /\ phase' = <<"udp">> /\ UNCHANGED environment
  BY Zenon DEF TunRead, environment
<1>2. \A o \in Nodes : HubPeer(ps[o], o, origins[o])
  BY Zenon, <1>1, AllStarted, PhaseFacts
<1>3. phase' \in Phases /\ DOMAIN ps = Nodes
  BY Zenon, <1>1, PhaseFacts DEF KeyInv, PeersInv
<1>4. ASSUME k # NoPeer PROVE n \in Nodes /\ n = PeerList[k]
  BY Zenon, <1>4, RouteIsPeer DEF TunPeer
<1>5. CASE k = NoPeer
  <2>1. UNCHANGED <<ps, net>>
    BY Zenon, <1>5 DEF TunRead
  <2> QED
    BY Zenon, <1>1, <1>2, <1>3, <2>1, SilentKeepsKeys DEF Steady
<1>6. CASE k # NoPeer /\ ~ CanSealData(ps[n].session)
  <2> DEFINE q == [ps[n] EXCEPT !.stats.drops = @ + 1]
  <2>1. ps' = [ps EXCEPT ![n] = q] /\ UNCHANGED net
    BY <1>6 DEF TunRead
  <2>2. HubPeer(q, n, origins[n]) /\ q.addr = ps[n].addr
    <3>1. HubPeer(ps[n], n, origins[n])
      BY Zenon, <1>2, <1>4, <1>6
    <3>2. q.addr = ps[n].addr
      BY Zenon, <3>1 DEF HubPeer, PlacedPeer, PeerFields
    <3> QED
      BY Zenon, <3>1, <3>2, CountedPeer
  <2> HIDE DEF q
  <2>3. /\ DOMAIN ps' = Nodes /\ \A o \in Nodes : HubPeer(ps'[o], o, origins[o])
        /\ ps'[n] = q /\ \A o \in Nodes \ {n} : ps'[o] = ps[o]
    BY ZenonT(30), <1>1, <1>4, <1>6, <2>1, <2>2, OnePeerKeepsKeys, PhaseFacts
  <2>4. Steady
    BY Zenon, <2>2, <2>3 DEF Steady
  <2> QED
    BY Zenon, <1>1, <1>3, <2>1, <2>3, <2>4, SilentKeepsKeys
<1>7. CASE k # NoPeer /\ CanSealData(ps[n].session)
  <2>1. ps' = [ps EXCEPT ![n] = AfterSend(ps[n], sent)] /\ net' \subseteq net \union {dg}
    BY Zenon, <1>7 DEF TunRead
  <2>2. /\ HubPeer(AfterSend(ps[n], sent), n, origins[n])
        /\ AfterSend(ps[n], sent).addr = ps[n].addr
    BY Zenon, <1>2, <1>4, <1>7, AfterSendPeer
  <2>3. /\ DOMAIN ps' = Nodes /\ \A o \in Nodes : HubPeer(ps'[o], o, origins[o])
        /\ ps'[n] = AfterSend(ps[n], sent) /\ \A o \in Nodes \ {n} : ps'[o] = ps[o]
    BY Zenon, <1>1, <1>4, <1>7, <2>1, <2>2, OnePeerKeepsKeys, PhaseFacts
  <2>4. /\ ps[n].addr \in Addrs \union {HubAddr, NoAddr} /\ ps[n].session.state = ESTABLISHED
        /\ Owned(ps[n].session, RoleOf[n], Hub, n) /\ DataWith(ps[n].session, n)
    BY Zenon, <1>2, <1>4, <1>7 DEF HubPeer, PlacedPeer, CanSealData
  <2>5. Sound(dg)
    BY ZenonT(30), <1>4, <1>7, <2>4, HubDataSound
  <2> HIDE DEF dg
  <2>6. Steady
    BY Zenon, <2>2, <2>3 DEF Steady
  <2> QED
    BY Zenon, <1>1, <1>3, <2>1, <2>3, <2>5, <2>6, HubKeepsKeys
<1> QED
  BY Zenon, <1>5, <1>6, <1>7

\* The pass over the timers is never ahead of its reading of the clock.
LagOK == lag \in Nat

\* The timers of one peer.
LEMMA TimersKeepKeys ==
  ASSUME KeyInv, LagOK, NEW k \in 1 .. Len(PeerList), NEW ok \in BOOLEAN,
         NEW t \in ResolveTimes, Timers(k, ok, t)
  PROVE  KeyInv' /\ Steady
<1> DEFINE n == PeerList[k]
           p == AfterKeepalive(ps[n], ok)
           q == initiate_handshake(p, n, FreshKey(Hub, 1), ok)
           dg == Datagram(HubAddr, ps[n].addr, DataMessage(ps[n].session, EMPTY_PAYLOAD))
           keepalive == IF KeepaliveDue(ps[n]) /\ ok THEN {dg} ELSE {}
           inits == IF HandshakeDue(p, n) THEN InitDatagrams(p, n, FreshKey(Hub, 1), ok) ELSE {}
           passed == IF After(k) = 0 THEN lag + t ELSE 0
<1>1. /\ n \in Nodes /\ phase = <<"timers", k>> /\ UNCHANGED environment
      /\ phase' = IF After(k) = 0 THEN <<"tun">> ELSE <<"timers", After(k)>>
      /\ NodesInv
  BY Zenon DEF Nodes, Timers, environment, KeyInv
<1>2. /\ \/ /\ HandshakeDue(p, n)
            /\ Later([ps EXCEPT ![n] = q], [since EXCEPT ![n] = 0], passed)
         \/ Later([ps EXCEPT ![n] = p], since, passed)
      /\ net' \subseteq net \union (keepalive \union inits)
  BY Zenon DEF Timers
<1>3. \A j \in 1 .. Len(PeerList) : phase # <<"start", j>>
  BY Zenon, <1>1, PhaseFacts
<1>4. HubPeer(ps[n], n, origins[n])
  BY Zenon, <1>1, <1>3, AllStarted
<1>5. /\ HubPeer(p, n, origins[n]) /\ p.addr = ps[n].addr
      /\ p.addr_resolved = ps[n].addr_resolved
  <2>1. HubPeer(p, n, origins[n]) /\ p.addr = ps[n].addr
    BY Zenon, <1>4, AfterKeepaliveHubPeer
  <2>2. p.addr_resolved = ps[n].addr_resolved
    BY Zenon, <1>4 DEF AfterKeepalive, AfterSend, HubPeer, PlacedPeer, PeerFields
  <2> QED
    BY Zenon, <2>1, <2>2
<1> HIDE DEF p
<1>6. /\ HandshakeDue(p, n) => /\ HubPeer(q, n, origins[n])
                               /\ ps[n].addr_resolved => q.addr = ps[n].addr
      /\ \A d \in inits : Sound(d)
  <2>1. FreshKey(Hub, 1)[1] = Hub /\ (HandshakeDue(p, n) => RoleOf[n] = INITIATOR)
    BY Zenon DEF FreshKey, Ephemeral, HandshakeDue
  <2> QED
    BY Zenon, <1>1, <1>5, <2>1, InitiateHubPeer
<1> HIDE DEF q, inits
<1>7. /\ DOMAIN ps' = Nodes /\ \A o \in Nodes : HubPeer(ps'[o], o, origins[o])
      /\ Steady
  <2> DEFINE attempts == [since EXCEPT ![n] = 0]
  <2>1. passed \in Nat
    BY ResolveAssumption DEF LagOK
  <2>2. \/ HandshakeDue(p, n) /\ Later([ps EXCEPT ![n] = q], attempts, passed)
        \/ Later([ps EXCEPT ![n] = p], since, passed)
    BY Zenon, <1>2
  <2> HIDE DEF passed, attempts
  <2>3. CASE HandshakeDue(p, n) /\ Later([ps EXCEPT ![n] = q], attempts, passed)
    <3>1. HubPeer(q, n, origins[n]) /\ (ps[n].addr_resolved => q.addr = ps[n].addr)
      BY Zenon, <1>6, <2>3
    <3> QED
      BY ZenonT(30), <1>1, <1>3, <2>1, <2>3, <3>1, OneLaterKeepsKeys
  <2>4. CASE Later([ps EXCEPT ![n] = p], since, passed)
    BY Zenon, <1>1, <1>3, <1>5, <2>1, <2>4, OneLaterKeepsKeys
  <2> QED
    BY Zenon, <2>2, <2>3, <2>4
<1>8. \A d \in keepalive : Sound(d)
  <2>1. CASE KeepaliveDue(ps[n])
    <3>1. /\ ps[n].addr \in Addrs \union {HubAddr, NoAddr}
          /\ ps[n].session.state = ESTABLISHED
          /\ Owned(ps[n].session, RoleOf[n], Hub, n) /\ DataWith(ps[n].session, n)
      BY Zenon, <1>4, <2>1 DEF HubPeer, PlacedPeer, KeepaliveDue, CanSealData
    <3>2. Sound(dg)
      BY Zenon, <1>1, <3>1, HubDataSound
    <3> HIDE DEF dg
    <3> QED
      BY Zenon, <3>2
  <2> QED
    BY Zenon, <2>1
<1> HIDE DEF keepalive
<1>9. \A d \in keepalive \union inits : Sound(d)
  BY Zenon, <1>6, <1>8
<1>10. phase' \in Phases
  BY Zenon, <1>1, PhaseFacts
<1> QED
  BY Zenon, <1>1, <1>2, <1>7, <1>9, <1>10, HubKeepsKeys

-----------------------------------------------------------------------------
(***************************************************************************)
(* Datagrams from the socket                                               *)
(***************************************************************************)

\* d leads to a new address of n: an INIT of n from there, newer than all before.
NewInitOf(n, d) ==
  /\ d.src = ps'[n].addr
  /\ d.msg.type = INIT /\ SealedWith(d.msg, n)
  /\ d.msg.counter > ps[n].session.highest_handshake_counter_seen

\* Reading d takes nothing else from the network, changes the session of no peer but
\* one whose key d is sealed with, and a known address only as a new INIT may.
Harmless(d) ==
  /\ net \ net' \subseteq {d}
  /\ \A n \in Nodes : /\ ps'[n].session # ps[n].session => SealedWith(d.msg, n)
                      /\ ps[n].addr_resolved /\ ps'[n].addr # ps[n].addr => NewInitOf(n, d)

\* A step of the socket's branch leads to the timers, takes at most d and sends out.
LEMMA ReceiveFacts ==
  ASSUME NEW d, NEW out, NEW ok, Receive(d, out, ok)
  PROVE  /\ phase = <<"udp">> /\ phase' = <<"timers", 1>> /\ phase' \in Phases
         /\ net' \subseteq net \union out /\ net \ net' \subseteq {d}
         /\ \A k \in 1 .. Len(PeerList) : phase # <<"start", k>>
BY Zenon, PhaseFacts DEF Receive

\* One peer changes, and its session only if d is sealed with its key.
LEMMA OneHarmed ==
  ASSUME KeyInv, NEW n \in Nodes, NEW q, HubPeer(q, n, origins[n]), ps' = [ps EXCEPT ![n] = q],
         NEW d, NEW out, NEW ok, Receive(d, out, ok), UNCHANGED environment,
         \A x \in out : Sound(x),
         q.session # ps[n].session => Between(d.msg.key, n), q.addr = ps[n].addr
  PROVE  KeyInv' /\ Harmless(d)
<1>1. /\ phase' \in Phases /\ net' \subseteq net \union out /\ net \ net' \subseteq {d}
      /\ \A k \in 1 .. Len(PeerList) : phase # <<"start", k>>
  BY ReceiveFacts
<1>2. /\ DOMAIN ps' = Nodes /\ \A o \in Nodes : HubPeer(ps'[o], o, origins[o])
      /\ ps'[n] = q /\ \A o \in Nodes \ {n} : ps'[o] = ps[o]
  BY Zenon, <1>1, OnePeerKeepsKeys
<1>3. KeyInv'
  BY Zenon, <1>1, <1>2, HubKeepsKeys
<1>4. Harmless(d)
  BY <1>1, <1>2 DEF Harmless, SealedWith, Between
<1> QED
  BY Zenon, <1>3, <1>4

\* What is known of the peers, and of d, when d is read.
LEMMA ReadFacts ==
  ASSUME KeyInv, NEW d \in net, NEW out, NEW ok, Receive(d, out, ok), NEW n \in Nodes
  PROVE  /\ Sound(d) /\ HubPeer(ps[n], n, origins[n]) /\ origins[n] \in SUBSET Addrs
         /\ Owned(ps[n].session, RoleOf[n], Hub, n) /\ DataWith(ps[n].session, n)
         /\ ps[n].addr \in Addrs \union {HubAddr, NoAddr}
         /\ d.msg.counter \in Nat
         /\ FreshInit(ps[n].session, d.msg) \/ CanHandleResponse(ps[n].session, d.msg) =>
              /\ d.msg.type = INIT => d.src \in origins[n]
              /\ d.msg.body[1] = n /\ Between(d.msg.key, n)
<1>1. Sound(d) /\ origins[n] \in SUBSET Addrs /\ d.msg.counter \in Nat
  BY Zenon DEF KeyInv, NetInv, NodesInv, Sound
<1>2. HubPeer(ps[n], n, origins[n])
  BY Zenon, AllStarted, ReceiveFacts
<1>3. /\ Owned(ps[n].session, RoleOf[n], Hub, n) /\ DataWith(ps[n].session, n)
      /\ ps[n].addr \in Addrs \union {HubAddr, NoAddr}
  BY Zenon, <1>2 DEF HubPeer, PlacedPeer
<1> QED
  BY Zenon, <1>1, <1>2, <1>3, AcceptedFrom

\* The RESPONSE to d, if it is sent.
LEMMA ResponseSound ==
  ASSUME NEW n \in Nodes, Owned(ps[n].session, RoleOf[n], Hub, n), NEW d,
         d.msg.counter \in Nat, NEW dst \in Addrs \union {HubAddr, NoAddr}
  PROVE  Sound(Response(n, d, dst))
BY Zenon, HubHandshakeSound DEF Response, ResponseMessage

\* find_responder_for_init gives a session that takes the INIT.
LEMMA MatchedTakes ==
  ASSUME NEW m, find_responder_for_init(m) # NULL
  PROVE  /\ find_responder_for_init(m) \in Nodes
         /\ FreshInit(ps[find_responder_for_init(m)].session, m)
         /\ CanHandleInit(ps[find_responder_for_init(m)].session, m)
         /\ RoleOf[find_responder_for_init(m)] = RESPONDER
BY Zenon DEF find_responder_for_init, FirstPeer, CanHandleInit, Nodes

\* An INIT from an unknown address: only the session with its key takes it.
LEMMA UnknownInitKeepsKeys ==
  ASSUME KeyInv, NEW d \in net, NEW sent \in BOOLEAN, UnknownInit(d, sent)
  PROVE  KeyInv' /\ Harmless(d)
<1> DEFINE matched == find_responder_for_init(d.msg)
           tries == {n \in Nodes : /\ RoleOf[n] = RESPONDER
                                   /\ \A k, j \in 1 .. Len(PeerList) :
                                        (PeerList[k] = n /\ PeerList[j] = matched) => k <= j}
           P(n) == IF n \in tries THEN HandledInit(ps[n], d.msg) ELSE ps[n]
           out  == IF matched # NULL /\ sent THEN {Response(matched, d, d.src)} ELSE {}
<1>1. /\ Receive(d, out, sent) /\ UNCHANGED environment
      /\ ps' = [n \in Nodes |-> IF n = matched /\ sent
                                THEN Answered(Learned(P(n), d.src)) ELSE P(n)]
  BY ZenonT(30) DEF UnknownInit, environment
<1>2. matched # NULL => /\ matched \in Nodes /\ FreshInit(ps[matched].session, d.msg)
                        /\ CanHandleInit(ps[matched].session, d.msg)
                        /\ RoleOf[matched] = RESPONDER
  BY Zenon, MatchedTakes
<1>3. NULL \notin Nodes /\ d.msg.type = INIT
  BY Zenon, ListAssumption DEF UnknownInit
<1>4. ASSUME NEW n \in Nodes, n = matched PROVE n \in tries
  <2>1. \A k, j \in 1 .. Len(PeerList) :
          (PeerList[k] = n /\ PeerList[j] = matched) => k <= j
    BY <1>4, ListAssumption
  <2> QED
    BY Zenon, <1>2, <1>3, <1>4, <2>1
<1> HIDE DEF matched, tries
<1>5. ASSUME NEW n \in Nodes
      PROVE  /\ HubPeer(P(n), n, origins[n]) /\ P(n).addr = ps[n].addr
             /\ P(n).session # ps[n].session => Between(d.msg.key, n)
             /\ n = matched => P(n).session.have_seen_handshake
  <2>1. /\ HubPeer(ps[n], n, origins[n]) /\ d.msg.counter \in Nat
        /\ FreshInit(ps[n].session, d.msg) => d.msg.body[1] = n /\ Between(d.msg.key, n)
    BY ZenonT(30), <1>1, ReadFacts
  <2>2. n = matched => n \in tries /\ CanHandleInit(ps[n].session, d.msg)
    BY Zenon, <1>2, <1>3, <1>4
  <2>3. /\ HubPeer(HandledInit(ps[n], d.msg), n, origins[n])
        /\ ~ FreshInit(ps[n].session, d.msg) =>
             HandledInit(ps[n], d.msg).session = ps[n].session
        /\ HandledInit(ps[n], d.msg).addr = ps[n].addr
    BY <2>1, HandledInitPeer
  <2>4. CanHandleInit(ps[n].session, d.msg) =>
          HandledInit(ps[n], d.msg).session.have_seen_handshake
    BY Zenon, <2>1, HandledInitSeen
  <2> QED
    BY Zenon, <2>1, <2>2, <2>3, <2>4
<1> HIDE DEF P
<1>6. ASSUME NEW n \in Nodes
      PROVE  /\ HubPeer(ps'[n], n, origins[n])
             /\ ps'[n].session # ps[n].session => Between(d.msg.key, n)
             /\ ps[n].addr_resolved /\ ps'[n].addr # ps[n].addr => NewInitOf(n, d)
  <2>1. CASE n = matched /\ sent
    <3>1. /\ d.src \in origins[n] /\ origins[n] \in SUBSET Addrs /\ Between(d.msg.key, n)
          /\ HubPeer(ps[n], n, origins[n]) /\ d.msg.counter \in Nat
      BY ZenonT(30), <1>1, <1>2, <1>3, <2>1, ReadFacts
    <3>2. /\ HubPeer(Learned(P(n), d.src), n, origins[n])
          /\ Learned(P(n), d.src).addr = d.src
      BY Zenon, <1>5, <2>1, <3>1, LearnedPeer
    <3>3. /\ HubPeer(Answered(Learned(P(n), d.src)), n, origins[n])
          /\ Answered(Learned(P(n), d.src)).addr = d.src
      BY Zenon, <3>2, AnsweredPeer
    <3>4. ps'[n] = Answered(Learned(P(n), d.src))
      BY Zenon, <1>1, <2>1
    <3>5. ASSUME ps[n].addr_resolved
          PROVE  d.msg.counter > ps[n].session.highest_handshake_counter_seen
      <4>1. /\ ps[n].session.have_seen_handshake
            /\ ps[n].session.highest_handshake_counter_seen \in Nat
        BY Zenon, <1>2, <1>3, <2>1, <3>1, <3>5 DEF HubPeer, Owned
      <4>2. ~ (d.msg.counter <= ps[n].session.highest_handshake_counter_seen)
        BY Zenon, <1>2, <1>3, <2>1, <4>1 DEF FreshInit
      <4> QED
        BY <3>1, <4>1, <4>2
    <3>6. ps[n].addr_resolved => NewInitOf(n, d)
      BY Zenon, <1>3, <3>1, <3>3, <3>4, <3>5 DEF NewInitOf, SealedWith, Between
    <3> QED
      BY Zenon, <3>1, <3>3, <3>4, <3>6
  <2>2. CASE ~ (n = matched /\ sent)
    <3>1. ps'[n] = P(n)
      BY Zenon, <1>1, <2>2
    <3> QED
      BY Zenon, <1>5, <3>1
  <2> QED
    BY Zenon, <2>1, <2>2
<1>7. \A x \in out : Sound(x)
  <2>1. CASE matched # NULL /\ sent
    <3>1. /\ Owned(ps[matched].session, RoleOf[matched], Hub, matched) /\ Sound(d)
          /\ d.msg.counter \in Nat
      BY Zenon, <1>1, <1>2, <2>1, ReadFacts
    <3>2. d.src \in Addrs \union {HubAddr, NoAddr}
      BY Zenon, <3>1 DEF Sound
    <3>3. Sound(Response(matched, d, d.src))
      BY Zenon, <1>2, <2>1, <3>1, <3>2, ResponseSound
    <3> QED
      BY Zenon, <3>3
  <2> QED
    BY Zenon, <2>1
<1> HIDE DEF out
<1>8. /\ phase' \in Phases /\ net' \subseteq net \union out /\ net \ net' \subseteq {d}
  BY Zenon, <1>1, ReceiveFacts
<1>9. DOMAIN ps' = Nodes
  BY Zenon, <1>1
<1>10. KeyInv'
  BY Zenon, <1>1, <1>6, <1>7, <1>8, <1>9, HubKeepsKeys
<1>11. Harmless(d)
  BY Zenon, <1>6, <1>8 DEF Harmless, SealedWith, Between
<1> QED
  BY Zenon, <1>10, <1>11

\* An INIT from a known address.
LEMMA KnownInitKeepsKeys ==
  ASSUME KeyInv, NEW n \in Nodes, NEW d \in net, NEW sent \in BOOLEAN,
         KnownInit(n, d, sent)
  PROVE  KeyInv' /\ Harmless(d)
<1> DEFINE accepted == CanHandleInit(ps[n].session, d.msg)
           p == HandledInit(ps[n], d.msg)
           f == [p EXCEPT !.stats.auth_failures = @ + 1]
           q == IF ~ accepted THEN f ELSE IF sent THEN Answered(p) ELSE p
           out == IF accepted /\ sent THEN {Response(n, d, ps[n].addr)} ELSE {}
<1>1. Receive(d, out, sent) /\ UNCHANGED environment /\ ps' = [ps EXCEPT ![n] = q]
  BY Zenon DEF KnownInit, environment
<1>2. /\ HubPeer(ps[n], n, origins[n]) /\ Owned(ps[n].session, RoleOf[n], Hub, n)
      /\ ps[n].addr \in Addrs \union {HubAddr, NoAddr} /\ d.msg.counter \in Nat
      /\ FreshInit(ps[n].session, d.msg) => d.msg.body[1] = n /\ Between(d.msg.key, n)
  BY Zenon, <1>1, ReadFacts
<1>3. /\ HubPeer(p, n, origins[n]) /\ p.addr = ps[n].addr
      /\ p.session # ps[n].session => Between(d.msg.key, n)
  <2>1. /\ HubPeer(p, n, origins[n]) /\ p.addr = ps[n].addr
        /\ ~ FreshInit(ps[n].session, d.msg) => p.session = ps[n].session
    BY <1>2, HandledInitPeer
  <2> QED
    BY Zenon, <1>2, <2>1
<1>4. \A x \in out : Sound(x)
  BY ZenonT(30), <1>2, ResponseSound
<1> HIDE DEF accepted, p, out
<1>5. HubPeer(f, n, origins[n]) /\ f.session = p.session /\ f.addr = p.addr
  <2>1. f.session = p.session /\ f.addr = p.addr
    BY Zenon, <1>3 DEF HubPeer, PlacedPeer, PeerFields
  <2> QED
    BY ZenonT(30), <1>3, <2>1, CountedPeer
<1>6. /\ HubPeer(Answered(p), n, origins[n]) /\ Answered(p).session = p.session
      /\ Answered(p).addr = p.addr
  BY Zenon, <1>3, AnsweredPeer
<1> HIDE DEF f
<1>7. HubPeer(q, n, origins[n]) /\ q.session = p.session /\ q.addr = ps[n].addr
  BY Zenon, <1>3, <1>5, <1>6
<1> HIDE DEF q
<1> QED
  BY Zenon, <1>1, <1>3, <1>4, <1>7, OneHarmed

\* A RESPONSE from a known address.
LEMMA KnownResponseKeepsKeys ==
  ASSUME KeyInv, NEW n \in Nodes, NEW d \in net, KnownResponse(n, d)
  PROVE  KeyInv' /\ Harmless(d)
<1> DEFINE s == session_handle_response(ps[n].session, d.msg)
           a == [ps[n] EXCEPT !.session = s]
           b == [a EXCEPT !.rx_age = 0]
           c == [b EXCEPT !.key_age = 0]
           done == [c EXCEPT !.stats.handshakes = @ + 1]
           failed == [ps[n] EXCEPT !.stats.auth_failures = @ + 1]
           can == CanHandleResponse(ps[n].session, d.msg)
           none == {}
<1>1. /\ Receive(d, {}, TRUE) /\ UNCHANGED environment
      /\ ps' = [ps EXCEPT ![n] = IF can
                                 THEN [ps[n] EXCEPT !.session = s, !.rx_age = 0, !.key_age = 0,
                                                    !.stats.handshakes = @ + 1]
                                 ELSE failed]
  BY Zenon DEF KnownResponse, environment
<1>2. Receive(d, none, TRUE) /\ \A x \in none : Sound(x)
  BY Zenon, <1>1
<1> HIDE DEF none
<1>3. /\ HubPeer(ps[n], n, origins[n])
      /\ Owned(ps[n].session, RoleOf[n], Hub, n) /\ DataWith(ps[n].session, n)
      /\ can => d.msg.body[1] = n /\ Between(d.msg.key, n)
  BY Zenon, <1>2, ReadFacts
<1>4. CASE can
  <2>1. /\ Owned(s, RoleOf[n], Hub, n) /\ DataWith(s, n)
        /\ s.have_seen_handshake = ps[n].session.have_seen_handshake
    BY Zenon, <1>3, <1>4, HandleResponseOwned
  <2> HIDE DEF s, can
  <2>2. HubPeer(a, n, origins[n])
    BY Zenon, <1>3, <2>1, PeerWithSession
  <2>3. HubPeer(b, n, origins[n])
    BY Zenon, <2>2, RestartedPeer
  <2>4. HubPeer(c, n, origins[n])
    BY Zenon, <2>3, RestartedPeer
  <2>5. HubPeer(done, n, origins[n]) /\ done.addr = ps[n].addr
    <3>1. done.addr = ps[n].addr
      BY Zenon, <1>3 DEF HubPeer, PlacedPeer, PeerFields
    <3> QED
      BY Zenon, <2>4, <3>1, CountedPeer
  <2>6. ps' = [ps EXCEPT ![n] = done]
    <3>1. [ps[n] EXCEPT !.session = s, !.rx_age = 0, !.key_age = 0,
                        !.stats.handshakes = @ + 1] = done
      BY <1>3 DEF HubPeer, PlacedPeer, PeerFields
    <3> QED
      BY Zenon, <1>1, <1>4, <3>1
  <2> HIDE DEF done
  <2> QED
    BY Zenon, <1>1, <1>2, <1>3, <1>4, <2>5, <2>6, OneHarmed
<1>5. CASE ~ can
  <2>1. HubPeer(failed, n, origins[n])
    BY Zenon, <1>3, CountedPeer
  <2>2. failed.session = ps[n].session /\ failed.addr = ps[n].addr
    BY Zenon, <1>3 DEF HubPeer, PlacedPeer, PeerFields
  <2>3. ps' = [ps EXCEPT ![n] = failed]
    BY Zenon, <1>1, <1>5
  <2> HIDE DEF failed
  <2> QED
    BY Zenon, <1>1, <1>2, <2>1, <2>2, <2>3, OneHarmed
<1> QED
  BY <1>4, <1>5

\* DATA from a known address opens only under the data keys with that peer.
LEMMA KnownDataKeepsKeys ==
  ASSUME KeyInv, NEW n \in Nodes, NEW d \in net, NEW written \in BOOLEAN,
         KnownData(n, d, written)
  PROVE  KeyInv' /\ Harmless(d)
<1> DEFINE s == session_open_data(ps[n].session, d.msg)
           opened == [ps[n] EXCEPT !.session = s]
           heard  == [opened EXCEPT !.rx_age = 0]
           failed == [opened EXCEPT !.stats.auth_failures = @ + 1,
                                    !.stats.drops = @ + 1]
           packet == [opened EXCEPT !.rx_age = 0, !.stats.packets_rx = @ + 1]
           counted == [opened EXCEPT !.stats.auth_failures = @ + 1]
           none == {}
<1>0. DataOutcomes(ps[n], d.msg) = {opened, heard, failed, packet}
  BY Zenon DEF DataOutcomes
<1>1. /\ Receive(d, {}, written) /\ UNCHANGED environment
      /\ \E q \in DataOutcomes(ps[n], d.msg) : ps' = [ps EXCEPT ![n] = q]
  BY Zenon, KnownDataEffect
<1>2. Receive(d, none, written) /\ \A x \in none : Sound(x)
  BY Zenon, <1>1
<1> HIDE DEF none
<1>3. /\ HubPeer(ps[n], n, origins[n]) /\ Sound(d)
      /\ Owned(ps[n].session, RoleOf[n], Hub, n) /\ DataWith(ps[n].session, n)
  BY ZenonT(30), <1>2, ReadFacts
<1>4. /\ Owned(s, RoleOf[n], Hub, n) /\ DataWith(s, n)
      /\ ~ AuthenticData(ps[n].session, d.msg) => s = ps[n].session
      /\ s.have_seen_handshake = ps[n].session.have_seen_handshake
  <2>1. d.msg.counter \in Nat
    BY Zenon, <1>3 DEF Sound
  <2> QED
    BY Zenon, <1>3, <2>1, OpenOwned
<1>5. AuthenticData(ps[n].session, d.msg) => Between(d.msg.key, n)
  BY Zenon, <1>3 DEF AuthenticData, DataWith, crypto_open
<1> HIDE DEF s
<1>6. HubPeer(opened, n, origins[n]) /\ opened.session = s /\ opened.addr = ps[n].addr
  BY <1>3, <1>4, PeerWithSession
<1> HIDE DEF opened
<1>7. HubPeer(heard, n, origins[n]) /\ heard.session = s /\ heard.addr = ps[n].addr
  <2>1. heard.session = s /\ heard.addr = ps[n].addr
    BY <1>6 DEF HubPeer, PlacedPeer, PeerFields
  <2> QED
    BY Zenon, <1>6, <2>1, RestartedPeer
<1>8. HubPeer(counted, n, origins[n])
  BY Zenon, <1>6, CountedPeer
<1>9. HubPeer(failed, n, origins[n]) /\ failed.session = s /\ failed.addr = ps[n].addr
  <2>1. HubPeer([counted EXCEPT !.stats.drops = @ + 1], n, origins[n])
    BY Zenon, <1>8, CountedPeer
  <2>2. /\ failed = [counted EXCEPT !.stats.drops = @ + 1]
        /\ failed.session = s /\ failed.addr = ps[n].addr
    BY Zenon, <1>6 DEF HubPeer, PlacedPeer, PeerFields
  <2> QED
    BY Zenon, <2>1, <2>2
<1>10. HubPeer(packet, n, origins[n]) /\ packet.session = s /\ packet.addr = ps[n].addr
  <2>1. HubPeer([heard EXCEPT !.stats.packets_rx = @ + 1], n, origins[n])
    BY Zenon, <1>7, CountedPeer
  <2>2. /\ packet = [heard EXCEPT !.stats.packets_rx = @ + 1]
        /\ packet.session = s /\ packet.addr = ps[n].addr
    BY Zenon, <1>6 DEF HubPeer, PlacedPeer, PeerFields
  <2> QED
    BY Zenon, <2>1, <2>2
<1> HIDE DEF heard, failed, packet, counted
<1>11. PICK q \in {opened, heard, failed, packet} : ps' = [ps EXCEPT ![n] = q]
  BY Zenon, <1>0, <1>1
<1>12. HubPeer(q, n, origins[n]) /\ q.session = s /\ q.addr = ps[n].addr
  BY Zenon, <1>6, <1>7, <1>9, <1>10
<1>13. q.session # ps[n].session => Between(d.msg.key, n)
  BY Zenon, <1>4, <1>5, <1>12
<1> QED
  BY Zenon, <1>1, <1>2, <1>11, <1>12, <1>13, OneHarmed

\* A handshake message of the wrong kind is only counted.
LEMMA UnexpectedKeepsKeys ==
  ASSUME KeyInv, NEW n \in Nodes, NEW d \in net, Unexpected(n, d)
  PROVE  KeyInv' /\ Harmless(d)
<1> DEFINE q == [ps[n] EXCEPT !.stats.drops = @ + 1]
           none == {}
<1>1. /\ Receive(d, none, TRUE) /\ \A x \in none : Sound(x)
      /\ UNCHANGED environment /\ ps' = [ps EXCEPT ![n] = q]
  BY Zenon DEF Unexpected, environment
<1> HIDE DEF none
<1>2. HubPeer(ps[n], n, origins[n])
  BY Zenon, <1>1, ReadFacts
<1>3. HubPeer(q, n, origins[n]) /\ q.session = ps[n].session /\ q.addr = ps[n].addr
  <2>1. q.session = ps[n].session /\ q.addr = ps[n].addr
    BY Zenon, <1>2 DEF HubPeer, PlacedPeer, PeerFields
  <2> QED
    BY Zenon, <1>2, <2>1, CountedPeer
<1> HIDE DEF q
<1> QED
  BY Zenon, <1>1, <1>3, OneHarmed

-----------------------------------------------------------------------------
(***************************************************************************)
(* The other nodes                                                         *)
(***************************************************************************)

\* What is known of a node.
LEMMA NodeFacts ==
  ASSUME KeyInv, NEW n \in Nodes
  PROVE  /\ Owned(node[n], NodeRole(n), n, Hub) /\ NodesInv
         /\ FreshKey(n, 1)[1] = n
BY Zenon DEF KeyInv, NodesInv, FreshKey, Ephemeral

\* A node whose session keeps its keys, and sends only what is sound, keeps the
\* invariant.
LEMMA NodeKeepsKeys ==
  ASSUME KeyInv, NEW n \in Nodes, NEW s, Owned(s, NodeRole(n), n, Hub),
         node' = [node EXCEPT ![n] = s], UNCHANGED <<hub, at, origins>>,
         NEW out, \A x \in out : Sound(x), net' \subseteq net \union out
  PROVE  KeyInv'
<1>1. NodesInv'
  BY Zenon DEF KeyInv, NodesInv
<1>2. PeersInv'
  BY Zenon DEF KeyInv, PeersInv, hub, Unstarted
<1>3. \A d \in net' : Sound(d)
  BY DEF KeyInv, NetInv
<1>4. NetInv'
  BY ZenonT(30), <1>3 DEF NetInv, Sound, HandshakeFrom, ForRoute
<1> QED
  BY Zenon, <1>1, <1>2, <1>4 DEF KeyInv

\* A step of a node keeps the invariant.
LEMMA NodeInitiateKeepsKeys ==
  ASSUME KeyInv, NEW n \in Nodes, NodeInitiate(n)
  PROVE  KeyInv'
<1> DEFINE s == session_start_handshake(node[n], FreshKey(n, 1))
           t == session_build_init(s)
           out == {Datagram(at[n], HubAddr, InitMessage(s))}
<1>1. node' = [node EXCEPT ![n] = t] /\ net' = net \union out /\ UNCHANGED <<hub, at, origins>>
  BY Zenon DEF NodeInitiate
<1>2. Owned(s, NodeRole(n), n, Hub)
  BY Zenon, NodeFacts, StartOwned
<1>3. Owned(t, NodeRole(n), n, Hub)
  BY Zenon, <1>2, BuildOwned
<1>4. s.local_eph_pk[1] = n /\ s.handshake_counter \in Nat
  BY Zenon, <1>2 DEF Owned
<1> HIDE DEF s
<1>5. \A x \in out : Sound(x)
  BY SMTT(30), <1>2, <1>4, NodeFacts, NodeHandshakeSound DEF InitMessage
<1> HIDE DEF t, out
<1> QED
  BY ZenonT(30), <1>1, <1>3, <1>5, NodeKeepsKeys

\* A node answers an INIT.
LEMMA NodeHandleInitKeepsKeys ==
  ASSUME KeyInv, NEW n \in Nodes, NEW d \in net, NodeHandleInit(n, d)
  PROVE  KeyInv'
<1> DEFINE s == node[n]
           r == Reconnected(s, FreshKey(n, 1))
           t == session_handle_init(s, d.msg, FreshKey(n, 1))
           out == {Datagram(at[n], HubAddr, ResponseMessage(s, d.msg, FreshKey(n, 1)))}
<1>1. /\ node' = [node EXCEPT ![n] = t] /\ net' \subseteq net \union out
      /\ UNCHANGED <<hub, at, origins>>
  BY Zenon DEF NodeHandleInit
<1>2. /\ Owned(s, NodeRole(n), n, Hub) /\ FreshKey(n, 1)[1] = n /\ NodesInv
      /\ d.msg.counter \in Nat
  BY Zenon, NodeFacts DEF KeyInv, NetInv, Sound
<1>3. Owned(t, NodeRole(n), n, Hub)
  BY Zenon, <1>2, HandleInitOwned
<1>4. Owned(r, NodeRole(n), n, Hub)
  BY Zenon, <1>2, StartOwned DEF Reconnected
<1>5. r.local_eph_pk[1] = n /\ r.static_keys = s.static_keys
  BY Zenon, <1>2, <1>4 DEF Owned
<1>6. ResponseMessage(s, d.msg, FreshKey(n, 1)) =
        crypto_seal(RESPONSE, s.static_keys.tx, d.msg.counter, r.local_eph_pk)
  BY Zenon, <1>5 DEF ResponseMessage
<1> HIDE DEF s, r
<1>7. \A x \in out : Sound(x)
  BY Zenon, <1>2, <1>5, <1>6, NodeHandshakeSound
<1> HIDE DEF t, out
<1> QED
  BY Zenon, <1>1, <1>3, <1>7, NodeKeepsKeys

\* A node completes a handshake.
LEMMA NodeHandleResponseKeepsKeys ==
  ASSUME KeyInv, NEW n \in Nodes, NEW d \in net, NodeHandleResponse(n, d)
  PROVE  KeyInv'
<1> DEFINE t == session_handle_response(node[n], d.msg)
           none == {}
<1>1. /\ node' = [node EXCEPT ![n] = t] /\ net' \subseteq net \union none
      /\ UNCHANGED <<hub, at, origins>> /\ \A x \in none : Sound(x)
  BY Zenon DEF NodeHandleResponse
<1>2. Owned(node[n], NodeRole(n), n, Hub)
  BY Zenon, NodeFacts
<1>3. Owned(t, NodeRole(n), n, Hub)
  BY Zenon, <1>2, HandleResponseOwned
<1> HIDE DEF t, none
<1> QED
  BY Zenon, <1>1, <1>3, NodeKeepsKeys

\* A node sends DATA.
LEMMA NodeSendKeepsKeys ==
  ASSUME KeyInv, NEW n \in Nodes, NEW payload, NodeSend(n, payload)
  PROVE  KeyInv'
<1> DEFINE t == session_seal_data(node[n])
           out == {Datagram(at[n], HubAddr, DataMessage(node[n], payload))}
<1>1. /\ node' = [node EXCEPT ![n] = t] /\ net' = net \union out
      /\ UNCHANGED <<hub, at, origins>>
  BY ZenonT(30) DEF NodeSend
<1>2. Owned(t, NodeRole(n), n, Hub)
  BY Zenon, NodeFacts, SealOwned
<1>3. \A x \in out : Sound(x)
  BY Zenon, NodeFacts, NodeDataSound
<1> HIDE DEF t, out
<1> QED
  BY ZenonT(30), <1>1, <1>2, <1>3, NodeKeepsKeys

\* A node that moves has been where it was.
LEMMA MoveKeepsKeys ==
  ASSUME KeyInv, NEW n \in Nodes, NEW a \in Moves[n], Move(n, a)
  PROVE  KeyInv'
<1>1. /\ at' = [at EXCEPT ![n] = a] /\ origins' = [origins EXCEPT ![n] = origins[n] \union {a}]
      /\ UNCHANGED <<hub, generated, net, node>>
  BY Zenon DEF Move
<1>2. a \in Addrs
  BY DEF Addrs
<1>3. NodesInv'
  BY Zenon, <1>1, <1>2 DEF KeyInv, NodesInv
<1>4. \A o \in Nodes : origins[o] \subseteq origins'[o] /\ origins'[o] \in SUBSET Addrs
  BY Zenon, <1>1, <1>2 DEF KeyInv, NodesInv
<1>5. PeersInv'
  <2>1. UNCHANGED <<ps, phase>>
    BY Zenon, <1>1 DEF hub
  <2>2. ASSUME NEW o \in Nodes
        PROVE  HubPeer(ps[o], o, origins'[o]) \/ (Unstarted(o) /\ ps[o] = ZeroPeer)
    BY Zenon, <1>4, MoreHomes DEF KeyInv, PeersInv
  <2> QED
    BY Zenon, <2>1, <2>2 DEF KeyInv, PeersInv, Unstarted
<1>6. NetInv'
  BY Zenon, <1>1, <1>4 DEF KeyInv, NetInv, Sound, HandshakeFrom, ForRoute
<1> QED
  BY Zenon, <1>3, <1>5, <1>6 DEF KeyInv

\* A message passed on from a is sound there, an INIT because a is now an origin.
LEMMA PassOnKeepsKeys ==
  ASSUME KeyInv, NEW d \in net, NEW a \in Relays, PassOn(d, a)
  PROVE  KeyInv'
<1> DEFINE c == Datagram(a, HubAddr, d.msg)
<1>1. /\ net' = net \union {c} /\ UNCHANGED <<ps, phase, node, at>>
      /\ origins' = [n \in Nodes |-> IF d.msg.type = INIT /\ SealedWith(d.msg, n)
                                     THEN origins[n] \union {a} ELSE origins[n]]
  BY Zenon DEF PassOn
<1>2. a \in Addrs /\ a # HubAddr
  <2>1. a \in Addrs
    BY DEF Addrs
  <2> QED
    BY Zenon, <2>1, ListAssumption
<1>3. \A n \in Nodes :
        /\ origins'[n] = IF d.msg.type = INIT /\ SealedWith(d.msg, n)
                         THEN origins[n] \union {a} ELSE origins[n]
        /\ origins[n] \in SUBSET Addrs
  BY Zenon, <1>1 DEF KeyInv, NodesInv
<1>4. \A n \in Nodes : /\ origins[n] \subseteq origins'[n] /\ origins'[n] \in SUBSET Addrs
                       /\ d.msg.type = INIT /\ SealedWith(d.msg, n) => a \in origins'[n]
  BY Zenon, <1>2, <1>3
<1>5. origins' \in [Nodes -> SUBSET Addrs]
  BY Zenon, <1>1, <1>3, <1>4
<1>6. NodesInv'
  BY Zenon, <1>1, <1>4, <1>5 DEF KeyInv, NodesInv
<1>7. PeersInv'
  <2>1. ASSUME NEW o \in Nodes
        PROVE  HubPeer(ps[o], o, origins'[o]) \/ (Unstarted(o) /\ ps[o] = ZeroPeer)
    BY Zenon, <1>4, MoreHomes DEF KeyInv, PeersInv
  <2> QED
    BY Zenon, <1>1, <2>1 DEF KeyInv, PeersInv, Unstarted
<1>8. \A x \in net : Sound(x)'
  BY Zenon, <1>1, <1>4 DEF KeyInv, NetInv, Sound, HandshakeFrom, ForRoute
<1>9. Sound(c)'
  <2>1. c.src = a /\ c.dst = HubAddr /\ c.msg = d.msg
    BY Zenon DEF Datagram
  <2>2. Sound(d) /\ \A n \in Nodes : d.msg.key = FromKey(n) => SealedWith(d.msg, n)
    BY Zenon, KeysApart DEF KeyInv, NetInv, SealedWith, Between
  <2> HIDE DEF c
  <2>3. d.msg.type \in {INIT, RESPONSE} => HandshakeFrom(c)'
    BY Zenon, <1>4, <2>1, <2>2 DEF Sound, HandshakeFrom
  <2> QED
    BY Zenon, <1>2, <2>1, <2>2, <2>3 DEF Sound, ForRoute
<1> HIDE DEF c
<1>10. NetInv'
  BY Zenon, <1>1, <1>8, <1>9 DEF NetInv
<1> QED
  BY Zenon, <1>6, <1>7, <1>10 DEF KeyInv

-----------------------------------------------------------------------------
(***************************************************************************)
(* The invariant                                                           *)
(***************************************************************************)

\* At the start no peer has been initialised and the nodes have only their long-term
\* keys.
LEMMA KeyInit == Init => KeyInv
<1> SUFFICES ASSUME Init PROVE KeyInv
  BY Zenon
<1>1. NodesInv
  <2>1. ASSUME NEW n \in Nodes PROVE Owned(node[n], NodeRole(n), n, Hub)
    <3>1. Ephemeral(n, 1)[1] = n
      BY Zenon DEF Ephemeral
    <3>2. node[n] = session_init(NodeRole(n), LongTerm(n), LongTerm(Hub), 1, Ephemeral(n, 1))
      BY Zenon DEF Init
    <3> DEFINE e == Ephemeral(n, 1)
               one == 1
    <3>3. e[1] = n /\ one \in Nat
      BY <3>1
    <3> HIDE DEF e, one
    <3>4. Owned(session_init(NodeRole(n), LongTerm(n), LongTerm(Hub), one, e),
                NodeRole(n), n, Hub)
      BY Zenon, <3>3, InitOwned
    <3> QED
      BY Zenon, <3>2, <3>4 DEF e, one
  <2>2. \A n \in Nodes : Home[n] \in Addrs
    BY Zenon DEF Addrs
  <2> QED
    BY Zenon, <2>1, <2>2 DEF Init, NodesInv
<1>2. PeersInv
  <2>1. ASSUME NEW n \in Nodes PROVE Unstarted(n)
    BY SMTT(30), ListAssumption DEF Init, Unstarted, Nodes
  <2>2. phase \in Phases
    BY SMTT(30), ListAssumption DEF Init, Phases
  <2> QED
    BY Zenon, <2>1, <2>2 DEF Init, PeersInv
<1>3. NetInv
  BY Zenon DEF Init, NetInv
<1> QED
  BY Zenon, <1>1, <1>2, <1>3 DEF KeyInv

\* What WrongGuessHarmless says of one step.
GuessHarmless ==
  phase = <<"udp">> =>
    \A n \in Nodes, d \in net \ net' :
      (d.dst = HubAddr /\ ps'[n].session # ps[n].session) => SealedWith(d.msg, n)

\* What OnlyNewInitMoves says of one step.
MovesForNew ==
  \A n \in Nodes :
    (ps[n].addr_resolved /\ ps'[n].addr # ps[n].addr) => \E d \in net : NewInitOf(n, d)

\* A step that reads d and harms nobody else, one outside the socket's phase and
\* one that leaves the peers alone.
LEMMA GuessCases ==
  /\ \A d \in net : Harmless(d) => GuessHarmless /\ MovesForNew
  /\ phase # <<"udp">> /\ Steady => GuessHarmless /\ MovesForNew
  /\ ps' = ps => GuessHarmless /\ MovesForNew
BY Zenon DEF GuessHarmless, Harmless, MovesForNew, Steady

\* Steps with nothing to read, and with DATA or a RESPONSE from nobody known.
LEMMA IdleKeepsKeys ==
  ASSUME KeyInv, NoTunPacket \/ NoDatagram \/ \E d \in net : UnknownOther(d)
  PROVE  KeyInv' /\ ps' = ps
<1>1. /\ UNCHANGED <<ps, environment>> /\ phase' \in Phases /\ net' \subseteq net
      /\ \A k \in 1 .. Len(PeerList) : phase # <<"start", k>>
  BY Zenon, PhaseFacts DEF NoTunPacket, NoDatagram, UnknownOther, Receive
<1>2. DOMAIN ps' = Nodes /\ \A n \in Nodes : HubPeer(ps'[n], n, origins[n])
  BY Zenon, <1>1, AllStarted DEF KeyInv, PeersInv
<1> QED
  BY Zenon, <1>1, <1>2, SilentKeepsKeys

\* Once the loop runs, every peer was started, and stays so.
LEMMA StaysUntouched ==
  ASSUME Untouched
  PROVE  /\ UNCHANGED <<ps, phase>> => Untouched'
         /\ (\A k \in 1 .. Len(PeerList) : phase' # <<"start", k>>) => Untouched'
BY Zenon DEF Untouched, Unstarted

\* Every step keeps the invariant, no step harms a wrong guess's peer, and none
\* but a new INIT moves an address.
LEMMA KeyNext ==
  ASSUME KeyInv, Untouched, LagOK, [Next]_vars
  PROVE  KeyInv' /\ Untouched' /\ GuessHarmless /\ MovesForNew
<1>1. CASE UNCHANGED vars
  <2>1. KeyInv'
    BY ZenonT(30), <1>1
    DEF vars, KeyInv, NodesInv, PeersInv, NetInv, Unstarted, Sound, HandshakeFrom, ForRoute
  <2> QED
    BY Zenon, <1>1, <2>1, GuessCases, StaysUntouched DEF vars
<1>2. CASE NodeStep
  <2>1. KeyInv'
    BY ZenonT(30), <1>2, NodeInitiateKeepsKeys, NodeHandleInitKeepsKeys,
       NodeHandleResponseKeepsKeys, NodeSendKeepsKeys, MoveKeepsKeys, PassOnKeepsKeys DEF NodeStep
  <2>2. UNCHANGED <<ps, phase>>
    BY Zenon, <1>2 DEF NodeStep, NodeInitiate, NodeHandleInit, NodeHandleResponse, NodeSend, Move,
                PassOn, hub
  <2> QED
    BY Zenon, <2>1, <2>2, GuessCases, StaysUntouched
<1>3. CASE HubStep
  <2>1. CASE phase = <<"udp">>
    <3>1. \/ NoDatagram
          \/ \E d \in net : UnknownOther(d)
          \/ \E d \in net, sent \in BOOLEAN : UnknownInit(d, sent)
          \/ \E n \in Nodes, d \in net, sent \in BOOLEAN :
               \/ KnownInit(n, d, sent) \/ KnownResponse(n, d)
               \/ KnownData(n, d, sent) \/ Unexpected(n, d)
      <4>1. \A k, ok, t : ~ StartPeer(k, ok, t)
        BY Zenon, <2>1, PhaseFacts DEF StartPeer
      <4>2. \A k, ok, t : ~ Timers(k, ok, t)
        BY <2>1 DEF Timers
      <4>3. ~ Wait /\ ~ NoTunPacket
        BY <2>1 DEF Wait, NoTunPacket
      <4>4. \A packet, sent : ~ TunRead(packet, sent)
        BY <2>1 DEF TunRead
      <4> QED
        BY Zenon, <1>3, <4>1, <4>2, <4>3, <4>4 DEF HubStep
    <3>2. (NoDatagram \/ \E d \in net : UnknownOther(d)) =>
            KeyInv' /\ GuessHarmless /\ MovesForNew
      BY Zenon, IdleKeepsKeys, GuessCases
    <3>3. \A d \in net, sent \in BOOLEAN :
            UnknownInit(d, sent) => KeyInv' /\ GuessHarmless /\ MovesForNew
      BY Zenon, UnknownInitKeepsKeys, GuessCases
    <3>4. ASSUME NEW n \in Nodes, NEW d \in net, NEW sent \in BOOLEAN,
                 \/ KnownInit(n, d, sent) \/ KnownResponse(n, d)
                 \/ KnownData(n, d, sent) \/ Unexpected(n, d)
          PROVE  KeyInv' /\ GuessHarmless /\ MovesForNew
      BY Zenon, <3>4, KnownInitKeepsKeys, KnownResponseKeepsKeys, KnownDataKeepsKeys,
         UnexpectedKeepsKeys, GuessCases
    <3>5. phase' = <<"timers", 1>>
      <4>1. \A d, out, ok : Receive(d, out, ok) => phase' = <<"timers", 1>>
        BY Zenon DEF Receive
      <4>2. NoDatagram => phase' = <<"timers", 1>>
        BY Zenon DEF NoDatagram
      <4>3. \A d, sent : UnknownInit(d, sent) => phase' = <<"timers", 1>>
        BY Zenon, <4>1 DEF UnknownInit
      <4>4. \A n, d, sent : KnownInit(n, d, sent) => phase' = <<"timers", 1>>
        BY ZenonT(30), <4>1 DEF KnownInit
      <4>5. \A n, d, sent : KnownData(n, d, sent) => phase' = <<"timers", 1>>
        BY <4>1 DEF KnownData
      <4>6. \A n, d : UnknownOther(d) \/ KnownResponse(n, d) \/ Unexpected(n, d) =>
                       phase' = <<"timers", 1>>
        BY Zenon, <4>1 DEF UnknownOther, KnownResponse, Unexpected
      <4> QED
        BY Zenon, <3>1, <4>2, <4>3, <4>4, <4>5, <4>6
    <3> QED
      BY Zenon, <3>1, <3>2, <3>3, <3>4, <3>5, StaysUntouched, PhaseFacts
  <2>2. CASE phase # <<"udp">>
    <3>0. /\ ~ NoDatagram
          /\ \A d, sent : ~ UnknownInit(d, sent) /\ ~ UnknownOther(d)
          /\ \A n, d, sent : /\ ~ KnownInit(n, d, sent) /\ ~ KnownResponse(n, d)
                             /\ ~ KnownData(n, d, sent) /\ ~ Unexpected(n, d)
      <4>1. \A d, out, ok : ~ Receive(d, out, ok)
        BY Zenon, <2>2 DEF Receive
      <4>2. ~ NoDatagram
        BY <2>2 DEF NoDatagram
      <4>3. \A d, sent : ~ UnknownInit(d, sent)
        BY Zenon, <4>1 DEF UnknownInit
      <4>4. \A n, d, sent : ~ KnownInit(n, d, sent)
        BY ZenonT(30), <4>1 DEF KnownInit
      <4>5. \A n, d, sent : ~ KnownData(n, d, sent)
        BY <4>1 DEF KnownData
      <4>6. \A n, d : ~ UnknownOther(d) /\ ~ KnownResponse(n, d) /\ ~ Unexpected(n, d)
        BY Zenon, <4>1 DEF UnknownOther, KnownResponse, Unexpected
      <4> QED
        BY Zenon, <4>2, <4>3, <4>4, <4>5, <4>6
    <3>1. \/ \E k \in 1 .. Len(PeerList), ok \in BOOLEAN, t \in ResolveTimes :
               StartPeer(k, ok, t) \/ Timers(k, ok, t)
          \/ Wait
          \/ NoTunPacket
          \/ \E packet \in Packets, sent \in BOOLEAN : TunRead(packet, sent)
      BY Zenon, <1>3, <3>0 DEF HubStep
    <3>2. ASSUME NEW k \in 1 .. Len(PeerList), NEW ok \in BOOLEAN, NEW t \in ResolveTimes,
                 Timers(k, ok, t)
          PROVE  KeyInv' /\ Untouched' /\ Steady
      <4>1. phase' \in {<<"tun">>, <<"timers", After(k)>>}
        BY Zenon, <3>2 DEF Timers
      <4>2. \A j \in 1 .. Len(PeerList) : phase' # <<"start", j>>
        BY Zenon, <4>1, PhaseFacts
      <4>3. Untouched'
        BY Zenon, <4>2, StaysUntouched
      <4> QED
        BY Zenon, <3>2, <4>3, TimersKeepKeys
    <3>3. Wait => KeyInv' /\ Untouched' /\ Steady
      BY Zenon, WaitKeepsKeys, StaysUntouched, PhaseFacts DEF Wait
    <3>4. NoTunPacket => KeyInv' /\ Untouched' /\ Steady
      BY Zenon, IdleKeepsKeys, StaysUntouched, PhaseFacts DEF NoTunPacket, Steady
    <3>5. ASSUME NEW packet \in Packets, NEW sent \in BOOLEAN, TunRead(packet, sent)
          PROVE  KeyInv' /\ Untouched' /\ Steady
      <4>1. phase' = <<"udp">>
        BY Zenon, <3>5 DEF TunRead
      <4> QED
        BY Zenon, <3>5, <4>1, TunReadKeepsKeys, StaysUntouched, PhaseFacts
    <3>6. KeyInv' /\ Untouched' /\ Steady
      BY Zenon, <3>1, <3>2, <3>3, <3>4, <3>5, StartKeepsKeys
    <3> QED
      BY Zenon, <2>2, <3>6, GuessCases
  <2> QED
    BY Zenon, <2>1, <2>2
<1> QED
  BY Zenon, <1>1, <1>2, <1>3 DEF Next

\* A pass begins without lag.
LEMMA LagInit == Init => LagOK
BY DEF Init, LagOK

\* Only the timers move the lag, and end with what is left of it.
LEMMA LagNext == LagOK /\ [Next]_vars => LagOK'
<1> SUFFICES ASSUME LagOK, [Next]_vars PROVE LagOK'
  BY Zenon
<1>1. ASSUME NEW k, NEW ok, NEW t \in ResolveTimes, Timers(k, ok, t) PROVE LagOK'
  <2>1. lag' = lag + t - (IF After(k) = 0 THEN lag + t ELSE 0)
    BY Zenon, <1>1 DEF Timers
  <2> QED
    BY <2>1, ResolveAssumption DEF LagOK
<1>2. ASSUME UNCHANGED lag PROVE LagOK'
  BY Zenon, <1>2 DEF LagOK
<1>3. CASE NodeStep \/ UNCHANGED vars
  BY Zenon, <1>2, <1>3
  DEF NodeStep, NodeInitiate, NodeHandleInit, NodeHandleResponse, NodeSend, Move, PassOn,
      hub, vars
<1>4. CASE HubStep
  <2>1. ASSUME NEW k, NEW resolved, NEW t, StartPeer(k, resolved, t) PROVE UNCHANGED lag
    BY Zenon, <2>1 DEF StartPeer
  <2>2. (Wait \/ NoTunPacket \/ NoDatagram) => UNCHANGED lag
    BY Zenon DEF Wait, NoTunPacket, NoDatagram
  <2>3. ASSUME NEW packet, NEW sent, TunRead(packet, sent) PROVE UNCHANGED lag
    BY Zenon, <2>3 DEF TunRead
  <2>4. ASSUME NEW d, NEW sent, UnknownInit(d, sent) PROVE UNCHANGED lag
    BY Zenon, <2>4 DEF UnknownInit
  <2>5. ASSUME NEW n, NEW d, NEW sent, KnownInit(n, d, sent) PROVE UNCHANGED lag
    BY Zenon, <2>5 DEF KnownInit
  <2>6. ASSUME NEW n, NEW d, NEW written, KnownData(n, d, written) PROVE UNCHANGED lag
    BY Zenon, <2>6 DEF KnownData
  <2>7. ASSUME NEW n, NEW d, UnknownOther(d) \/ KnownResponse(n, d) \/ Unexpected(n, d)
        PROVE  UNCHANGED lag
    BY Zenon, <2>7 DEF UnknownOther, KnownResponse, Unexpected
  <2> QED
    BY Zenon, <1>1, <1>2, <1>4, <2>1, <2>2, <2>3, <2>4, <2>5, <2>6, <2>7 DEF HubStep
<1> QED
  BY Zenon, <1>3, <1>4 DEF Next

\* The invariant with what its steps rest on.
FullInv == KeyInv /\ Untouched /\ LagOK

\* FullInv is inductive.
LEMMA FullAlways == Spec => []FullInv
<1>1. Init => FullInv
  <2>1. Init => Untouched
    <3>1. ~ ZeroPeer.addr_resolved
      BY SMTT(30) DEF ZeroPeer
    <3> QED
      BY Zenon, <3>1 DEF Init, Untouched
  <2> QED
    BY Zenon, <2>1, KeyInit, LagInit DEF FullInv
<1>2. FullInv /\ [Next]_vars => FullInv'
  BY Zenon, KeyNext, LagNext DEF FullInv
<1> QED
  BY <1>1, <1>2, PTL DEF Spec

\* The sessions, the addresses and everything in flight belong to whom the hub
\* thinks they do: session.c derives, and main.c stores, nobody else's.
THEOREM KeysAlwaysRight == Spec => []KeyInv
<1>1. FullInv => KeyInv
  BY Zenon DEF FullInv
<1> QED
  BY <1>1, FullAlways, PTL

-----------------------------------------------------------------------------
(***************************************************************************)
(* What follows from it                                                    *)
(***************************************************************************)

\* What TypeOK says of a peer's record.
PeerTyped(p) ==
  /\ p.addr_resolved \in BOOLEAN
  /\ p.addr \in Addrs \union {NoAddr}
  /\ p.rx_age \in 0 .. TIMEOUT
  /\ p.tx_age \in 0 .. KEEPALIVE
  /\ p.key_age \in 0 .. ROTATION
  /\ \A f \in DOMAIN ZeroStats : p.stats[f] \in Nat
  /\ p.session.replay \in ReplayState

\* The record that peer_init has not origins called on has its types too.
LEMMA ZeroPeerTyped == PeerTyped(ZeroPeer)
<1>1. /\ ZeroPeer.addr_resolved \in BOOLEAN /\ ZeroPeer.addr = NoAddr
      /\ ZeroPeer.rx_age = TIMEOUT /\ ZeroPeer.tx_age = KEEPALIVE
      /\ ZeroPeer.key_age = ROTATION
      /\ ZeroPeer.stats = ZeroStats /\ ZeroPeer.session = NoSession
  BY Zenon DEF ZeroPeer
<1>2. \A f \in DOMAIN ZeroStats : ZeroStats[f] \in Nat
  BY DEF ZeroStats
<1>3. NoSession.replay \in ReplayState
  BY Zenon DEF NoSession, session_init, session_start_handshake, ResetReplay, ZeroReplayState,
         ReplayState
<1> QED
  BY SMTT(30), <1>1, <1>2, <1>3, TimerAssumption DEF PeerTyped

\* Every record of the hub, the phase of its loop and every datagram have their
\* types in every state.
THEOREM TypesAlwaysOK == Spec => []TypeOK
<1>1. ASSUME KeyInv PROVE TypeOK
  <2>1. ASSUME NEW n \in Nodes, HubPeer(ps[n], n, origins[n])
        PROVE  PeerTyped(ps[n])
    <3>1. /\ ps[n].stats \in Stats /\ ps[n].session.replay \in ReplayState
          /\ PlacedPeer(ps[n], origins[n])
      BY Zenon, <2>1 DEF HubPeer, PlacedPeer, Owned
    <3>2. \A f \in DOMAIN ZeroStats : ps[n].stats[f] \in Nat
      BY <3>1 DEF Stats, ZeroStats
    <3> QED
      BY Zenon, <3>1, <3>2 DEF PlacedPeer, PeerTyped
  <2>2. \A n \in Nodes : PeerTyped(ps[n])
    BY Zenon, <1>1, <2>1, ZeroPeerTyped DEF KeyInv, PeersInv
  <2>3. phase \in Phases /\ \A d \in net : Sound(d)
    BY Zenon, <1>1 DEF KeyInv, PeersInv, NetInv
  <2>4. \A d \in net : /\ d.src \in Addrs \union {HubAddr}
                       /\ d.dst \in Addrs \union {HubAddr, NoAddr}
    BY Zenon, <2>3 DEF Sound
  <2> QED
    BY ZenonT(30), <2>2, <2>3, <2>4 DEF TypeOK, PeerTyped, Phases
<1> QED
  BY <1>1, KeysAlwaysRight, PTL

\* An address the hub holds is one its peer has had, or one that an INIT of that
\* peer was passed on from: find_responder_for_init and the attribution by address
\* never store what only others have sent from (main.c, the UDP branch).
THEOREM AddressAlwaysVouched == Spec => []AddressVouched
<1>1. ASSUME KeyInv PROVE AddressVouched
  <2>1. ~ ZeroPeer.addr_resolved
    BY SMTT(30) DEF ZeroPeer
  <2> QED
    BY Zenon, <1>1, <2>1 DEF KeyInv, PeersInv, HubPeer, PlacedPeer, AddressVouched
<1> QED
  BY <1>1, KeysAlwaysRight, PTL

\* What the hub sends in DATA is sealed with a key of the peer that routing_lookup
\* names for its destination, and a packet without a route is not sent.
THEOREM AlwaysSealedForRoute == Spec => []SealedForRoute
<1>1. ASSUME KeyInv PROVE SealedForRoute
  BY Zenon, <1>1 DEF KeyInv, NetInv, Sound, ForRoute, SealedForRoute
<1> QED
  BY <1>1, KeysAlwaysRight, PTL

\* Reading a datagram changes no session but one whose key it is sealed with,
\* although every responder session may be tried and its sender's address may be
\* another peer's.
THEOREM WrongGuessAlwaysHarmless == Spec => WrongGuessHarmless
<1>1. WrongGuessHarmless <=> [][GuessHarmless]_vars
  BY PTL DEF WrongGuessHarmless, GuessHarmless
<1>2. FullInv /\ [Next]_vars => [GuessHarmless]_vars
  BY Zenon, KeyNext DEF FullInv
<1> QED
  BY <1>1, <1>2, FullAlways, PTL DEF Spec

\* A known address changes only for an INIT of its peer from the new address that is
\* newer than all the hub has accepted from that peer: a copy of one the hub has seen,
\* late, duplicated or passed on, moves nothing (main.c, peer_set_addr).
THEOREM OnlyNewInitsMove == Spec => OnlyNewInitMoves
<1>1. OnlyNewInitMoves <=> [][MovesForNew]_vars
  BY PTL DEF OnlyNewInitMoves, MovesForNew, NewInitOf
<1>2. FullInv /\ [Next]_vars => [MovesForNew]_vars
  BY Zenon, KeyNext DEF FullInv
<1> QED
  BY <1>1, <1>2, FullAlways, PTL DEF Spec
=============================================================================
