------------------------------- MODULE Daemon -------------------------------
(***************************************************************************)
(* The daemon (src/src/main.c): the event loop of one node, called the     *)
(* hub, that shares one UDP socket and one TUN device between all of its   *)
(* peers.                                                                  *)
(*                                                                         *)
(* One iteration of the loop reads at most one packet from the TUN device, *)
(* then at most one datagram from the socket, then looks at the timers of  *)
(* every peer in turn; phase says where in the iteration the hub is.       *)
(* Instead of the three timestamps of a peer the model keeps their ages,   *)
(* which saturate at the interval they are compared with.  Time passes in  *)
(* poll and in udp_resolve, which may block; the pass over the timers goes *)
(* by one reading of the clock, made before the calls that block.          *)
(*                                                                         *)
(* The nodes at the other end run the same program; what they do is kept   *)
(* to the calls of the session module, and to moving to another address.   *)
(* The network loses, duplicates and reorders datagrams, and passes them   *)
(* on from addresses that are not their sender's.                          *)
(***************************************************************************)
EXTENDS Session, Routing

CONSTANTS
  PeerList,     \* the [Peer] sections, in the order of the file: node names
  RoleOf,       \* RoleOf[n]: the Role of n's section, which the hub plays
  Routes,       \* the routing table: the AllowedIPs of PeerList
  Packets,      \* packets the kernel hands to the hub's TUN device
  Home,         \* Home[n]: the address (host and port) n starts at
  Moves,        \* Moves[n]: the addresses n may move to
  Relays,       \* addresses that datagrams may be passed on from
  ResolveTimes, \* how long udp_resolve may take, in units of the clock
  KEEPALIVE,    \* KEEPALIVE_INTERVAL_MS, in units of the model's clock
  TIMEOUT,      \* SESSION_TIMEOUT_MS
  ROTATION,     \* KEY_ROTATION_INTERVAL_MS
  MaxTime,      \* bound: units of time
  MaxInits,     \* bound, MaxInits[n]: INITs of node n
  MaxData,      \* bound, MaxData[n]: DATA of node n under one key
  MaxTun,       \* bound: packets from the hub's TUN device
  MaxFaults     \* bound: failed system calls, datagrams duplicated or passed on

Nodes   == {PeerList[k] : k \in 1 .. Len(PeerList)}
Hub     == "hub"
HubAddr == "hub"
NoAddr  == "none"   \* a sockaddr_in of zeros
NULL    == "NULL"   \* no peer
Addrs   == {Home[n] : n \in Nodes} \union (UNION {Moves[n] : n \in Nodes}) \union Relays

\* The hub has a peer: without one, main.c only captures packets.
ASSUME ListAssumption  == /\ Len(PeerList) \in Nat \ {0} /\ Len(Routes) = Len(PeerList)
                          /\ \A j, k \in 1 .. Len(PeerList) :
                               PeerList[j] = PeerList[k] => j = k
                          /\ NULL \notin Nodes /\ Hub \notin Nodes
                          /\ HubAddr \notin Addrs /\ NoAddr \notin Addrs
ASSUME TimerAssumption == /\ KEEPALIVE \in Nat /\ TIMEOUT \in Nat /\ ROTATION \in Nat
                          /\ 0 < KEEPALIVE /\ KEEPALIVE < TIMEOUT /\ TIMEOUT < ROTATION
ASSUME ResolveAssumption == 0 \in ResolveTimes /\ ResolveTimes \subseteq Nat

VARIABLES
  ps,         \* ps[n]: the hub's peer_session_t for n
  phase,      \* where the hub is: <<"start", k>>, <<"tun">>, <<"udp">>
              \* or <<"timers", k>>
  generated,  \* generated[x]: ephemeral key pairs x has generated
  net,        \* datagrams in flight
  node,       \* node[n]: n's session with the hub
  at,         \* at[n]: n's address
  time,       \* units of time passed
  tun,        \* packets read from the hub's TUN device
  faults,     \* failures so far
  lag,        \* age of the reading of the clock that the timers go by
  origins,    \* origins[n]: history, the addresses n has had and those that an
              \* INIT of n was passed on from
  unanswered, \* unanswered[n]: history, sending a RESPONSE to n has failed
  since       \* since[n]: history, the age of the reading of the clock that the
              \* hub's last attempt at a handshake with n went by

vars == <<ps, phase, generated, net, node, at, time, tun, faults, lag, origins,
          unanswered, since>>
environment == <<node, at, origins>>

FreshKey(x, i) == Ephemeral(x, generated[x] + i)
Datagram(src, dst, msg) == [src |-> src, dst |-> dst, msg |-> msg]

EMPTY_PAYLOAD == [len |-> 0, version |-> 0, dest |-> 0]   \* a keepalive

ZeroStats == [packets_tx |-> 0, packets_rx |-> 0, handshakes |-> 0,
              auth_failures |-> 0, drops |-> 0]

\* A call that may fail does so at the price of one fault.
Fails(ok, cost) ==
  LET price == cost + IF ok THEN 0 ELSE 1
  IN  faults + price <= MaxFaults /\ faults' = faults + price

-----------------------------------------------------------------------------
(***************************************************************************)
(* Startup and initiate_handshake                                          *)
(***************************************************************************)

\* The hub's record for n before the loop over the peers reaches it: memset.
\* A timestamp of 0 is as old as any.
NoSession == session_init(INITIATOR, Wiped, Wiped, 0, Wiped)
ZeroPeer == [addr_resolved |-> FALSE, addr |-> NoAddr, session |-> NoSession,
             rx_age |-> TIMEOUT, tx_age |-> KEEPALIVE, key_age |-> ROTATION,
             stats |-> ZeroStats]

\* p after initiate_handshake; resolved says whether udp_resolve would answer,
\* which it does with n's address of the moment.
CanSendInit(p, resolved) == p.addr_resolved \/ resolved
initiate_handshake(p, n, eph, resolved) ==
  IF ~ CanSendInit(p, resolved) THEN [p EXCEPT !.rx_age = 0]
  ELSE [p EXCEPT !.addr = IF p.addr_resolved THEN @ ELSE at[n],
                 !.addr_resolved = TRUE,
                 !.session = session_build_init(session_start_handshake(@, eph)),
                 !.rx_age = 0, !.tx_age = 0]

\* What it sends.  A udp_send that fails changes nothing, like a lost datagram.
InitDatagrams(p, n, eph, resolved) ==
  IF ~ CanSendInit(p, resolved) THEN {}
  ELSE {Datagram(HubAddr, initiate_handshake(p, n, eph, resolved).addr,
                 InitMessage(session_start_handshake(p.session, eph)))}

\* Mutant: the loop runs past the last peer.
AfterPastEnd(k) == IF k <= Len(PeerList) THEN k + 1 ELSE 0
\* The next turn of a loop over the peers; 0 ends it.
After(k) == IF k < Len(PeerList) THEN k + 1 ELSE 0

\* t units of time pass: a timestamp that is t older, or old enough.
Aged(age, t, limit) == IF age + t < limit THEN age + t ELSE limit
Older(p, t) == [p EXCEPT !.rx_age  = Aged(@, t, TIMEOUT),
                         !.tx_age  = Aged(@, t, KEEPALIVE),
                         !.key_age = Aged(@, t, ROTATION)]

\* The peers were as in peers, the last attempts as old as in attempts, and t
\* units of time have passed since.
Later(peers, attempts, t) ==
  /\ ps' = [n \in Nodes |-> Older(peers[n], t)]
  /\ since' = [n \in Nodes |-> Aged(attempts[n], t, TIMEOUT)]

\* A call takes t units of time.
Takes(t) == time + t <= MaxTime /\ time' = time + t

\* session_init and, toward a peer that the hub initiates, the first handshake.
\* Its timestamps are of before udp_resolve, which takes t.
StartPeer(k, resolved, t) ==
  LET n == PeerList[k]
      p == [ZeroPeer EXCEPT
              !.session = session_init(RoleOf[n], LongTerm(Hub), LongTerm(n), 1,
                                       FreshKey(Hub, 1)),
              !.rx_age  = 0]
  IN  /\ phase = <<"start", k>>
      /\ Takes(t)
      /\ IF RoleOf[n] = INITIATOR
         THEN /\ Fails(resolved, 0)
              /\ Later([ps EXCEPT ![n] = initiate_handshake(p, n, FreshKey(Hub, 2), resolved)],
                       [since EXCEPT ![n] = 0], t)
              /\ net' = net \union InitDatagrams(p, n, FreshKey(Hub, 2), resolved)
              /\ generated' = [generated EXCEPT
                                 ![Hub] = @ + IF CanSendInit(p, resolved) THEN 2 ELSE 1]
         ELSE /\ resolved /\ t = 0
              /\ ps' = [ps EXCEPT ![n] = p]
              /\ generated' = [generated EXCEPT ![Hub] = @ + 1]
              /\ UNCHANGED <<net, faults, since>>
      /\ phase' = IF After(k) = 0 THEN <<"tun">> ELSE <<"start", After(k)>>
      /\ UNCHANGED <<environment, tun, lag, unanswered>>

-----------------------------------------------------------------------------
(***************************************************************************)
(* The TUN device is readable                                              *)
(***************************************************************************)

\* poll waits.
Wait ==
  /\ phase = <<"tun">>
  /\ Takes(1)
  /\ Later(ps, since, 1)
  /\ UNCHANGED <<phase, generated, net, environment, tun, faults, lag, unanswered>>

NoTunPacket ==
  /\ phase = <<"tun">>
  /\ phase' = <<"udp">>
  /\ UNCHANGED <<ps, generated, net, environment, time, tun, faults, lag, unanswered, since>>

\* Mutant: the peer after the one the route names.
TunPeerNext(k) == PeerList[(k % Len(PeerList)) + 1]
\* The peer main.c takes a packet to, by the index routing found.
TunPeer(k) == PeerList[k]

\* p after a DATA packet was sealed for it and given to udp_send.
AfterSend(p, sent) ==
  IF sent THEN [p EXCEPT !.session = session_seal_data(@),
                         !.tx_age = 0,
                         !.stats.packets_tx = @ + 1]
  ELSE [p EXCEPT !.session = session_seal_data(@)]

TunRead(packet, sent) ==
  LET k == RouteOf(Routes, packet)
      n == TunPeer(k)
  IN  /\ phase = <<"tun">>
      /\ tun < MaxTun
      /\ tun' = tun + 1
      /\ phase' = <<"udp">>
      /\ \/ /\ k = NoPeer
            /\ sent
            /\ UNCHANGED <<ps, net, faults>>
         \/ /\ k # NoPeer
            /\ ~ CanSealData(ps[n].session)
            /\ sent
            /\ ps' = [ps EXCEPT ![n].stats.drops = @ + 1]
            /\ UNCHANGED <<net, faults>>
         \/ /\ k # NoPeer
            /\ CanSealData(ps[n].session)
            /\ Fails(sent, 0)
            /\ ps' = [ps EXCEPT ![n] = AfterSend(@, sent)]
            /\ net' = IF sent
                      THEN net \union {Datagram(HubAddr, ps[n].addr,
                                                DataMessage(ps[n].session, packet))}
                      ELSE net
      /\ UNCHANGED <<generated, environment, time, lag, unanswered, since>>

-----------------------------------------------------------------------------
(***************************************************************************)
(* The UDP socket is readable                                              *)
(***************************************************************************)
\* The first of the peers, in the order of the file, that satisfies a test.
FirstPeer(test(_)) ==
  LET first == {k \in 1 .. Len(PeerList) :
                  test(PeerList[k]) /\ \A j \in 1 .. k - 1 : ~ test(PeerList[j])}
  IN  IF first = {} THEN NULL ELSE PeerList[CHOOSE k \in first : TRUE]

find_peer_by_addr(from) ==
  FirstPeer(LAMBDA n : ps[n].addr_resolved /\ ps[n].addr = from)

\* Mutant: the first responder session is taken without its verdict.
FirstResponder(m) == FirstPeer(LAMBDA n : RoleOf[n] = RESPONDER)
find_responder_for_init(m) ==
  FirstPeer(LAMBDA n : RoleOf[n] = RESPONDER /\ CanHandleInit(ps[n].session, m))

\* d is read; the network may have kept a copy of it.  What the handler sends
\* is out, and ok says whether the calls it makes succeed.
Receive(d, out, ok) ==
  /\ phase = <<"udp">>
  /\ d.dst = HubAddr
  /\ phase' = <<"timers", 1>>
  /\ \/ Fails(ok, 0) /\ net' = (net \ {d}) \union out
     \/ Fails(ok, 1) /\ net' = net \union out

NoDatagram ==
  /\ phase = <<"udp">>
  /\ phase' = <<"timers", 1>>
  /\ UNCHANGED <<ps, generated, net, environment, time, tun, faults, lag, unanswered, since>>

\* p's session after session_handle_init, and the key pairs that costs.
HandledInit(p, m) == [p EXCEPT !.session = session_handle_init(@, m, FreshKey(Hub, 1))]
KeysForInit(p, m) ==
  IF FreshInit(p.session, m) /\ p.session.state = ESTABLISHED THEN 1 ELSE 0

Answered(p) == [p EXCEPT !.rx_age = 0, !.tx_age = 0, !.key_age = 0,
                         !.stats.handshakes = @ + 1]
\* Mutant: the address is stored but not marked as known.
LearnedUnmarked(p, from) == [p EXCEPT !.addr = from]
Learned(p, from) == [p EXCEPT !.addr = from, !.addr_resolved = TRUE]

Response(n, d, dst) ==
  Datagram(HubAddr, dst, ResponseMessage(ps[n].session, d.msg, FreshKey(Hub, 1)))

\* An INIT from an unknown address: every responder session up to the one that
\* accepts it is tried.
UnknownInit(d, sent) ==
  LET matched == find_responder_for_init(d.msg)
      tries   == {n \in Nodes : /\ RoleOf[n] = RESPONDER
                                /\ \A k, j \in 1 .. Len(PeerList) :
                                     (PeerList[k] = n /\ PeerList[j] = matched) => k <= j}
  IN  /\ find_peer_by_addr(d.src) = NULL
      /\ d.msg.type = INIT
      /\ matched = NULL => sent
      /\ Receive(d, IF matched # NULL /\ sent THEN {Response(matched, d, d.src)} ELSE {},
                 sent)
      /\ ps' = [n \in Nodes |->
                  LET p == IF n \in tries THEN HandledInit(ps[n], d.msg) ELSE ps[n]
                  IN  IF n = matched /\ sent THEN Answered(Learned(p, d.src)) ELSE p]
      /\ generated' = IF \E n \in tries : KeysForInit(ps[n], d.msg) = 1
                      THEN [generated EXCEPT ![Hub] = @ + 1] ELSE generated
      /\ unanswered' = [n \in Nodes |-> unanswered[n] \/ (n = matched /\ ~ sent)]
      /\ UNCHANGED <<environment, time, tun, lag, since>>

UnknownOther(d) ==
  /\ find_peer_by_addr(d.src) = NULL
  /\ d.msg.type # INIT
  /\ Receive(d, {}, TRUE)
  /\ UNCHANGED <<ps, generated, environment, time, tun, lag, unanswered, since>>

\* An INIT attributed to a peer by its address.
KnownInit(n, d, sent) ==
  LET accepted == CanHandleInit(ps[n].session, d.msg)
      p        == HandledInit(ps[n], d.msg)
  IN  /\ n = find_peer_by_addr(d.src)
      /\ d.msg.type = INIT /\ RoleOf[n] = RESPONDER
      /\ ~ accepted => sent
      /\ Receive(d, IF accepted /\ sent THEN {Response(n, d, ps[n].addr)} ELSE {}, sent)
      /\ ps' = [ps EXCEPT ![n] =
                  IF ~ accepted THEN [p EXCEPT !.stats.auth_failures = @ + 1]
                  ELSE IF sent THEN Answered(p) ELSE p]
      /\ generated' = [generated EXCEPT ![Hub] = @ + KeysForInit(ps[n], d.msg)]
      /\ unanswered' = [unanswered EXCEPT ![n] = @ \/ ~ sent]
      /\ UNCHANGED <<environment, time, tun, lag, since>>

\* Mutant: the completion does not restart the age of the keys.
KnownResponseKeepsAge(n, d) ==
  LET s == ps[n].session
  IN  /\ n = find_peer_by_addr(d.src)
      /\ d.msg.type = RESPONSE /\ RoleOf[n] = INITIATOR
      /\ Receive(d, {}, TRUE)
      /\ ps' = [ps EXCEPT ![n] =
                  IF CanHandleResponse(s, d.msg)
                  THEN [ps[n] EXCEPT !.session = session_handle_response(s, d.msg),
                                     !.rx_age = 0,
                                     !.stats.handshakes = @ + 1]
                  ELSE [ps[n] EXCEPT !.stats.auth_failures = @ + 1]]
      /\ UNCHANGED <<generated, environment, time, tun, lag, unanswered, since>>
KnownResponse(n, d) ==
  LET s == ps[n].session
  IN  /\ n = find_peer_by_addr(d.src)
      /\ d.msg.type = RESPONSE /\ RoleOf[n] = INITIATOR
      /\ Receive(d, {}, TRUE)
      /\ ps' = [ps EXCEPT ![n] =
                  IF CanHandleResponse(s, d.msg)
                  THEN [ps[n] EXCEPT !.session = session_handle_response(s, d.msg),
                                     !.rx_age = 0, !.key_age = 0,
                                     !.stats.handshakes = @ + 1]
                  ELSE [ps[n] EXCEPT !.stats.auth_failures = @ + 1]]
      /\ UNCHANGED <<generated, environment, time, tun, lag, unanswered, since>>

KnownData(n, d, written) ==
  LET s == ps[n].session
      opened == [ps[n] EXCEPT !.session = session_open_data(s, d.msg)]
      isPacket == CanOpenData(s, d.msg) /\ d.msg.body # EMPTY_PAYLOAD
  IN  /\ n = find_peer_by_addr(d.src)
      /\ d.msg.type = DATA
      /\ ~ isPacket => written
      /\ Receive(d, {}, written)
      /\ ps' = [ps EXCEPT ![n] =
                  CASE ~ CanOpenData(s, d.msg) ->
                         [opened EXCEPT !.stats.auth_failures = @ + 1,
                                        !.stats.drops = @ + 1]
                    [] CanOpenData(s, d.msg) /\ ~ isPacket -> [opened EXCEPT !.rx_age = 0]
                    [] isPacket /\ written -> [opened EXCEPT !.rx_age = 0,
                                                             !.stats.packets_rx = @ + 1]
                    [] isPacket /\ ~ written -> opened]
      /\ UNCHANGED <<generated, environment, time, tun, lag, unanswered, since>>

\* A handshake message that does not fit the hub's role toward its sender.
Unexpected(n, d) ==
  /\ n = find_peer_by_addr(d.src)
  /\ \/ d.msg.type = INIT /\ RoleOf[n] = INITIATOR
     \/ d.msg.type = RESPONSE /\ RoleOf[n] = RESPONDER
  /\ Receive(d, {}, TRUE)
  /\ ps' = [ps EXCEPT ![n].stats.drops = @ + 1]
  /\ UNCHANGED <<generated, environment, time, tun, lag, unanswered, since>>

-----------------------------------------------------------------------------
(***************************************************************************)
(* The timers of one peer: keepalive, then dead peer or key rotation       *)
(***************************************************************************)
KeepaliveDue(p) ==
  p.addr_resolved /\ CanSealData(p.session) /\ p.tx_age >= KEEPALIVE

AfterKeepalive(p, sent) ==
  IF KeepaliveDue(p) THEN [AfterSend(p, sent) EXCEPT !.tx_age = 0] ELSE p

HandshakeDue(p, n) ==
  /\ RoleOf[n] = INITIATOR
  /\ \/ p.rx_age >= TIMEOUT
     \/ p.session.state = ESTABLISHED /\ p.key_age >= ROTATION

\* ok covers the two calls a failure of which matters here, udp_send of a
\* keepalive and udp_resolve: an iteration never makes both for one peer.  The
\* ages are those at the reading of the clock before the pass: what udp_resolve
\* takes, t, shows only after it.
Timers(k, ok, t) ==
  LET n == PeerList[k]
      p == AfterKeepalive(ps[n], ok)
      keepalive == IF KeepaliveDue(ps[n]) /\ ok
                   THEN {Datagram(HubAddr, ps[n].addr,
                                  DataMessage(ps[n].session, EMPTY_PAYLOAD))}
                   ELSE {}
      resolving == HandshakeDue(p, n) /\ ~ p.addr_resolved
      passed    == IF After(k) = 0 THEN lag + t ELSE 0
  IN  /\ phase = <<"timers", k>>
      /\ ~ (KeepaliveDue(ps[n]) \/ resolving) => ok
      /\ ~ resolving => t = 0
      /\ Fails(ok, 0)
      /\ Takes(t)
      /\ lag' = lag + t - passed
      /\ IF HandshakeDue(p, n)
         THEN /\ Later([ps EXCEPT ![n] = initiate_handshake(p, n, FreshKey(Hub, 1), ok)],
                       [since EXCEPT ![n] = 0], passed)
              /\ net' = net \union keepalive
                            \union InitDatagrams(p, n, FreshKey(Hub, 1), ok)
              /\ generated' = [generated EXCEPT
                                 ![Hub] = @ + IF CanSendInit(p, ok) THEN 1 ELSE 0]
         ELSE /\ Later([ps EXCEPT ![n] = p], since, passed)
              /\ net' = net \union keepalive
              /\ UNCHANGED generated
      /\ phase' = IF After(k) = 0 THEN <<"tun">> ELSE <<"timers", After(k)>>
      /\ UNCHANGED <<environment, tun, unanswered>>

-----------------------------------------------------------------------------
(***************************************************************************)
(* The other nodes and the network                                         *)
(***************************************************************************)
NodeRole(n) == IF RoleOf[n] = INITIATOR THEN RESPONDER ELSE INITIATOR

\* The hub's variables, which a step of another node leaves alone.
hub == <<ps, phase, time, tun, faults, lag, unanswered, since>>

NodeInitiate(n) ==
  LET s == session_start_handshake(node[n], FreshKey(n, 1))
  IN  /\ CanBuildInit(s)
      /\ node[n].handshake_counter <= MaxInits[n]
      /\ node' = [node EXCEPT ![n] = session_build_init(s)]
      /\ net' = net \union {Datagram(at[n], HubAddr, InitMessage(s))}
      /\ generated' = [generated EXCEPT ![n] = @ + 1]
      /\ UNCHANGED <<hub, at, origins>>

NodeHandleInit(n, d) ==
  LET s == node[n]
  IN  /\ d.dst = at[n]
      /\ CanHandleInit(s, d.msg)
      /\ node' = [node EXCEPT ![n] = session_handle_init(s, d.msg, FreshKey(n, 1))]
      /\ net' = (net \ {d}) \union
                  {Datagram(at[n], HubAddr, ResponseMessage(s, d.msg, FreshKey(n, 1)))}
      /\ generated' = IF s.state = ESTABLISHED
                      THEN [generated EXCEPT ![n] = @ + 1] ELSE generated
      /\ UNCHANGED <<hub, at, origins>>

NodeHandleResponse(n, d) ==
  /\ d.dst = at[n]
  /\ CanHandleResponse(node[n], d.msg)
  /\ node' = [node EXCEPT ![n] = session_handle_response(@, d.msg)]
  /\ net' = net \ {d}
  /\ UNCHANGED <<hub, generated, at, origins>>

NodePayloads == {EMPTY_PAYLOAD, [len |-> HeaderLen, version |-> 4, dest |-> 0]}

NodeSend(n, payload) ==
  /\ CanSealData(node[n])
  /\ node[n].tx_counter < MaxData[n]
  /\ node' = [node EXCEPT ![n] = session_seal_data(@)]
  /\ net' = net \union {Datagram(at[n], HubAddr, DataMessage(node[n], payload))}
  /\ UNCHANGED <<hub, generated, at, origins>>

\* No two nodes have one address at the same time.
Move(n, a) ==
  /\ a \notin {at[m] : m \in Nodes}
  /\ at' = [at EXCEPT ![n] = a]
  /\ origins' = [origins EXCEPT ![n] = @ \union {a}]
  /\ UNCHANGED <<hub, generated, net, node>>

\* The node whose key pair, next to the hub's, a message was sealed with.
SealedWith(m, n) == n \in {m.key.client[1], m.key.server[1]}

\* A copy of d reaches the hub from another address than d's sender has: the
\* source that recvfrom reports is in no way tied to the message.
PassOn(d, a) ==
  /\ d.dst = HubAddr
  /\ Fails(TRUE, 1)
  /\ net' = net \union {Datagram(a, HubAddr, d.msg)}
  /\ origins' = [n \in Nodes |-> IF d.msg.type = INIT /\ SealedWith(d.msg, n)
                                 THEN origins[n] \union {a} ELSE origins[n]]
  /\ UNCHANGED <<ps, phase, generated, node, at, time, tun, lag, unanswered, since>>

-----------------------------------------------------------------------------
Init ==
  /\ ps = [n \in Nodes |-> ZeroPeer]
  /\ phase = <<"start", 1>>
  /\ generated = [x \in Nodes \union {Hub} |-> IF x = Hub THEN 0 ELSE 1]
  /\ net = {}
  /\ node = [n \in Nodes |-> session_init(NodeRole(n), LongTerm(n), LongTerm(Hub), 1,
                                          Ephemeral(n, 1))]
  /\ at = [n \in Nodes |-> Home[n]]
  /\ time = 0 /\ tun = 0 /\ faults = 0 /\ lag = 0
  /\ origins = [n \in Nodes |-> {Home[n]}]
  /\ unanswered = [n \in Nodes |-> FALSE]
  /\ since = [n \in Nodes |-> TIMEOUT]

HubStep ==
  \/ \E k \in 1 .. Len(PeerList), resolved \in BOOLEAN, t \in ResolveTimes :
       StartPeer(k, resolved, t)
  \/ Wait
  \/ NoTunPacket
  \/ \E packet \in Packets, sent \in BOOLEAN : TunRead(packet, sent)
  \/ NoDatagram
  \/ \E d \in net, sent \in BOOLEAN : UnknownInit(d, sent)
  \/ \E d \in net : UnknownOther(d)
  \/ \E n \in Nodes, d \in net, sent \in BOOLEAN : KnownInit(n, d, sent)
  \/ \E n \in Nodes, d \in net : KnownResponse(n, d)
  \/ \E n \in Nodes, d \in net, written \in BOOLEAN : KnownData(n, d, written)
  \/ \E n \in Nodes, d \in net : Unexpected(n, d)
  \/ \E k \in 1 .. Len(PeerList), ok \in BOOLEAN, t \in ResolveTimes : Timers(k, ok, t)

NodeStep ==
  \/ \E n \in Nodes : NodeInitiate(n)
  \/ \E n \in Nodes, d \in net : NodeHandleInit(n, d)
  \/ \E n \in Nodes, d \in net : NodeHandleResponse(n, d)
  \/ \E n \in Nodes, payload \in NodePayloads : NodeSend(n, payload)
  \/ \E n \in Nodes : \E a \in Moves[n] : Move(n, a)
  \/ \E d \in net, a \in Relays : PassOn(d, a)

Next == HubStep \/ NodeStep

Spec == Init /\ [][Next]_vars

-----------------------------------------------------------------------------
(***************************************************************************)
(* Properties                                                              *)
(***************************************************************************)
Established(n) == ps[n].session.state = ESTABLISHED

\* Every peer's record, the phase and every datagram have their types.
TypeOK ==
  /\ \A n \in Nodes :
       /\ ps[n].addr_resolved \in BOOLEAN
       /\ ps[n].addr \in Addrs \union {NoAddr}
       /\ ps[n].rx_age \in 0 .. TIMEOUT
       /\ ps[n].tx_age \in 0 .. KEEPALIVE
       /\ ps[n].key_age \in 0 .. ROTATION
       /\ \A f \in DOMAIN ZeroStats : ps[n].stats[f] \in Nat
       /\ ps[n].session.replay \in ReplayState
  /\ phase \in {<<"tun">>, <<"udp">>} \union
               ({"start", "timers"} \X (1 .. Len(PeerList)))
  /\ \A d \in net : /\ d.src \in Addrs \union {HubAddr}
                    /\ d.dst \in Addrs \union {HubAddr, NoAddr}

\* An established session has an address to send to, unless the RESPONSE that
\* established it could not be sent: session_handle_init has changed the state
\* by then, and the address is learned only after udp_send succeeds.
EstablishedHasAddress ==
  \A n \in Nodes : Established(n) => ps[n].addr_resolved \/ unanswered[n]

\* The address the hub holds for a peer is one that peer has had, or one that
\* an INIT sealed by that peer was passed on from.  An address that only the
\* messages of others have come from is never stored for it, although an INIT
\* may come from anywhere and find_responder_for_init only guesses whose it is.
AddressVouched ==
  \A n \in Nodes : ps[n].addr_resolved => ps[n].addr \in origins[n]

\* The address of a peer, once known, changes only for an INIT of that peer
\* that came from the new address and is newer than all the hub has accepted
\* from it.  A late, duplicated or passed on copy of an INIT the hub has seen
\* does not lead its packets elsewhere.
OnlyNewInitMoves ==
  [][\A n \in Nodes :
       (ps[n].addr_resolved /\ ps'[n].addr # ps[n].addr) =>
         \E d \in net :
           /\ d.src = ps'[n].addr
           /\ d.msg.type = INIT /\ SealedWith(d.msg, n)
           /\ d.msg.counter > ps[n].session.highest_handshake_counter_seen]_vars

\* Trying an INIT on every responder session, and attributing a datagram to
\* the wrong peer, are harmless: the datagram that is read changes the session
\* of no peer but the one that shares its key with the hub.
WrongGuessHarmless ==
  [][phase = <<"udp">> =>
       \A n \in Nodes, d \in net \ net' :
         (d.dst = HubAddr /\ ps'[n].session # ps[n].session) => SealedWith(d.msg, n)]_vars

\* What leaves the hub in a DATA message is sealed for the peer its destination
\* routes to, and no packet without a route leaves it.
SealedForRoute ==
  \A d \in net :
    (d.src = HubAddr /\ d.msg.type = DATA /\ d.msg.body # EMPTY_PAYLOAD) =>
      LET k == RouteOf(Routes, d.msg.body)
      IN  k # NoPeer /\ SealedWith(d.msg, PeerList[k])

\* The readings of the clock that two attempts at one peer go by, the second an
\* INIT and the first an INIT or a resolution that failed, are at least
\* SESSION_TIMEOUT_MS apart, whatever the interplay of the dead-peer timeout,
\* key rotation, failed and slow resolutions and late answers.  The INITs
\* themselves may be closer: initiate_handshake stores the reading, not the time
\* at which udp_resolve let it go on.  The freshness of INIT counters across a
\* restart rests on this spacing (RetryAfter in module Relationship).
AttemptsSpaced ==
  [][\A n \in Nodes :
       ps'[n].session.pending_handshake_counter > ps[n].session.pending_handshake_counter
         => since[n] >= TIMEOUT]_vars

\* docs/NETWORKING.md: a responder relationship "simply accepts a fresh
\* HANDSHAKE_INIT whenever one arrives, established or not".
AcceptsFreshInit ==
  [][phase = <<"udp">> =>
       \A n \in Nodes, d \in net \ net' :
         (d.dst = HubAddr /\ RoleOf[n] = RESPONDER /\ CanHandleInit(ps[n].session, d.msg)) =>
           ps'[n].session.highest_handshake_counter_seen = d.msg.counter]_vars

\* main.c: a re-handshake after SESSION_TIMEOUT_MS "includes retrying DNS
\* resolution", so the INIT goes where the peer's name leads now.
RehandshakeResolves ==
  [][\A n \in Nodes, d \in net' \ net :
       (/\ d.src = HubAddr /\ d.msg.type = INIT /\ SealedWith(d.msg, n)
        /\ ps[n].rx_age >= TIMEOUT) => d.dst = at[n]]_vars
=============================================================================
