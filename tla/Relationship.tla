---------------------------- MODULE Relationship ----------------------------
(***************************************************************************)
(* One relationship between two peers: the initiator's and the responder's *)
(* session, over a network that loses, duplicates, delays and reorders     *)
(* datagrams, while either process may stop and start again at any time.   *)
(*                                                                         *)
(* The network is the set of all datagrams ever sent.  Delivery does not   *)
(* remove one, so it may arrive again, much later, or never.               *)
(*                                                                         *)
(* The clock counts the seconds time(NULL) returns.  The daemon starts a   *)
(* handshake when it boots, and again no sooner than RetryAfter seconds    *)
(* after its previous attempt (main.c: initiate_handshake moves            *)
(* last_rx_activity_ms forward, and only SESSION_TIMEOUT_MS of silence or  *)
(* KEY_ROTATION_INTERVAL_MS of key age calls it again).                    *)
(***************************************************************************)
EXTENDS Session, Integers

CONSTANTS
  Payloads,      \* what a DATA packet may carry
  RetryAfter,    \* seconds between two attempts, SESSION_TIMEOUT_MS
  MaxClock,      \* bound: the last second
  MaxTx,         \* bound: DATA packets sent under one key
  MaxRestarts    \* bound: restarts of each side

Side == {"I", "R"}
Peer(p) == IF p = "I" THEN "R" ELSE "I"
Role(p) == IF p = "I" THEN INITIATOR ELSE RESPONDER

ASSUME RetryAssumption   == RetryAfter \in Nat /\ RetryAfter >= 2
ASSUME BoundsAssumption  == /\ MaxClock \in Nat /\ MaxTx \in Nat
                            /\ MaxRestarts \in [Side -> Nat]

VARIABLES
  sess,         \* sess[p]: p's session_t
  generated,    \* generated[p]: ephemeral key pairs p has generated
  net,          \* every datagram sent so far
  clock,        \* wall-clock seconds
  boot,         \* the second the initiator last started in
  attempt,      \* the time its last attempt worked with; boot before the first
  tried,        \* whether it made an attempt since it started
  restarts,     \* restarts[p]: how often p has restarted
  delivered,    \* delivered[p]: history, the DATA packets p has opened
  redelivered   \* redelivered[p]: history, those p has opened twice

vars == <<sess, generated, net, clock, boot, attempt, tried, restarts,
          delivered, redelivered>>

FreshKey(p) == Ephemeral(p, generated[p] + 1)   \* crypto_generate_keypair

Boot(p, time, eph) == session_init(Role(p), LongTerm(p), LongTerm(Peer(p)), time, eph)

Init ==
  /\ sess = [p \in Side |-> Boot(p, 1, Ephemeral(p, 1))]
  /\ generated = [p \in Side |-> 1]
  /\ net = {}
  /\ clock = 1 /\ boot = 1 /\ attempt = 1 /\ tried = FALSE   \* past the epoch
  /\ restarts = [p \in Side |-> 0]
  /\ delivered = [p \in Side |-> {}]
  /\ redelivered = [p \in Side |-> {}]

-----------------------------------------------------------------------------
Tick ==
  /\ clock < MaxClock
  /\ clock' = clock + 1
  /\ UNCHANGED <<sess, generated, net, boot, attempt, tried, restarts,
                 delivered, redelivered>>

\* The process ends and is started again.  A restart of the initiator within
\* the second of its start is the exception session_init's comment names.
Restart(p) ==
  /\ restarts[p] < MaxRestarts[p]
  /\ p = "I" => clock > boot
  /\ sess' = [sess EXCEPT ![p] = Boot(p, clock, FreshKey(p))]
  /\ generated' = [generated EXCEPT ![p] = @ + 1]
  /\ restarts' = [restarts EXCEPT ![p] = @ + 1]
  /\ IF p = "I" THEN boot' = clock /\ attempt' = clock /\ tried' = FALSE
                ELSE UNCHANGED <<boot, attempt, tried>>
  /\ UNCHANGED <<net, clock, delivered, redelivered>>

\* Mutant: an attempt is not held back after the previous one.
InitiateUnthrottled(now) ==
  /\ LET s == session_start_handshake(sess["I"], FreshKey("I"))
     IN  /\ CanBuildInit(s)
         /\ sess' = [sess EXCEPT !["I"] = session_build_init(s)]
         /\ net' = net \union {InitMessage(s)}
  /\ generated' = [generated EXCEPT !["I"] = @ + 1]
  /\ attempt' = now /\ tried' = TRUE
  /\ UNCHANGED <<clock, boot, restarts, delivered, redelivered>>
\* initiate_handshake with the endpoint resolved.  The loop over the peers reads
\* the time once: when resolving another peer's endpoint blocks, the time this
\* attempt works with lies in the past.
InitiateHandshake(now) ==
  /\ tried => now - attempt >= RetryAfter
  /\ LET s == session_start_handshake(sess["I"], FreshKey("I"))
     IN  /\ CanBuildInit(s)
         /\ sess' = [sess EXCEPT !["I"] = session_build_init(s)]
         /\ net' = net \union {InitMessage(s)}
  /\ generated' = [generated EXCEPT !["I"] = @ + 1]
  /\ attempt' = now /\ tried' = TRUE
  /\ UNCHANGED <<clock, boot, restarts, delivered, redelivered>>

\* An INIT reaches the responder; a stale one is dropped without effect.
HandleInit(m) ==
  LET s == sess["R"]
  IN  /\ FreshInit(s, m)
      /\ sess' = [sess EXCEPT !["R"] = session_handle_init(s, m, FreshKey("R"))]
      /\ generated' = IF s.state = ESTABLISHED
                      THEN [generated EXCEPT !["R"] = @ + 1] ELSE generated
      /\ net' = IF CanHandleInit(s, m)
                THEN net \union {ResponseMessage(s, m, FreshKey("R"))} ELSE net
      /\ UNCHANGED <<clock, boot, attempt, tried, restarts, delivered, redelivered>>

HandleResponse(m) ==
  /\ CanHandleResponse(sess["I"], m)
  /\ sess' = [sess EXCEPT !["I"] = session_handle_response(@, m)]
  /\ UNCHANGED <<generated, net, clock, boot, attempt, tried, restarts,
                 delivered, redelivered>>

SealData(p, payload) ==
  /\ CanSealData(sess[p])
  /\ sess[p].tx_counter < MaxTx
  /\ net' = net \union {DataMessage(sess[p], payload)}
  /\ sess' = [sess EXCEPT ![p] = session_seal_data(@)]
  /\ UNCHANGED <<generated, clock, boot, attempt, tried, restarts,
                 delivered, redelivered>>

OpenData(p, m) ==
  /\ CanOpenData(sess[p], m)
  /\ sess' = [sess EXCEPT ![p] = session_open_data(@, m)]
  /\ delivered' = [delivered EXCEPT ![p] = @ \union {m}]
  /\ redelivered' = [redelivered EXCEPT ![p] = @ \union ({m} \intersect delivered[p])]
  /\ UNCHANGED <<generated, net, clock, boot, attempt, tried, restarts>>

Next ==
  \/ Tick
  \/ \E p \in Side : Restart(p)
  \/ \E now \in attempt .. clock : InitiateHandshake(now)
  \/ \E m \in net : HandleInit(m)
  \/ \E m \in net : HandleResponse(m)
  \/ \E p \in Side, payload \in Payloads : SealData(p, payload)
  \/ \E p \in Side, m \in net : OpenData(p, m)

Spec == Init /\ [][Next]_vars

-----------------------------------------------------------------------------
(***************************************************************************)
(* Properties                                                              *)
(***************************************************************************)

KeyName == (Side \X Nat) \union {Wiped}
Key == [secret : SUBSET KeyName, client : KeyName, server : KeyName,
        dir : {"c2s", "s2c"}]
KeyPair == [rx : Key, tx : Key]
Message ==
  [type : {INIT, RESPONSE}, key : Key, counter : Nat, body : KeyName] \union
  [type : {DATA}, key : Key, counter : Nat, body : Payloads]
SessionRecord ==
  [role : {INITIATOR, RESPONDER}, state : {PENDING, ESTABLISHED},
   static_keys : KeyPair, local_eph_pk : KeyName, local_eph_sk : KeyName,
   handshake_counter : Nat, pending_handshake_counter : Nat,
   have_seen_handshake : BOOLEAN, highest_handshake_counter_seen : Nat,
   data_keys : KeyPair, tx_counter : Nat, replay : ReplayState]

\* Every field of both sessions, and every datagram, has its type.
TypeOK ==
  /\ sess \in [Side -> SessionRecord]
  /\ generated \in [Side -> Nat]
  /\ net \subseteq Message
  /\ clock \in Nat /\ boot \in Nat /\ attempt \in Nat /\ tried \in BOOLEAN
  /\ restarts \in [Side -> Nat]
  /\ delivered \in [Side -> SUBSET Message]
  /\ redelivered \in [Side -> SUBSET Message]

Established(p) == sess[p].state = ESTABLISHED

\* No two different datagrams of a type were sealed with one key and counter.
NoncesUnique(type) ==
  \A m, n \in net :
    (m.type = type /\ n.type = type /\ m.key = n.key /\ m.counter = n.counter)
      => m = n

\* The counter of DATA packets never repeats under one data key, although
\* session_start_handshake sets tx_counter back to 0 on every handshake, key
\* rotation and reconnection, and a restart forgets it.
DataNoncesUnique == NoncesUnique(DATA)

\* The counter of INITs never repeats under the static key, although a restart
\* forgets it: session_init takes it from the clock, and the clock has
\* overtaken every counter used before.
InitNoncesUnique == NoncesUnique(INIT)

\* The counter of RESPONSEs never repeats under the static key as long as the
\* responder keeps running (session_handle_init's freshness check).
ResponseNoncesUnique == restarts["R"] = 0 => NoncesUnique(RESPONSE)

\* The initiator's outstanding INIT is never stale for the responder, whatever
\* the initiator forgot in a restart and whatever old INITs arrived meanwhile:
\* session_handle_init has accepted nothing newer.
OutstandingInitFresh ==
  (tried /\ sess["R"].have_seen_handshake) =>
    sess["R"].highest_handshake_counter_seen
      <= sess["I"].pending_handshake_counter

\* What the header asks of every caller of crypto_seal: "never reuse a counter
\* value with the same key" (crypto.h), here for the responder's static key.
CounterNeverReused == NoncesUnique(RESPONSE)

\* The two sides agree on the keys: when the initiator's data keys come from
\* the ephemeral key the responder now uses, one side's tx is the other's rx.
KeyAgreement ==
  (/\ Established("I") /\ Established("R")
   /\ sess["I"].data_keys.tx.server = sess["R"].local_eph_pk) =>
    /\ sess["I"].data_keys.tx = sess["R"].data_keys.rx
    /\ sess["I"].data_keys.rx = sess["R"].data_keys.tx

\* Forward secrecy: no side keeps the ephemeral secret its data keys were
\* derived from, established or handshaking anew.
SecretsWiped ==
  \A p \in Side :
    LET s == sess[p]
    IN  /\ s.local_eph_sk # Wiped => s.local_eph_sk \notin s.data_keys.tx.secret
        /\ Established(p) => s.local_eph_sk = Wiped

\* No DATA packet is delivered twice, across reordering, duplication, new
\* keys and restarts (replay_check_and_mark, and keys that never come back).
DeliveredOnce == \A p \in Side : redelivered[p] = {}

\* While the responder keeps running, it never goes back from the keys of a
\* later handshake of the initiator to those of an earlier one, even when the
\* initiator restarted in between and old INITs keep arriving.
NoRollback ==
  [][(restarts' = restarts /\ sess["R"].have_seen_handshake) =>
       \/ sess["R"].data_keys' = sess["R"].data_keys
       \/ sess["R"].data_keys'.rx.client[2] > sess["R"].data_keys.rx.client[2]]_vars
=============================================================================
