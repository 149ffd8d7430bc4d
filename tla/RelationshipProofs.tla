------------------------- MODULE RelationshipProofs -------------------------
(***************************************************************************)
(* Proofs about a relationship of two sides: its data channel, for every   *)
(* window size, payload set, retry interval and bound, and its handshake,  *)
(* for every retry interval of at least two seconds and every history of   *)
(* restarts.                                                               *)
(*                                                                         *)
(* The invariant DataInv says, for each side, that a key pair it holds     *)
(* while a handshake is pending is part of no data key used so far, that   *)
(* its data keys, once established, are made with its own current key      *)
(* pair, that tx_counter is above every counter sealed under them, and     *)
(* that the replay window is exact for the packets opened under them.      *)
(*                                                                         *)
(* The invariant HandshakeInv puts the clock, the initiator's counter, the *)
(* INITs and the RESPONSEs sent and the responder's highest counter in     *)
(* order, and says which two messages the data keys of an established side *)
(* come from.                                                              *)
(***************************************************************************)
EXTENDS Relationship, ReplayWindowProofs

-----------------------------------------------------------------------------
(***************************************************************************)
(* The data channel                                                        *)
(***************************************************************************)

\* The two sides, and what Peer and Role give for them.
LEMMA SideFacts ==
  /\ "I" \in Side /\ "R" \in Side
  /\ \A p \in Side : Peer(p) \in Side /\ Peer(p) # p
  /\ \A p \in Side : Role(p) \in {INITIATOR, RESPONDER}
  BY DEF Side, Peer, Role

\* Key pairs have names in KeyName, and a wiped one is none of theirs.
LEMMA NameFacts ==
  /\ Wiped \in KeyName
  /\ \A p \in Side, n \in Nat : <<p, n>> \in KeyName /\ <<p, n>> # Wiped
  BY DEF KeyName, Wiped, Side

\* crypto_derive_session_keys returns a pair of keys.
LEMMA DeriveFacts ==
  ASSUME NEW role \in {INITIATOR, RESPONDER}, NEW a \in KeyName,
         NEW b \in KeyName, NEW c \in KeyName
  PROVE  crypto_derive_session_keys(role, a, b, c) \in KeyPair
  BY DEF crypto_derive_session_keys, KxKey, KeyPair, Key, INITIATOR, RESPONDER

\* What session_start_handshake leaves and what it keeps.
LEMMA StartFacts ==
  ASSUME NEW s \in SessionRecord, NEW eph \in KeyName
  PROVE  LET t == session_start_handshake(s, eph)
         IN  /\ t \in SessionRecord
             /\ t.role = s.role /\ t.static_keys = s.static_keys
             /\ t.local_eph_pk = eph /\ t.local_eph_sk = eph
             /\ t.state = PENDING /\ t.tx_counter = 0
             /\ t.handshake_counter = s.handshake_counter
             /\ t.pending_handshake_counter = s.pending_handshake_counter
             /\ t.have_seen_handshake = s.have_seen_handshake
             /\ t.highest_handshake_counter_seen = s.highest_handshake_counter_seen
             /\ t.data_keys = s.data_keys
             /\ t.replay = ResetReplay(s.replay)
<1>1. ResetReplay(s.replay) \in ReplayState
  BY ResetExact DEF SessionRecord
<1> QED BY Zenon, <1>1 DEF session_start_handshake, SessionRecord, PENDING, ESTABLISHED

\* The keys session_init derives for the handshake messages.
StaticKeys(p) == crypto_derive_session_keys(
                   Role(p), LongTerm(p), LongTerm(p), LongTerm(Peer(p)))

\* The fields of a session fresh from session_init.
LEMMA InitFacts ==
  ASSUME NEW p \in Side, NEW time \in Nat, NEW eph \in KeyName
  PROVE  LET t == Boot(p, time, eph)
         IN  /\ t \in SessionRecord
             /\ t.role = Role(p)
             /\ t.static_keys = StaticKeys(p)
             /\ t.local_eph_pk = eph /\ t.local_eph_sk = eph
             /\ t.state = PENDING /\ t.tx_counter = 0
             /\ t.handshake_counter = time
             /\ t.pending_handshake_counter = 0
             /\ ~ t.have_seen_handshake
             /\ t.data_keys = ZeroKeys
             /\ ExactWindow(t.replay, {})
<1>1. ZeroReplayState \in ReplayState
  BY DEF ZeroReplayState, ReplayState
<1>2. ZeroKeys \in KeyPair
  BY NameFacts DEF ZeroKeys, ZeroKey, KxKey, KeyPair, Key
<1>3. StaticKeys(p) \in KeyPair
  BY DeriveFacts, SideFacts, NameFacts DEF LongTerm, StaticKeys
<1> DEFINE z == [role |-> Role(p),
     state                          |-> PENDING,
     static_keys                    |-> StaticKeys(p),
     local_eph_pk                   |-> Wiped,
     local_eph_sk                   |-> Wiped,
     handshake_counter              |-> time,
     pending_handshake_counter      |-> 0,
     have_seen_handshake            |-> FALSE,
     highest_handshake_counter_seen |-> 0,
     data_keys                      |-> ZeroKeys,
     tx_counter                     |-> 0,
     replay                         |-> ZeroReplayState]
<1>4. z \in SessionRecord
  BY <1>1, <1>2, <1>3, SideFacts, NameFacts DEF SessionRecord, PENDING, ESTABLISHED
<1>5. Boot(p, time, eph) = session_start_handshake(z, eph)
  BY DEF Boot, session_init, StaticKeys
<1>6. /\ z.role = Role(p) /\ z.handshake_counter = time /\ z.pending_handshake_counter = 0
      /\ ~ z.have_seen_handshake
      /\ z.data_keys = ZeroKeys /\ z.replay = ZeroReplayState
      /\ z.static_keys = StaticKeys(p)
  OBVIOUS
<1> HIDE DEF z
<1> QED BY <1>1, <1>4, <1>5, <1>6, StartFacts, ResetExact

\* The fields of a message by its type.
LEMMA MessageFacts ==
  ASSUME NEW m \in Message
  PROVE  /\ m.key \in Key /\ m.counter \in Nat
         /\ m.type \in {INIT, RESPONSE, DATA}
         /\ m.type # DATA => m.body \in KeyName
  BY DEF Message, INIT, RESPONSE, DATA

\* An established session that meets a fresh INIT starts over with a new key
\* pair; a pending one is taken as it is.
LEMMA ReconnectedFacts ==
  ASSUME NEW s \in SessionRecord, NEW eph \in KeyName
  PROVE  LET t == Reconnected(s, eph)
         IN  /\ t \in SessionRecord
             /\ t.role = s.role /\ t.static_keys = s.static_keys
             /\ t.state = PENDING
             /\ t.handshake_counter = s.handshake_counter
             /\ t.pending_handshake_counter = s.pending_handshake_counter
             /\ t.have_seen_handshake = s.have_seen_handshake
             /\ t.highest_handshake_counter_seen = s.highest_handshake_counter_seen
             /\ t.data_keys = s.data_keys
             /\ s.state = ESTABLISHED =>
                  /\ t.local_eph_pk = eph /\ t.local_eph_sk = eph
                  /\ t.tx_counter = 0
                  /\ t.replay = ResetReplay(s.replay)
             /\ s.state = PENDING => t = s
<1>1. s.state \in {PENDING, ESTABLISHED} /\ PENDING # ESTABLISHED
  BY DEF SessionRecord, PENDING, ESTABLISHED
<1>2. CASE s.state = ESTABLISHED
  BY <1>1, <1>2, StartFacts DEF Reconnected
<1>3. CASE s.state = PENDING
  BY <1>1, <1>3 DEF Reconnected
<1> QED BY <1>1, <1>2, <1>3

\* The session session_handle_init leaves when it accepts.
LEMMA HandleInitFacts ==
  ASSUME NEW s \in SessionRecord, NEW m \in Message, NEW eph \in KeyName,
         CanHandleInit(s, m)
  PROVE  LET t == session_handle_init(s, m, eph)
             u == Reconnected(s, eph)
         IN  /\ t \in SessionRecord
             /\ t.role = s.role /\ t.static_keys = s.static_keys
             /\ t.state = ESTABLISHED
             /\ t.local_eph_pk = u.local_eph_pk /\ t.local_eph_sk = Wiped
             /\ t.handshake_counter = s.handshake_counter
             /\ t.pending_handshake_counter = s.pending_handshake_counter
             /\ t.have_seen_handshake = TRUE
             /\ t.highest_handshake_counter_seen = m.counter
             /\ t.data_keys = crypto_derive_session_keys(s.role, u.local_eph_pk,
                                                         u.local_eph_sk, m.body)
             /\ t.tx_counter = u.tx_counter
             /\ t.replay = u.replay
<1> DEFINE u == Reconnected(s, eph)
           k == crypto_derive_session_keys(u.role, u.local_eph_pk,
                                           u.local_eph_sk, m.body)
<1>1. u \in SessionRecord /\ u.role = s.role /\ u.static_keys = s.static_keys
      /\ u.handshake_counter = s.handshake_counter
      /\ u.pending_handshake_counter = s.pending_handshake_counter
  BY ReconnectedFacts
<1>2. m.body \in KeyName /\ m.counter \in Nat
  BY MessageFacts DEF CanHandleInit, FreshInit, INIT, DATA
<1>3. u.role \in {INITIATOR, RESPONDER} /\ u.local_eph_pk \in KeyName
      /\ u.local_eph_sk \in KeyName
  BY <1>1 DEF SessionRecord
<1>4. k \in KeyPair
  BY <1>2, <1>3, DeriveFacts
<1>5. session_handle_init(s, m, eph) =
        [u EXCEPT !.data_keys = k, !.local_eph_sk = Wiped,
                  !.have_seen_handshake = TRUE,
                  !.highest_handshake_counter_seen = m.counter,
                  !.state = ESTABLISHED]
  BY DEF session_handle_init, CanHandleInit
<1> DEFINE t == session_handle_init(s, m, eph)
<1> HIDE DEF u, k, t
<1>7. t = [u EXCEPT !.data_keys = k, !.local_eph_sk = Wiped,
                    !.have_seen_handshake = TRUE,
                    !.highest_handshake_counter_seen = m.counter,
                    !.state = ESTABLISHED]
  BY <1>5 DEF t
<1>8. t \in SessionRecord
  BY Zenon, <1>1, <1>2, <1>4, <1>7, NameFacts DEF SessionRecord
<1>9. /\ t.role = u.role /\ t.static_keys = u.static_keys
      /\ t.state = ESTABLISHED
      /\ t.local_eph_pk = u.local_eph_pk /\ t.local_eph_sk = Wiped
      /\ t.handshake_counter = u.handshake_counter
      /\ t.pending_handshake_counter = u.pending_handshake_counter
      /\ t.have_seen_handshake = TRUE
      /\ t.highest_handshake_counter_seen = m.counter
      /\ t.data_keys = k
      /\ t.tx_counter = u.tx_counter
      /\ t.replay = u.replay
  BY <1>1, <1>7 DEF SessionRecord
<1> QED BY <1>1, <1>8, <1>9 DEF k, u, t

\* The session session_handle_response leaves when it accepts.
LEMMA HandleResponseFacts ==
  ASSUME NEW s \in SessionRecord, NEW m \in Message, CanHandleResponse(s, m)
  PROVE  LET t == session_handle_response(s, m)
         IN  /\ t \in SessionRecord
             /\ t.role = s.role /\ t.static_keys = s.static_keys
             /\ t.state = ESTABLISHED
             /\ t.local_eph_pk = s.local_eph_pk /\ t.local_eph_sk = Wiped
             /\ t.handshake_counter = s.handshake_counter
             /\ t.pending_handshake_counter = s.pending_handshake_counter
             /\ t.have_seen_handshake = s.have_seen_handshake
             /\ t.highest_handshake_counter_seen = s.highest_handshake_counter_seen
             /\ t.data_keys = crypto_derive_session_keys(s.role, s.local_eph_pk,
                                                         s.local_eph_sk, m.body)
             /\ t.tx_counter = s.tx_counter
             /\ t.replay = s.replay
<1> DEFINE k == crypto_derive_session_keys(s.role, s.local_eph_pk,
                                           s.local_eph_sk, m.body)
<1>1. m.body \in KeyName
  BY MessageFacts DEF CanHandleResponse, RESPONSE, DATA
<1>2. k \in KeyPair
  BY <1>1, DeriveFacts DEF SessionRecord
<1>3. session_handle_response(s, m) =
        [s EXCEPT !.data_keys = k, !.local_eph_sk = Wiped, !.state = ESTABLISHED]
  BY DEF session_handle_response
<1> HIDE DEF k
<1> QED BY <1>2, <1>3, NameFacts, ZenonT(60) DEF SessionRecord, ESTABLISHED, k

-----------------------------------------------------------------------------
(***************************************************************************)
(* The inductive invariant of the data channel, one side at a time.        *)
(***************************************************************************)

Dir(p)        == IF p = "I" THEN "c2s" ELSE "s2c"
Own(p, key)   == IF p = "I" THEN key.client ELSE key.server
OwnKeys(p)    == {Ephemeral(p, n) : n \in 1 .. generated[p]}
Sent(p)       == {m \in net : m.type = DATA /\ m.key.dir = Dir(p)}
OpenedUnder(p, key) == {m.counter : m \in {d \in delivered[p] : d.key = key}}

Unused(p, k) ==
  /\ \A m \in Sent(p) : Own(p, m.key) # k
  /\ \A m \in delivered[p] : Own(p, m.key) # k

Identity(p) == sess[p].role = Role(p) /\ sess[p].static_keys = StaticKeys(p)

Ephemerals(p) ==
  /\ sess[p].local_eph_pk \in OwnKeys(p)
  /\ \A m \in Sent(p) : Own(p, m.key) \in OwnKeys(p)
  /\ \A m \in delivered[p] : Own(p, m.key) \in OwnKeys(p)

WhenPending(p) ==
  sess[p].state = PENDING =>
    /\ sess[p].local_eph_sk = sess[p].local_eph_pk
    /\ Unused(p, sess[p].local_eph_pk)
    /\ ExactWindow(sess[p].replay, {})

WhenEstablished(p) ==
  sess[p].state = ESTABLISHED =>
    LET k == sess[p].data_keys
    IN  /\ sess[p].local_eph_sk = Wiped
        /\ Own(p, k.tx) = sess[p].local_eph_pk /\ k.tx.dir = Dir(p)
        /\ Own(p, k.rx) = sess[p].local_eph_pk /\ k.rx.dir = Dir(Peer(p))
        /\ \A m \in Sent(p) : m.key = k.tx => m.counter < sess[p].tx_counter
        /\ ExactWindow(sess[p].replay, OpenedUnder(p, k.rx))

SideInv(p) ==
  Identity(p) /\ Ephemerals(p) /\ WhenPending(p) /\ WhenEstablished(p)

DataInv ==
  TypeOK /\ (\A p \in Side : SideInv(p)) /\ DataNoncesUnique /\ DeliveredOnce

\* The two states of a session differ.
LEMMA States == PENDING # ESTABLISHED
  BY DEF PENDING, ESTABLISHED

\* A key pair crypto_generate_keypair returns was part of no key so far.
LEMMA FreshUnused ==
  ASSUME TypeOK, NEW p \in Side, SideInv(p)
  PROVE  Unused(p, FreshKey(p)) /\ FreshKey(p) \in KeyName
<1>1. generated[p] \in Nat
  BY DEF TypeOK
<1>2. FreshKey(p) \notin OwnKeys(p)
  BY <1>1 DEF FreshKey, OwnKeys, Ephemeral
<1>3. FreshKey(p) \in KeyName
  BY <1>1, NameFacts DEF FreshKey, Ephemeral
<1> QED BY <1>2, <1>3 DEF SideInv, Ephemerals, Unused

\* A side whose session, key pairs, DATA sent and DATA opened stay as they are
\* keeps its invariant.
LEMMA Frame ==
  ASSUME NEW p \in Side, SideInv(p), sess'[p] = sess[p],
         generated'[p] = generated[p], Sent(p)' = Sent(p),
         delivered'[p] = delivered[p]
  PROVE  SideInv(p)'
<1>1. OwnKeys(p)' = OwnKeys(p) /\ \A k : OpenedUnder(p, k)' = OpenedUnder(p, k)
  BY Zenon DEF OwnKeys, OpenedUnder
<1> QED
  BY Zenon, <1>1 DEF SideInv, Identity, Ephemerals, WhenPending, WhenEstablished,
              Unused, ExactWindow, ExactHighest, ExactBits

\* A side that starts a handshake with a fresh key pair satisfies its
\* invariant.
LEMMA BecomesPending ==
  ASSUME NEW p \in Side, TypeOK, SideInv(p),
         Identity(p)', sess'[p].state = PENDING,
         sess'[p].local_eph_pk = FreshKey(p),
         sess'[p].local_eph_sk = FreshKey(p),
         ExactWindow(sess'[p].replay, {}),
         generated'[p] = generated[p] + 1, Sent(p)' = Sent(p),
         delivered'[p] = delivered[p]
  PROVE  SideInv(p)'
<1>1. generated[p] \in Nat
  BY DEF TypeOK
<1>2. OwnKeys(p) \subseteq OwnKeys(p)' /\ FreshKey(p) \in OwnKeys(p)'
  BY <1>1 DEF OwnKeys, FreshKey
<1>3. Unused(p, FreshKey(p))
  BY Zenon, FreshUnused
<1>4. Ephemerals(p)'
  BY Zenon, <1>2 DEF SideInv, Ephemerals
<1>5. WhenPending(p)'
  BY Zenon, <1>3 DEF WhenPending, Unused, ExactWindow, ExactHighest, ExactBits
<1> QED BY Zenon, <1>4, <1>5, States DEF SideInv, WhenEstablished

\* A side that derives data keys from an unused key pair, with an empty
\* window, satisfies its invariant.
LEMMA BecomesEstablished ==
  ASSUME NEW p \in Side, TypeOK, SideInv(p),
         NEW k, Unused(p, k),
         Identity(p)', sess'[p].state = ESTABLISHED,
         sess'[p].local_eph_pk = k,
         sess'[p].local_eph_sk = Wiped,
         Own(p, sess'[p].data_keys.tx) = k, sess'[p].data_keys.tx.dir = Dir(p),
         Own(p, sess'[p].data_keys.rx) = k, sess'[p].data_keys.rx.dir = Dir(Peer(p)),
         ExactWindow(sess'[p].replay, {}),
         k \in OwnKeys(p)', OwnKeys(p) \subseteq OwnKeys(p)',
         Sent(p)' = Sent(p), delivered'[p] = delivered[p]
  PROVE  SideInv(p)'
<1>1. Ephemerals(p)'
  BY Zenon DEF SideInv, Ephemerals
<1>2. OpenedUnder(p, sess[p].data_keys.rx)' = {}
  BY Zenon DEF OpenedUnder, Unused
<1>3. \A m \in Sent(p)' : m.key # sess'[p].data_keys.tx
  BY Zenon DEF Unused
<1>4. WhenEstablished(p)'
  BY Zenon, <1>2, <1>3 DEF WhenEstablished, ExactWindow, ExactHighest, ExactBits
<1> QED BY Zenon, <1>1, <1>4, States DEF SideInv, WhenPending

\* Data keys name their owner's ephemeral key and the direction they serve.
LEMMA DeriveOwn ==
  ASSUME NEW p \in Side, NEW a, NEW b, NEW c, NEW k,
         k = crypto_derive_session_keys(Role(p), a, b, c)
  PROVE  /\ Own(p, k.tx) = a /\ k.tx.dir = Dir(p)
         /\ Own(p, k.rx) = a /\ k.rx.dir = Dir(Peer(p))
  BY DEF crypto_derive_session_keys, KxKey, Own, Dir, Peer, Role, Side,
         INITIATOR, RESPONDER

\* Sending a handshake message leaves the DATA sent as it was.
LEMMA HandshakeMessages ==
  ASSUME NEW new, new.type # DATA, net' = net \union {new}
  PROVE  /\ \A p \in Side : Sent(p)' = Sent(p)
         /\ DataNoncesUnique => DataNoncesUnique'
<1>1. \A p \in Side : Sent(p)' = Sent(p)
  BY DEF Sent
<1>2. ASSUME DataNoncesUnique PROVE DataNoncesUnique'
  BY Zenon, <1>2 DEF DataNoncesUnique, NoncesUnique
<1> QED BY <1>1, <1>2

\* session_build_init touches the two handshake counters only.
LEMMA BuildInitFacts ==
  ASSUME NEW s \in SessionRecord
  PROVE  LET t == session_build_init(s)
         IN  /\ t \in SessionRecord
             /\ t.role = s.role /\ t.static_keys = s.static_keys
             /\ t.local_eph_pk = s.local_eph_pk /\ t.local_eph_sk = s.local_eph_sk
             /\ t.state = s.state /\ t.replay = s.replay
             /\ t.data_keys = s.data_keys /\ t.tx_counter = s.tx_counter
             /\ t.have_seen_handshake = s.have_seen_handshake
             /\ t.highest_handshake_counter_seen = s.highest_handshake_counter_seen
             /\ t.pending_handshake_counter = s.handshake_counter
             /\ t.handshake_counter = s.handshake_counter + 1
<1> DEFINE t == session_build_init(s)
           c == s.handshake_counter
           d == s.handshake_counter + 1
<1>1. t = [s EXCEPT !.pending_handshake_counter = c, !.handshake_counter = d]
  BY DEF session_build_init
<1>2. c \in Nat /\ d \in Nat
  BY DEF SessionRecord
<1> HIDE DEF t, c, d
<1>3. t \in SessionRecord
  BY Zenon, <1>1, <1>2 DEF SessionRecord
<1>4. /\ t.role = s.role /\ t.static_keys = s.static_keys
      /\ t.local_eph_pk = s.local_eph_pk /\ t.local_eph_sk = s.local_eph_sk
      /\ t.state = s.state /\ t.replay = s.replay
      /\ t.data_keys = s.data_keys /\ t.tx_counter = s.tx_counter
      /\ t.have_seen_handshake = s.have_seen_handshake
      /\ t.highest_handshake_counter_seen = s.highest_handshake_counter_seen
      /\ t.pending_handshake_counter = c
      /\ t.handshake_counter = d
  BY <1>1 DEF SessionRecord
<1> QED BY <1>3, <1>4 DEF t, c, d

\* The invariant holds when both sides have started.
LEMMA InitDataInv == Init => DataInv
<1> SUFFICES ASSUME Init PROVE DataInv
  OBVIOUS
<1>1. \A p \in Side : Ephemeral(p, 1) \in KeyName /\ sess[p] = Boot(p, 1, Ephemeral(p, 1))
  BY Zenon, NameFacts DEF Init, Ephemeral
<1>2. TypeOK
  <2>1. sess \in [Side -> SessionRecord]
    BY Zenon, <1>1, InitFacts DEF Init
  <2>2. generated \in [Side -> Nat] /\ restarts \in [Side -> Nat]
    BY DEF Init
  <2>3. delivered \in [Side -> SUBSET Message]
        /\ redelivered \in [Side -> SUBSET Message]
    BY DEF Init
  <2>4. tried \in BOOLEAN
    BY Zenon DEF Init
  <2> QED BY <2>1, <2>2, <2>3, <2>4 DEF Init, TypeOK
<1>3. ASSUME NEW p \in Side PROVE SideInv(p)
  <2>1. /\ sess[p].role = Role(p) /\ sess[p].static_keys = StaticKeys(p)
        /\ sess[p].local_eph_pk = Ephemeral(p, 1)
        /\ sess[p].local_eph_sk = Ephemeral(p, 1)
        /\ sess[p].state = PENDING /\ ExactWindow(sess[p].replay, {})
    <3> DEFINE e == Ephemeral(p, 1)
               time == 1
               t == Boot(p, time, e)
    <3>1. e \in KeyName /\ time \in Nat /\ sess[p] = t
      BY <1>1
    <3> HIDE DEF e, time
    <3>2. /\ t.role = Role(p) /\ t.static_keys = StaticKeys(p)
          /\ t.local_eph_pk = e /\ t.local_eph_sk = e
          /\ t.state = PENDING /\ ExactWindow(t.replay, {})
      BY <3>1, InitFacts
    <3> HIDE DEF t
    <3> QED BY <3>1, <3>2 DEF e
  <2>2. Sent(p) = {} /\ delivered[p] = {} /\ generated[p] = 1
    BY DEF Sent, Init
  <2>3. Ephemeral(p, 1) \in OwnKeys(p)
    BY <2>2 DEF OwnKeys
  <2> QED BY <2>1, <2>2, <2>3, States
          DEF SideInv, Identity, Ephemerals, WhenPending, WhenEstablished, Unused
<1> QED BY <1>2, <1>3
        DEF DataInv, Init, DataNoncesUnique, NoncesUnique, DeliveredOnce

\* A restart, which forgets all of a session, preserves it.
LEMMA RestartDataInv ==
  ASSUME DataInv, NEW p \in Side, Restart(p)
  PROVE  DataInv'
<1> DEFINE t == Boot(p, clock, FreshKey(p))
<1>1. TypeOK /\ SideInv(p) /\ clock \in Nat /\ generated \in [Side -> Nat]
      /\ restarts \in [Side -> Nat] /\ sess \in [Side -> SessionRecord]
  BY DEF DataInv, TypeOK
<1>2. FreshKey(p) \in KeyName
  BY Zenon, <1>1, FreshUnused
<1>3. /\ t \in SessionRecord
      /\ t.role = Role(p) /\ t.static_keys = StaticKeys(p)
      /\ t.local_eph_pk = FreshKey(p) /\ t.local_eph_sk = FreshKey(p)
      /\ t.state = PENDING /\ ExactWindow(t.replay, {})
  BY <1>1, <1>2, InitFacts
<1>4. /\ sess' = [sess EXCEPT ![p] = t]
      /\ generated' = [generated EXCEPT ![p] = @ + 1]
      /\ restarts' = [restarts EXCEPT ![p] = @ + 1]
      /\ net' = net /\ delivered' = delivered /\ redelivered' = redelivered
      /\ clock' = clock
      /\ \/ boot' = clock /\ attempt' = clock /\ tried' = FALSE
         \/ UNCHANGED <<boot, attempt, tried>>
  BY Zenon DEF Restart
<1> HIDE DEF t
<1>5. TypeOK'
  <2>1. /\ sess' \in [Side -> SessionRecord] /\ generated' \in [Side -> Nat]
        /\ restarts' \in [Side -> Nat]
    BY <1>1, <1>3, <1>4
  <2>2. boot' \in Nat /\ attempt' \in Nat
    BY <1>1, <1>4 DEF TypeOK
  <2>3. tried' \in BOOLEAN
    BY Zenon, <1>1, <1>4 DEF TypeOK
  <2> QED BY Zenon, <1>1, <1>4, <2>1, <2>2, <2>3 DEF TypeOK
<1>6. \A q \in Side : Sent(q)' = Sent(q)
  BY <1>4 DEF Sent
<1>7. SideInv(p)'
  <2>1. Identity(p)'
    BY <1>1, <1>3, <1>4 DEF Identity, StaticKeys
  <2>2. sess'[p] = t /\ generated'[p] = generated[p] + 1
    BY <1>1, <1>4
  <2> QED BY <1>1, <1>3, <1>4, <1>6, <2>1, <2>2, BecomesPending
<1>8. ASSUME NEW q \in Side, q # p PROVE SideInv(q)'
  BY <1>1, <1>4, <1>6, <1>8, Frame DEF DataInv
<1> QED BY Zenon, <1>4, <1>5, <1>7, <1>8
        DEF DataInv, DataNoncesUnique, NoncesUnique, DeliveredOnce

\* initiate_handshake preserves it.
LEMMA InitiateDataInv ==
  ASSUME DataInv, NEW now \in attempt .. clock, InitiateHandshake(now)
  PROVE  DataInv'
<1> DEFINE s == session_start_handshake(sess["I"], FreshKey("I"))
           t == session_build_init(s)
           m == InitMessage(s)
<1>1. TypeOK /\ SideInv("I") /\ clock \in Nat /\ now \in Nat
      /\ generated \in [Side -> Nat]
      /\ sess \in [Side -> SessionRecord] /\ "I" \in Side
      /\ sess["I"] \in SessionRecord /\ net \subseteq Message
  BY SideFacts DEF DataInv, TypeOK
<1>2. FreshKey("I") \in KeyName
  BY <1>1, FreshUnused
<1>3. /\ s \in SessionRecord
      /\ s.role = sess["I"].role /\ s.static_keys = sess["I"].static_keys
      /\ s.local_eph_pk = FreshKey("I") /\ s.local_eph_sk = FreshKey("I")
      /\ s.state = PENDING /\ s.replay = ResetReplay(sess["I"].replay)
  BY <1>1, <1>2, StartFacts
<1>4. /\ sess' = [sess EXCEPT !["I"] = t]
      /\ generated' = [generated EXCEPT !["I"] = @ + 1]
      /\ net' = net \union {m}
      /\ delivered' = delivered /\ redelivered' = redelivered
      /\ restarts' = restarts
      /\ clock' = clock /\ attempt' = now /\ tried' = TRUE /\ boot' = boot
  BY Zenon DEF InitiateHandshake
<1> HIDE DEF s
<1>5. /\ t \in SessionRecord
      /\ t.role = s.role /\ t.static_keys = s.static_keys
      /\ t.local_eph_pk = s.local_eph_pk /\ t.local_eph_sk = s.local_eph_sk
      /\ t.state = s.state /\ t.replay = s.replay
  BY Zenon, <1>3, BuildInitFacts
<1>6. m \in Message /\ m.type # DATA
  BY Zenon, <1>3 DEF InitMessage, crypto_seal, Message, SessionRecord, KeyPair, INIT, DATA
<1> HIDE DEF t, m
<1>7. TypeOK'
  <2>1. /\ sess' \in [Side -> SessionRecord] /\ generated' \in [Side -> Nat]
        /\ net' \subseteq Message
    BY <1>1, <1>4, <1>5, <1>6
  <2> QED BY Zenon, <1>1, <1>4, <2>1 DEF TypeOK
<1>8. /\ \A q \in Side : Sent(q)' = Sent(q)
      /\ DataNoncesUnique'
  BY Zenon, <1>4, <1>6, HandshakeMessages DEF DataInv
<1>9. SideInv("I")'
  <2>1. Identity("I")'
    BY Zenon, <1>1, <1>3, <1>4, <1>5 DEF SideInv, Identity, StaticKeys
  <2>2. sess'["I"] = t /\ generated'["I"] = generated["I"] + 1
    BY Zenon, <1>1, <1>4
  <2>3. ExactWindow(t.replay, {})
    BY Zenon, <1>1, <1>3, <1>5, ResetExact DEF SessionRecord
  <2> QED BY Zenon, <1>1, <1>3, <1>4, <1>5, <1>8, <2>1, <2>2, <2>3, BecomesPending
<1>10. ASSUME NEW q \in Side, q # "I" PROVE SideInv(q)'
  BY Zenon, <1>1, <1>4, <1>8, <1>10, Frame DEF DataInv
<1> QED BY <1>4, <1>7, <1>8, <1>9, <1>10 DEF DataInv, DeliveredOnce

\* session_handle_init preserves it, also when key derivation fails after an
\* established session was given up.
LEMMA HandleInitDataInv ==
  ASSUME DataInv, NEW m \in net, HandleInit(m)
  PROVE  DataInv'
<1> DEFINE s == sess["R"]
           e == FreshKey("R")
           u == Reconnected(s, e)
           t == session_handle_init(s, m, e)
           n == ResponseMessage(s, m, e)
<1>1. TypeOK /\ SideInv("R") /\ generated \in [Side -> Nat]
      /\ sess \in [Side -> SessionRecord] /\ "R" \in Side
      /\ s \in SessionRecord /\ net \subseteq Message /\ m \in Message
  BY Zenon, SideFacts DEF DataInv, TypeOK
<1>2. e \in KeyName /\ Unused("R", e) /\ e \in {Ephemeral("R", generated["R"] + 1)}
  BY Zenon, <1>1, FreshUnused DEF FreshKey
<1>3. /\ sess' = [sess EXCEPT !["R"] = t]
      /\ generated' = IF s.state = ESTABLISHED
                      THEN [generated EXCEPT !["R"] = @ + 1] ELSE generated
      /\ net' = IF CanHandleInit(s, m) THEN net \union {n} ELSE net
      /\ FreshInit(s, m)
      /\ clock' = clock /\ boot' = boot /\ attempt' = attempt /\ tried' = tried
      /\ restarts' = restarts
      /\ delivered' = delivered /\ redelivered' = redelivered
  BY Zenon DEF HandleInit
<1>4. /\ u \in SessionRecord
      /\ u.role = s.role /\ u.static_keys = s.static_keys
      /\ u.state = PENDING
      /\ s.state = ESTABLISHED =>
           /\ u.local_eph_pk = e /\ u.local_eph_sk = e
           /\ u.replay = ResetReplay(s.replay)
      /\ s.state = PENDING => u = s
  BY Zenon, <1>1, <1>2, ReconnectedFacts
<1>5. s.state = PENDING \/ s.state = ESTABLISHED
  BY Zenon, <1>1 DEF SessionRecord
<1>6. /\ u.local_eph_pk = u.local_eph_sk /\ Unused("R", u.local_eph_pk)
      /\ ExactWindow(u.replay, {})
      /\ OwnKeys("R") \subseteq OwnKeys("R")' /\ u.local_eph_pk \in OwnKeys("R")'
  <2>1. generated["R"] \in Nat
    BY Zenon, <1>1
  <2>2. CASE s.state = ESTABLISHED
    <3>1. ExactWindow(u.replay, {})
      BY Zenon, <1>1, <1>4, <2>2, ResetExact DEF SessionRecord
    <3>2. generated'["R"] = generated["R"] + 1
      BY <1>1, <1>3, <2>2
    <3>3. OwnKeys("R") \subseteq OwnKeys("R")' /\ e \in OwnKeys("R")'
      BY <2>1, <3>2 DEF OwnKeys, FreshKey
    <3> QED BY Zenon, <1>2, <1>4, <2>2, <3>1, <3>3
  <2>3. CASE s.state = PENDING
    <3>1. generated' = generated
      BY <1>3, <2>3, States
    <3>2. OwnKeys("R")' = OwnKeys("R")
      BY Zenon, <3>1 DEF OwnKeys
    <3> QED BY Zenon, <1>1, <1>4, <2>3, <3>2 DEF SideInv, WhenPending, Ephemerals
  <2> QED BY <1>5, <2>2, <2>3
<1>7. generated' \in [Side -> Nat] /\ generated'["I"] = generated["I"]
  BY <1>1, <1>3, SideFacts
<1> HIDE DEF u
<1>8. CASE CanHandleInit(s, m)
  <2>1. /\ t \in SessionRecord
        /\ t.role = s.role /\ t.static_keys = s.static_keys
        /\ t.state = ESTABLISHED
        /\ t.local_eph_pk = u.local_eph_pk /\ t.local_eph_sk = Wiped
        /\ t.data_keys = crypto_derive_session_keys(s.role, u.local_eph_pk,
                                                    u.local_eph_sk, m.body)
        /\ t.replay = u.replay
    BY <1>1, <1>2, <1>8, HandleInitFacts, ZenonT(60) DEF u
  <2>2. n \in Message /\ n.type # DATA
    <3>1. m.counter \in Nat /\ u.local_eph_pk \in KeyName /\ s.static_keys.tx \in Key
      BY <1>1, <1>4, MessageFacts DEF SessionRecord, KeyPair
    <3>2. n = [type |-> RESPONSE, key |-> s.static_keys.tx, counter |-> m.counter,
               body |-> u.local_eph_pk]
      BY DEF ResponseMessage, crypto_seal, u
    <3> HIDE DEF s, t, n
    <3> QED BY <3>1, <3>2 DEF Message, RESPONSE, DATA
  <2> HIDE DEF t, n
  <2>3. net' = net \union {n}
    BY Zenon, <1>3, <1>8
  <2>4. /\ \A q \in Side : Sent(q)' = Sent(q)
        /\ DataNoncesUnique'
    BY Zenon, <2>2, <2>3, HandshakeMessages DEF DataInv
  <2>5. TypeOK'
    <3>1. sess' \in [Side -> SessionRecord] /\ net' \subseteq Message
      BY Zenon, <1>1, <1>3, <2>1, <2>2, <2>3
    <3> QED BY Zenon, <1>1, <1>3, <1>7, <3>1 DEF TypeOK
  <2>6. SideInv("R")'
    <3>1. sess'["R"] = t /\ delivered'["R"] = delivered["R"]
      BY Zenon, <1>1, <1>3
    <3>2. Identity("R")'
      BY Zenon, <1>1, <2>1, <3>1 DEF SideInv, Identity, StaticKeys
    <3>3. s.role = Role("R")
      BY Zenon, <1>1 DEF SideInv, Identity
    <3>4. /\ Own("R", t.data_keys.tx) = u.local_eph_pk /\ t.data_keys.tx.dir = Dir("R")
          /\ Own("R", t.data_keys.rx) = u.local_eph_pk
          /\ t.data_keys.rx.dir = Dir(Peer("R"))
      <4> DEFINE a == u.local_eph_pk
                 b == u.local_eph_sk
                 k == t.data_keys
      <4>1. k = crypto_derive_session_keys(Role("R"), a, b, m.body)
        BY Zenon, <2>1, <3>3
      <4> HIDE DEF a, b, k
      <4>2. /\ Own("R", k.tx) = a /\ k.tx.dir = Dir("R")
            /\ Own("R", k.rx) = a /\ k.rx.dir = Dir(Peer("R"))
        BY <4>1, SideFacts, DeriveOwn
      <4> QED BY Zenon, <4>2 DEF a, k
    <3>5. ExactWindow(t.replay, {})
      BY Zenon, <1>6, <2>1
    <3> QED BY Zenon, <1>1, <1>6, <2>1, <2>4, <3>1, <3>2, <3>4, <3>5, BecomesEstablished
  <2>7. SideInv("I")'
    BY Zenon, <1>1, <1>3, <1>7, <2>4, Frame, SideFacts DEF DataInv
  <2> QED BY <1>3, <2>4, <2>5, <2>6, <2>7 DEF DataInv, DeliveredOnce, Side
<1>9. CASE ~ CanHandleInit(s, m)
  <2>1. t = u
    BY Zenon, <1>3, <1>9 DEF session_handle_init, CanHandleInit, u
  <2> HIDE DEF t, n
  <2>2. net' = net
    BY <1>3, <1>9
  <2>3. \A q \in Side : Sent(q)' = Sent(q)
    BY Zenon, <2>2 DEF Sent
  <2>4. TypeOK'
    <3>1. sess' \in [Side -> SessionRecord]
      BY Zenon, <1>1, <1>3, <1>4, <2>1
    <3> QED BY Zenon, <1>1, <1>3, <1>7, <2>2, <3>1 DEF TypeOK
  <2>5. SideInv("R")'
    <3>1. sess'["R"] = u /\ delivered'["R"] = delivered["R"]
      BY Zenon, <1>1, <1>3, <2>1
    <3>2. CASE s.state = ESTABLISHED
      <4>1. Identity("R")'
        BY Zenon, <1>1, <1>4, <3>1 DEF SideInv, Identity, StaticKeys
      <4>2. generated'["R"] = generated["R"] + 1
        BY Zenon, <1>1, <1>3, <3>2
      <4> QED BY Zenon, <1>1, <1>4, <1>6, <2>3, <3>1, <3>2, <4>1, <4>2, BecomesPending
    <3>3. CASE s.state = PENDING
      <4>1. sess'["R"] = sess["R"] /\ generated' = generated
        BY Zenon, <1>3, <1>4, <3>1, <3>3, States
      <4> QED BY Zenon, <1>1, <2>3, <3>1, <4>1, Frame
    <3> QED BY Zenon, <1>5, <3>2, <3>3
  <2>6. SideInv("I")'
    BY Zenon, <1>1, <1>3, <1>7, <2>3, Frame, SideFacts DEF DataInv
  <2> QED BY <1>3, <2>2, <2>4, <2>5, <2>6
          DEF DataInv, DataNoncesUnique, NoncesUnique, DeliveredOnce, Side
<1> QED BY Zenon, <1>8, <1>9

\* session_handle_response preserves it.
LEMMA HandleResponseDataInv ==
  ASSUME DataInv, NEW m \in net, HandleResponse(m)
  PROVE  DataInv'
<1> DEFINE s == sess["I"]
           t == session_handle_response(s, m)
<1>1. TypeOK /\ SideInv("I") /\ sess \in [Side -> SessionRecord] /\ "I" \in Side
      /\ s \in SessionRecord /\ m \in Message
  BY Zenon, SideFacts DEF DataInv, TypeOK
<1>2. /\ CanHandleResponse(s, m) /\ s.state = PENDING
      /\ sess' = [sess EXCEPT !["I"] = t]
      /\ generated' = generated /\ net' = net
      /\ clock' = clock /\ boot' = boot /\ attempt' = attempt /\ tried' = tried
      /\ restarts' = restarts
      /\ delivered' = delivered /\ redelivered' = redelivered
  BY Zenon DEF HandleResponse, CanHandleResponse
<1>3. /\ t \in SessionRecord
      /\ t.role = s.role /\ t.static_keys = s.static_keys
      /\ t.state = ESTABLISHED
      /\ t.local_eph_pk = s.local_eph_pk /\ t.local_eph_sk = Wiped
      /\ t.data_keys = crypto_derive_session_keys(s.role, s.local_eph_pk,
                                                  s.local_eph_sk, m.body)
      /\ t.replay = s.replay
  BY Zenon, <1>1, <1>2, HandleResponseFacts
<1> HIDE DEF t
<1>4. \A q \in Side : Sent(q)' = Sent(q) /\ OwnKeys(q)' = OwnKeys(q)
  BY Zenon, <1>2 DEF Sent, OwnKeys
<1>5. TypeOK'
  <2>1. sess' \in [Side -> SessionRecord]
    BY Zenon, <1>1, <1>2, <1>3
  <2> QED BY Zenon, <1>1, <1>2, <2>1 DEF TypeOK
<1>6. SideInv("I")'
  <2>1. sess'["I"] = t /\ delivered'["I"] = delivered["I"]
    BY Zenon, <1>1, <1>2
  <2>2. Identity("I")'
    BY Zenon, <1>1, <1>3, <2>1 DEF SideInv, Identity, StaticKeys
  <2>3. s.role = Role("I")
    BY Zenon, <1>1 DEF SideInv, Identity
  <2>4. /\ Own("I", t.data_keys.tx) = s.local_eph_pk /\ t.data_keys.tx.dir = Dir("I")
        /\ Own("I", t.data_keys.rx) = s.local_eph_pk
        /\ t.data_keys.rx.dir = Dir(Peer("I"))
    <3> DEFINE a == s.local_eph_pk
               b == s.local_eph_sk
               k == t.data_keys
    <3>1. k = crypto_derive_session_keys(Role("I"), a, b, m.body)
      BY Zenon, <1>3, <2>3
    <3> HIDE DEF a, b, k
    <3>2. /\ Own("I", k.tx) = a /\ k.tx.dir = Dir("I")
          /\ Own("I", k.rx) = a /\ k.rx.dir = Dir(Peer("I"))
      BY <3>1, SideFacts, DeriveOwn
    <3> QED BY Zenon, <3>2 DEF a, k
  <2>5. Unused("I", s.local_eph_pk) /\ ExactWindow(t.replay, {})
        /\ s.local_eph_pk \in OwnKeys("I")
    BY Zenon, <1>1, <1>2, <1>3 DEF SideInv, WhenPending, Ephemerals
  <2> QED BY Zenon, <1>1, <1>3, <1>4, <2>1, <2>2, <2>4, <2>5, BecomesEstablished
<1>7. SideInv("R")'
  BY Zenon, <1>1, <1>2, <1>4, Frame, SideFacts DEF DataInv
<1> QED BY Zenon, <1>2, <1>5, <1>6, <1>7
        DEF DataInv, DataNoncesUnique, NoncesUnique, DeliveredOnce, Side

\* session_seal_data preserves it: the counter it uses is above all others
\* under the key.
LEMMA SealDataInv ==
  ASSUME DataInv, NEW p \in Side, NEW payload \in Payloads, SealData(p, payload)
  PROVE  DataInv'
<1> DEFINE s == sess[p]
           t == session_seal_data(s)
           n == DataMessage(s, payload)
<1>1. TypeOK /\ SideInv(p) /\ sess \in [Side -> SessionRecord]
      /\ s \in SessionRecord /\ net \subseteq Message
  BY Zenon DEF DataInv, TypeOK
<1>2. /\ s.state = ESTABLISHED
      /\ sess' = [sess EXCEPT ![p] = t]
      /\ net' = net \union {n}
      /\ generated' = generated
      /\ clock' = clock /\ boot' = boot /\ attempt' = attempt /\ tried' = tried
      /\ restarts' = restarts
      /\ delivered' = delivered /\ redelivered' = redelivered
  BY Zenon DEF SealData, CanSealData
<1>3. /\ n.type = DATA /\ n.key = s.data_keys.tx /\ n.counter = s.tx_counter
      /\ n \in Message
  BY <1>1 DEF DataMessage, crypto_seal, Message, SessionRecord, KeyPair
<1>4. /\ t \in SessionRecord
      /\ t = [s EXCEPT !.tx_counter = s.tx_counter + 1]
  <2> DEFINE c == s.tx_counter + 1
  <2>1. c \in Nat /\ t = [s EXCEPT !.tx_counter = c]
    BY <1>1 DEF SessionRecord, session_seal_data
  <2> HIDE DEF c, t
  <2> QED BY <1>1, <2>1 DEF SessionRecord, c
<1>5. /\ t.role = s.role /\ t.static_keys = s.static_keys /\ t.state = s.state
      /\ t.local_eph_pk = s.local_eph_pk /\ t.local_eph_sk = s.local_eph_sk
      /\ t.data_keys = s.data_keys /\ t.replay = s.replay
      /\ t.tx_counter = s.tx_counter + 1
  BY Zenon, <1>1, <1>4 DEF SessionRecord
<1> HIDE DEF t, n
<1>6. /\ Own(p, n.key) = s.local_eph_pk /\ n.key.dir = Dir(p)
      /\ s.local_eph_pk \in OwnKeys(p)
      /\ \A m \in Sent(p) : m.key = n.key => m.counter < n.counter
  BY Zenon, <1>1, <1>2, <1>3 DEF SideInv, WhenEstablished, Ephemerals
<1>7. TypeOK'
  <2>1. sess' \in [Side -> SessionRecord] /\ net' \subseteq Message
    BY Zenon, <1>1, <1>2, <1>3, <1>4
  <2> QED BY <1>1, <1>2, <2>1 DEF TypeOK
<1>8. DataNoncesUnique'
  <2>1. ASSUME NEW m \in net, m.type = DATA, m.key = n.key
        PROVE  m.counter # n.counter
    <3>1. m \in Sent(p)
      BY Zenon, <1>6, <2>1 DEF Sent
    <3>2. m.counter \in Nat /\ n.counter \in Nat
      BY Zenon, <1>1, <1>3, MessageFacts
    <3> QED BY <1>6, <2>1, <3>1, <3>2
  <2> QED BY Zenon, <1>2, <2>1 DEF DataInv, DataNoncesUnique, NoncesUnique
<1>9. \A q \in Side : OwnKeys(q)' = OwnKeys(q)
  BY Zenon, <1>2 DEF OwnKeys
<1>10. SideInv(p)'
  <2>1. Sent(p)' = Sent(p) \union {n}
    BY Zenon, <1>2, <1>3, <1>6 DEF Sent
  <2>2. sess'[p] = t
    BY Zenon, <1>1, <1>2
  <2>3. Identity(p)' /\ Ephemerals(p)'
    BY Zenon, <1>1, <1>2, <1>5, <1>6, <1>9, <2>1, <2>2
    DEF SideInv, Identity, Ephemerals, StaticKeys
  <2>4. WhenPending(p)'
    BY Zenon, <1>2, <1>5, <2>2, States DEF WhenPending
  <2>5. WhenEstablished(p)'
    <3>1. \A m \in Sent(p)' : m.key = t.data_keys.tx => m.counter < t.tx_counter
      <4>1. s.tx_counter \in Nat
        BY Zenon, <1>1 DEF SessionRecord
      <4>2. \A m \in Sent(p) : m.counter \in Nat
        BY Zenon, <1>1, MessageFacts DEF Sent
      <4> DEFINE key == t.data_keys.tx
                 c   == t.tx_counter
      <4>3. n.key = key /\ n.counter \in Nat /\ c = n.counter + 1
        BY Zenon, <1>3, <1>5, <4>1
      <4> HIDE DEF key, c
      <4>4. n.counter < c
        BY <4>3
      <4>5. ASSUME NEW m \in Sent(p), m.key = key
            PROVE  m.counter < c
        <5>1. m.counter < n.counter
          BY Zenon, <1>6, <4>3, <4>5
        <5> QED BY <4>2, <4>3, <5>1
      <4>6. \A m \in Sent(p)' : m.key = key => m.counter < c
        BY Zenon, <2>1, <4>4, <4>5
      <4> QED BY Zenon, <4>6 DEF key, c
    <3>2. OpenedUnder(p, s.data_keys.rx)' = OpenedUnder(p, s.data_keys.rx)
      BY Zenon, <1>1, <1>2, <1>5, <2>2 DEF OpenedUnder
    <3> QED BY Zenon, <1>1, <1>2, <1>5, <2>2, <3>1, <3>2
            DEF SideInv, WhenEstablished, ExactWindow, ExactHighest, ExactBits
  <2> QED BY Zenon, <2>3, <2>4, <2>5 DEF SideInv
<1>11. ASSUME NEW q \in Side, q # p PROVE SideInv(q)'
  <2>1. Dir(q) # Dir(p)
    BY <1>11 DEF Side, Dir
  <2>2. Sent(q)' = Sent(q)
    BY Zenon, <1>2, <1>6, <2>1 DEF Sent
  <2> QED BY Zenon, <1>1, <1>2, <1>11, <2>2, Frame DEF DataInv
<1> QED BY Zenon, <1>2, <1>7, <1>8, <1>10, <1>11 DEF DataInv, DeliveredOnce

\* session_open_data preserves it: what the window accepts was not opened
\* before under the key.
LEMMA OpenDataInv ==
  ASSUME DataInv, NEW p \in Side, NEW m \in net, OpenData(p, m)
  PROVE  DataInv'
<1> DEFINE s  == sess[p]
           rx == s.data_keys.rx
           t  == session_open_data(s, m)
           r  == ReplayMark(s.replay, m.counter)
<1>1. TypeOK /\ SideInv(p) /\ sess \in [Side -> SessionRecord]
      /\ s \in SessionRecord /\ net \subseteq Message /\ m \in Message
      /\ delivered \in [Side -> SUBSET Message]
      /\ redelivered \in [Side -> SUBSET Message]
  BY Zenon DEF DataInv, TypeOK
<1>2. /\ s.state = ESTABLISHED /\ m.type = DATA /\ m.key = rx
      /\ ReplayAccepts(s.replay, m.counter)
      /\ sess' = [sess EXCEPT ![p] = t]
      /\ delivered' = [delivered EXCEPT ![p] = @ \union {m}]
      /\ redelivered' = [redelivered EXCEPT
                           ![p] = @ \union ({m} \intersect delivered[p])]
      /\ generated' = generated /\ net' = net
      /\ clock' = clock /\ boot' = boot /\ attempt' = attempt /\ tried' = tried
      /\ restarts' = restarts
  BY Zenon DEF OpenData, CanOpenData, AuthenticData, crypto_open
<1>3. m.counter \in Nat /\ s.replay \in ReplayState
  BY <1>1, MessageFacts DEF SessionRecord
<1>4. t = [s EXCEPT !.replay = r] /\ r \in ReplayState
  BY <1>2, <1>3, MarkType DEF session_open_data, AuthenticData, crypto_open
<1> HIDE DEF t, r
<1>5. /\ t \in SessionRecord
      /\ t.role = s.role /\ t.static_keys = s.static_keys /\ t.state = s.state
      /\ t.local_eph_pk = s.local_eph_pk /\ t.local_eph_sk = s.local_eph_sk
      /\ t.data_keys = s.data_keys /\ t.tx_counter = s.tx_counter
      /\ t.replay = r
  BY Zenon, <1>1, <1>4 DEF SessionRecord
<1>6. \A q \in Side : OwnKeys(q)' = OwnKeys(q) /\ Sent(q)' = Sent(q)
  BY Zenon, <1>2 DEF OwnKeys, Sent
<1>7. TypeOK'
  <2>1. /\ sess' \in [Side -> SessionRecord]
        /\ delivered' \in [Side -> SUBSET Message]
        /\ redelivered' \in [Side -> SUBSET Message]
    BY Zenon, <1>1, <1>2, <1>5
  <2> QED BY Zenon, <1>1, <1>2, <2>1 DEF TypeOK
<1>8. /\ ExactWindow(s.replay, OpenedUnder(p, rx))
      /\ OpenedUnder(p, rx) \in SUBSET Nat
  <2>1. \A d \in delivered[p] : d.counter \in Nat
    BY Zenon, <1>1, MessageFacts
  <2> QED BY Zenon, <1>1, <1>2, <2>1 DEF SideInv, WhenEstablished, OpenedUnder
<1>9. m \notin delivered[p]
  <2>1. m.counter \notin OpenedUnder(p, rx)
    <3> DEFINE A == OpenedUnder(p, rx)
               w == s.replay
               c == m.counter
    <3>1. /\ w \in ReplayState /\ A \in SUBSET Nat /\ ExactWindow(w, A) /\ c \in Nat
          /\ ReplayAccepts(w, c)
      BY Zenon, <1>2, <1>3, <1>8
    <3> HIDE DEF A, w, c
    <3>2. c \notin A
      BY Zenon, <3>1, AcceptsExact
    <3> QED BY Zenon, <3>2 DEF A, c
  <2> QED BY Zenon, <1>2, <2>1 DEF OpenedUnder
<1>10. DeliveredOnce'
  <2>1. \A q \in Side : redelivered'[q] = redelivered[q]
    BY Zenon, <1>1, <1>2, <1>9
  <2> QED BY Zenon, <2>1 DEF DataInv, DeliveredOnce
<1>11. SideInv(p)'
  <2>1. sess'[p] = t /\ delivered'[p] = delivered[p] \union {m}
    BY Zenon, <1>1, <1>2
  <2>2. Own(p, m.key) \in OwnKeys(p)
    BY Zenon, <1>1, <1>2 DEF SideInv, WhenEstablished, Ephemerals
  <2>3. Identity(p)' /\ Ephemerals(p)'
    BY Zenon, <1>1, <1>5, <1>6, <2>1, <2>2 DEF SideInv, Identity, Ephemerals, StaticKeys
  <2>4. WhenPending(p)'
    BY Zenon, <1>2, <1>5, <2>1, States DEF WhenPending
  <2>5. WhenEstablished(p)'
    <3>1. OpenedUnder(p, rx)' = OpenedUnder(p, rx) \union {m.counter}
      <4> DEFINE old == {d \in delivered[p] : d.key = rx}
                 new == {d \in delivered[p] \union {m} : d.key = rx}
      <4>1. new = old \union {m}
        BY Zenon, <1>2
      <4>2. rx' = rx
        BY Zenon, <1>5, <2>1
      <4>3. OpenedUnder(p, rx)' = {d.counter : d \in new}
        BY Zenon, <2>1, <4>2 DEF OpenedUnder
      <4>4. OpenedUnder(p, rx) = {d.counter : d \in old}
        BY Zenon DEF OpenedUnder
      <4> HIDE DEF old, new, rx
      <4> QED BY Zenon, <4>1, <4>3, <4>4
    <3>2. ExactWindow(r, OpenedUnder(p, rx) \union {m.counter})
      BY Zenon, <1>2, <1>3, <1>8, MarkExact DEF r
    <3> QED BY Zenon, <1>1, <1>2, <1>5, <1>6, <2>1, <3>1, <3>2
            DEF SideInv, WhenEstablished, ExactWindow, ExactHighest, ExactBits
  <2> QED BY Zenon, <2>3, <2>4, <2>5 DEF SideInv
<1>12. ASSUME NEW q \in Side, q # p PROVE SideInv(q)'
  BY Zenon, <1>1, <1>2, <1>6, <1>12, Frame DEF DataInv
<1> QED BY Zenon, <1>2, <1>7, <1>10, <1>11, <1>12
        DEF DataInv, DataNoncesUnique, NoncesUnique

\* The invariant of the data channel holds in every reachable state.
LEMMA DataInvariant == Spec => []DataInv
<1>1. Init => DataInv
  BY Zenon, InitDataInv
<1>2. DataInv /\ [Next]_vars => DataInv'
  <2> SUFFICES ASSUME DataInv, [Next]_vars PROVE DataInv'
    BY Zenon
  <2>1. ASSUME UNCHANGED <<sess, generated, net, boot, attempt, tried, restarts,
                           delivered, redelivered>>, clock' \in Nat
        PROVE  DataInv'
    <3>1. TypeOK'
      BY Zenon, <2>1 DEF DataInv, TypeOK
    <3>2. ASSUME NEW p \in Side PROVE SideInv(p)'
      <4>1. Sent(p)' = Sent(p)
        BY Zenon, <2>1 DEF Sent
      <4> QED BY Zenon, <2>1, <4>1, Frame DEF DataInv
    <3> QED BY Zenon, <2>1, <3>1, <3>2
            DEF DataInv, DataNoncesUnique, NoncesUnique, DeliveredOnce
  <2>2. CASE Tick
    <3>1. clock' \in Nat
      BY <2>2 DEF Tick, DataInv, TypeOK
    <3> QED BY Zenon, <2>1, <2>2, <3>1 DEF Tick
  <2>3. CASE UNCHANGED vars
    <3>1. clock' \in Nat
      BY <2>3 DEF vars, DataInv, TypeOK
    <3> QED BY Zenon, <2>1, <2>3, <3>1 DEF vars
  <2>4. ASSUME NEW p \in Side, Restart(p) PROVE DataInv'
    BY <2>4, RestartDataInv
  <2>5. ASSUME NEW now \in attempt .. clock, InitiateHandshake(now) PROVE DataInv'
    BY Zenon, <2>5, InitiateDataInv
  <2>6. ASSUME NEW m \in net, HandleInit(m) PROVE DataInv'
    BY Zenon, <2>6, HandleInitDataInv
  <2>7. ASSUME NEW m \in net, HandleResponse(m) PROVE DataInv'
    BY Zenon, <2>7, HandleResponseDataInv
  <2>8. ASSUME NEW p \in Side, NEW payload \in Payloads, SealData(p, payload)
        PROVE  DataInv'
    BY Zenon, <2>8, SealDataInv
  <2>9. ASSUME NEW p \in Side, NEW m \in net, OpenData(p, m) PROVE DataInv'
    BY <2>9, OpenDataInv
  <2> QED BY Zenon, <2>2, <2>3, <2>4, <2>5, <2>6, <2>7, <2>8, <2>9 DEF Next
<1> QED BY <1>1, <1>2, PTL DEF Spec

\* Both sessions and all messages keep their types.
THEOREM TypeCorrect == Spec => []TypeOK
  BY DataInvariant, PTL DEF DataInv

\* No data key is used twice with one counter, for any number of handshakes,
\* restarts and packets, and any size of the window (session_seal_data,
\* session_start_handshake).
THEOREM DataNonceSafety == Spec => []DataNoncesUnique
  BY DataInvariant, PTL DEF DataInv

\* No side opens one DATA packet twice, for any window size and any history of
\* handshakes, restarts and deliveries (replay_check_and_mark).
THEOREM DeliveredOnceSafety == Spec => []DeliveredOnce
  BY DataInvariant, PTL DEF DataInv

-----------------------------------------------------------------------------
(***************************************************************************)
(* The handshake                                                           *)
(***************************************************************************)

Inits     == {m \in net : m.type = INIT}
Responses == {m \in net : m.type = RESPONSE}
Counter   == sess["I"].handshake_counter
Pending   == sess["I"].pending_handshake_counter
Highest   == sess["R"].highest_handshake_counter_seen
Seen      == sess["R"].have_seen_handshake

\* The clock has overtaken the handshake counter, except in the second of the
\* initiator's start.
ClockInv ==
  /\ 1 <= boot /\ boot <= attempt /\ attempt <= clock
  /\ ~ tried => Counter = boot /\ Pending = 0
  /\ tried => /\ Counter = boot + 1 \/ Counter <= attempt
              /\ Counter >= boot + 1
              /\ Counter = Pending + 1

InitsInv ==
  /\ \A m \in Inits : /\ m.key = StaticKeys("I").tx
                      /\ 1 <= m.counter /\ m.counter < Counter
                      /\ m.body \in OwnKeys("I")
                      /\ tried /\ m.counter = Pending
                           => m.body = sess["I"].local_eph_pk
                      /\ sess["I"].local_eph_pk[2] >= m.body[2]
  /\ ~ tried => \A m \in Inits : m.body # sess["I"].local_eph_pk
  /\ \A m, n \in Inits : m.counter = n.counter => m = n
  /\ \A m, n \in Inits : m.counter < n.counter => m.body[2] < n.body[2]

SeenInv ==
  /\ Seen => \E m \in Inits : /\ m.counter = Highest
                              /\ sess["R"].data_keys.rx.client = m.body
  /\ sess["R"].state = ESTABLISHED => Seen

ResponsesInv ==
  /\ \A m \in Responses :
       /\ m.key = StaticKeys("R").tx
       /\ 1 <= m.counter /\ m.counter < Counter
       /\ m.body \in OwnKeys("R")
       /\ m.body = sess["R"].local_eph_pk =>
            sess["R"].state = ESTABLISHED /\ m.counter = Highest
  /\ restarts["R"] = 0 =>
       /\ \A m \in Responses : Seen /\ m.counter <= Highest
       /\ \A m, n \in Responses : m.counter = n.counter => m = n

\* What the data keys of each established side were derived from.
KeysInv ==
  /\ sess["R"].state = ESTABLISHED =>
       \E m \in Inits :
         /\ m.counter = Highest
         /\ sess["R"].data_keys = crypto_derive_session_keys(
              RESPONDER, sess["R"].local_eph_pk, sess["R"].local_eph_pk, m.body)
  /\ sess["I"].state = ESTABLISHED =>
       /\ tried
       /\ \E m \in Responses :
            /\ m.counter = Pending
            /\ sess["I"].data_keys = crypto_derive_session_keys(
                 INITIATOR, sess["I"].local_eph_pk, sess["I"].local_eph_pk, m.body)

SecretsInv ==
  \A p \in Side :
    /\ sess[p].data_keys.tx.secret \subseteq OwnKeys("I") \union OwnKeys("R")
    /\ sess[p].state = PENDING =>
         sess[p].local_eph_pk \notin sess[p].data_keys.tx.secret

HandshakeInv ==
  ClockInv /\ InitsInv /\ SeenInv /\ ResponsesInv /\ KeysInv /\ SecretsInv

\* The types of what the invariant talks about.
LEMMA TypeFacts ==
  ASSUME DataInv
  PROVE  /\ "I" \in Side /\ "R" \in Side /\ "I" # "R"
         /\ sess["I"] \in SessionRecord /\ sess["R"] \in SessionRecord
         /\ sess \in [Side -> SessionRecord]
         /\ generated["I"] \in Nat /\ generated["R"] \in Nat
         /\ generated \in [Side -> Nat]
         /\ net \subseteq Message
         /\ clock \in Nat /\ boot \in Nat /\ attempt \in Nat
         /\ Counter \in Nat /\ Pending \in Nat /\ Highest \in Nat
         /\ Inits \subseteq Message /\ Responses \subseteq Message
         /\ \A m \in Message : m.counter \in Nat
  BY SideFacts, MessageFacts
  DEF DataInv, TypeOK, SessionRecord, Counter, Pending, Highest, Inits, Responses

\* The names of a side's key pairs, and that the two sides share none.
LEMMA OwnFacts ==
  ASSUME DataInv
  PROVE  /\ \A k \in OwnKeys("I") : k = <<"I", k[2]>> /\ k[2] \in 1 .. generated["I"]
         /\ \A k \in OwnKeys("R") : k = <<"R", k[2]>> /\ k[2] \in 1 .. generated["R"]
         /\ OwnKeys("I") \intersect OwnKeys("R") = {}
  BY TypeFacts DEF OwnKeys, Ephemeral

\* What crypto_derive_session_keys puts into the keys of each role.
LEMMA DeriveFields ==
  ASSUME NEW a, NEW b, NEW c, NEW k
  PROVE  /\ k = crypto_derive_session_keys(RESPONDER, a, b, c) =>
              k.rx.client = c /\ k.tx.secret = {b, c}
         /\ k = crypto_derive_session_keys(INITIATOR, a, b, c) =>
              k.tx.server = c /\ k.tx.secret = {b, c}
  BY DEF crypto_derive_session_keys, KxKey, INITIATOR, RESPONDER

\* The invariant holds when both sides have started.
LEMMA InitHandshakeInv == Init => HandshakeInv
<1> SUFFICES ASSUME Init PROVE HandshakeInv
  OBVIOUS
<1> DEFINE i == Boot("I", 1, Ephemeral("I", 1))
           r == Boot("R", 1, Ephemeral("R", 1))
<1>1. /\ sess["I"] = i /\ sess["R"] = r /\ net = {}
      /\ clock = 1 /\ boot = 1 /\ attempt = 1 /\ tried = FALSE
  BY SideFacts DEF Init
<1>2. ASSUME NEW p \in Side, NEW time \in Nat, NEW e \in KeyName
      PROVE  LET t == Boot(p, time, e)
             IN  /\ t.handshake_counter = time
                 /\ t.pending_handshake_counter = 0
                 /\ ~ t.have_seen_handshake
                 /\ t.state = PENDING
                 /\ t.data_keys = ZeroKeys
  BY InitFacts
<1>3. "I" \in Side /\ "R" \in Side /\ 1 \in Nat /\ Ephemeral("I", 1) \in KeyName
      /\ Ephemeral("R", 1) \in KeyName
  BY SideFacts, NameFacts DEF Ephemeral
<1>4. /\ i.handshake_counter = 1 /\ i.pending_handshake_counter = 0
      /\ i.state = PENDING /\ i.data_keys = ZeroKeys
      /\ ~ r.have_seen_handshake /\ r.state = PENDING
      /\ r.data_keys = ZeroKeys
  BY <1>2, <1>3
<1> HIDE DEF i, r
<1>5. Inits = {} /\ Responses = {} /\ ~ Seen /\ Counter = 1 /\ Pending = 0
  BY <1>1, <1>4 DEF Inits, Responses, Seen, Counter, Pending
<1>6. ClockInv /\ InitsInv /\ ResponsesInv
  BY <1>1, <1>5 DEF ClockInv, InitsInv, ResponsesInv
<1>7. SeenInv /\ KeysInv
  BY Zenon, <1>1, <1>4, <1>5, States DEF SeenInv, KeysInv
<1>8. SecretsInv
  BY <1>1, <1>4 DEF SecretsInv, Side, ZeroKeys, ZeroKey, KxKey
<1> QED BY <1>6, <1>7, <1>8 DEF HandshakeInv

\* A step that leaves the handshake messages and the handshake fields of both
\* sessions alone preserves it.
LEMMA HandshakeFrame ==
  ASSUME DataInv, HandshakeInv, DataInv',
         Inits' = Inits, Responses' = Responses,
         \A p \in Side :
           /\ sess'[p].state = sess[p].state
           /\ sess'[p].local_eph_pk = sess[p].local_eph_pk
           /\ sess'[p].data_keys = sess[p].data_keys
           /\ sess'[p].handshake_counter = sess[p].handshake_counter
           /\ sess'[p].pending_handshake_counter = sess[p].pending_handshake_counter
           /\ sess'[p].have_seen_handshake = sess[p].have_seen_handshake
           /\ sess'[p].highest_handshake_counter_seen
                = sess[p].highest_handshake_counter_seen,
         generated' = generated, boot' = boot, attempt' = attempt,
         tried' = tried, restarts' = restarts, clock' >= clock
  PROVE  HandshakeInv'
<1>1. /\ Counter' = Counter /\ Pending' = Pending /\ Highest' = Highest
      /\ Seen' = Seen /\ \A p \in Side : OwnKeys(p)' = OwnKeys(p)
      /\ "I" \in Side /\ "R" \in Side
  BY SideFacts DEF Counter, Pending, Highest, Seen, OwnKeys
<1>2. clock \in Nat /\ clock' \in Nat /\ attempt \in Nat
  BY DEF DataInv, TypeOK
<1>3. ClockInv'
  BY <1>1, <1>2 DEF HandshakeInv, ClockInv
<1>4. InitsInv'
  BY Zenon, <1>1 DEF HandshakeInv, InitsInv, StaticKeys
<1>5. SeenInv'
  BY Zenon, <1>1 DEF HandshakeInv, SeenInv
<1>6. ResponsesInv'
  BY Zenon, <1>1 DEF HandshakeInv, ResponsesInv, StaticKeys
<1>7. KeysInv'
  BY Zenon, <1>1 DEF HandshakeInv, KeysInv
<1>8. SecretsInv'
  BY <1>1 DEF HandshakeInv, SecretsInv
<1> QED BY Zenon, <1>3, <1>4, <1>5, <1>6, <1>7, <1>8 DEF HandshakeInv

\* A restart preserves it: the clock has overtaken the initiator's counter.
LEMMA RestartHandshakeInv ==
  ASSUME DataInv, HandshakeInv, DataInv', NEW p \in Side, Restart(p)
  PROVE  HandshakeInv'
<1> USE DEF HandshakeInv
<1> DEFINE t == Boot(p, clock, FreshKey(p))
<1>1. FreshKey(p) \in KeyName /\ clock \in Nat /\ generated[p] \in Nat
  BY Zenon, FreshUnused DEF DataInv, TypeOK
<1>2. /\ t.local_eph_pk = FreshKey(p)
      /\ t.handshake_counter = clock /\ t.pending_handshake_counter = 0
      /\ ~ t.have_seen_handshake /\ t.state = PENDING
      /\ t.data_keys = ZeroKeys
  BY <1>1, InitFacts
<1>3. /\ sess' = [sess EXCEPT ![p] = t]
      /\ generated' = [generated EXCEPT ![p] = @ + 1]
      /\ restarts' = [restarts EXCEPT ![p] = @ + 1]
      /\ net' = net /\ clock' = clock
      /\ p = "I" => clock > boot /\ boot' = clock /\ attempt' = clock /\ tried' = FALSE
      /\ p # "I" => boot' = boot /\ attempt' = attempt /\ tried' = tried
  BY Zenon DEF Restart
<1> HIDE DEF t
<1>4. /\ "I" \in Side /\ "R" \in Side /\ "I" # "R"
      /\ sess \in [Side -> SessionRecord] /\ generated \in [Side -> Nat]
      /\ restarts \in [Side -> Nat]
      /\ boot \in Nat /\ attempt \in Nat /\ Counter \in Nat
  BY TypeFacts DEF DataInv, TypeOK
<1>5. Inits' = Inits /\ Responses' = Responses
  BY Zenon, <1>3 DEF Inits, Responses
<1>6. \A q \in Side : OwnKeys(q) \subseteq OwnKeys(q)'
  <2> SUFFICES ASSUME NEW q \in Side PROVE OwnKeys(q) \subseteq OwnKeys(q)'
    OBVIOUS
  <2>1. generated[q] \in Nat /\ generated'[q] \in Nat /\ generated[q] <= generated'[q]
    BY <1>3, <1>4
  <2> QED BY <2>1 DEF OwnKeys
<1>7. FreshKey(p) \notin OwnKeys("I") \union OwnKeys("R")
      /\ FreshKey(p) = <<p, generated[p] + 1>>
  BY <1>1, <1>4 DEF OwnKeys, FreshKey, Ephemeral, Side
<1>8. SecretsInv'
  <2> SUFFICES ASSUME NEW q \in Side
               PROVE  /\ sess'[q].data_keys.tx.secret
                           \subseteq OwnKeys("I")' \union OwnKeys("R")'
                      /\ sess'[q].state = PENDING =>
                           sess'[q].local_eph_pk \notin sess'[q].data_keys.tx.secret
    BY DEF SecretsInv
  <2>1. CASE q = p
    <3>1. sess'[q].data_keys.tx.secret = {}
      BY <1>2, <1>3, <1>4, <2>1 DEF ZeroKeys, ZeroKey, KxKey
    <3> QED BY Zenon, <3>1
  <2>2. CASE q # p
    <3>1. sess'[q] = sess[q]
      BY Zenon, <1>3, <1>4, <2>2
    <3> QED BY Zenon, <1>4, <1>6, <3>1 DEF SecretsInv
  <2> QED BY Zenon, <2>1, <2>2
<1>9. CASE p = "I"
  <2>1. /\ sess'["I"] = t /\ sess'["R"] = sess["R"] /\ restarts'["R"] = restarts["R"]
        /\ tried' = FALSE /\ boot' = clock /\ attempt' = clock
    BY Zenon, <1>3, <1>4, <1>9
  <2>2. Counter' = clock /\ Pending' = 0 /\ Highest' = Highest /\ Seen' = Seen
    BY Zenon, <1>2, <2>1 DEF Counter, Pending, Highest, Seen
  <2>3. Counter <= clock /\ clock >= 1
    BY <1>1, <1>3, <1>4, <1>9 DEF ClockInv
  <2>4. ClockInv'
    BY <1>1, <1>3, <2>1, <2>2, <2>3 DEF ClockInv
  <2>5. InitsInv'
    <3>1. ASSUME NEW m \in Inits
          PROVE  /\ m.counter < clock
                 /\ m.body \in OwnKeys("I") /\ m.body \in OwnKeys("I")'
                 /\ m.body # FreshKey("I")
                 /\ FreshKey("I")[2] >= m.body[2]
      <4>1. m.counter \in Nat /\ m.counter < Counter /\ m.body \in OwnKeys("I")
        BY Zenon, TypeFacts DEF InitsInv
      <4>2. m.body[2] \in 1 .. generated["I"]
        BY Zenon, <4>1, OwnFacts
      <4> QED BY <1>1, <1>4, <1>6, <1>7, <1>9, <2>3, <4>1, <4>2
    <3>2. sess'["I"].local_eph_pk = FreshKey("I")
      BY Zenon, <1>2, <1>9, <2>1
    <3> QED BY Zenon, <1>5, <2>1, <2>2, <3>1, <3>2 DEF InitsInv, StaticKeys
  <2>6. SeenInv'
    BY Zenon, <1>5, <2>1, <2>2 DEF SeenInv
  <2>7. ResponsesInv'
    <3>1. ASSUME NEW m \in Responses
          PROVE  m.counter < clock /\ m.body \in OwnKeys("R")'
      <4>1. m.counter \in Nat /\ m.counter < Counter /\ m.body \in OwnKeys("R")
        BY Zenon, TypeFacts DEF ResponsesInv
      <4> QED BY <1>1, <1>4, <1>6, <2>3, <4>1
    <3> QED BY Zenon, <1>5, <2>1, <2>2, <3>1 DEF ResponsesInv, StaticKeys
  <2>8. KeysInv'
    BY Zenon, <1>2, <1>5, <2>1, <2>2, States DEF KeysInv
  <2> QED BY Zenon, <1>8, <2>4, <2>5, <2>6, <2>7, <2>8
<1>10. CASE p = "R"
  <2>1. /\ sess'["R"] = t /\ sess'["I"] = sess["I"]
        /\ restarts'["R"] = restarts["R"] + 1 /\ restarts["R"] \in Nat
        /\ generated'["I"] = generated["I"]
        /\ tried' = tried /\ boot' = boot /\ attempt' = attempt
    BY Zenon, <1>3, <1>4, <1>10
  <2>2. /\ Counter' = Counter /\ Pending' = Pending /\ ~ Seen'
        /\ OwnKeys("I")' = OwnKeys("I")
    BY Zenon, <1>2, <2>1 DEF Counter, Pending, Seen, OwnKeys
  <2>3. ClockInv'
    BY Zenon, <1>3, <2>1, <2>2 DEF ClockInv
  <2>4. InitsInv'
    BY Zenon, <1>5, <2>1, <2>2 DEF InitsInv, StaticKeys
  <2>5. SeenInv'
    BY Zenon, <1>2, <2>1, <2>2, States DEF SeenInv
  <2>6. ResponsesInv'
    <3>1. sess'["R"].local_eph_pk = FreshKey("R") /\ restarts'["R"] # 0
      BY <1>2, <1>10, <2>1
    <3>2. \A m \in Responses : m.body # FreshKey("R") /\ m.body \in OwnKeys("R")'
      BY Zenon, <1>4, <1>6, <1>7, <1>10 DEF ResponsesInv
    <3> QED BY Zenon, <1>5, <2>2, <3>1, <3>2 DEF ResponsesInv, StaticKeys
  <2>7. KeysInv'
    BY Zenon, <1>2, <1>5, <2>1, <2>2, States DEF KeysInv
  <2> QED BY <1>8, <2>3, <2>4, <2>5, <2>6, <2>7
<1> QED BY Zenon, <1>9, <1>10 DEF Side

\* initiate_handshake preserves it: attempts are at least two seconds apart.
LEMMA InitiateHandshakeInv ==
  ASSUME DataInv, HandshakeInv, DataInv', NEW now \in attempt .. clock,
         InitiateHandshake(now)
  PROVE  HandshakeInv'
<1> USE DEF HandshakeInv
<1> DEFINE s == session_start_handshake(sess["I"], FreshKey("I"))
           t == session_build_init(s)
           n == InitMessage(s)
<1>1. /\ "I" \in Side /\ "R" \in Side /\ "I" # "R"
      /\ sess \in [Side -> SessionRecord] /\ generated \in [Side -> Nat]
      /\ sess["I"] \in SessionRecord /\ generated["I"] \in Nat
      /\ clock \in Nat /\ boot \in Nat /\ attempt \in Nat /\ Counter \in Nat
      /\ now \in Nat /\ attempt <= now /\ now <= clock
  BY TypeFacts
<1>2. FreshKey("I") \in KeyName /\ FreshKey("I") = <<"I", generated["I"] + 1>>
  BY <1>1, FreshUnused DEF DataInv, FreshKey, Ephemeral
<1>3. /\ s \in SessionRecord
      /\ s.static_keys = StaticKeys("I")
      /\ s.local_eph_pk = FreshKey("I")
      /\ s.state = PENDING /\ s.data_keys = sess["I"].data_keys
      /\ s.handshake_counter = Counter
  BY <1>1, <1>2, StartFacts, ZenonT(60) DEF Counter, DataInv, SideInv, Identity
<1>4. /\ tried => now - attempt >= RetryAfter
      /\ sess' = [sess EXCEPT !["I"] = t]
      /\ generated' = [generated EXCEPT !["I"] = @ + 1]
      /\ net' = net \union {n}
      /\ restarts' = restarts
      /\ clock' = clock /\ attempt' = now /\ tried' = TRUE /\ boot' = boot
  BY DEF InitiateHandshake
<1> HIDE DEF s
<1>5. /\ t.local_eph_pk = FreshKey("I") /\ t.state = PENDING
      /\ t.data_keys = sess["I"].data_keys
      /\ t.pending_handshake_counter = Counter
      /\ t.handshake_counter = Counter + 1
  BY <1>3, BuildInitFacts
<1>6. /\ n.type = INIT /\ n.key = StaticKeys("I").tx /\ n.counter = Counter
      /\ n.body = FreshKey("I")
  BY <1>3 DEF InitMessage, crypto_seal
<1> HIDE DEF t, n
<1>7. /\ sess'["I"] = t /\ sess'["R"] = sess["R"]
      /\ generated'["I"] = generated["I"] + 1 /\ generated'["R"] = generated["R"]
  BY <1>1, <1>4
<1>8. /\ Counter' = Counter + 1 /\ Pending' = Counter /\ Highest' = Highest
      /\ Seen' = Seen /\ OwnKeys("R")' = OwnKeys("R")
      /\ OwnKeys("I") \subseteq OwnKeys("I")' /\ FreshKey("I") \in OwnKeys("I")'
  <2>1. OwnKeys("I") \subseteq OwnKeys("I")' /\ FreshKey("I") \in OwnKeys("I")'
    BY <1>1, <1>7 DEF OwnKeys, FreshKey
  <2> QED BY <1>5, <1>7, <2>1 DEF Counter, Pending, Highest, Seen, OwnKeys
<1>9. Inits' = Inits \union {n} /\ Responses' = Responses
  BY <1>4, <1>6 DEF Inits, Responses, INIT, RESPONSE
<1>10. Counter >= 1
  BY <1>1 DEF ClockInv
<1>11. ClockInv'
  BY <1>1, <1>4, <1>8, <1>10, RetryAssumption DEF ClockInv
<1>12. InitsInv'
  <2>1. ASSUME NEW m \in Inits
        PROVE  /\ m.counter \in Nat /\ 1 <= m.counter /\ m.counter < Counter
               /\ m.key = StaticKeys("I").tx
               /\ m.body \in OwnKeys("I")' /\ m.body[2] \in Nat
               /\ m.body[2] <= generated["I"]
    <3>1. m.counter \in Nat /\ m.counter < Counter /\ m.body \in OwnKeys("I")
      BY Zenon, TypeFacts DEF InitsInv
    <3>2. m.body[2] \in 1 .. generated["I"]
      BY Zenon, <3>1, OwnFacts
    <3>3. 1 <= m.counter /\ m.key = StaticKeys("I").tx
      BY Zenon DEF InitsInv
    <3>4. m.body \in OwnKeys("I")'
      BY Zenon, <1>8, <3>1
    <3>5. m.body[2] \in Nat /\ m.body[2] <= generated["I"]
      BY <1>1, <3>2
    <3> QED BY Zenon, <3>1, <3>3, <3>4, <3>5
  <2>2. FreshKey("I")[2] = generated["I"] + 1
    BY <1>2
  <2>3. \A m \in Inits' : /\ m.key = StaticKeys("I").tx
                          /\ 1 <= m.counter /\ m.counter < Counter'
                          /\ m.body \in OwnKeys("I")'
                          /\ m.counter = Pending' => m.body = FreshKey("I")
                          /\ FreshKey("I")[2] >= m.body[2]
    BY <1>1, <1>6, <1>8, <1>9, <1>10, <2>1, <2>2
  <2>4. \A m, m2 \in Inits' : m.counter = m2.counter => m = m2
    <3>1. \A m \in Inits : m.counter # n.counter
      BY <1>1, <1>6, <2>1
    <3> QED BY Zenon, <1>9, <3>1 DEF InitsInv
  <2>5. \A m, m2 \in Inits' : m.counter < m2.counter => m.body[2] < m2.body[2]
    <3>1. \A m \in Inits : ~(n.counter < m.counter)
      BY <1>1, <1>6, <2>1
    <3>2. ~(n.counter < n.counter)
      BY <1>1, <1>6
    <3>3. \A m \in Inits : m.body[2] < n.body[2]
      BY <1>1, <1>6, <2>1, <2>2
    <3> QED BY Zenon, <1>9, <3>1, <3>2, <3>3 DEF InitsInv
  <2> QED BY Zenon, <1>4, <1>5, <1>7, <2>3, <2>4, <2>5 DEF InitsInv, StaticKeys
<1>13. SeenInv'
  BY Zenon, <1>7, <1>8, <1>9 DEF SeenInv
<1>14. ResponsesInv'
  <2>1. \A m \in Responses : m.counter \in Nat /\ m.counter < Counter + 1
    BY <1>1, TypeFacts DEF ResponsesInv
  <2> QED BY Zenon, <1>4, <1>7, <1>8, <1>9, <2>1 DEF ResponsesInv, StaticKeys
<1>15. KeysInv'
  BY Zenon, <1>5, <1>7, <1>8, <1>9, States DEF KeysInv
<1>16. SecretsInv'
  <2>1. FreshKey("I") \notin OwnKeys("I") \union OwnKeys("R")
    BY <1>1, <1>2 DEF OwnKeys, Ephemeral
  <2> QED BY Zenon, <1>5, <1>7, <1>8, <2>1 DEF SecretsInv, Side
<1> QED BY Zenon, <1>11, <1>12, <1>13, <1>14, <1>15, <1>16

\* session_handle_response preserves it: the answer is to the last INIT.
LEMMA ResponseHandshakeInv ==
  ASSUME DataInv, HandshakeInv, DataInv', NEW m \in net, HandleResponse(m)
  PROVE  HandshakeInv'
<1> USE DEF HandshakeInv
<1> DEFINE s == sess["I"]
           t == session_handle_response(s, m)
<1>1. /\ "I" \in Side /\ "R" \in Side /\ "I" # "R"
      /\ sess \in [Side -> SessionRecord] /\ s \in SessionRecord
      /\ m \in Message /\ Counter \in Nat /\ Pending \in Nat
  BY Zenon, TypeFacts
<1>2. /\ CanHandleResponse(s, m) /\ s.state = PENDING
      /\ m \in Responses /\ m.counter = Pending
      /\ sess' = [sess EXCEPT !["I"] = t]
      /\ generated' = generated /\ net' = net
      /\ clock' = clock /\ boot' = boot /\ attempt' = attempt /\ tried' = tried
      /\ restarts' = restarts
  BY Zenon DEF HandleResponse, CanHandleResponse, Responses, Pending
<1>3. /\ t.state = ESTABLISHED
      /\ t.local_eph_pk = s.local_eph_pk
      /\ t.handshake_counter = s.handshake_counter
      /\ t.pending_handshake_counter = s.pending_handshake_counter
      /\ t.data_keys = crypto_derive_session_keys(s.role, s.local_eph_pk,
                                                  s.local_eph_sk, m.body)
  BY Zenon, <1>1, <1>2, HandleResponseFacts
<1>4. /\ s.role = INITIATOR /\ s.local_eph_sk = s.local_eph_pk
      /\ s.local_eph_pk \in OwnKeys("I")
  BY Zenon, <1>1, <1>2 DEF DataInv, SideInv, WhenPending, Ephemerals, CanHandleResponse
<1> HIDE DEF t
<1>5. sess'["I"] = t /\ sess'["R"] = sess["R"]
  BY Zenon, <1>1, <1>2
<1>6. /\ Counter' = Counter /\ Pending' = Pending /\ Highest' = Highest
      /\ Seen' = Seen /\ Inits' = Inits /\ Responses' = Responses
      /\ OwnKeys("I")' = OwnKeys("I") /\ OwnKeys("R")' = OwnKeys("R")
  BY Zenon, <1>2, <1>3, <1>5
  DEF Counter, Pending, Highest, Seen, Inits, Responses, OwnKeys
<1>7. tried
  <2>1. 1 <= Pending
    BY Zenon, <1>2 DEF ResponsesInv
  <2>2. ~ tried => Pending = 0
    BY Zenon DEF ClockInv
  <2> QED BY <1>1, <2>1, <2>2
<1>8. ClockInv' /\ SeenInv'
  BY Zenon, <1>2, <1>5, <1>6 DEF ClockInv, SeenInv
<1>9. InitsInv'
  BY Zenon, <1>2, <1>3, <1>5, <1>6 DEF InitsInv, StaticKeys
<1>10. ResponsesInv'
  BY Zenon, <1>2, <1>5, <1>6 DEF ResponsesInv, StaticKeys
<1>11. KeysInv'
  BY Zenon, <1>2, <1>3, <1>4, <1>5, <1>6, <1>7 DEF KeysInv
<1>12. SecretsInv'
  <2>1. m.body \in OwnKeys("R")
    BY Zenon, <1>2 DEF ResponsesInv
  <2>2. t.data_keys.tx.secret = {s.local_eph_pk, m.body}
    <3> DEFINE k == t.data_keys
               x == s.local_eph_pk
    <3>1. k = crypto_derive_session_keys(INITIATOR, x, x, m.body)
      BY Zenon, <1>3, <1>4
    <3> HIDE DEF k, x
    <3>2. k.tx.secret = {x, m.body}
      BY <3>1, DeriveFields
    <3> QED BY Zenon, <3>2 DEF k, x
  <2> QED BY Zenon, <1>3, <1>4, <1>5, <1>6, <2>1, <2>2, States DEF SecretsInv, Side
<1> QED BY Zenon, <1>8, <1>9, <1>10, <1>11, <1>12

\* session_handle_init preserves it: the counter is above all it has seen.
LEMMA HandleInitHandshakeInv ==
  ASSUME DataInv, HandshakeInv, DataInv', NEW m \in net, HandleInit(m)
  PROVE  HandshakeInv'
<1> USE DEF HandshakeInv
<1> DEFINE s == sess["R"]
           e == FreshKey("R")
           u == Reconnected(s, e)
           t == session_handle_init(s, m, e)
           n == ResponseMessage(s, m, e)
<1>1. /\ "I" \in Side /\ "R" \in Side /\ "I" # "R"
      /\ sess \in [Side -> SessionRecord] /\ generated \in [Side -> Nat]
      /\ s \in SessionRecord /\ generated["R"] \in Nat /\ m \in Message
      /\ m.counter \in Nat /\ Highest \in Nat /\ clock \in Nat
  BY Zenon, TypeFacts
<1>2. e \in KeyName /\ e = <<"R", generated["R"] + 1>>
  BY Zenon, <1>1, FreshUnused DEF DataInv, FreshKey, Ephemeral
<1>3. /\ sess' = [sess EXCEPT !["R"] = t]
      /\ generated' = IF s.state = ESTABLISHED
                      THEN [generated EXCEPT !["R"] = @ + 1] ELSE generated
      /\ net' = IF CanHandleInit(s, m) THEN net \union {n} ELSE net
      /\ FreshInit(s, m)
      /\ clock' = clock /\ boot' = boot /\ attempt' = attempt /\ tried' = tried
      /\ restarts' = restarts
  BY Zenon DEF HandleInit
<1>4. /\ m \in Inits /\ s.role = RESPONDER /\ ~ (Seen /\ m.counter <= Highest)
  BY Zenon, <1>3 DEF FreshInit, Inits, Seen, Highest
<1>5. /\ u.state = PENDING /\ u.data_keys = s.data_keys
      /\ u.have_seen_handshake = s.have_seen_handshake
      /\ u.highest_handshake_counter_seen = s.highest_handshake_counter_seen
      /\ s.state = ESTABLISHED => u.local_eph_pk = e /\ u.local_eph_sk = e
      /\ s.state = PENDING => u = s
  BY Zenon, <1>1, <1>2, ReconnectedFacts
<1>6. s.state = PENDING \/ s.state = ESTABLISHED
  BY Zenon, <1>1 DEF SessionRecord
<1>7. /\ generated'["I"] = generated["I"] /\ OwnKeys("I")' = OwnKeys("I")
      /\ OwnKeys("R") \subseteq OwnKeys("R")'
  <2>1. /\ generated'["I"] = generated["I"]
        /\ generated'["R"] = generated["R"] \/ generated'["R"] = generated["R"] + 1
    BY Zenon, <1>1, <1>3
  <2> QED BY <1>1, <2>1 DEF OwnKeys
<1>8. /\ u.local_eph_sk = u.local_eph_pk
      /\ u.local_eph_pk \in OwnKeys("R")'
      /\ \A r \in Responses : r.body # u.local_eph_pk
      /\ u.local_eph_pk \notin u.data_keys.tx.secret
  <2>1. CASE s.state = ESTABLISHED
    <3>1. generated'["R"] = generated["R"] + 1
      BY Zenon, <1>1, <1>3, <2>1
    <3>2. e \in OwnKeys("R")'
      BY <1>1, <3>1 DEF OwnKeys, FreshKey
    <3>3. e \notin OwnKeys("R") /\ e \notin OwnKeys("I")
      BY <1>1, <1>2 DEF OwnKeys, Ephemeral
    <3> QED BY Zenon, <1>1, <1>5, <2>1, <3>2, <3>3 DEF ResponsesInv, SecretsInv
  <2>2. CASE s.state = PENDING
    <3>1. SideInv("R") /\ s.local_eph_pk \in OwnKeys("R")
      BY Zenon, <1>1 DEF DataInv, SideInv, Ephemerals
    <3>2. s.local_eph_sk = s.local_eph_pk
      BY Zenon, <2>2, <3>1 DEF SideInv, WhenPending
    <3> QED BY Zenon, <1>1, <1>5, <1>7, <2>2, <3>1, <3>2, States
            DEF ResponsesInv, SecretsInv
  <2> QED BY Zenon, <1>6, <2>1, <2>2
<1> HIDE DEF u
<1>9. /\ sess'["R"] = t /\ sess'["I"] = sess["I"]
  BY Zenon, <1>1, <1>3
<1>10. Counter' = Counter /\ Pending' = Pending
  BY Zenon, <1>9 DEF Counter, Pending
<1>11. ClockInv'
  BY Zenon, <1>3, <1>10 DEF ClockInv
<1>12. CASE CanHandleInit(s, m)
  <2>1. /\ t.state = ESTABLISHED /\ t.local_eph_pk = u.local_eph_pk
        /\ t.have_seen_handshake
        /\ t.highest_handshake_counter_seen = m.counter
        /\ t.data_keys = crypto_derive_session_keys(RESPONDER, u.local_eph_pk,
                                                    u.local_eph_pk, m.body)
    <3>1. /\ t.state = ESTABLISHED /\ t.local_eph_pk = u.local_eph_pk
          /\ t.have_seen_handshake = TRUE
          /\ t.highest_handshake_counter_seen = m.counter
          /\ t.data_keys = crypto_derive_session_keys(s.role, u.local_eph_pk,
                                                      u.local_eph_sk, m.body)
      BY Zenon, <1>1, <1>2, <1>12, HandleInitFacts DEF u
    <3> HIDE DEF t
    <3> QED BY Zenon, <1>4, <1>8, <3>1
  <2>2. /\ n.type = RESPONSE /\ n.counter = m.counter /\ n.body = u.local_eph_pk
        /\ n.key = StaticKeys("R").tx
    BY Zenon, <1>1 DEF ResponseMessage, crypto_seal, u, DataInv, SideInv, Identity
  <2> HIDE DEF t, n
  <2>3. Inits' = Inits /\ Responses' = Responses \union {n}
    BY Zenon, <1>3, <1>12, <2>2 DEF Inits, Responses, INIT, RESPONSE
  <2>4. Highest' = m.counter /\ Seen'
    BY Zenon, <1>9, <2>1 DEF Highest, Seen
  <2>5. /\ t.data_keys.rx.client = m.body
        /\ t.data_keys.tx.secret = {u.local_eph_pk, m.body}
    <3> DEFINE k == t.data_keys
               x == u.local_eph_pk
               z == m.body
    <3>1. k = crypto_derive_session_keys(RESPONDER, x, x, z)
      BY Zenon, <2>1
    <3> HIDE DEF k, x, z
    <3>2. k.rx.client = z /\ k.tx.secret = {x, z}
      BY ONLY <3>1, DeriveFields
    <3> QED BY Zenon, <3>2 DEF k, x, z
  <2>6. InitsInv'
    BY Zenon, <1>3, <1>7, <1>9, <1>10, <2>3 DEF InitsInv, StaticKeys
  <2>7. SeenInv'
    BY Zenon, <1>4, <1>9, <2>3, <2>4, <2>5 DEF SeenInv
  <2>8. ResponsesInv'
    <3>1. 1 <= m.counter /\ m.counter < Counter
      BY <1>4 DEF InitsInv
    <3>2. \A r \in Responses' : /\ r.key = StaticKeys("R").tx
                                /\ 1 <= r.counter /\ r.counter < Counter
                                /\ r.body \in OwnKeys("R")'
                                /\ r.body = u.local_eph_pk => r = n
      BY <1>7, <1>8, <2>2, <2>3, <3>1 DEF ResponsesInv
    <3>3. ASSUME restarts["R"] = 0, NEW r \in Responses PROVE r.counter < m.counter
      BY <1>1, <1>4, <3>3, TypeFacts DEF ResponsesInv
    <3>4. ASSUME restarts["R"] = 0
          PROVE  /\ \A r \in Responses' : r.counter <= m.counter
                 /\ \A r, q \in Responses' : r.counter = q.counter => r = q
      <4>1. \A r \in Responses : r.counter \in Nat
        BY Zenon, TypeFacts
      <4>2. \A r \in Responses : r.counter # m.counter /\ r.counter <= m.counter
        BY <1>1, <3>3, <3>4, <4>1
      <4>3. \A r, q \in Responses : r.counter = q.counter => r = q
        BY Zenon, <3>4 DEF ResponsesInv
      <4>4. n.counter = m.counter /\ m.counter <= m.counter
        BY <1>1, <2>2
      <4>5. \A r \in Responses' : r.counter <= m.counter
        BY Zenon, <2>3, <4>2, <4>4
      <4>6. \A r, q \in Responses' : r.counter = q.counter => r = q
        BY Zenon, <2>3, <4>2, <4>3, <4>4
      <4> QED BY Zenon, <4>5, <4>6
    <3> QED BY <1>3, <1>9, <1>10, <2>1, <2>2, <2>4, <3>2, <3>4, ZenonT(60)
            DEF ResponsesInv, StaticKeys
  <2>9. KeysInv'
    <3>1. ASSUME sess["I"].state = ESTABLISHED
          PROVE  /\ tried
                 /\ \E r \in Responses' :
                      /\ r.counter = Pending
                      /\ sess["I"].data_keys = crypto_derive_session_keys(
                           INITIATOR, sess["I"].local_eph_pk,
                           sess["I"].local_eph_pk, r.body)
      BY <2>3, <3>1 DEF KeysInv
    <3> QED BY <1>3, <1>4, <1>9, <1>10, <2>1, <2>3, <2>4, <3>1, ZenonT(60) DEF KeysInv
  <2>10. SecretsInv'
    <3>1. m.body \in OwnKeys("I")'
      BY Zenon, <1>4, <1>7 DEF InitsInv
    <3>2. t.data_keys.tx.secret \subseteq OwnKeys("I")' \union OwnKeys("R")'
      BY Zenon, <1>8, <2>5, <3>1
    <3> QED BY Zenon, <1>1, <1>7, <1>9, <2>1, <3>2, States DEF SecretsInv, Side
  <2> QED BY Zenon, <1>11, <2>6, <2>7, <2>8, <2>9, <2>10
<1>13. CASE ~ CanHandleInit(s, m)
  <2>1. t = u
    BY Zenon, <1>3, <1>13 DEF session_handle_init, CanHandleInit, u
  <2> HIDE DEF t, n
  <2>2. Inits' = Inits /\ Responses' = Responses
    BY Zenon, <1>3, <1>13 DEF Inits, Responses
  <2>3. Highest' = Highest /\ Seen' = Seen
    BY Zenon, <1>5, <1>9, <2>1 DEF Highest, Seen
  <2>4. InitsInv'
    BY Zenon, <1>3, <1>7, <1>9, <1>10, <2>2 DEF InitsInv, StaticKeys
  <2>5. SeenInv'
    BY Zenon, <1>5, <1>9, <2>1, <2>2, <2>3, States DEF SeenInv
  <2>6. ResponsesInv'
    BY Zenon, <1>3, <1>7, <1>8, <1>9, <1>10, <2>1, <2>2, <2>3 DEF ResponsesInv, StaticKeys
  <2>7. KeysInv'
    BY Zenon, <1>3, <1>5, <1>9, <1>10, <2>1, <2>2, States DEF KeysInv
  <2>8. SecretsInv'
    BY Zenon, <1>1, <1>5, <1>7, <1>8, <1>9, <2>1 DEF SecretsInv, Side
  <2> QED BY <1>11, <2>4, <2>5, <2>6, <2>7, <2>8
<1> QED BY Zenon, <1>12, <1>13

\* session_seal_data preserves it.
LEMMA SealHandshakeInv ==
  ASSUME DataInv, HandshakeInv, DataInv', NEW p \in Side, NEW payload \in Payloads,
         SealData(p, payload)
  PROVE  HandshakeInv'
<1> DEFINE n == DataMessage(sess[p], payload)
<1>1. n.type = DATA
  BY Zenon DEF DataMessage, crypto_seal
<1>2. net' = net \union {n} /\ sess' = [sess EXCEPT ![p] = session_seal_data(@)]
      /\ UNCHANGED <<generated, clock, boot, attempt, tried, restarts>>
  BY Zenon DEF SealData
<1> HIDE DEF n
<1>3. Inits' = Inits /\ Responses' = Responses
  BY Zenon, <1>1, <1>2 DEF Inits, Responses, INIT, RESPONSE, DATA
<1>4. sess \in [Side -> SessionRecord] /\ clock \in Nat
  BY TypeFacts
<1>5. session_seal_data(sess[p]) = [sess[p] EXCEPT !.tx_counter = @ + 1]
  BY Zenon DEF session_seal_data
<1> QED BY <1>2, <1>3, <1>4, <1>5, HandshakeFrame DEF SessionRecord

\* session_open_data preserves it.
LEMMA OpenHandshakeInv ==
  ASSUME DataInv, HandshakeInv, DataInv', NEW p \in Side, NEW m \in net,
         OpenData(p, m)
  PROVE  HandshakeInv'
<1> DEFINE r == ReplayMark(sess[p].replay, m.counter)
<1>1. /\ sess' = [sess EXCEPT ![p] = session_open_data(@, m)] /\ net' = net
      /\ UNCHANGED <<generated, clock, boot, attempt, tried, restarts>>
      /\ AuthenticData(sess[p], m)
  BY Zenon DEF OpenData, CanOpenData
<1>2. Inits' = Inits /\ Responses' = Responses
  BY Zenon, <1>1 DEF Inits, Responses
<1>3. sess \in [Side -> SessionRecord] /\ clock \in Nat
  BY TypeFacts
<1>4. session_open_data(sess[p], m) = [sess[p] EXCEPT !.replay = r]
  BY <1>1 DEF session_open_data
<1> HIDE DEF r
<1> QED BY <1>1, <1>2, <1>3, <1>4, HandshakeFrame DEF SessionRecord

\* The invariant of the handshake holds in every reachable state.
LEMMA HandshakeInvariant == Spec => []HandshakeInv
<1>1. Init => HandshakeInv
  BY Zenon, InitHandshakeInv
<1>2. DataInv /\ DataInv' /\ HandshakeInv /\ [Next]_vars => HandshakeInv'
  <2> SUFFICES ASSUME DataInv, DataInv', HandshakeInv, [Next]_vars
               PROVE  HandshakeInv'
    BY Zenon
  <2>1. ASSUME UNCHANGED <<sess, generated, net, boot, attempt, tried, restarts>>,
               clock' >= clock
        PROVE  HandshakeInv'
    <3>1. Inits' = Inits /\ Responses' = Responses
      BY Zenon, <2>1 DEF Inits, Responses
    <3> QED BY Zenon, <2>1, <3>1, HandshakeFrame
  <2>2. CASE Tick
    <3>1. clock' >= clock
      BY <2>2 DEF Tick, DataInv, TypeOK
    <3> QED BY Zenon, <2>1, <2>2, <3>1 DEF Tick
  <2>3. CASE UNCHANGED vars
    <3>1. clock' >= clock
      BY <2>3 DEF vars, DataInv, TypeOK
    <3> QED BY Zenon, <2>1, <2>3, <3>1 DEF vars
  <2>4. ASSUME NEW p \in Side, Restart(p) PROVE HandshakeInv'
    BY Zenon, <2>4, RestartHandshakeInv
  <2>5. ASSUME NEW now \in attempt .. clock, InitiateHandshake(now)
        PROVE  HandshakeInv'
    BY Zenon, <2>5, InitiateHandshakeInv
  <2>6. ASSUME NEW m \in net, HandleInit(m) PROVE HandshakeInv'
    BY Zenon, <2>6, HandleInitHandshakeInv
  <2>7. ASSUME NEW m \in net, HandleResponse(m) PROVE HandshakeInv'
    BY Zenon, <2>7, ResponseHandshakeInv
  <2>8. ASSUME NEW p \in Side, NEW payload \in Payloads, SealData(p, payload)
        PROVE  HandshakeInv'
    BY Zenon, <2>8, SealHandshakeInv
  <2>9. ASSUME NEW p \in Side, NEW m \in net, OpenData(p, m) PROVE HandshakeInv'
    BY <2>9, OpenHandshakeInv
  <2> QED BY Zenon, <2>2, <2>3, <2>4, <2>5, <2>6, <2>7, <2>8, <2>9 DEF Next
<1> QED BY <1>1, <1>2, DataInvariant, PTL DEF Spec

\* No two INITs are sealed with one counter, across any number of restarts of
\* either side (session_init's wall-clock counter, session_build_init).
THEOREM InitNonceSafety == Spec => []InitNoncesUnique
<1>1. HandshakeInv => InitNoncesUnique
  BY Zenon DEF HandshakeInv, InitsInv, Inits, InitNoncesUnique, NoncesUnique
<1> QED BY <1>1, HandshakeInvariant, PTL

\* No two RESPONSEs are sealed with one counter while the responder keeps
\* running (session_handle_init).
THEOREM ResponseNonceSafety == Spec => []ResponseNoncesUnique
<1>1. HandshakeInv => ResponseNoncesUnique
  BY DEF HandshakeInv, ResponsesInv, Responses, ResponseNoncesUnique, NoncesUnique
<1> QED BY <1>1, HandshakeInvariant, PTL

\* The INIT the initiator waits on is never stale for the responder
\* (session_init, session_handle_init).
THEOREM OutstandingInitSafety == Spec => []OutstandingInitFresh
<1>1. DataInv /\ HandshakeInv => OutstandingInitFresh
  <2> SUFFICES ASSUME DataInv, HandshakeInv, tried, Seen PROVE Highest <= Pending
    BY Zenon DEF OutstandingInitFresh, Seen, Highest, Pending
  <2>1. Highest < Counter
    BY DEF HandshakeInv, SeenInv, InitsInv
  <2>2. Counter = Pending + 1
    BY Zenon DEF HandshakeInv, ClockInv
  <2> QED BY <2>1, <2>2, TypeFacts
<1> QED BY <1>1, DataInvariant, HandshakeInvariant, PTL

\* The two roles of crypto_derive_session_keys give crossed key pairs.
LEMMA DeriveAgrees ==
  ASSUME NEW x, NEW y, NEW k, NEW l,
         k = crypto_derive_session_keys(INITIATOR, x, x, y),
         l = crypto_derive_session_keys(RESPONDER, y, y, x)
  PROVE  k.tx = l.rx /\ k.rx = l.tx
<1> DEFINE A == {x, y}
           B == {y, x}
<1>1. A = B
  BY Zenon
<1>2. /\ k.tx = KxKey(A, x, y, "c2s")
      /\ k.rx = KxKey(A, x, y, "s2c")
  BY Zenon DEF crypto_derive_session_keys
<1>3. /\ l.rx = KxKey(B, x, y, "c2s")
      /\ l.tx = KxKey(B, x, y, "s2c")
  BY Zenon DEF crypto_derive_session_keys, INITIATOR, RESPONDER
<1> HIDE DEF A, B
<1> QED BY Zenon, <1>1, <1>2, <1>3

\* Established sides that used each other's key pair hold crossed data keys
\* (session_handle_init, session_handle_response).
THEOREM KeyAgreementSafety == Spec => []KeyAgreement
<1>1. DataInv /\ HandshakeInv => KeyAgreement
  <2> DEFINE i == sess["I"]
             r == sess["R"]
  <2> SUFFICES ASSUME DataInv, HandshakeInv,
                      i.state = ESTABLISHED, r.state = ESTABLISHED,
                      i.data_keys.tx.server = r.local_eph_pk
               PROVE  i.data_keys.tx = r.data_keys.rx /\ i.data_keys.rx = r.data_keys.tx
    BY Zenon DEF KeyAgreement, Established
  <2>1. PICK a \in Inits :
          /\ a.counter = Highest
          /\ r.data_keys = crypto_derive_session_keys(
               RESPONDER, r.local_eph_pk, r.local_eph_pk, a.body)
    BY Zenon DEF HandshakeInv, KeysInv
  <2>2. PICK b \in Responses :
          /\ b.counter = Pending
          /\ i.data_keys = crypto_derive_session_keys(
               INITIATOR, i.local_eph_pk, i.local_eph_pk, b.body)
    BY Zenon DEF HandshakeInv, KeysInv
  <2>3. tried
    BY Zenon DEF HandshakeInv, KeysInv
  <2>4. i.data_keys.tx.server = b.body
    <3> DEFINE k == i.data_keys
               x == i.local_eph_pk
    <3>1. k = crypto_derive_session_keys(INITIATOR, x, x, b.body)
      BY Zenon, <2>2
    <3> HIDE DEF k, x
    <3>2. k.tx.server = b.body
      BY <3>1, DeriveFields
    <3> QED BY Zenon, <3>2 DEF k
  <2>5. b.counter = Highest
    BY Zenon, <2>4 DEF HandshakeInv, ResponsesInv
  <2>6. a.body = i.local_eph_pk
    BY Zenon, <2>1, <2>2, <2>3, <2>5 DEF HandshakeInv, InitsInv
  <2>7. b.body = r.local_eph_pk
    BY Zenon, <2>4
  <2> HIDE DEF i, r
  <2>8. /\ i.data_keys = crypto_derive_session_keys(
             INITIATOR, a.body, a.body, b.body)
        /\ r.data_keys = crypto_derive_session_keys(
             RESPONDER, b.body, b.body, a.body)
    BY Zenon, <2>1, <2>2, <2>6, <2>7
  <2> DEFINE k == i.data_keys
             l == r.data_keys
             x == a.body
             y == b.body
  <2>9. /\ k = crypto_derive_session_keys(INITIATOR, x, x, y)
        /\ l = crypto_derive_session_keys(RESPONDER, y, y, x)
    BY Zenon, <2>8
  <2> HIDE DEF k, l, x, y
  <2>10. k.tx = l.rx /\ k.rx = l.tx
    BY <2>9, DeriveAgrees
  <2> QED BY Zenon, <2>10 DEF k, l
<1> QED BY <1>1, DataInvariant, HandshakeInvariant, PTL

\* No side holds the ephemeral secret of the data keys it has (crypto_wipe in
\* session_handle_init and session_handle_response).
THEOREM SecretsWipedSafety == Spec => []SecretsWiped
<1>1. DataInv /\ HandshakeInv => SecretsWiped
  <2> SUFFICES ASSUME DataInv, HandshakeInv, NEW p \in Side
               PROVE  LET s == sess[p]
                      IN  /\ s.local_eph_sk # Wiped =>
                               s.local_eph_sk \notin s.data_keys.tx.secret
                          /\ Established(p) => s.local_eph_sk = Wiped
    BY Zenon DEF SecretsWiped
  <2>1. sess[p].state = PENDING \/ sess[p].state = ESTABLISHED
    BY Zenon DEF DataInv, TypeOK, SessionRecord
  <2>2. sess[p].state = ESTABLISHED => sess[p].local_eph_sk = Wiped
    BY Zenon DEF DataInv, SideInv, WhenEstablished
  <2>3. sess[p].state = PENDING =>
          /\ sess[p].local_eph_sk = sess[p].local_eph_pk
          /\ sess[p].local_eph_pk \notin sess[p].data_keys.tx.secret
    BY Zenon DEF DataInv, SideInv, WhenPending, HandshakeInv, SecretsInv
  <2> QED BY Zenon, <2>1, <2>2, <2>3, States DEF Established
<1> QED BY <1>1, DataInvariant, HandshakeInvariant, PTL

\* What one step does to the responder's data keys.
LEMMA NoRollbackStep ==
  ASSUME DataInv, HandshakeInv, [Next]_vars, restarts' = restarts, Seen
  PROVE  \/ sess["R"].data_keys' = sess["R"].data_keys
         \/ sess["R"].data_keys'.rx.client[2] > sess["R"].data_keys.rx.client[2]
<1>1. /\ "I" \in Side /\ "R" \in Side /\ "I" # "R"
      /\ sess \in [Side -> SessionRecord] /\ restarts \in [Side -> Nat]
  BY Zenon, TypeFacts DEF DataInv, TypeOK
<1>2. CASE Tick \/ UNCHANGED vars
  BY Zenon, <1>2 DEF Tick, vars
<1>3. ASSUME NEW p \in Side, Restart(p) PROVE FALSE
  <2>1. restarts'[p] = restarts[p] + 1 /\ restarts[p] \in Nat
    BY Zenon, <1>1, <1>3 DEF Restart
  <2> QED BY <2>1
<1>4. ASSUME NEW now \in attempt .. clock, InitiateHandshake(now)
      PROVE  sess["R"].data_keys' = sess["R"].data_keys
  BY Zenon, <1>1, <1>4 DEF InitiateHandshake
<1>5. ASSUME NEW m \in net, HandleResponse(m)
      PROVE  sess["R"].data_keys' = sess["R"].data_keys
  BY <1>1, <1>5 DEF HandleResponse
<1>6. ASSUME NEW p \in Side, NEW payload \in Payloads, SealData(p, payload)
      PROVE  sess["R"].data_keys' = sess["R"].data_keys
  BY Zenon, <1>1, <1>6 DEF SealData, session_seal_data, SessionRecord
<1>7. ASSUME NEW p \in Side, NEW m \in net, OpenData(p, m)
      PROVE  sess["R"].data_keys' = sess["R"].data_keys
  <2> DEFINE r == ReplayMark(sess[p].replay, m.counter)
  <2>1. session_open_data(sess[p], m) = [sess[p] EXCEPT !.replay = r]
    BY Zenon, <1>7 DEF OpenData, CanOpenData, session_open_data
  <2>2. sess' = [sess EXCEPT ![p] = session_open_data(sess[p], m)]
    BY Zenon, <1>7 DEF OpenData
  <2> HIDE DEF r
  <2> QED BY <1>1, <2>1, <2>2 DEF SessionRecord
<1>8. ASSUME NEW m \in net, HandleInit(m)
      PROVE  \/ sess["R"].data_keys' = sess["R"].data_keys
             \/ sess["R"].data_keys'.rx.client[2] > sess["R"].data_keys.rx.client[2]
  <2> DEFINE s == sess["R"]
             e == FreshKey("R")
             u == Reconnected(s, e)
             t == session_handle_init(s, m, e)
  <2>1. s \in SessionRecord /\ m \in Message /\ e \in KeyName
        /\ m.counter \in Nat /\ Highest \in Nat
    BY Zenon, <1>1, TypeFacts, FreshUnused DEF DataInv
  <2>2. /\ m \in Inits /\ s.role = RESPONDER /\ m.counter > Highest
        /\ sess' = [sess EXCEPT !["R"] = t] /\ FreshInit(s, m)
    <3>1. FreshInit(s, m) /\ sess' = [sess EXCEPT !["R"] = t]
      BY Zenon, <1>8 DEF HandleInit
    <3>2. /\ m \in Inits /\ s.role = RESPONDER
          /\ ~ (Seen /\ m.counter <= Highest)
      BY Zenon, <3>1 DEF FreshInit, Inits, Seen, Highest
    <3>3. m.counter > Highest
      BY <2>1, <3>2
    <3> QED BY Zenon, <3>1, <3>2, <3>3
  <2>3. sess'["R"] = t
    BY Zenon, <1>1, <2>2
  <2>4. CASE CanHandleInit(s, m)
    <3>1. t.data_keys = crypto_derive_session_keys(RESPONDER, u.local_eph_pk,
                                                   u.local_eph_sk, m.body)
      BY Zenon, <2>1, <2>2, <2>4, HandleInitFacts
    <3> HIDE DEF t, u
    <3>2. t.data_keys.rx.client = m.body
      <4> DEFINE k == t.data_keys
                 x == u.local_eph_pk
                 y == u.local_eph_sk
                 z == m.body
      <4>1. k = crypto_derive_session_keys(RESPONDER, x, y, z)
        BY Zenon, <3>1
      <4> HIDE DEF k, x, y, z
      <4>2. k.rx.client = z
        BY ONLY <4>1, DeriveFields
      <4> QED BY Zenon, <4>2 DEF k, z
    <3>3. PICK a \in Inits : a.counter = Highest /\ s.data_keys.rx.client = a.body
      BY Zenon DEF HandshakeInv, SeenInv
    <3>4. a.body[2] < m.body[2]
      BY Zenon, <2>1, <2>2, <3>3 DEF HandshakeInv, InitsInv
    <3>5. a.body[2] \in Nat /\ m.body[2] \in Nat
      <4>1. a.body \in OwnKeys("I") /\ m.body \in OwnKeys("I")
        BY Zenon, <2>2, <3>3 DEF HandshakeInv, InitsInv
      <4>2. generated["I"] \in Nat
        BY Zenon, TypeFacts
      <4>3. a.body[2] \in 1 .. generated["I"] /\ m.body[2] \in 1 .. generated["I"]
        BY Zenon, <4>1, OwnFacts
      <4> QED BY <4>2, <4>3
    <3>6. sess["R"].data_keys'.rx.client = m.body
      BY Zenon, <2>3, <3>2
    <3> QED BY Zenon, <3>3, <3>4, <3>5, <3>6
  <2>5. CASE ~ CanHandleInit(s, m)
    <3>1. t = u
      BY Zenon, <2>2, <2>5 DEF session_handle_init, CanHandleInit
    <3>2. u.data_keys = s.data_keys
      BY Zenon, <2>1, ReconnectedFacts
    <3> HIDE DEF t, u
    <3> QED BY Zenon, <2>3, <3>1, <3>2
  <2> QED BY Zenon, <2>4, <2>5
<1> QED BY Zenon, <1>2, <1>3, <1>4, <1>5, <1>6, <1>7, <1>8 DEF Next

\* A responder that keeps running never returns to the keys of an earlier
\* handshake (session_handle_init's freshness check).
THEOREM NoRollbackSafety == Spec => NoRollback
<1>1. DataInv /\ HandshakeInv /\ [Next]_vars =>
        [(restarts' = restarts /\ sess["R"].have_seen_handshake) =>
           \/ sess["R"].data_keys' = sess["R"].data_keys
           \/ sess["R"].data_keys'.rx.client[2]
                > sess["R"].data_keys.rx.client[2]]_vars
  BY NoRollbackStep DEF Seen
<1> QED BY <1>1, DataInvariant, HandshakeInvariant, PTL DEF Spec, NoRollback
=============================================================================
