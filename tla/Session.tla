------------------------------ MODULE Session -------------------------------
(***************************************************************************)
(* The session state machine (src/src/session.c).  A session_t is a        *)
(* record; each session_* function is an operator that gives the record it *)
(* leaves, with operators of their own for the conditions under which it   *)
(* succeeds and for the message it writes.  A function that fails leaves   *)
(* the record as it was, except where stated.                              *)
(*                                                                         *)
(* The module has no clock and no network: callers pass the wall-clock     *)
(* second, the ephemeral key pair crypto_generate_keypair returns and the  *)
(* packet that arrived.                                                    *)
(***************************************************************************)
EXTENDS Crypto, ReplayWindow

PENDING     == "PENDING"       \* SESSION_STATE_HANDSHAKE_PENDING
ESTABLISHED == "ESTABLISHED"   \* SESSION_STATE_ESTABLISHED

INIT     == "INIT"       \* SESSION_MSG_HANDSHAKE_INIT
RESPONSE == "RESPONSE"   \* SESSION_MSG_HANDSHAKE_RESPONSE
DATA     == "DATA"       \* SESSION_MSG_DATA

-----------------------------------------------------------------------------
session_start_handshake(s, eph) ==
  [s EXCEPT !.local_eph_pk = eph,
            !.local_eph_sk = eph,
            !.state        = PENDING,
            !.tx_counter   = 0,
            !.replay       = ResetReplay(@)]

\* Mutant: the counter starts from a constant, not from the clock.
SeededConstant(role, local, peer, time, eph) ==
  session_start_handshake(
    [role                           |-> role,
     state                          |-> PENDING,
     static_keys                    |-> crypto_derive_session_keys(
                                          role, local, local, peer),
     local_eph_pk                   |-> Wiped,
     local_eph_sk                   |-> Wiped,
     handshake_counter              |-> 1,
     pending_handshake_counter      |-> 0,
     have_seen_handshake            |-> FALSE,
     highest_handshake_counter_seen |-> 0,
     data_keys                      |-> ZeroKeys,
     tx_counter                     |-> 0,
     replay                         |-> ZeroReplayState], eph)
session_init(role, local, peer, time, eph) ==
  session_start_handshake(
    [role                           |-> role,
     state                          |-> PENDING,
     static_keys                    |-> crypto_derive_session_keys(
                                          role, local, local, peer),
     local_eph_pk                   |-> Wiped,
     local_eph_sk                   |-> Wiped,
     handshake_counter              |-> time,
     pending_handshake_counter      |-> 0,
     have_seen_handshake            |-> FALSE,
     highest_handshake_counter_seen |-> 0,
     data_keys                      |-> ZeroKeys,
     tx_counter                     |-> 0,
     replay                         |-> ZeroReplayState], eph)

-----------------------------------------------------------------------------
(***************************************************************************)
(* session_build_init                                                      *)
(***************************************************************************)
CanBuildInit(s) == s.role = INITIATOR /\ s.state = PENDING

InitMessage(s) ==
  crypto_seal(INIT, s.static_keys.tx, s.handshake_counter, s.local_eph_pk)

session_build_init(s) ==
  [s EXCEPT !.pending_handshake_counter = s.handshake_counter,
            !.handshake_counter         = @ + 1]

-----------------------------------------------------------------------------
(***************************************************************************)
(* session_handle_init                                                     *)
(***************************************************************************)

\* Mutant: the INIT of the current handshake still counts as fresh.
FreshInitAgain(s, m) ==
  /\ s.role = RESPONDER
  /\ m.type = INIT
  /\ crypto_open(s.static_keys.rx, m)
  /\ ~ (s.have_seen_handshake /\ m.counter < s.highest_handshake_counter_seen)
\* Mutant: any authentic INIT counts as fresh.
FreshInitAny(s, m) ==
  /\ s.role = RESPONDER
  /\ m.type = INIT
  /\ crypto_open(s.static_keys.rx, m)
\* It gets past the role, authentication and freshness checks.
FreshInit(s, m) ==
  /\ s.role = RESPONDER
  /\ m.type = INIT
  /\ crypto_open(s.static_keys.rx, m)
  /\ ~ (s.have_seen_handshake /\ m.counter <= s.highest_handshake_counter_seen)

\* Mutant: an established session answers with the key pair it has.
ReconnectedAsIs(s, eph) == s
\* The session its key derivation starts from; a reconnecting peer costs a
\* new ephemeral key pair.
Reconnected(s, eph) ==
  IF s.state = ESTABLISHED THEN session_start_handshake(s, eph) ELSE s

CanHandleInit(s, m) == FreshInit(s, m) /\ crypto_derive_ok(m.body)

ResponseMessage(s, m, eph) ==
  crypto_seal(RESPONSE, s.static_keys.tx, m.counter,
              Reconnected(s, eph).local_eph_pk)

\* Mutant: an established session is torn down before the INIT is checked.
HandleInitTearsDown(s, m, eph) ==
  LET t == Reconnected(s, eph)
  IN  IF CanHandleInit(s, m)
      THEN [t EXCEPT
              !.data_keys    = crypto_derive_session_keys(
                                 t.role, t.local_eph_pk, t.local_eph_sk, m.body),
              !.local_eph_sk = Wiped,
              !.have_seen_handshake            = TRUE,
              !.highest_handshake_counter_seen = m.counter,
              !.state        = ESTABLISHED]
      ELSE t
\* A fresh INIT whose key derivation fails has already cost an established
\* session its state.
session_handle_init(s, m, eph) ==
  LET t == Reconnected(s, eph)
  IN  CASE CanHandleInit(s, m) ->
             [t EXCEPT
                !.data_keys    = crypto_derive_session_keys(
                                   t.role, t.local_eph_pk, t.local_eph_sk, m.body),
                !.local_eph_sk = Wiped,
                !.have_seen_handshake            = TRUE,
                !.highest_handshake_counter_seen = m.counter,
                !.state        = ESTABLISHED]
        [] FreshInit(s, m) /\ ~ crypto_derive_ok(m.body) -> t
        [] OTHER -> s

-----------------------------------------------------------------------------
(***************************************************************************)
(* session_handle_response                                                 *)
(***************************************************************************)
CanHandleResponse(s, m) ==
  /\ s.role = INITIATOR
  /\ s.state = PENDING
  /\ m.type = RESPONSE
  /\ crypto_open(s.static_keys.rx, m)
  /\ m.counter = s.pending_handshake_counter
  /\ crypto_derive_ok(m.body)

\* Mutant: the ephemeral secret key is not wiped.
ResponseKeepsSecret(s, m) ==
  IF ~ CanHandleResponse(s, m) THEN s
  ELSE [s EXCEPT
          !.data_keys = crypto_derive_session_keys(
                          s.role, s.local_eph_pk, s.local_eph_sk, m.body),
          !.state     = ESTABLISHED]
session_handle_response(s, m) ==
  IF ~ CanHandleResponse(s, m) THEN s
  ELSE [s EXCEPT
          !.data_keys    = crypto_derive_session_keys(
                             s.role, s.local_eph_pk, s.local_eph_sk, m.body),
          !.local_eph_sk = Wiped,
          !.state        = ESTABLISHED]

-----------------------------------------------------------------------------
(***************************************************************************)
(* session_seal_data and session_open_data                                 *)
(***************************************************************************)
CanSealData(s) == s.state = ESTABLISHED

DataMessage(s, payload) ==
  crypto_seal(DATA, s.data_keys.tx, s.tx_counter, payload)

\* Mutant: the counter does not move.
SealKeepsCounter(s) == s
session_seal_data(s) == [s EXCEPT !.tx_counter = @ + 1]

AuthenticData(s, m) ==
  /\ s.state = ESTABLISHED
  /\ m.type = DATA
  /\ crypto_open(s.data_keys.rx, m)

\* Mutant: a replayed counter is rejected only when it is too old.
OpenUnlessOld(s, m) ==
  AuthenticData(s, m) /\ (~ s.replay.have_received_any
                          \/ m.counter + W > s.replay.highest_rx_counter)
CanOpenData(s, m) == AuthenticData(s, m) /\ ReplayAccepts(s.replay, m.counter)

session_open_data(s, m) ==
  IF AuthenticData(s, m)
  THEN [s EXCEPT !.replay = ReplayMark(@, m.counter)]
  ELSE s
=============================================================================
