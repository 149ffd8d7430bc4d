------------------------------- MODULE Crypto -------------------------------
(***************************************************************************)
(* The cryptography module (src/src/crypto.c), symbolically.               *)
(*                                                                         *)
(* A key pair is named by <<owner, n>>: n = 0 is the owner's long-term     *)
(* pair, n >= 1 its n-th ephemeral one.  The same name stands for the      *)
(* public key and for the secret key; a secret key that was wiped is       *)
(* Wiped.  What libsodium computes is a record that holds what went into   *)
(* it, so two derived keys are equal exactly when their inputs are.        *)
(***************************************************************************)
EXTENDS Naturals

CONSTANTS
  Degenerate   \* the public keys crypto_kx_*_session_keys refuses

INITIATOR == "INITIATOR"   \* CRYPTO_ROLE_INITIATOR
RESPONDER == "RESPONDER"   \* CRYPTO_ROLE_RESPONDER

LongTerm(owner)     == <<owner, 0>>
Ephemeral(owner, n) == <<owner, n>>
Wiped               == <<"wiped", 0>>   \* what crypto_wipe leaves

\* The client-to-server or server-to-client key of one exchange: a hash of
\* the shared secret and both public keys.
KxKey(secret, client, server, dir) ==
  [secret |-> secret, client |-> client, server |-> server, dir |-> dir]

ZeroKey  == KxKey({}, Wiped, Wiped, "c2s")
ZeroKeys == [rx |-> ZeroKey, tx |-> ZeroKey]   \* a memset crypto_session_keys_t

crypto_derive_ok(remote_pk) == remote_pk \notin Degenerate

\* The initiator plays kx's client, the responder its server; one side's rx
\* is the other side's tx.
crypto_derive_session_keys(role, local_pk, local_sk, remote_pk) ==
  LET secret == {local_sk, remote_pk}
  IN  IF role = INITIATOR
      THEN [rx |-> KxKey(secret, local_pk, remote_pk, "s2c"),
            tx |-> KxKey(secret, local_pk, remote_pk, "c2s")]
      ELSE [rx |-> KxKey(secret, remote_pk, local_pk, "c2s"),
            tx |-> KxKey(secret, remote_pk, local_pk, "s2c")]

\* A sealed packet behind its type byte: the counter is the nonce and
\* travels in the clear, the body is readable only to a holder of the key.
crypto_seal(type, key, counter, body) ==
  [type |-> type, key |-> key, counter |-> counter, body |-> body]

\* Authentication succeeds exactly under the key the packet was sealed with.
crypto_open(key, msg) == msg.key = key
=============================================================================
