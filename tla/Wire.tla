-------------------------------- MODULE Wire --------------------------------
(***************************************************************************)
(* Lengths and counters on the way of a packet from one TUN device to the  *)
(* other: the length checks of session.c and crypto.c, the buffers of      *)
(* main.c, and the little-endian counter in front of the ciphertext.  A    *)
(* length operator gives what its function returns, -1 when it refuses.    *)
(***************************************************************************)
EXTENDS Powers

CONSTANTS
  MAX_PACKET_SIZE,        \* 2048
  CRYPTO_COUNTER_BYTES,   \* 8
  CRYPTO_TAG_BYTES,       \* 16
  ByteValues              \* 256

ASSUME WireAssumption ==
  /\ MAX_PACKET_SIZE \in Nat /\ CRYPTO_COUNTER_BYTES \in Nat
  /\ CRYPTO_TAG_BYTES \in Nat /\ ByteValues \in Nat \ {0, 1}

CRYPTO_PACKET_OVERHEAD == CRYPTO_COUNTER_BYTES + CRYPTO_TAG_BYTES
SESSION_DATA_OVERHEAD  == 1 + CRYPTO_PACKET_OVERHEAD
\* Mutant: the type byte is forgotten.
SealedBufShort  == CRYPTO_PACKET_OVERHEAD + MAX_PACKET_SIZE
SEALED_BUF_SIZE == SESSION_DATA_OVERHEAD + MAX_PACKET_SIZE

\* A read of a packet or datagram into a buffer drops what does not fit.
ReadInto(len, buf_len) == IF len < buf_len THEN len ELSE buf_len

SealLen(plaintext_len, out_len) ==
  IF out_len < plaintext_len + CRYPTO_PACKET_OVERHEAD THEN -1
  ELSE CRYPTO_COUNTER_BYTES + plaintext_len + CRYPTO_TAG_BYTES

SealDataLen(plaintext_len, out_len) ==
  IF out_len < plaintext_len + SESSION_DATA_OVERHEAD THEN -1
  ELSE 1 + SealLen(plaintext_len, out_len - 1)

\* intact: the ciphertext is all there, which decryption finds out.
OpenLen(in_len, intact, out_len) ==
  LET ciphertext_len == in_len - CRYPTO_COUNTER_BYTES
  IN  IF \/ in_len < CRYPTO_PACKET_OVERHEAD
         \/ out_len < ciphertext_len - CRYPTO_TAG_BYTES
         \/ ~ intact THEN -1
      ELSE ciphertext_len - CRYPTO_TAG_BYTES

OpenDataLen(in_len, intact, out_len) ==
  IF in_len < 1 THEN -1 ELSE OpenLen(in_len - 1, intact, out_len)

-----------------------------------------------------------------------------
ByteIndex == 0 .. CRYPTO_COUNTER_BYTES - 1

\* crypto_seal, and build_nonce with zeros behind it.
EncodeCounter(counter) ==
  [i \in ByteIndex |-> (counter \div Power(ByteValues)[i]) % ByteValues]

\* crypto_open: the counter after n rounds of its loop.  The bytes it joins with
\* | have no bit in common, so | is the sum.
Joined(bytes) ==
  LET read[n \in 0 .. CRYPTO_COUNTER_BYTES] ==
        IF n = 0 THEN 0 ELSE read[n - 1] + bytes[n - 1] * Power(ByteValues)[n - 1]
  IN  read
DecodeCounter(bytes) == Joined(bytes)[CRYPTO_COUNTER_BYTES]
=============================================================================
