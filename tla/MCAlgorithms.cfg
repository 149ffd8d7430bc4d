SPECIFICATION Spec
CONSTANTS
  Bits = 3
  HeaderLen = 20
  MaxRoutes = 2
  Packets <- SomePackets
  MessageSize = 4
  MaxMessage = 4
  MAX_PACKET_SIZE = 6
  CRYPTO_COUNTER_BYTES = 3
  CRYPTO_TAG_BYTES = 2
  ByteValues = 4
  MaxLen = 8
INVARIANTS
  FirstCoveringPeer
  NetmaskIsBlock
  JsonReadsBack
  CarriedWhole
