SPECIFICATION Spec
CONSTANTS
  W = 1
  Degenerate <- NoDegenerate
  Payloads <- TwoPayloads
  RetryAfter = 2
  MaxClock = 3
  MaxTx = 2
  MaxRestarts <- NoRestarts
INVARIANTS
  TypeOK
  DeliveredOnce
  DataNoncesUnique
CHECK_DEADLOCK FALSE
