SPECIFICATION Spec
CONSTANTS
  W = 2
  Degenerate <- SomeDegenerate
  Payloads <- OnePayload
  RetryAfter = 2
  MaxClock = 5
  MaxTx = 0
  MaxRestarts <- BothRestart
INVARIANTS
  InitNoncesUnique
  ResponseNoncesUnique
  OutstandingInitFresh
  KeyAgreement
  SecretsWiped
PROPERTIES
  NoRollback
CHECK_DEADLOCK FALSE
