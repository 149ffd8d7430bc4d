SPECIFICATION Spec
CONSTANTS
  W = 2
  Degenerate <- NoDegenerate
  Payloads <- OnePayload
  RetryAfter = 2
  MaxClock = 2
  MaxTx = 0
  MaxRestarts <- ResponderRestarts
INVARIANTS
  CounterNeverReused
CHECK_DEADLOCK FALSE
