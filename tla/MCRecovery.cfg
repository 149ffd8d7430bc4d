SPECIFICATION Spec
CONSTANTS
  KEEPALIVE = 1
  TIMEOUT = 6
  ROTATION = 7
  DELAY = 1
  MaxInits = 2
  MaxCopies = 2
INVARIANTS
  TypeOK
  OutageBounded
  ToleratesOneLoss
PROPERTIES
  Recovers
