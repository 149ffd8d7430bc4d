SPECIFICATION Spec
CONSTANTS
  W = 2
  Bits = 2
  HeaderLen = 20
  Degenerate <- NoDegenerate
  PeerList <- TwoPeers
  RoleOf <- Initiates
  Routes <- TwoRoutes
  Packets <- SomePackets
  Home <- Homes
  Moves <- NoMoves
  Relays <- NoRelays
  ResolveTimes <- UpToTimeout
  KEEPALIVE = 1
  TIMEOUT = 2
  ROTATION = 3
  MaxTime = 3
  MaxInits <- Zero
  MaxData <- Zero
  MaxTun = 1
  MaxFaults = 1
INVARIANTS
  TypeOK
  SealedForRoute
PROPERTIES
  AttemptsSpaced
CHECK_DEADLOCK FALSE
