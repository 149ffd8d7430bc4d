SPECIFICATION Spec
CONSTANTS
  W = 2
  Bits = 2
  HeaderLen = 20
  Degenerate <- NoDegenerate
  PeerList <- OnePeer
  RoleOf <- Initiates
  Routes <- OneRoute
  Packets <- NoPackets
  Home <- Homes
  Moves <- BMoves
  Relays <- NoRelays
  ResolveTimes <- AtOnce
  KEEPALIVE = 1
  TIMEOUT = 2
  ROTATION = 3
  MaxTime = 3
  MaxInits <- Zero
  MaxData <- Zero
  MaxTun = 0
  MaxFaults = 0
PROPERTIES
  RehandshakeResolves
CHECK_DEADLOCK FALSE
