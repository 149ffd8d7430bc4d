SPECIFICATION Spec
CONSTANTS
  W = 2
  Bits = 2
  HeaderLen = 20
  Degenerate <- NoDegenerate
  PeerList <- TwoPeers
  RoleOf <- Responds
  Routes <- TwoRoutes
  Packets <- NoPackets
  Home <- Homes
  Moves <- ReuseMoves
  Relays <- NoRelays
  ResolveTimes <- AtOnce
  KEEPALIVE = 1
  TIMEOUT = 2
  ROTATION = 3
  MaxTime = 0
  MaxInits <- Two
  MaxData <- Zero
  MaxTun = 0
  MaxFaults = 0
PROPERTIES
  AcceptsFreshInit
CHECK_DEADLOCK FALSE
