SPECIFICATION HeardSpec
CONSTANTS
  W = 2
  Bits = 2
  HeaderLen = 20
  Degenerate <- NoDegenerate
  PeerList <- OnePeer
  RoleOf <- Initiates
  Routes <- OneRoute
  Packets <- NoPackets
  Home <- Homes
  Moves <- NoMoves
  Relays <- NoRelays
  ResolveTimes <- AtOnce
  KEEPALIVE = 1
  TIMEOUT = 2
  ROTATION = 3
  MaxTime = 4
  MaxInits <- Zero
  MaxData <- One
  MaxTun = 0
  MaxFaults = 1
PROPERTIES
  DeadAfterSilence
CHECK_DEADLOCK FALSE
