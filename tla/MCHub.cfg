SPECIFICATION Spec
CONSTANTS
  W = 2
  Bits = 2
  HeaderLen = 20
  Degenerate <- SomeDegenerate
  PeerList <- ThreePeers
  RoleOf <- ThreeRoles
  Routes <- ThreeRoutes
  Packets <- NoPackets
  Home <- Homes
  Moves <- Chain
  Relays <- ViaC
  ResolveTimes <- AtOnce
  KEEPALIVE = 1
  TIMEOUT = 2
  ROTATION = 3
  MaxTime = 0
  MaxInits <- ReInits
  MaxData <- DataOfA
  MaxTun = 0
  MaxFaults = 1
INVARIANTS
  EstablishedHasAddress
  AddressVouched
PROPERTIES
  WrongGuessHarmless
  OnlyNewInitMoves
CHECK_DEADLOCK FALSE
