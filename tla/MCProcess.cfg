SPECIFICATION Spec
CONSTANTS
  CONFIG_MAX_PEERS = 2
  ValuesOf <- Values
  Errnos = {"EPERM", "EBUSY"}
CHECK_DEADLOCK FALSE
INVARIANTS
  TypeOK
  AcceptedIsComplete
  PeersFit
  HoldsTwoDescriptors
  ExitsClean
  FailureReported
  StopsPromptly
PROPERTIES
  Stops
