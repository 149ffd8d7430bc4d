SPECIFICATION Spec
CONSTANTS
  W = 4
  Counters <- MCCounters
INVARIANTS
  TypeOK
  HighestExact
  WindowExact
PROPERTIES
  ImplementsAtMostOnce
