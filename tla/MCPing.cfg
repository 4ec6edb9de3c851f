SPECIFICATION Spec
CONSTANTS
  NPings <- MCNPings
  NMaxPings <- MCNMaxPings
  MaxSent = 2
  MaxServed = 2
INVARIANTS
  TypeOK
  FinishedOnce
  ExitCodeTruthful
  ServerFinishesOnce
PROPERTIES
  ClientEnds
  ServerEnds
CHECK_DEADLOCK FALSE
