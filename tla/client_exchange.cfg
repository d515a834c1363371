SPECIFICATION FairSpec
CONSTANTS
  Faults <- EveryClientFault
  MaxResponseBytes = 2
  Bodies <- EveryBody
INVARIANTS TypeOK
PROPERTIES KeepsExchange AcceptedAnswer ExchangeEnds
CHECK_DEADLOCK FALSE
