SPECIFICATION SupervisedSpec
CONSTANTS
  Faults <- EveryRunFault
INVARIANTS TypeOK ReportTruthful
PROPERTIES InventoryEmitted RunEnds
CHECK_DEADLOCK FALSE
