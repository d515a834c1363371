SPECIFICATION Spec
CONSTANTS
  Faults = {"close"}
  MaxResponseBytes = 2
  Bodies <- EveryBody
INVARIANTS OneRequestEach
CHECK_DEADLOCK FALSE
