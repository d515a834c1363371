SPECIFICATION TimedSpec
CONSTANTS
  Limit = 1
  MaxOutput = 1
  Faults <- Background
PROPERTIES DeadlineBounds
