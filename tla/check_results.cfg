SPECIFICATION FairSpec
CONSTANTS
  Limit = 2
  MaxOutput = 3
  Faults <- EveryCheckFault
INVARIANTS TypeOK VerdictTruthful KillExplained OutputComplete OneAtATime
PROPERTIES CollectReturns CancellationStops
