SPECIFICATION Spec
CONSTANTS
  None = None
  Plans <- MCPlans
  Throughputs <- MCThroughputs
  LatencySeqs <- MCLatencySeqs
  Folders = 3
  WorkloadOf <- MCWorkloadOf
  Results <- MCResults
  Slos <- MCSlos
  Cost <- MCCost
INVARIANTS PercentilesSplit SaturationIsFirst RecommendedSafe
PROPERTIES PassedIsEarned MergedIsDensest
CHECK_DEADLOCK FALSE
