SPECIFICATION Spec
CONSTANTS
  Turn = 3
  MaxEnergy = 7
  MaxSamples = 4
  Failed = Failed
  Writer = {edp1, edp2, edp3}
  Widths = {10, 12}
  MaxRows = 4
  Tasks = 3
  MaxRequests = 4
  NoTask = NoTask
INVARIANTS SampleIsTrue StopIsFinal EveryRowHasHeader NearestHeaderFits FiguresAreFinal CountedForItsTask
CHECK_DEADLOCK FALSE
