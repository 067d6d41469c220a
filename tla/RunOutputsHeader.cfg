SPECIFICATION Spec
CONSTANTS
  Turn = 3
  MaxEnergy = 5
  MaxSamples = 3
  Failed = Failed
  Writer = {edp1, edp2}
  Widths = {10, 12}
  MaxRows = 3
  Tasks = 1
  MaxRequests = 1
  NoTask = NoTask
INVARIANTS HeaderOnlyWhenNeeded
CHECK_DEADLOCK FALSE
