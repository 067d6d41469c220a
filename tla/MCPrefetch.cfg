SPECIFICATION Spec
CONSTANTS
  Process = {p1, p2}
  Image = {i1}
  File = {f1}
  Hashed = {f1}
  NoFile = NoFile
  Torn = Torn
  NoTmp = NoTmp
  MaxRuns = 3
SYMMETRY Symmetry
INVARIANTS TypeOK ChecksumIsKept SaveIsAtomic
PROPERTIES EntriesSurvive DryRunOnlyPrints
CHECK_DEADLOCK FALSE
