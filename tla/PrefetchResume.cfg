SPECIFICATION Spec
CONSTANTS
  Process = {p1}
  Image = {i1}
  File = {f1}
  Hashed = {}
  NoFile = NoFile
  Torn = Torn
  NoTmp = NoTmp
  MaxRuns = 2
INVARIANT PartialIsSafe
CHECK_DEADLOCK FALSE
