SPECIFICATION Spec
CONSTANTS
  Version <- MCVersion
  Release <- MCRelease
  LongerThan <- MCLongerThan
  Stem <- MCStem
  Bkc <- MCBkc
  NoBkc = NoBkc
  Rpm <- MCRpm
  Node <- MCNode
  Root = "root"
  NoRpm = NoRpm
  NoHint = NoHint
  Sites <- MCSites
  SetupSites <- MCSetupSites
  Outages <- MCOutages
  Running <- MCRunning
  Internal = TRUE
  MaxRuns = 2
INVARIANTS TypeOK PackagesIndependent CondaBeforeEnv ArchiveIsChecked
  FoundIfPublished HintThenLatest InstalledIsRecognised
PROPERTIES RunsOnlyAdd NoDowngrade
CHECK_DEADLOCK FALSE
