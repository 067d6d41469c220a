CONSTANTS
  Task = {t1, t2}
  Collector = {t1, t2}
  Main = main_thread
  Thread = {t1, t2, main_thread}
  NoTask = none
  NoCollector = no_collector
  MaxReload = 0
SPECIFICATION Spec
INVARIANTS
  TypeOK
  RecordInOnePlace
  EdpAfterStop
  TimelyRunIsComplete
PROPERTIES
  ImplementsLiveRows
SYMMETRY Symmetry
