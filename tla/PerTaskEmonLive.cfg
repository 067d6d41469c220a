CONSTANTS
  Task = {t1}
  Collector = {t1}
  Main = main_thread
  Thread = {t1, main_thread}
  NoTask = none
  NoCollector = no_collector
  MaxReload = 1
SPECIFICATION FairSpec
PROPERTIES
  RunEnds
  TimelyRowArrives
