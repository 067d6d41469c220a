CONSTANTS
  Emon = emon
  Main = main_thread
  Delayed = delayed_start
  AutoStop = auto_stop
  Collector = {emon}
  Thread = {main_thread, delayed_start, auto_stop}
  NoCollector = no_collector
  MaxReload = 1
SPECIFICATION Spec
INVARIANT
  HandlerStopsEmon
