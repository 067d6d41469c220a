------------------------ MODULE TelemetryRun_proofs ------------------------
(* Proofs about TelemetryRun, for any bound on the reloads of the drivers. *)
EXTENDS TelemetryRun, EmonCollector_proofs

USE CollectorAssumption, RunAssumption DEF At, managerVars

\* The steps of the manager that leave the collector alone, but for calling it,
\* returning from it, and the ERROR that is_available() writes.
LEMMA ManagerType ==
  ASSUME CollectorTypeOK, NEW t \in Thread,
         UNCHANGED <<process, armed, reloads, unstopped>>,
         UNCHANGED status \/ status' = [status EXCEPT ![Emon] = "error"],
         \/ UNCHANGED call
         \/ Invoke(t, "start", Emon)
         \/ Invoke(t, "stop", Emon)
         \/ call' = [call EXCEPT ![t] = Idle]
  PROVE  CollectorTypeOK'
<1>1. call' \in [Thread -> [at : Inside \cup Outcome, on : Collector] \cup {Idle}]
  BY InvokeType, IdleType DEF CollectorTypeOK
<1>2. status' \in [Collector -> Status]
  BY DEF CollectorTypeOK, Status
<1> QED BY <1>1, <1>2 DEF CollectorTypeOK

\* What the collector's variables do in a step of the manager.
ManagerStep ==
  \E t \in Thread :
    /\ UNCHANGED <<process, armed, reloads, unstopped>>
    /\ UNCHANGED status \/ status' = [status EXCEPT ![Emon] = "error"]
    /\ \/ UNCHANGED call
       \/ Invoke(t, "start", Emon)
       \/ Invoke(t, "stop", Emon)
       \/ call' = [call EXCEPT ![t] = Idle]

\* AutoWake takes its collector off the armed ones and may call stop_collection.
LEMMA AutoType ==
  ASSUME CollectorTypeOK, AutoWake(AutoStop, Emon)
  PROVE  CollectorTypeOK'
<1>1. call' \in [Thread -> [at : Inside \cup Outcome, on : Collector] \cup {Idle}]
  <2>1. CASE UNCHANGED call
    BY <2>1 DEF CollectorTypeOK
  <2>2. CASE Invoke(AutoStop, "stop", Emon)
    BY <2>2, InvokeType
  <2> QED BY <2>1, <2>2 DEF AutoWake
<1> QED BY <1>1 DEF AutoWake, CollectorTypeOK

\* Every step is one of the manager's, the collector's or the auto-stop thread's.
LEMMA StepKinds ==
  ASSUME TypeOK, [Next]_vars
  PROVE  \/ ManagerStep
         \/ \E t \in Thread : CollectorStep(t, Timed)
         \/ AutoWake(AutoStop, Emon)
         \/ EmonExit(Emon)
<1> USE DEF ManagerStep, collectorVars
<1>1. CASE StartRapl \/ StartTemp \/ MarkTemp \/ StartPerf \/ Evaluate
  BY <1>1 DEF StartRapl, StartTemp, MarkTemp, StartPerf, Evaluate
<1>2. CASE StartEmon
  BY <1>2 DEF StartEmon
<1>3. CASE EmonStarted
  BY <1>3 DEF EmonStarted, Returns
<1>4. CASE StopEmon
  BY <1>4 DEF StopEmon
<1>5. CASE EmonStopped
  BY <1>5 DEF EmonStopped, Returns
<1>6. CASE ProcessEmon \/ StopPerf \/ StopRapl \/ StopTemp \/ Clear \/ Report
  BY <1>6 DEF ProcessEmon, StopPerf, StopRapl, StopTemp, Clear, Report
<1>7. CASE DelayedWake
  BY <1>7 DEF DelayedWake
<1>8. CASE DelayedDone
  BY <1>8 DEF DelayedDone, Returns
<1>9. CASE PerfWake \/ PerfLaunch \/ PerfExit
  BY <1>9 DEF PerfWake, PerfLaunch, PerfExit
<1>10. CASE EmonSteps
  BY <1>10 DEF EmonSteps
<1>11. CASE AutoReturns
  BY <1>11 DEF AutoReturns, Returns
<1>12. CASE EmonDies
  BY <1>12 DEF EmonDies
<1>13. CASE Interrupt
  BY <1>13 DEF Interrupt, Unwind
<1>14. CASE Terminated \/ UNCHANGED vars
  BY <1>14 DEF Terminated, vars
<1> QED BY <1>1, <1>2, <1>3, <1>4, <1>5, <1>6, <1>7, <1>8, <1>9, <1>10, <1>11, <1>12,
           <1>13, <1>14 DEF Next, MainStep

\* The collector keeps to its types, and STOPPED means down, at every step.
LEMMA CollectorStays ==
  ASSUME TypeOK, StoppedIsDown, [Next]_vars
  PROVE  CollectorTypeOK' /\ StoppedIsDown'
<1>t. CollectorTypeOK
  BY DEF TypeOK
<1>1. CASE ManagerStep
  <2>1. CollectorTypeOK'
    BY <1>1, <1>t, ManagerType DEF ManagerStep
  <2>2. StoppedIsDown'
    BY <1>1, <1>t DEF ManagerStep, StoppedIsDown, CollectorTypeOK
  <2> QED BY <2>1, <2>2
<1>2. CASE \E t \in Thread : CollectorStep(t, Timed)
  <2>1. Timed \in BOOLEAN
    BY DEF Timed
  <2> QED BY <1>2, <1>t, <2>1, StepType, StepKeepsStoppedDown
<1>3. CASE AutoWake(AutoStop, Emon)
  BY <1>3, <1>t, AutoType DEF AutoWake, StoppedIsDown
<1>4. CASE EmonExit(Emon)
  <2>1. CollectorTypeOK'
    BY <1>4, <1>t, ExitType
  <2> QED BY <1>4, <1>t, <2>1 DEF EmonExit, StoppedIsDown, CollectorTypeOK
<1> QED BY <1>1, <1>2, <1>3, <1>4, StepKinds

-----------------------------------------------------------------------------
\* The manager's own variables keep to their values.
LEMMA ManagerVarsType ==
  ASSUME TypeOK, CollectorTypeOK', [Next]_vars
  PROVE  TypeOK'
<1> USE DEF TypeOK, Kind, Starting, Stopping
<1>1. CASE StartRapl \/ StartTemp \/ MarkTemp
  BY <1>1 DEF StartRapl, StartTemp, MarkTemp
<1>2. CASE StartEmon
  BY <1>2 DEF StartEmon
<1>3. CASE EmonStarted
  BY <1>3 DEF EmonStarted
<1>4. CASE StartPerf \/ Evaluate
  BY <1>4 DEF StartPerf, Evaluate
<1>5. CASE StopEmon
  BY <1>5 DEF StopEmon
<1>6. CASE EmonStopped
  BY <1>6 DEF EmonStopped
<1>7. CASE ProcessEmon \/ StopPerf
  BY <1>7 DEF ProcessEmon, StopPerf
<1>8. CASE StopRapl \/ StopTemp
  BY <1>8 DEF StopRapl, StopTemp
<1>9. CASE Clear \/ Report
  BY <1>9 DEF Clear, Report
<1>10. CASE DelayedWake
  BY <1>10 DEF DelayedWake
<1>11. CASE DelayedDone
  BY <1>11 DEF DelayedDone
<1>12. CASE PerfWake
  BY <1>12 DEF PerfWake
<1>13. CASE PerfLaunch \/ PerfExit
  <2>1. live' \in SUBSET {"perftop", "rapl", "temp"}
        /\ perfWait' \in {"none", "sleeping", "launching", "done"}
    BY <1>13 DEF PerfLaunch, PerfExit
  <2>2. active' \in SUBSET {"emon", "perftop", "rapl", "temp"}
    BY <1>13 DEF PerfLaunch, PerfExit
  <2> QED BY <1>13, <2>1, <2>2 DEF PerfLaunch, PerfExit
<1>14. CASE Interrupt
  BY <1>14 DEF Interrupt
<1>15. CASE EmonSteps \/ AutoReturns \/ EmonDies
  <2>1. UNCHANGED managerVars
    BY <1>15 DEF EmonSteps, AutoReturns, EmonDies
  <2> QED BY <2>1
<1>16. CASE Terminated \/ UNCHANGED vars
  <2>1. UNCHANGED managerVars
    BY <1>16 DEF Terminated, vars
  <2> QED BY <2>1
<1> QED BY <1>1, <1>2, <1>3, <1>4, <1>5, <1>6, <1>7, <1>8, <1>9, <1>10, <1>11, <1>12,
           <1>13, <1>14, <1>15, <1>16 DEF Next, MainStep

LEMMA InitGood == Init => TypeOK /\ StoppedIsDown
<1> SUFFICES ASSUME Init PROVE TypeOK /\ StoppedIsDown
  OBVIOUS
<1>1. CollectorTypeOK
  BY DEF Init, CollectorInit, CollectorTypeOK, Status, Process
<1> QED BY <1>1 DEF Init, CollectorInit, TypeOK, StoppedIsDown, Starting

LEMMA Inductive == TypeOK /\ StoppedIsDown /\ [Next]_vars => (TypeOK /\ StoppedIsDown)'
BY CollectorStays, ManagerVarsType

\* Every variable keeps to its values, the reloads to their bound (manager.py:79-254).
THEOREM RunTypeCorrect == Spec => []TypeOK
BY InitGood, Inductive, PTL DEF Spec

\* Whichever of the main, warm-up and auto-stop threads stops the collector, and
\* wherever a signal cuts in, STOPPED is said of no live process that was not
\* given up on (emon.py:210-240).
THEOREM RunStoppedIsDown == Spec => []StoppedIsDown
BY InitGood, Inductive, PTL DEF Spec

-----------------------------------------------------------------------------
(* What is still up, and who answers for it, at each place of start() and   *)
(* stop(): the invariant behind UpIsBooked, StopLeavesNothing and           *)
(* EdpReadsSettledFile.                                                     *)

\* Which thread is in which call of the collector.
CallPlaces ==
  /\ call[Main] # Idle => \/ main = "emon_wait" /\ call[Main].at \in StartPlaces
                          \/ main = "stop_wait" /\ call[Main].at \in StopPlaces
  /\ call[Delayed] # Idle => delayed = "starting" /\ call[Delayed].at \in StartPlaces
  /\ call[AutoStop] # Idle => call[AutoStop].at \in StopPlaces

\* One thread starts EMON, once: no process is there before its Popen.
OneStart ==
  /\ main \in {"rapl", "temp", "temp_mark", "emon"} =>
       delayed = "none" /\ process[Emon] = "none"
  /\ runner = "plain" => delayed = "none"
  /\ runner = "webarena" => main # "emon_wait"
  /\ delayed = "sleeping" => process[Emon] = "none"
  /\ Launching(Main) \/ Launching(Delayed) => process[Emon] = "none"
  /\ main = "emon_wait" /\ call[Main].at \in {"failed", "raised"} => process[Emon] = "none"
  /\ call[Delayed].at = "failed" => process[Emon] = "none"

\* So stop_collection's guard lets the thread through that has to stop it.
UpIsRunning ==
  /\ Up(Emon) => status[Emon] = "running"
  /\ status[Emon] = "running" => process[Emon] # "none"

\* _active lists an EMON that is up or coming up, or stop() could not see it.
EmonListed ==
  /\ main \notin {"emon_wait", "exited"} /\ (Up(Emon) \/ Launching(Delayed)) =>
       "emon" \in active \cup raced
  /\ main \in {"perf", "evaluate"} /\ process[Emon] = "alive" => "emon" \in active

PastEmonStop == main \in (Stopping \ {"stop"}) \cup {"report"} \/ stopped

\* Once stop() has passed EMON, only the stop it waits for still finds it up.
EmonHandled ==
  PastEmonStop /\ "emon" \notin raced =>
    /\ ~Launching(Delayed)
    /\ Up(Emon) => main = "stop_wait" /\ call[Main].at \in {"stop", "emon_stop", "reap"}

\* The same for the other collectors: listed while they run, ...
LiveListed ==
  /\ main # "exited" =>
       live \subseteq active \cup raced \cup (IF main = "temp_mark" THEN {"temp"} ELSE {})
  /\ main \in Starting => perfWait = "none"
  /\ "perftop" \in live => perfWait = "done"
  /\ main # "exited" /\ perfWait = "launching" => "perftop" \in active \cup raced

Past(places) == main \in places \cup {"report"} \/ stopped

\* ... and gone once stop() has passed them.
LiveHandled ==
  /\ Past({"stop_rapl", "stop_temp", "clear"})
       /\ ("perftop" \in live \/ perfWait = "launching") => "perftop" \in raced
  /\ Past({"stop_temp", "clear"}) /\ "rapl" \in live => "rapl" \in raced
  /\ Past({"clear"}) /\ "temp" \in live => "temp" \in raced

Order ==
  /\ stopped => main \in {"report", "exited"}
  /\ main = "report" => active = {} /\ stopped
  /\ main \in Starting \cup {"evaluate"} => raced = {}

Listed ==
  CallPlaces /\ OneStart /\ UpIsRunning /\ EmonListed /\ EmonHandled /\ LiveListed
    /\ LiveHandled /\ Order

\* The one collector there is takes the effect of every step of a thread in it.
LEMMA EmonEffects ==
  ASSUME TypeOK, NEW t \in Thread, CollectorStep(t, Timed)
  PROVE  /\ \A u \in Thread \ {t} : call'[u] = call[u]
         /\ call[t] # Idle /\ call'[t] # Idle
         /\ Effect(t, Emon)
<1>1. CollectorTypeOK /\ Timed \in BOOLEAN
  BY DEF TypeOK, Timed
<1>2. call[t].on = Emon
  BY <1>1, Effects
<1> QED BY <1>1, <1>2, Effects

\* A step of a thread inside the collector keeps the parts of Listed that speak
\* of the collector; the others it cannot disturb.
LEMMA CollectorKeepsListed ==
  ASSUME TypeOK, Listed, NEW t \in Thread, CollectorStep(t, Timed),
         UNCHANGED managerVars
  PROVE  Listed'
<1> USE EmonEffects DEF Effect, Listed, Launching, Up, StartPlaces, StopPlaces
<1>0. \A u \in Thread : u = Main \/ u = Delayed \/ u = AutoStop
  OBVIOUS
<1>1. CallPlaces'
  <2>1. CASE t = Main
    BY <2>1 DEF CallPlaces
  <2>2. CASE t = Delayed
    BY <2>2 DEF CallPlaces
  <2>3. CASE t = AutoStop
    BY <2>3 DEF CallPlaces
  <2> QED BY <1>0, <2>1, <2>2, <2>3
<1>2. OneStart'
  <2>1. CASE t = Main
    BY <2>1 DEF CallPlaces, OneStart, Idle, TypeOK
  <2>2. CASE t = Delayed
    BY <2>2 DEF CallPlaces, OneStart, Idle, TypeOK
  <2>3. CASE t = AutoStop
    BY <2>3 DEF CallPlaces, OneStart, Idle, TypeOK
  <2> QED BY <1>0, <2>1, <2>2, <2>3
<1>3. UpIsRunning'
  BY <1>0 DEF CallPlaces, OneStart, TypeOK, UpIsRunning
<1>4. EmonListed'
  <2>1. CASE t = Main
    BY <2>1 DEF CallPlaces, EmonListed, Order, Starting, Idle
  <2>2. CASE t = Delayed
    BY <2>2 DEF CallPlaces, EmonListed, Order, Starting, Idle
  <2>3. CASE t = AutoStop
    BY <2>3 DEF CallPlaces, EmonListed, Order, Starting, Idle
  <2> QED BY <1>0, <2>1, <2>2, <2>3
<1>5. EmonHandled'
  <2>1. CASE t = Main
    BY <2>1 DEF CallPlaces, OneStart, EmonHandled, PastEmonStop, UpIsRunning, Order, Idle,
           Stopping, Starting
  <2>2. CASE t = Delayed
    BY <2>2 DEF CallPlaces, OneStart, EmonHandled, PastEmonStop, UpIsRunning, Order, Idle,
           Stopping, Starting
  <2>3. CASE t = AutoStop
    BY <2>3 DEF CallPlaces, OneStart, EmonHandled, PastEmonStop, UpIsRunning, Order, Idle,
           Stopping, Starting
  <2> QED BY <1>0, <2>1, <2>2, <2>3
<1>6. LiveListed' /\ LiveHandled' /\ Order'
  BY DEF LiveListed, LiveHandled, Past, Order
<1> QED BY <1>1, <1>2, <1>3, <1>4, <1>5, <1>6

\* Each step of the manager and of the other threads keeps Listed.
LEMMA ListedStays ==
  ASSUME TypeOK, Listed, [Next]_vars
  PROVE  Listed'
<1> USE DEF TypeOK, CollectorTypeOK, Listed, CallPlaces, OneStart, UpIsRunning, EmonListed,
            EmonHandled, PastEmonStop, LiveListed, LiveHandled, Past, Order, Launching, Up,
            StartPlaces, StopPlaces, Starting, Stopping, Idle, collectorVars, Running
<1>1. CASE StartRapl
  BY <1>1 DEF StartRapl
<1>2. CASE StartTemp
  BY <1>2 DEF StartTemp
<1>3. CASE MarkTemp
  BY <1>3 DEF MarkTemp
<1>4. CASE StartEmon
  <2>1. CallPlaces' /\ OneStart' /\ UpIsRunning'
    BY <1>4 DEF StartEmon, Invoke, WarmsUp
  <2>2. EmonListed' /\ EmonHandled'
    BY <1>4 DEF StartEmon, Invoke, WarmsUp
  <2>3. LiveListed'
    BY <1>4 DEF StartEmon, Invoke
  <2>4. LiveHandled' /\ Order'
    BY <1>4 DEF StartEmon, Invoke, WarmsUp
  <2> QED BY <2>1, <2>2, <2>3, <2>4
<1>5. CASE EmonStarted
  BY <1>5 DEF EmonStarted, Returns
<1>6. CASE StartPerf
  <2>1. CallPlaces' /\ OneStart' /\ UpIsRunning'
    BY <1>6 DEF StartPerf
  <2>2. EmonListed' /\ EmonHandled'
    BY <1>6 DEF StartPerf
  <2>3. LiveListed'
    <3>1. live' \subseteq active' /\ main' = "evaluate"
      BY <1>6 DEF StartPerf
    <3>2. "perftop" \notin live' /\ perfWait' \in {"none", "sleeping"}
      BY <1>6 DEF StartPerf
    <3> QED BY <3>1, <3>2
  <2>4. LiveHandled' /\ Order'
    BY <1>6 DEF StartPerf
  <2> QED BY <2>1, <2>2, <2>3, <2>4
<1>7. CASE Evaluate
  BY <1>7 DEF Evaluate
<1>8. CASE StopEmon
  <2>1. CallPlaces' /\ OneStart' /\ UpIsRunning'
    BY <1>8 DEF StopEmon, Invoke
  <2>2. EmonListed' /\ EmonHandled'
    BY <1>8 DEF StopEmon, Invoke
  <2>3. LiveListed'
    BY <1>8 DEF StopEmon, Invoke
  <2>4. LiveHandled' /\ Order'
    BY <1>8 DEF StopEmon, Invoke
  <2> QED BY <2>1, <2>2, <2>3, <2>4
<1>9. CASE EmonStopped
  BY <1>9 DEF EmonStopped, Returns
<1>10. CASE ProcessEmon
  BY <1>10 DEF ProcessEmon
<1>11. CASE StopPerf
  <2>1. CallPlaces' /\ OneStart' /\ UpIsRunning'
    BY <1>11 DEF StopPerf
  <2>2. EmonListed' /\ EmonHandled'
    BY <1>11 DEF StopPerf
  <2>3. LiveListed'
    BY <1>11 DEF StopPerf
  <2>4. LiveHandled' /\ Order'
    BY <1>11 DEF StopPerf
  <2> QED BY <2>1, <2>2, <2>3, <2>4
<1>12. CASE StopRapl
  <2>1. LiveListed'
    BY <1>12 DEF StopRapl
  <2>2. LiveHandled'
    BY <1>12 DEF StopRapl
  <2> QED BY <1>12, <2>1, <2>2 DEF StopRapl
<1>13. CASE StopTemp
  <2>1. CallPlaces' /\ OneStart' /\ UpIsRunning'
    BY <1>13 DEF StopTemp
  <2>2. EmonListed' /\ EmonHandled'
    BY <1>13 DEF StopTemp
  <2>3. LiveListed'
    BY <1>13 DEF StopTemp
  <2>4. LiveHandled' /\ Order'
    BY <1>13 DEF StopTemp
  <2> QED BY <2>1, <2>2, <2>3, <2>4
<1>14. CASE Clear
  BY <1>14 DEF Clear
<1>15. CASE Report
  BY <1>15 DEF Report
<1>16. CASE DelayedWake
  BY <1>16 DEF DelayedWake, Invoke
<1>17. CASE DelayedDone
  BY <1>17 DEF DelayedDone, Returns
<1>18. CASE PerfWake
  BY <1>18 DEF PerfWake
<1>19. CASE PerfLaunch
  <2>1. CallPlaces' /\ OneStart' /\ UpIsRunning'
    BY <1>19 DEF PerfLaunch
  <2>2. EmonListed' /\ EmonHandled'
    BY <1>19 DEF PerfLaunch
  <2>3. LiveListed'
    BY <1>19 DEF PerfLaunch
  <2>4. LiveHandled' /\ Order'
    BY <1>19 DEF PerfLaunch
  <2> QED BY <2>1, <2>2, <2>3, <2>4
<1>20. CASE PerfExit
  BY <1>20 DEF PerfExit
<1>21. CASE AutoReturns
  BY <1>21 DEF AutoReturns, Returns
<1>22. CASE Interrupt
  BY <1>22 DEF Interrupt, Unwind, Registered
<1>23. CASE EmonSteps
  <2>1. CASE \E t \in Thread : CollectorStep(t, Timed)
    BY <1>23, <2>1, CollectorKeepsListed DEF EmonSteps
  <2>2. CASE AutoWake(AutoStop, Emon)
    BY <1>23, <2>2 DEF EmonSteps, AutoWake, Invoke
  <2> QED BY <1>23, <2>1, <2>2 DEF EmonSteps
<1>24. CASE EmonDies
  BY <1>24 DEF EmonDies, EmonExit
<1>25. CASE Terminated \/ UNCHANGED vars
  <2>1. UNCHANGED <<collectorVars, managerVars>>
    BY <1>25 DEF Terminated, vars
  <2> QED BY <2>1
<1> QED BY <1>1, <1>2, <1>3, <1>4, <1>5, <1>6, <1>7, <1>8, <1>9, <1>10, <1>11, <1>12, <1>13, <1>14, <1>15, <1>16, <1>17, <1>18, <1>19, <1>20, <1>21, <1>22, <1>23, <1>24, <1>25 DEF Next, MainStep

LEMMA InitListed == Init => Listed
BY DEF Init, CollectorInit, Listed, CallPlaces, OneStart, UpIsRunning, EmonListed, EmonHandled,
       PastEmonStop, LiveListed, LiveHandled, Past, Order, Launching, Up, Starting, Stopping, Idle

\* Listed holds throughout.
THEOREM RunIsListed == Spec => [](TypeOK /\ Listed)
<1>1. Init => TypeOK /\ Listed
  BY InitGood, InitListed
<1>2. TypeOK /\ StoppedIsDown /\ Listed /\ [Next]_vars => Listed'
  BY ListedStays
<1> QED BY <1>1, <1>2, RunTypeCorrect, RunStoppedIsDown, PTL DEF Spec

\* While the benchmark runs, what is up is in _active: perf-top before its warm-up
\* thread launches it, EMON before _delayed_start wakes (manager.py:109, 131).
THEOREM RunUpIsBooked == Spec => []UpIsBooked
<1>1. TypeOK /\ Listed => UpIsBooked
  <2> SUFFICES ASSUME TypeOK, Listed, main = "evaluate" PROVE UpIsBooked
    BY DEF UpIsBooked
  <2>1. live \subseteq active
    BY DEF Listed, LiveListed, Order
  <2>2. Down(Emon) \/ "emon" \in active
    BY DEF Listed, EmonListed, Down, TypeOK, CollectorTypeOK, Process
  <2> QED BY <2>1, <2>2 DEF UpIsBooked
<1> QED BY <1>1, RunIsListed, PTL

\* A stop() that has run to its end, in main() or in the handler, on top of whatever
\* the signal found, leaves up only what it could not see or could not bring down.
THEOREM RunStopLeavesNothing == Spec => []StopLeavesNothing
<1>1. TypeOK /\ Listed => StopLeavesNothing
  <2> SUFFICES ASSUME TypeOK, Listed, stopped PROVE StopLeavesNothing
    BY DEF StopLeavesNothing
  <2>1. main \in {"report", "exited"}
    BY DEF Listed, Order
  <2>2. Down(Emon) \/ Emon \in unstopped \/ "emon" \in raced
    BY <2>1 DEF Listed, EmonHandled, PastEmonStop, Up, Down
  <2>3. live \subseteq raced
    BY <2>1 DEF Listed, LiveHandled, Past, TypeOK
  <2> QED BY <2>2, <2>3 DEF StopLeavesNothing
<1> QED BY <1>1, RunIsListed, PTL

\* EDP, which follows stop_collection whatever that returned, finds no EMON writing,
\* but for the same exceptions (manager.py:183-185).
THEOREM RunEdpReadsSettledFile == Spec => []EdpReadsSettledFile
<1>1. TypeOK /\ Listed => EdpReadsSettledFile
  BY DEF Listed, EmonHandled, PastEmonStop, Stopping, Up, Down, EdpReadsSettledFile
<1> QED BY <1>1, RunIsListed, PTL

-----------------------------------------------------------------------------
\* A bounded EMON that is up has an auto-stop thread: asleep, or on its way through
\* stop_collection.
Attended ==
  Timed /\ Up(Emon) => \/ Emon \in armed
                       \/ call[AutoStop].at \in {"stop", "emon_stop", "reap"}

\* No step of a thread takes a sleeping auto-stop thread away, and the one that
\* starts EMON makes it (emon.py:192-200).
LEMMA ArmedStays ==
  ASSUME TypeOK, NEW t \in Thread, CollectorStep(t, Timed)
  PROVE  /\ armed \subseteq armed'
         /\ Timed /\ process[Emon] # "alive" /\ process'[Emon] = "alive" => Emon \in armed'
<1>1. CASE StartCheck(t)
  BY <1>1 DEF StartCheck
<1>2. CASE Launch(t, Timed)
  <2>1. call[t].on = Emon
    BY <1>2, Effects DEF CollectorStep, TypeOK, Timed
  <2> QED BY <1>2, <2>1 DEF Launch
<1>3. CASE StopCheck(t)
  BY <1>3 DEF StopCheck
<1>4. CASE EmonStop(t)
  BY <1>4 DEF EmonStop, TypeOK, CollectorTypeOK
<1>5. CASE Reap(t)
  BY <1>5 DEF Reap, TypeOK, CollectorTypeOK
<1> QED BY <1>1, <1>2, <1>3, <1>4, <1>5 DEF CollectorStep

LEMMA AttendedStays ==
  ASSUME TypeOK, Listed, Attended, [Next]_vars
  PROVE  Attended'
<1> USE DEF Attended, Up
<1>1. Timed' = Timed
  <2>1. runner' = runner
    BY DEF Next, MainStep, vars, managerVars, collectorVars, StartRapl, StartTemp, MarkTemp,
           StartEmon, EmonStarted, StartPerf, Evaluate, StopEmon, EmonStopped, ProcessEmon,
           StopPerf, StopRapl, StopTemp, Clear, Report, DelayedWake, DelayedDone, PerfWake,
           PerfLaunch, PerfExit, EmonSteps, AutoReturns, EmonDies, Interrupt, Terminated
  <2> QED BY <2>1 DEF Timed
<1>2. CASE \E t \in Thread : CollectorStep(t, Timed)
  <2>1. PICK t \in Thread : CollectorStep(t, Timed)
    BY <1>2
  <2>2. SUFFICES ASSUME Timed, Up(Emon)' PROVE Attended'
    BY <1>1
  <2>3. CASE process[Emon] # "alive"
    BY <2>1, <2>2, <2>3, ArmedStays
  <2>4. CASE process[Emon] = "alive"
    <3>1. Up(Emon)
      BY <2>1, <2>2, <2>4, EmonEffects DEF Effect
    <3>2. CASE Emon \in armed
      BY <2>1, <3>2, ArmedStays
    <3>3. CASE Emon \notin armed /\ t # AutoStop
      BY <2>1, <2>2, <3>1, <3>3, EmonEffects
    <3>4. CASE Emon \notin armed /\ t = AutoStop
      <4>1. call[AutoStop].at \in {"stop", "emon_stop", "reap"}
        BY <2>2, <3>1, <3>4
      <4>2. status[Emon] = "running"
        BY <3>1 DEF Listed, UpIsRunning
      <4> QED BY <2>1, <2>2, <3>4, <4>1, <4>2, EmonEffects DEF Effect
    <3> QED BY <3>2, <3>3, <3>4
  <2> QED BY <2>3, <2>4
<1>3. CASE AutoWake(AutoStop, Emon)
  <2>1. Up(Emon) => call'[AutoStop].at = "stop"
    BY <1>3 DEF AutoWake, Invoke, Listed, UpIsRunning, TypeOK, CollectorTypeOK
  <2> QED BY <1>1, <1>3, <2>1 DEF AutoWake
<1>4. CASE EmonExit(Emon)
  BY <1>4 DEF EmonExit, TypeOK, CollectorTypeOK
<1> DEFINE Apart == UNCHANGED <<process, armed, unstopped>>
<1>5. ASSUME Apart, UNCHANGED call PROVE Attended'
  BY <1>1, <1>5
<1>6. ASSUME Apart, NEW t \in {Main, Delayed}, NEW x, call' = [call EXCEPT ![t] = x]
      PROVE  Attended'
  BY <1>1, <1>6 DEF TypeOK, CollectorTypeOK
<1> USE DEF collectorVars
<1>7. CASE AutoReturns
  BY <1>1, <1>7 DEF AutoReturns, Returns
<1>8. CASE StartEmon
  BY <1>5, <1>6, <1>8 DEF StartEmon, Invoke
<1>9. CASE EmonStarted \/ EmonStopped
  BY <1>6, <1>9 DEF EmonStarted, EmonStopped, Returns
<1>10. CASE StopEmon
  BY <1>5, <1>6, <1>10 DEF StopEmon, Invoke
<1>11. CASE DelayedWake \/ DelayedDone
  BY <1>5, <1>6, <1>11 DEF DelayedWake, DelayedDone, Invoke, Returns
<1>12. CASE Interrupt
  BY <1>6, <1>12 DEF Interrupt, Unwind
<1>13. CASE StartRapl \/ StartTemp \/ MarkTemp \/ StartPerf \/ Evaluate
  BY <1>5, <1>13 DEF StartRapl, StartTemp, MarkTemp, StartPerf, Evaluate
<1>14. CASE ProcessEmon \/ StopPerf \/ StopRapl \/ StopTemp \/ Clear \/ Report
  BY <1>5, <1>14 DEF ProcessEmon, StopPerf, StopRapl, StopTemp, Clear, Report
<1>15. CASE PerfWake \/ PerfLaunch \/ PerfExit \/ Terminated \/ UNCHANGED vars
  BY <1>5, <1>15 DEF PerfWake, PerfLaunch, PerfExit, Terminated, vars
<1>16. CASE EmonSteps \/ EmonDies
  BY <1>2, <1>3, <1>4, <1>16 DEF EmonSteps, EmonDies
<1> QED BY <1>7, <1>8, <1>9, <1>10, <1>11, <1>12, <1>13, <1>14, <1>15, <1>16 DEF Next, MainStep

\* Of AutoStopFires, what is safety: while the bounded EMON is up and not given up on,
\* the auto-stop thread that is to end it is there (manager.py:85, emon.py:194-200).
THEOREM RunAutoStopAttends == Spec => []Attended
<1>1. Init => Attended
  BY DEF Init, CollectorInit, Attended, Up
<1>2. TypeOK /\ Listed /\ Attended /\ [Next]_vars => Attended'
  BY AttendedStays
<1> QED BY <1>1, <1>2, RunIsListed, PTL DEF Spec
=============================================================================
