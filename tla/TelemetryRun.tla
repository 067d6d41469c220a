---------------------------- MODULE TelemetryRun ----------------------------
(***************************************************************************)
(* One benchmark run's telemetry: TelemetryManager.start and stop          *)
(* (common/telemetry/manager.py) driven by a runner's main(), with the     *)
(* threads that run beside it: the EMON and perf-top warm-up threads, the  *)
(* EMON auto-stop thread, and a signal at any moment.                      *)
(*                                                                         *)
(* "webarena" (benchmarks/webarena/run.py) starts EMON after a warm-up,    *)
(* for a bounded duration.  "plain" are the appworld, osworld, swe-bench   *)
(* and t-bench runners: EMON at once, until stop().  All of them start     *)
(* perf-top after a warm-up, and all install the same SIGINT/SIGTERM       *)
(* handler, which stops the telemetry it finds in _TELEMETRY_MANAGER: only *)
(* webarena's main() ever assigns that global.                             *)
(***************************************************************************)
EXTENDS EmonCollector

CONSTANTS
  Emon,    \* the manager's EmonCollector
  Main,    \* the runner's main thread
  Delayed, \* manager.py's _delayed_start thread
  AutoStop \* emon.py's _auto_stop thread

ASSUME RunAssumption ==
  /\ Collector = {Emon}
  /\ Thread = {Main, Delayed, AutoStop}
  /\ Main # Delayed /\ Main # AutoStop /\ Delayed # AutoStop

VARIABLES
  runner,    \* which runner this is; never changes
  active,    \* TelemetryManager._active
  main,      \* where the main thread is in start / run_evaluation / stop
  delayed,   \* where _delayed_start is
  perfWait,  \* where _delayed_start_perftop is
  live,      \* perf-top and temperature processes and the RAPL thread that run
  cleanup,   \* _CLEANUP_CALLED: the signal handler has the main thread
  stopped,   \* history: a stop() has run to its end
  raced      \* history: collectors that came up out of stop()'s sight

vars == <<collectorVars, runner, active, main, delayed, perfWait, live,
          cleanup, stopped, raced>>
managerVars == <<runner, active, main, delayed, perfWait, live, cleanup,
                 stopped, raced>>

Kind == {"emon", "perftop", "rapl", "temp"}
Starting == {"rapl", "temp", "temp_mark", "emon", "emon_wait", "perf"}
Stopping == {"stop", "stop_wait", "edp", "stop_perf", "stop_rapl", "stop_temp", "clear"}

Registered == runner = "webarena"  \* _TELEMETRY_MANAGER = tm, run.py:1208
WarmsUp    == runner = "webarena"  \* emon_warmup_s = 180
Timed      == runner = "webarena"  \* emon_duration_s = 300

TypeOK ==
  /\ CollectorTypeOK
  /\ runner \in {"webarena", "plain"}
  /\ active \in SUBSET Kind
  /\ main \in Starting \cup Stopping \cup {"evaluate", "report", "exited"}
  /\ delayed \in {"none", "sleeping", "starting", "done", "crashed"}
  /\ perfWait \in {"none", "sleeping", "launching", "done"}
  /\ live \in SUBSET {"perftop", "rapl", "temp"}
  /\ cleanup \in BOOLEAN
  /\ stopped \in BOOLEAN
  /\ raced \in SUBSET Kind

Init ==
  /\ CollectorInit
  /\ runner \in {"webarena", "plain"}
  /\ active = {}
  /\ main = "rapl"
  /\ delayed = "none"
  /\ perfWait = "none"
  /\ live = {}
  /\ cleanup = FALSE
  /\ stopped = FALSE
  /\ raced = {}

Running == main # "exited"  \* the process; daemon threads end with it

At(here, there) == main = here /\ main' = there

-----------------------------------------------------------------------------
(* TelemetryManager.start, manager.py:79-151, on the main thread.  Each     *)
(* collector is started, or is not: not asked for, not available, or failed. *)

\* manager.py:90-93
StartRapl ==
  /\ At("rapl", "temp")
  /\ \/ /\ live' = live \cup {"rapl"}
        /\ active' = active \cup {"rapl"}
     \/ UNCHANGED <<live, active>>
  /\ UNCHANGED <<collectorVars, runner, delayed, perfWait, cleanup, stopped, raced>>

\* manager.py:95-100: the process is up before "temp" is in _active.
StartTemp ==
  /\ \/ /\ At("temp", "temp_mark")
        /\ live' = live \cup {"temp"}
     \/ /\ At("temp", "emon")
        /\ UNCHANGED live
  /\ UNCHANGED <<collectorVars, runner, active, delayed, perfWait, cleanup,
                 stopped, raced>>

\* manager.py:101-103
MarkTemp ==
  /\ At("temp_mark", "emon")
  /\ active' = active \cup {"temp"}
  /\ UNCHANGED <<collectorVars, runner, delayed, perfWait, live, cleanup,
                 stopped, raced>>

\* manager.py:106-119. With a warm-up "emon" enters _active before it starts.
StartEmon ==
  /\ \/ /\ WarmsUp
        /\ "rapl" \notin active  \* webarena/run.py:1193
        /\ At("emon", "perf")
        /\ active' = active \cup {"emon"}
        /\ delayed' = "sleeping"
        /\ UNCHANGED collectorVars
     \/ /\ ~WarmsUp
        /\ At("emon", "emon_wait")
        /\ Invoke(Main, "start", Emon)
        /\ UNCHANGED <<status, process, armed, reloads, unstopped, active, delayed>>
     \/ /\ At("emon", "perf")
        /\ \/ UNCHANGED status
           \/ status' = [status EXCEPT ![Emon] = "error"]  \* written by is_available()
        /\ UNCHANGED <<process, armed, reloads, unstopped, call, active, delayed>>
  /\ UNCHANGED <<runner, perfWait, live, cleanup, stopped, raced>>

\* EmonStarted with a bug: the running EMON is not entered in _active.
EmonStartedUnlisted ==
  /\ Returns(Main, "ok") \/ Returns(Main, "failed")
  /\ At("emon_wait", "perf")
  /\ UNCHANGED <<status, process, armed, reloads, unstopped, runner, active, delayed,
                 perfWait, live, cleanup, stopped, raced>>

\* manager.py:120-125; an exception of start_collection leaves main().
EmonStarted ==
  /\ \/ /\ Returns(Main, "ok")
        /\ At("emon_wait", "perf")
        /\ active' = active \cup {"emon"}
     \/ /\ Returns(Main, "failed")
        /\ At("emon_wait", "perf")
        /\ UNCHANGED active
     \/ /\ Returns(Main, "raised")
        /\ At("emon_wait", "exited")
        /\ UNCHANGED active
  /\ UNCHANGED <<status, process, armed, reloads, unstopped, runner, delayed,
                 perfWait, live, cleanup, stopped, raced>>

\* manager.py:128-143
StartPerf ==
  /\ At("perf", "evaluate")
  /\ \/ /\ active' = active \cup {"perftop"}
        /\ perfWait' = "sleeping"
     \/ UNCHANGED <<active, perfWait>>
  /\ UNCHANGED <<collectorVars, runner, delayed, live, cleanup, stopped, raced>>

\* run_evaluation returns, or leaves main() by an exception or sys.exit: no
\* runner calls tm.stop() on that path.
Evaluate ==
  /\ At("evaluate", "stop") \/ At("evaluate", "exited")
  /\ UNCHANGED <<collectorVars, runner, active, delayed, perfWait, live,
                 cleanup, stopped, raced>>

-----------------------------------------------------------------------------
(* The threads beside the main thread *)

\* manager.py:111-114: the check of _active and the call it guards.
DelayedWake ==
  /\ Running
  /\ delayed = "sleeping"
  /\ IF "emon" \in active
     THEN /\ delayed' = "starting"
          /\ Invoke(Delayed, "start", Emon)
          /\ raced' = IF main \in Stopping \ {"stop"} THEN raced \cup {"emon"} ELSE raced
     ELSE /\ delayed' = "done"
          /\ UNCHANGED <<call, raced>>
  /\ UNCHANGED <<status, process, armed, reloads, unstopped, runner, active,
                 main, perfWait, live, cleanup, stopped>>

\* manager.py:115-117: list.remove raises when stop() has cleared the list.
DelayedDone ==
  /\ Running
  /\ delayed = "starting"
  /\ \/ /\ Returns(Delayed, "ok")
        /\ delayed' = "done"
        /\ UNCHANGED active
     \/ /\ Returns(Delayed, "failed")
        /\ delayed' = IF "emon" \in active THEN "done" ELSE "crashed"
        /\ active' = active \ {"emon"}
     \/ /\ Returns(Delayed, "raised")
        /\ delayed' = "crashed"
        /\ UNCHANGED active
  /\ UNCHANGED <<status, process, armed, reloads, unstopped, runner, main,
                 perfWait, live, cleanup, stopped, raced>>

\* manager.py:133-135
PerfWake ==
  /\ Running
  /\ perfWait = "sleeping"
  /\ IF "perftop" \in active
     THEN /\ perfWait' = "launching"
          /\ raced' = IF main \in {"stop_rapl", "stop_temp", "clear"}
                      THEN raced \cup {"perftop"} ELSE raced
     ELSE /\ perfWait' = "done"
          /\ UNCHANGED raced
  /\ UNCHANGED <<collectorVars, runner, active, main, delayed, live, cleanup,
                 stopped>>

\* manager.py:136-142 around perftop.py:72-106
PerfLaunch ==
  /\ Running
  /\ perfWait = "launching"
  /\ perfWait' = "done"
  /\ \/ /\ live' = live \cup {"perftop"}
        /\ UNCHANGED active
     \/ /\ active' = active \ {"perftop"}
        /\ UNCHANGED live
  /\ UNCHANGED <<collectorVars, runner, main, delayed, cleanup, stopped, raced>>

\* External: `perf record -- sleep <duration>` ends by itself.
PerfExit ==
  /\ "perftop" \in live
  /\ live' = live \ {"perftop"}
  /\ UNCHANGED <<collectorVars, runner, active, main, delayed, perfWait,
                 cleanup, stopped, raced>>

-----------------------------------------------------------------------------
(* TelemetryManager.stop, manager.py:153-254 *)

\* StopEmon with a bug: post-processing starts before the collector is stopped.
StopEmonAfterEdp ==
  /\ IF "emon" \in active THEN At("stop", "edp") ELSE At("stop", "stop_perf")
  /\ UNCHANGED <<collectorVars, runner, active, delayed, perfWait, live, cleanup,
                 stopped, raced>>

\* manager.py:182-183
StopEmon ==
  /\ IF "emon" \in active
     THEN /\ At("stop", "stop_wait")
          /\ Invoke(Main, "stop", Emon)
          /\ raced' = IF delayed = "starting" /\ status[Emon] # "running"
                      THEN raced \cup {"emon"} ELSE raced
     ELSE /\ At("stop", "stop_perf")
          /\ UNCHANGED <<call, raced>>
  /\ UNCHANGED <<status, process, armed, reloads, unstopped, runner, active,
                 delayed, perfWait, live, cleanup, stopped>>

\* EmonStopped with a bug: stop() goes on only if stop_collection succeeded.
EmonStoppedIfOk ==
  /\ Returns(Main, "ok")
  /\ At("stop_wait", "stop_perf")
  /\ UNCHANGED <<status, process, armed, reloads, unstopped, runner, active,
                 delayed, perfWait, live, cleanup, stopped, raced>>

\* manager.py:184: the result of stop_collection is not looked at; EDP runs when
\* it was asked for (the handler does not ask) and the output file exists.
EmonStopped ==
  /\ Returns(Main, "ok") \/ Returns(Main, "failed")
  /\ IF ~cleanup /\ process[Emon] # "none"
     THEN At("stop_wait", "edp")
     ELSE At("stop_wait", "stop_perf")
  /\ UNCHANGED <<status, process, armed, reloads, unstopped, runner, active,
                 delayed, perfWait, live, cleanup, stopped, raced>>

\* manager.py:185-235; an exception of EDP (emon.py:320, 347, 373) leaves main().
ProcessEmon ==
  /\ At("edp", "stop_perf") \/ At("edp", "exited")
  /\ UNCHANGED <<collectorVars, runner, active, delayed, perfWait, live,
                 cleanup, stopped, raced>>

\* manager.py:237-244 around perftop.py:108-132. Nothing to stop while the
\* warm-up thread has not made the process yet.
StopPerf ==
  /\ At("stop_perf", "stop_rapl")
  /\ IF "perftop" \in active
     THEN /\ live' = live \ {"perftop"}
          /\ raced' = IF perfWait = "launching" THEN raced \cup {"perftop"} ELSE raced
     ELSE UNCHANGED <<live, raced>>
  /\ UNCHANGED <<collectorVars, runner, active, delayed, perfWait, cleanup, stopped>>

\* manager.py:246-252
StopRapl ==
  /\ At("stop_rapl", "stop_temp")
  /\ live' = live \ ({"rapl"} \cap active)
  /\ UNCHANGED <<collectorVars, runner, active, delayed, perfWait, cleanup,
                 stopped, raced>>

\* StopTemp with a bug: an elif behind the test for "rapl".
StopTempUnlessRapl ==
  /\ At("stop_temp", "clear")
  /\ live' = IF "rapl" \in active THEN live ELSE live \ ({"temp"} \cap active)
  /\ UNCHANGED <<collectorVars, runner, active, delayed, perfWait, cleanup,
                 stopped, raced>>

StopTemp ==
  /\ At("stop_temp", "clear")
  /\ live' = live \ ({"temp"} \cap active)
  /\ UNCHANGED <<collectorVars, runner, active, delayed, perfWait, cleanup,
                 stopped, raced>>

\* manager.py:254, and run.py:138-140 behind it when the handler called stop()
Clear ==
  /\ At("clear", IF cleanup THEN "exited" ELSE "report")
  /\ active' = {}
  /\ stopped' = TRUE
  /\ UNCHANGED <<collectorVars, runner, delayed, perfWait, live, cleanup, raced>>

\* The rest of main(): results.csv, results.json, the AgentSysPerf artifacts.
Report ==
  /\ At("report", "exited")
  /\ UNCHANGED <<collectorVars, runner, active, delayed, perfWait, live,
                 cleanup, stopped, raced>>

-----------------------------------------------------------------------------
(* webarena/run.py:123-144, appworld/run.py:61-86 and alike. The handler    *)
(* runs on the main thread, on top of whatever it was doing, stops the       *)
(* registered manager, if any, and ends the program; a second signal finds   *)
(* _CLEANUP_CALLED set and its sys.exit cuts the first clean-up short.       *)

Interrupt ==
  /\ Running
  /\ Unwind(Main)
  /\ cleanup' = TRUE
  /\ IF Registered /\ ~cleanup
     THEN /\ main' = "stop"
          /\ stopped' = FALSE
          /\ raced' = IF main = "temp_mark" THEN raced \cup {"temp"} ELSE raced
     ELSE /\ main' = "exited"
          /\ UNCHANGED <<stopped, raced>>
  /\ UNCHANGED <<status, process, armed, reloads, unstopped, runner, active,
                 delayed, perfWait, live>>

\* The threads inside the collector.
EmonSteps ==
  /\ Running
  /\ \/ \E t \in Thread : CollectorStep(t, Timed)
     \/ AutoWake(AutoStop, Emon)
  /\ UNCHANGED managerVars

AutoReturns ==
  /\ Running
  /\ \E o \in {"ok", "failed"} : Returns(AutoStop, o)
  /\ UNCHANGED <<status, process, armed, reloads, unstopped, managerVars>>

EmonDies == EmonExit(Emon) /\ UNCHANGED managerVars

\* The program has ended: nothing but its orphans can still move.
Terminated == ~Running /\ UNCHANGED vars

MainStep ==
  \/ StartRapl \/ StartTemp \/ MarkTemp \/ StartEmon \/ EmonStarted \/ StartPerf
  \/ Evaluate
  \/ StopEmon \/ EmonStopped \/ ProcessEmon \/ StopPerf \/ StopRapl \/ StopTemp
  \/ Clear \/ Report

Next ==
  \/ MainStep
  \/ DelayedWake \/ DelayedDone \/ PerfWake \/ PerfLaunch \/ PerfExit
  \/ EmonSteps \/ AutoReturns \/ EmonDies
  \/ Interrupt
  \/ Terminated

\* Threads are scheduled by the operating system and every subprocess they wait
\* for has a timeout or ends (mpp.py has no effective timeout, see
\* emon.py:432-434, and is taken to end). Not owed: that the evaluation ever
\* returns, a signal, and the end of EMON by itself.
Fairness ==
  /\ WF_vars(MainStep /\ main # "evaluate")
  /\ WF_vars(DelayedWake) /\ WF_vars(DelayedDone)
  /\ WF_vars(PerfWake) /\ WF_vars(PerfLaunch)
  /\ WF_vars(AutoReturns)
  /\ WF_vars(Running /\ AutoWake(AutoStop, Emon) /\ UNCHANGED managerVars)
  /\ \A t \in Thread :
       WF_vars(Running /\ CollectorStep(t, Timed) /\ UNCHANGED managerVars)

Spec == Init /\ [][Next]_vars
FairSpec == Spec /\ Fairness

-----------------------------------------------------------------------------
(* Properties *)

Down(c) == process[c] # "alive"

\* While the benchmark runs, whatever is up is listed in _active, so that stop()
\* will find it (manager.py:109, 131).
UpIsBooked ==
  main = "evaluate" => /\ live \subseteq active
                       /\ Down(Emon) \/ "emon" \in active

\* Once a stop() has run to its end nothing it was responsible for still runs,
\* except a collector whose warm-up thread came up behind stop()'s back, a
\* temperature process the signal caught before it was listed, and an EMON that
\* could not be brought down (manager.py:182-254).
StopLeavesNothing ==
  stopped => /\ Down(Emon) \/ Emon \in unstopped \/ "emon" \in raced
             /\ live \subseteq raced

\* EDP post-processing reads a file nobody is writing to any more, with the same
\* exceptions (manager.py:183-184 ignores what stop_collection returned).
EdpReadsSettledFile ==
  main = "edp" => Down(Emon) \/ Emon \in unstopped \/ "emon" \in raced

\* What manager.py:109 and 113 promise: a stop() during the warm-up leaves no
\* EMON behind. The code does not keep it.
StopDuringWarmupIsSafe == stopped => Down(Emon) \/ Emon \in unstopped

\* docs/architecture.md:214: runners register handlers that stop telemetry before
\* exiting. The plain ones register the handler and no manager for it to stop.
HandlerStopsEmon ==
  runner = "plain" /\ cleanup /\ ~Running => Down(Emon) \/ Emon \in unstopped

\* A bounded collection comes to its end even if the evaluation hangs: the
\* auto-stop thread brings it down, or tries to (manager.py:85, emon.py:194-200).
AutoStopFires ==
  (Timed /\ ~Down(Emon)) ~> (Down(Emon) \/ ~Running \/ Emon \in unstopped)

\* Only the evaluation itself can keep a run from ending: whatever the threads
\* do to the collector, start() and stop() get through (manager.py:79-254).
RunEnds == <>[](main = "evaluate" \/ ~Running)
=============================================================================
