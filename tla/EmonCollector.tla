--------------------------- MODULE EmonCollector ---------------------------
(***************************************************************************)
(* common/telemetry/emon.py: EmonCollector.start_collection and            *)
(* stop_collection as small steps of the thread that executes them.        *)
(*                                                                         *)
(* A collector object is driven by several threads at once (the runner's   *)
(* main thread, a warm-up thread, an auto-stop thread, a Timer), without   *)
(* a lock.  Each step below ends where the code starts a subprocess or     *)
(* returns, since that is where another thread gets to run for a long      *)
(* time; what lies between two such points is one step.                    *)
(*                                                                         *)
(* The modules that extend this one say which threads call what.           *)
(***************************************************************************)
EXTENDS Naturals, FiniteSets

CONSTANTS
  Thread,      \* the threads that call a collector
  Collector,   \* the EmonCollector objects
  NoCollector, \* the "on" of a thread that is in no collector
  MaxReload    \* bound: how often one collector's Popen fails and is retried

ASSUME CollectorAssumption ==
  /\ NoCollector \notin Collector
  /\ MaxReload \in Nat

VARIABLES
  status,     \* EmonCollector.status
  process,    \* the `emon -collect-edp` process of each collector
  armed,      \* collectors whose _auto_stop thread is asleep
  reloads,    \* failed launches that were retried, per collector
  unstopped,  \* history: collectors a stop attempt ran for and did not bring down
  call        \* per thread: the collector call it is in, and where

collectorVars == <<status, process, armed, reloads, unstopped, call>>

Status == {"not_started", "running", "stopped", "error"}
Process == {"none", "alive", "exited"}
Inside == {"start", "launch", "stop", "emon_stop", "reap"}
Outcome == {"ok", "failed", "raised"}

Idle == [at |-> "idle", on |-> NoCollector]

CollectorTypeOK ==
  /\ status \in [Collector -> Status]
  /\ process \in [Collector -> Process]
  /\ armed \in SUBSET Collector
  /\ reloads \in [Collector -> 0..MaxReload]
  /\ unstopped \in SUBSET Collector
  /\ call \in [Thread -> [at : Inside \cup Outcome, on : Collector] \cup {Idle}]

CollectorInit ==
  /\ status = [c \in Collector |-> "not_started"]
  /\ process = [c \in Collector |-> "none"]
  /\ armed = {}
  /\ reloads = [c \in Collector |-> 0]
  /\ unstopped = {}
  /\ call = [t \in Thread |-> Idle]

-----------------------------------------------------------------------------
(* Calling and returning. *)

Invoke(t, op, c) ==
  /\ call[t] = Idle
  /\ call' = [call EXCEPT ![t] = [at |-> op, on |-> c]]

In(t, here) == call[t].at = here

Goto(t, there) == call' = [call EXCEPT ![t].at = there]

Returns(t, outcome) ==
  /\ call[t].at = outcome
  /\ call' = [call EXCEPT ![t] = Idle]

\* An exception out of a signal handler unwinds the thread from wherever it is.
Unwind(t) == call' = [call EXCEPT ![t] = Idle]

-----------------------------------------------------------------------------
(* start_collection(session_name, duration_s) *)

\* emon.py:164-170. The guard, is_available() (which itself writes ERROR) and
\* the driver check; reload_drivers can raise TimeoutExpired out of the call.
StartCheck(t) ==
  LET c == call[t].on IN
  /\ In(t, "start")
  /\ \/ /\ Goto(t, "failed")
        /\ status' = [status EXCEPT ![c] = IF @ = "running" THEN @ ELSE "error"]
     \/ /\ status[c] # "running"
        /\ Goto(t, "launch") \/ Goto(t, "raised")
        /\ UNCHANGED status
  /\ UNCHANGED <<process, armed, reloads, unstopped>>

\* Launch with a bug: the retry after a reload is not bounded.
LaunchRetriesForever(t, timed) ==
  LET c == call[t].on IN
  /\ In(t, "launch")
  /\ Goto(t, "start")
  /\ reloads' = [reloads EXCEPT ![c] = @ + 1]
  /\ UNCHANGED <<status, process, armed, unstopped>>

\* Launch with a bug: a launch that needed a retry has no auto-stop thread.
LaunchRetryUntimed(t, timed) ==
  LET c == call[t].on IN
  /\ In(t, "launch")
  /\ \/ /\ Goto(t, "ok")
        /\ process' = [process EXCEPT ![c] = "alive"]
        /\ status' = [status EXCEPT ![c] = "running"]
        /\ armed' = IF timed /\ reloads[c] = 0 THEN armed \cup {c} ELSE armed
        /\ UNCHANGED reloads
     \/ /\ reloads[c] < MaxReload
        /\ Goto(t, "start")
        /\ reloads' = [reloads EXCEPT ![c] = @ + 1]
        /\ UNCHANGED <<status, process, armed>>
  /\ UNCHANGED unstopped

\* emon.py:184-208. Popen, then RUNNING and the auto-stop thread; when Popen
\* raises, the drivers are reloaded and start_collection calls itself again.
Launch(t, timed) ==
  LET c == call[t].on IN
  /\ In(t, "launch")
  /\ \/ /\ Goto(t, "ok")
        /\ process' = [process EXCEPT ![c] = "alive"]
        /\ status' = [status EXCEPT ![c] = "running"]
        /\ armed' = IF timed THEN armed \cup {c} ELSE armed
        /\ UNCHANGED reloads
     \/ /\ reloads[c] < MaxReload
        /\ Goto(t, "start")
        /\ reloads' = [reloads EXCEPT ![c] = @ + 1]
        /\ UNCHANGED <<status, process, armed>>
     \/ /\ Goto(t, "failed")
        /\ status' = [status EXCEPT ![c] = "error"]
        /\ UNCHANGED <<process, armed, reloads>>
  /\ UNCHANGED unstopped

\* emon.py:194-200. The _auto_stop thread t of collector c wakes up.
AutoWake(t, c) ==
  /\ c \in armed
  /\ armed' = armed \ {c}
  /\ IF status[c] = "running" THEN Invoke(t, "stop", c) ELSE UNCHANGED call
  /\ UNCHANGED <<status, process, reloads, unstopped>>

-----------------------------------------------------------------------------
(* stop_collection() *)

\* emon.py:212-213. The guard; nothing stops a second thread from passing it too.
StopCheck(t) ==
  /\ In(t, "stop")
  /\ IF status[call[t].on] = "running"
     THEN Goto(t, "emon_stop")
     ELSE Goto(t, "failed")
  /\ UNCHANGED <<status, process, armed, reloads, unstopped>>

\* emon.py:214-227. `emon -stop` ends the collection (it addresses the driver,
\* not a process, so other collectors' processes may end with it), hangs until
\* its timeout, or cannot be run at all (238-240).
EmonStop(t) ==
  LET c == call[t].on
      live == {d \in Collector : process[d] = "alive"}
  IN
  /\ In(t, "emon_stop")
  /\ \/ /\ Goto(t, "reap")
        /\ \E also \in SUBSET (live \ {c}) :
             process' = [d \in Collector |->
                           IF d \in live /\ (d = c \/ d \in also)
                           THEN "exited" ELSE process[d]]
        /\ UNCHANGED <<status, unstopped>>
     \/ /\ Goto(t, "reap")
        /\ UNCHANGED <<status, process, unstopped>>
     \/ /\ Goto(t, "failed")
        /\ status' = [status EXCEPT ![c] = "error"]
        /\ unstopped' = unstopped \cup {c}
        /\ UNCHANGED process
  /\ UNCHANGED <<armed, reloads>>

\* Reap with a bug: STOPPED without looking whether the process is still there.
ReapWithoutKill(t) ==
  /\ In(t, "reap")
  /\ Goto(t, "ok")
  /\ status' = [status EXCEPT ![call[t].on] = "stopped"]
  /\ UNCHANGED <<process, armed, reloads, unstopped>>

\* emon.py:229-237. SIGTERM to the process group if it is still there; a
\* process that outlives the 5 s wait is given up on, and STOPPED all the same.
Reap(t) ==
  LET c == call[t].on IN
  /\ In(t, "reap")
  /\ Goto(t, "ok")
  /\ status' = [status EXCEPT ![c] = "stopped"]
  /\ \/ /\ process' = [process EXCEPT ![c] = IF @ = "alive" THEN "exited" ELSE @]
        /\ UNCHANGED unstopped
     \/ /\ process[c] = "alive"
        /\ unstopped' = unstopped \cup {c}
        /\ UNCHANGED process
  /\ UNCHANGED <<armed, reloads>>

\* External: the emon process ends by itself (driver error, killed by an operator).
EmonExit(c) ==
  /\ process[c] = "alive"
  /\ process' = [process EXCEPT ![c] = "exited"]
  /\ UNCHANGED <<status, armed, reloads, unstopped, call>>

CollectorStep(t, timed) ==
  \/ StartCheck(t)
  \/ Launch(t, timed)
  \/ StopCheck(t)
  \/ EmonStop(t)
  \/ Reap(t)

-----------------------------------------------------------------------------
\* A collector that says STOPPED has no emon process any more, whichever of
\* several threads did the stopping, unless a stop attempt ran and failed
\* (emon.py:210-240).
StoppedIsDown ==
  \A c \in Collector : status[c] = "stopped" => process[c] # "alive" \/ c \in unstopped
=============================================================================
