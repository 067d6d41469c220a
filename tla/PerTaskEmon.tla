---------------------------- MODULE PerTaskEmon -----------------------------
(***************************************************************************)
(* benchmarks/webarena/run.py with --emon: _run_with_task_tracking         *)
(* (587-746) reads the evaluation's output line by line on the main thread *)
(* and _run_with_per_task_emon (749-883) hangs EMON on its callbacks: a    *)
(* Timer thread per task starts a collector two seconds after the [Intent] *)
(* line, the end of the task stops it, and a daemon thread post-processes  *)
(* its file and then writes the task's live row.                           *)
(*                                                                         *)
(* The threads share _current_emon, _current_emon_idx, _pending_timer and  *)
(* _task_record_cache without a lock; every load and store of those that   *)
(* another thread can fall between is a step of its own.                   *)
(***************************************************************************)
EXTENDS EmonCollector

CONSTANTS
  Task,   \* task indices; task t's Timer thread is thread t, its collector t
  Main,   \* the main thread
  NoTask  \* None

ASSUME TaskAssumption ==
  /\ Collector = Task
  /\ Thread = Task \cup {Main}
  /\ Main \notin Task
  /\ NoTask \notin Task

VARIABLES
  seen,       \* tasks whose [Config file] line was read
  intents,    \* tasks whose [Intent] line was read
  cur,        \* _cur["task_idx"], or NoTask when _cur is empty
  main,       \* where the main thread is
  finishing,  \* it is inside _finish_task, not just in on_config
  then,       \* what follows the _finish_task it is in
  incoming,   \* the task whose [Config file] line closed an open one
  pending,    \* _pending_timer
  current,    \* _current_emon
  currentIdx, \* _current_emon_idx
  held,       \* _stop_and_process_emon's local ec
  heldIdx,    \* and idx (NoTask out of their scope)
  hadEmon,    \* _last_stop_had_emon
  timer,      \* where each task's Timer thread is
  edp,        \* the _edp thread of each collector: where, captured idx, result
  recorded,   \* how often a task was appended to per_task_results
  cache,      \* keys of _task_record_cache
  rows,       \* live rows written for each task
  views,      \* whose EMON views its latest row carries; NoTask when empty
  dropped,    \* tasks whose row on_task_row failed to write (a warning)
  unwinding,  \* a signal has raised SystemExit in the main thread
  torn,       \* history: the task that signal caught after its append
  pace        \* which of the code's timing assumptions hold in this run

trackVars == <<seen, intents, cur, finishing, then, incoming, recorded>>
emonVars  == <<pending, current, currentIdx, held, heldIdx, hadEmon, timer, edp>>
rowVars   == <<cache, rows, views, dropped>>
runVars   == <<unwinding, torn, pace>>
vars == <<main, collectorVars, trackVars, emonVars, rowVars, runVars>>

MaybeTask == Task \cup {NoTask}
Stop == {"cancel", "take", "take_idx", "drop", "drop_idx", "stopping"}
Finish == {"record", "task_done", "files"}
EdpPlace == {"none", "processing", "lookup", "writing", "done", "crashed"}

TypeOK ==
  /\ CollectorTypeOK
  /\ seen \in SUBSET Task
  /\ intents \in SUBSET Task
  /\ cur \in MaybeTask
  /\ main \in {"reading", "join", "returned", "exited"} \cup Stop \cup Finish
  /\ finishing \in BOOLEAN
  /\ then \in {"read", "config", "leave", "unwind"}
  /\ incoming \in MaybeTask
  /\ pending \in MaybeTask
  /\ current \in MaybeTask
  /\ currentIdx \in MaybeTask
  /\ held \in MaybeTask
  /\ heldIdx \in MaybeTask
  /\ hadEmon \in BOOLEAN
  /\ timer \in [Task -> {"none", "armed", "cancelled", "starting", "register",
                         "register_idx", "done"}]
  /\ edp \in [Task -> [at : EdpPlace, idx : MaybeTask, ok : BOOLEAN]]
  /\ recorded \in [Task -> Nat]
  /\ cache \in SUBSET Task
  /\ rows \in [Task -> Nat]
  /\ views \in [Task -> MaybeTask]
  /\ dropped \in SUBSET Task
  /\ unwinding \in BOOLEAN
  /\ torn \in MaybeTask
  /\ pace \in {"any", "prompt", "both"}

Init ==
  /\ CollectorInit
  /\ seen = {} /\ intents = {} /\ cur = NoTask
  /\ main = "reading" /\ finishing = FALSE /\ then = "read" /\ incoming = NoTask
  /\ pending = NoTask /\ current = NoTask /\ currentIdx = NoTask
  /\ held = NoTask /\ heldIdx = NoTask /\ hadEmon = FALSE
  /\ timer = [t \in Task |-> "none"]
  /\ edp = [t \in Task |-> [at |-> "none", idx |-> NoTask, ok |-> FALSE]]
  /\ recorded = [t \in Task |-> 0]
  /\ cache = {} /\ rows = [t \in Task |-> 0] /\ views = [t \in Task |-> NoTask]
  /\ dropped = {}
  /\ unwinding = FALSE /\ torn = NoTask
  /\ pace \in {"any", "prompt", "both"}

Running == main # "exited"  \* the Timer and _edp threads are daemons

At(here, there) == main = here /\ main' = there

Starting(t) == timer[t] \in {"starting", "register", "register_idx"}

\* What the code counts on and does not enforce. PromptTimers: a Timer that fires
\* has its collector registered before the evaluation prints another line.
\* SlowEdp: post-processing takes longer than the callbacks that follow it.
PromptTimers == pace # "any"
SlowEdp == pace = "both"

Quiet == PromptTimers => \A t \in Task : ~Starting(t)

-----------------------------------------------------------------------------
(* The evaluation's output, run.py:709-741.  Each task's lines come once.   *)

\* run.py:714-726
ReadConfig(t) ==
  /\ Quiet
  /\ t \notin seen
  /\ seen' = seen \cup {t}
  /\ At("reading", "cancel")
  /\ IF cur # NoTask
     THEN /\ finishing' = TRUE
          /\ then' = "config"
          /\ incoming' = t
          /\ UNCHANGED cur
     ELSE /\ cur' = t
          /\ UNCHANGED <<finishing, then, incoming>>
  /\ UNCHANGED <<intents, recorded, collectorVars, emonVars, rowVars, runVars>>

\* run.py:729-732 and 840-847: the Timer of the current task is set.
ReadIntent ==
  /\ main = "reading"
  /\ cur # NoTask
  /\ cur \notin intents
  /\ intents' = intents \cup {cur}
  /\ pending' = cur
  /\ timer' = [timer EXCEPT ![cur] = "armed"]
  /\ UNCHANGED <<seen, cur, main, finishing, then, incoming, recorded, current,
                 currentIdx, held, heldIdx, hadEmon, edp, collectorVars, rowVars, runVars>>

\* ReadResult with a bug: no look at whether a task is open.
ReadResultUnguarded ==
  /\ Quiet
  /\ At("reading", "cancel")
  /\ finishing' = TRUE
  /\ then' = "read"
  /\ UNCHANGED <<seen, intents, cur, incoming, recorded, collectorVars, emonVars,
                 rowVars, runVars>>

\* run.py:735-739: [Result] or [Unhandled Error].
ReadResult ==
  /\ Quiet
  /\ cur # NoTask
  /\ At("reading", "cancel")
  /\ finishing' = TRUE
  /\ then' = "read"
  /\ UNCHANGED <<seen, intents, cur, incoming, recorded, collectorVars, emonVars,
                 rowVars, runVars>>

\* run.py:741-745: the output ends; an open task is finished as ERROR.
ReadEof ==
  /\ Quiet
  /\ IF cur # NoTask
     THEN /\ At("reading", "cancel")
          /\ finishing' = TRUE
          /\ then' = "leave"
     ELSE /\ At("reading", "join")
          /\ UNCHANGED <<finishing, then>>
  /\ UNCHANGED <<seen, intents, cur, incoming, recorded, collectorVars, emonVars,
                 rowVars, runVars>>

-----------------------------------------------------------------------------
(* on_config and on_result, run.py:836-838 and 849-851: _cancel_timer, then  *)
(* _stop_and_process_emon.                                                  *)

\* CancelTimer with a bug: the timer is forgotten, not cancelled.
ForgetTimer ==
  /\ At("cancel", "take")
  /\ pending' = NoTask
  /\ UNCHANGED <<trackVars, current, currentIdx, held, heldIdx, hadEmon, timer, edp,
                 collectorVars, rowVars, runVars>>

\* run.py:784-788. Timer.cancel stops a timer that has not fired, only.
CancelTimer ==
  /\ At("cancel", "take")
  /\ pending' = NoTask
  /\ timer' = IF pending # NoTask /\ timer[pending] = "armed"
              THEN [timer EXCEPT ![pending] = "cancelled"]
              ELSE timer
  /\ UNCHANGED <<trackVars, current,
                 currentIdx, held, heldIdx, hadEmon, edp, collectorVars, rowVars, runVars>>

AfterStop == IF finishing THEN "record" ELSE "reading"

\* run.py:792-796
TakeEmon ==
  /\ At("take", IF current = NoTask THEN AfterStop ELSE "take_idx")
  /\ hadEmon' = (current # NoTask)
  /\ held' = current
  /\ UNCHANGED <<pending, current, currentIdx, heldIdx, timer, edp>>
  /\ UNCHANGED <<trackVars,
                 collectorVars, rowVars, runVars>>

\* run.py:797
TakeIdx ==
  /\ At("take_idx", "drop")
  /\ heldIdx' = currentIdx
  /\ UNCHANGED <<pending, current, currentIdx, held, hadEmon, timer, edp>>
  /\ UNCHANGED <<trackVars,
                 collectorVars, rowVars, runVars>>

\* run.py:798
DropEmon ==
  /\ At("drop", "drop_idx")
  /\ current' = NoTask
  /\ UNCHANGED <<pending, currentIdx, held, heldIdx, hadEmon, timer, edp>>
  /\ UNCHANGED <<trackVars,
                 collectorVars, rowVars, runVars>>

\* DropIdx with a bug: the collector is dropped without stopping it.
DropIdxUnstopped ==
  /\ At("drop_idx", "stopping")
  /\ currentIdx' = NoTask
  /\ Invoke(Main, "ok", held)
  /\ UNCHANGED <<pending, current, held, heldIdx, hadEmon, timer, edp>>
  /\ UNCHANGED <<trackVars, status,
                 process, armed, reloads, unstopped, rowVars, runVars>>

\* run.py:799-800
DropIdx ==
  /\ At("drop_idx", "stopping")
  /\ currentIdx' = NoTask
  /\ Invoke(Main, "stop", held)
  /\ UNCHANGED <<pending, current, held, heldIdx, hadEmon, timer, edp>>
  /\ UNCHANGED <<trackVars, status,
                 process, armed, reloads, unstopped, rowVars, runVars>>

\* run.py:821-823
SpawnEdp ==
  /\ At("stopping", AfterStop)
  /\ Returns(Main, "ok") \/ Returns(Main, "failed")
  /\ edp' = [edp EXCEPT ![held] = [at |-> "processing", idx |-> heldIdx, ok |-> FALSE]]
  /\ held' = NoTask /\ heldIdx' = NoTask
  /\ UNCHANGED <<pending, current, currentIdx, hadEmon, timer>>
  /\ UNCHANGED <<trackVars, status,
                 process, armed, reloads, unstopped, rowVars, runVars>>

-----------------------------------------------------------------------------
(* The rest of _finish_task, run.py:665-701, and _on_task_done, 853-865 *)

\* run.py:680
Record ==
  /\ At("record", "task_done")
  /\ recorded' = [recorded EXCEPT ![cur] = @ + 1]
  /\ UNCHANGED <<seen, intents, cur, finishing, then, incoming, collectorVars,
                 emonVars, rowVars, runVars>>

\* on_task_row, run.py:1230-1261, appends the row; an error in it is a warning.
WriteRow(t, whose) ==
  \/ /\ rows' = [rows EXCEPT ![t] = @ + 1]
     /\ views' = [views EXCEPT ![t] = whose]
     /\ UNCHANGED dropped
  \/ /\ dropped' = dropped \cup {t}
     /\ UNCHANGED <<rows, views>>

\* TaskDone with a bug: the row is written at once and again after EDP.
TaskDoneTwice ==
  /\ At("task_done", "files")
  /\ cache' = IF hadEmon THEN cache \cup {cur} ELSE cache
  /\ WriteRow(cur, NoTask)
  /\ UNCHANGED <<trackVars, collectorVars, emonVars, runVars>>

\* TaskDone with a bug: without an EMON the record waits in the cache for good.
TaskDoneNeverFlushes ==
  /\ At("task_done", "files")
  /\ cache' = cache \cup {cur}
  /\ UNCHANGED <<rows, views, dropped>>
  /\ UNCHANGED <<trackVars, collectorVars, emonVars, runVars>>

\* run.py:858-865: keep the record for the _edp thread, or write the row now.
TaskDone ==
  /\ At("task_done", "files")
  /\ IF hadEmon
     THEN /\ cache' = cache \cup {cur}
          /\ UNCHANGED <<rows, views, dropped>>
     ELSE /\ WriteRow(cur, NoTask)
          /\ UNCHANGED cache
  /\ UNCHANGED <<trackVars, collectorVars, emonVars, runVars>>

\* run.py:688-701, and what comes after this _finish_task.
Files ==
  /\ main = "files"
  /\ finishing' = FALSE /\ then' = "read" /\ incoming' = NoTask
  /\ \/ then = "read" /\ main' = "reading" /\ cur' = NoTask
     \/ then = "config" /\ main' = "cancel" /\ cur' = incoming
     \/ then = "leave" /\ main' = "join" /\ cur' = NoTask
     \/ then = "unwind" /\ main' = "exited" /\ cur' = NoTask
  /\ UNCHANGED <<seen, intents, recorded, collectorVars, emonVars, rowVars, runVars>>

\* Join with a bug: it waits for a thread for every task, started or not.
JoinAll ==
  /\ At("join", "returned")
  /\ \A c \in Task : edp[c].at = "done"
  /\ UNCHANGED <<trackVars, collectorVars, emonVars, rowVars, runVars>>

\* run.py:744-745 and 876-883: wait for the _edp threads, then return.
Join ==
  /\ At("join", "returned")
  /\ \A c \in Task : edp[c].at \in {"none", "done", "crashed"}
  /\ UNCHANGED <<trackVars, collectorVars, emonVars, rowVars, runVars>>

\* The rest of main(), and the end of the program.
Exit ==
  /\ At("returned", "exited")
  /\ UNCHANGED <<trackVars, collectorVars, emonVars, rowVars, runVars>>

-----------------------------------------------------------------------------
(* The Timer thread of task t, run.py:825-833 *)

TimerFire(t) ==
  /\ Running
  /\ timer[t] = "armed"
  /\ PromptTimers => main = "reading"
  /\ timer' = [timer EXCEPT ![t] = "starting"]
  /\ Invoke(t, "start", t)
  /\ UNCHANGED <<pending, current, currentIdx, held, heldIdx, hadEmon, edp>>
  /\ UNCHANGED <<main, trackVars, status, process, armed, reloads, unstopped, rowVars, runVars>>

\* run.py:829, 832-833; an exception ends the thread the same way.
TimerStarted(t) ==
  /\ Running
  /\ timer[t] = "starting"
  /\ \/ /\ Returns(t, "ok")
        /\ timer' = [timer EXCEPT ![t] = "register"]
     \/ /\ Returns(t, "failed") \/ Returns(t, "raised")
        /\ timer' = [timer EXCEPT ![t] = "done"]
  /\ UNCHANGED <<pending, current, currentIdx, held, heldIdx, hadEmon, edp>>
  /\ UNCHANGED <<main, trackVars, status, process, armed, reloads, unstopped, rowVars, runVars>>

\* run.py:830: overwrites whatever is there.
Register(t) ==
  /\ Running
  /\ timer[t] = "register"
  /\ current' = t
  /\ timer' = [timer EXCEPT ![t] = "register_idx"]
  /\ UNCHANGED <<pending, currentIdx, held, heldIdx, hadEmon, edp>>
  /\ UNCHANGED <<main, trackVars, collectorVars, rowVars, runVars>>

\* run.py:831
RegisterIdx(t) ==
  /\ Running
  /\ timer[t] = "register_idx"
  /\ currentIdx' = t
  /\ timer' = [timer EXCEPT ![t] = "done"]
  /\ UNCHANGED <<pending, current, held, heldIdx, hadEmon, edp>>
  /\ UNCHANGED <<main, trackVars, collectorVars, rowVars, runVars>>

TimerStep(t) == TimerFire(t) \/ TimerStarted(t) \/ Register(t) \/ RegisterIdx(t)

-----------------------------------------------------------------------------
(* The _edp thread of collector c, run.py:803-819 *)

EdpAt(c, here, there) ==
  /\ Running
  /\ edp[c].at = here
  /\ edp' = [edp EXCEPT ![c] = [at |-> there, idx |-> edp[c].idx, ok |-> edp[c].ok]]
  /\ UNCHANGED <<pending, current, currentIdx, held, heldIdx, hadEmon, timer>>
  /\ UNCHANGED <<main, trackVars, collectorVars, runVars>>

\* run.py:805-811: mpp.py yields views or, after a missing file, missing
\* metadata or a failure, none; the latter takes next to no time. What
\* process_emon_with_edp raises (emon.py:320, 347, 373) ends the thread here.
EdpFinish(c) ==
  /\ Running
  /\ edp[c].at = "processing"
  /\ SlowEdp => main \in {"reading", "join", "returned"}
  /\ \E there \in {"lookup", "crashed"}, views_found \in BOOLEAN :
       edp' = [edp EXCEPT ![c] = [at |-> there, idx |-> edp[c].idx,
                                  ok |-> views_found /\ there = "lookup"]]
  /\ UNCHANGED <<pending, current, currentIdx, held, heldIdx, hadEmon, timer>>
  /\ UNCHANGED <<main, trackVars, collectorVars, rowVars, runVars>>

\* EdpLookup with a bug: the record stays in the cache (get for pop).
EdpLookupKeeps(c) ==
  /\ EdpAt(c, "lookup", IF edp[c].idx \in cache THEN "writing" ELSE "done")
  /\ UNCHANGED rowVars

\* run.py:812-814
EdpLookup(c) ==
  /\ EdpAt(c, "lookup", IF edp[c].idx \in cache THEN "writing" ELSE "done")
  /\ cache' = cache \ {edp[c].idx}
  /\ UNCHANGED <<rows, views, dropped>>

\* run.py:815-819
EdpWrite(c) ==
  /\ EdpAt(c, "writing", "done")
  /\ WriteRow(edp[c].idx, IF edp[c].ok THEN c ELSE NoTask)
  /\ UNCHANGED cache

EdpStep(c) == EdpFinish(c) \/ EdpLookup(c) \/ EdpWrite(c)

-----------------------------------------------------------------------------
(* run.py:138-144.  The handler's sys.exit unwinds the main thread: the      *)
(* finally clause of the reader (742-744) finishes the open task, once more  *)
(* if it was already being finished, and nothing joins the _edp threads.     *)
(* An exception in the finally clause itself, or a second signal, ends it.   *)
(* The one call of _finish_task that may raise on its own, the mkdir at 690,  *)
(* unwinds the main thread in the same way.                                  *)

Interrupt ==
  /\ Running
  /\ Unwind(Main)
  /\ unwinding' = TRUE
  /\ torn' = IF main \in {"task_done", "files"} THEN cur ELSE torn
  /\ IF unwinding \/ cur = NoTask \/ (finishing /\ then = "leave")
     THEN /\ main' = "exited"
          /\ UNCHANGED <<finishing, then>>
     ELSE /\ main' = "cancel"
          /\ finishing' = TRUE
          /\ then' = "unwind"
  /\ held' = NoTask /\ heldIdx' = NoTask /\ incoming' = NoTask
  /\ UNCHANGED <<seen, intents, cur, recorded, status, process, armed, reloads, unstopped,
                 pending, current, currentIdx, hadEmon, timer, edp, rowVars, pace>>

\* The threads inside a collector: no duration, so no auto-stop thread.
EmonStep(t) ==
  /\ Running
  /\ CollectorStep(t, FALSE)
  /\ UNCHANGED <<main, trackVars, emonVars, rowVars, runVars>>

EmonDies ==
  /\ Running
  /\ \E c \in Collector : EmonExit(c)
  /\ UNCHANGED <<main, trackVars, emonVars, rowVars, runVars>>

Terminated == ~Running /\ UNCHANGED vars

MainStep ==
  \/ \E t \in Task : ReadConfig(t)
  \/ ReadIntent \/ ReadResult \/ ReadEof
  \/ CancelTimer \/ TakeEmon \/ TakeIdx \/ DropEmon \/ DropIdx \/ SpawnEdp
  \/ Record \/ TaskDone \/ Files \/ Join \/ Exit

Next ==
  \/ MainStep
  \/ \E t \in Task : TimerStep(t)
  \/ \E c \in Task : EdpStep(c)
  \/ \E t \in Thread : EmonStep(t)
  \/ EmonDies \/ Interrupt \/ Terminated

\* Every thread is scheduled, every subprocess they wait for ends or times out
\* (mpp.py is taken to end, its 600 s do not bound it: emon.py:432-434), and the evaluation's output ends.
Fairness ==
  /\ WF_vars(MainStep)
  /\ \A t \in Task : WF_vars(TimerStep(t)) /\ WF_vars(EdpStep(t))
  /\ \A t \in Thread : WF_vars(EmonStep(t))

Spec == Init /\ [][Next]_vars
FairSpec == Spec /\ Fairness

-----------------------------------------------------------------------------
(* Properties *)

\* Where task t's finished record can be: about to be handed on by on_task_done,
\* in the cache, in the hands of an _edp thread, written as a row, or given up
\* on with a warning.
Place == {"handing", "cached", "in_hand", "written", "dropped"}

Holds(p, t) ==
  \/ p = "handing" /\ main = "task_done" /\ cur = t
  \/ p = "cached"  /\ t \in cache
  \/ p = "in_hand" /\ \E c \in Task : edp[c].at = "writing" /\ edp[c].idx = t
  \/ p = "written" /\ rows[t] > 0
  \/ p = "dropped" /\ t \in dropped

\* However the Timer, _edp and main threads interleave, a finished task's
\* record is in exactly one place: it is never written twice and never
\* vanishes (but it may stay in the cache for good).  Only the task a signal
\* caught between its append and _cur.clear() (run.py:680-701) is exempt.
RecordInOnePlace ==
  \A t \in Task \ {torn} :
    /\ rows[t] <= 1
    /\ recorded[t] = 0 => \A p \in Place : ~Holds(p, t)
    /\ recorded[t] > 0 => \E p \in Place : \A q \in Place : Holds(q, t) <=> q = p

\* What makes RecordInOnePlace inductive. Control: which task the main thread
\* is finishing or about to open, and what a signal leaves of that.
Control ==
  /\ cur \in seen \cup {NoTask}
  /\ main \in Finish => finishing
  /\ finishing => cur # NoTask /\ main \in {"exited"} \cup Stop \cup Finish
  /\ then = "config" => finishing /\ incoming # NoTask
  /\ incoming # NoTask => incoming \in seen /\ incoming # cur /\ cur # NoTask
  /\ main = "join" \/ main = "returned" => cur = NoTask
  /\ torn # NoTask => unwinding
  /\ unwinding => main = "exited" \/ (finishing /\ then = "unwind" /\ incoming = NoTask)
  /\ torn # NoTask /\ main # "exited" => cur = torn

\* A collector is taken out of _current_emon at most once, after its Timer put
\* it there, so its _edp thread is started at most once.
Ownership ==
  /\ \A t \in Task : t \notin intents => timer[t] = "none"
  /\ intents \subseteq seen
  /\ \A t \in Task :
       t = current \/ t = held \/ edp[t].at # "none" => timer[t] \in {"register_idx", "done"}
  /\ current # NoTask => edp[current].at = "none"
  /\ held # NoTask => edp[held].at = "none"
  /\ main \in {"take_idx", "drop", "drop_idx", "stopping"} <=> held # NoTask
  /\ main \in {"drop_idx", "stopping"} => current # held
  /\ \A c \in Task : edp[c].at = "writing" => edp[c].idx \in Task

\* A task is recorded once it is no longer the open one, and only a recorded
\* task has a record anywhere.
Recorded ==
  /\ \A t \in Task : t \notin seen \/ t = incoming => recorded[t] = 0
  /\ cur # NoTask /\ cur # torn /\ main \notin {"task_done", "files", "exited"}
       => recorded[cur] = 0
  /\ main \in {"task_done", "files"} => recorded[cur] > 0
  /\ \A t \in Task : (\E p \in Place : Holds(p, t)) => recorded[t] > 0

\* The pop from the cache gives a record to one _edp thread only.
OneHand ==
  \A c, d \in Task :
    /\ edp[c].at = "writing" /\ edp[d].at = "writing"
    /\ edp[c].idx = edp[d].idx /\ edp[c].idx # torn
    => c = d

IInv == TypeOK /\ Control /\ Ownership /\ Recorded /\ OneHand /\ RecordInOnePlace

\* The live files as their reader sees them implement LiveRows.
LR == INSTANCE LiveRows WITH finished <- {t \in Task : recorded[t] > 0}
ImplementsLiveRows == LR!Spec

\* Post-processing starts on a file only after its EMON has come down
\* (run.py:800-821), unless the stop itself failed.
EdpAfterStop ==
  \A c \in Task : edp[c].at # "none" => process[c] # "alive" \/ c \in unstopped

\* The _edp thread that had task t's record to write died in post-processing.
EdpDied(t) == \E c \in Task : edp[c].at = "crashed" /\ edp[c].idx = t

\* The code's own intent, in a run that is not interrupted and keeps its timing
\* assumptions: on return every task has been recorded once, no EMON is left
\* running, views went to their own task, and, if EDP is slow enough and does
\* not crash, every task has its row (run.py:767-771, 876-881).
TimelyRunIsComplete ==
  PromptTimers /\ ~unwinding /\ main = "returned" =>
    \A t \in Task :
      /\ recorded[t] = IF t \in seen THEN 1 ELSE 0
      /\ process[t] # "alive" \/ t \in unstopped
      /\ views[t] \in {t, NoTask}
      /\ SlowEdp /\ t \in seen => rows[t] = 1 \/ t \in dropped \/ EdpDied(t)

\* run.py:767 and 853-857: on_task_row fires later, once EDP finishes, so with
\* prompt timers a run that returns has a row for each task. The code does not
\* keep it: EDP can finish before the record is cached.
EveryTaskHasARow ==
  PromptTimers /\ ~unwinding /\ main = "returned" =>
    \A t \in seen : rows[t] > 0 \/ t \in dropped \/ EdpDied(t)

\* With both assumptions the row of a finished task arrives, once EDP is done with it,
\* unless EDP crashes.
TimelyRowArrives ==
  \A t \in Task :
    (SlowEdp /\ recorded[t] > 0) ~> (rows[t] > 0 \/ t \in dropped \/ EdpDied(t) \/ unwinding)

\* Every run comes to its end: waiting for the _edp threads never blocks it.
RunEnds == <>~Running
=============================================================================
