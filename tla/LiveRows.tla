------------------------------ MODULE LiveRows ------------------------------
(***************************************************************************)
(* What benchmarks/webarena/run.py:767-771 promises of the live result     *)
(* files: on_task_row fires once for a task, after the task has finished.  *)
(* Rows are never taken back.  A signal is allowed one exception: the one  *)
(* task it caught in the middle of its bookkeeping may get its row again.  *)
(***************************************************************************)
EXTENDS Naturals

CONSTANTS Task, NoTask

VARIABLES
  finished,  \* tasks with a KPI record
  rows,      \* live rows written, per task
  torn       \* the task whose bookkeeping a signal interrupted, if any

vars == <<finished, rows, torn>>

Init ==
  /\ finished = {}
  /\ rows = [t \in Task |-> 0]
  /\ torn = NoTask

Finish(t) ==
  /\ t \notin finished
  /\ finished' = finished \cup {t}
  /\ UNCHANGED <<rows, torn>>

Persist(t) ==
  /\ t \in finished
  /\ rows[t] = 0 \/ t = torn
  /\ rows' = [rows EXCEPT ![t] = @ + 1]
  /\ UNCHANGED <<finished, torn>>

Tear(t) ==
  /\ torn = NoTask
  /\ t \in finished
  /\ torn' = t
  /\ UNCHANGED <<finished, rows>>

Next == \E t \in Task : Finish(t) \/ Persist(t) \/ Tear(t)

Spec == Init /\ [][Next]_vars
=============================================================================
