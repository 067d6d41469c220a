---------------------------- MODULE OllamaProxy ----------------------------
(***************************************************************************)
(* webarena/lib/ollama_metrics.py with the reader of webarena/run.py: which *)
(* task an inference request is counted for.  The evaluation prints lines  *)
(* and sends requests; the main thread reads the lines, at its own pace,   *)
(* and tells the proxy the current task; the proxy's one thread serves the *)
(* requests in turn and tags each with the task current when it completes. *)
(***************************************************************************)
EXTENDS Integers, Sequences

CONSTANTS
  Tasks,        \* the tasks are 1..Tasks, evaluated in this order
  MaxRequests,  \* bound: requests sent
  NoTask

ASSUME ProxyAssumption == Tasks \in Nat /\ NoTask \notin Nat

VARIABLES
  task,      \* the task the evaluation is in
  tasksRun,  \* tasks begun
  waiting,   \* the request the evaluation waits for, 0 if none
  sent,      \* per request sent: its task
  output,    \* lines printed and not yet read
  queue,     \* requests at the proxy, the first is being served
  current,   \* _current_task_idx
  metrics,   \* _metrics: [id, tag], and as history whether it completed late
  reader,    \* where the main thread is, and whether in the finally clause
  open,      \* _cur["task_idx"]
  figures    \* per task: the requests in its record

evalVars == <<task, tasksRun, waiting, sent>>
readVars == <<current, reader, open, figures>>
proxyVars == <<evalVars, output, queue, metrics, readVars>>

Reading == [at |-> "reading", last |-> FALSE]
NotTaken == {0}  \* no request has this id
Ids(tag) == {metrics[i].id : i \in {j \in DOMAIN metrics : metrics[j].tag = tag}}

ProxyInit ==
  /\ task = NoTask /\ tasksRun = 0 /\ waiting = 0 /\ sent = <<>>
  /\ output = <<>> /\ queue = <<>> /\ metrics = <<>>
  /\ current = NoTask /\ reader = Reading /\ open = NoTask
  /\ figures = [t \in 1..Tasks |-> NotTaken]

-----------------------------------------------------------------------------
(* The evaluation: its [Config file] line, its requests, its [Result] or   *)
(* [Unhandled Error] line, if it prints one.                               *)

BeginTask ==
  /\ task = NoTask /\ tasksRun < Tasks
  /\ task' = tasksRun + 1 /\ tasksRun' = tasksRun + 1
  /\ output' = Append(output, [is |-> "config", task |-> task'])
  /\ UNCHANGED <<waiting, sent, queue, metrics, readVars>>

SendRequest ==
  /\ task # NoTask /\ waiting = 0 /\ Len(sent) < MaxRequests
  /\ sent' = Append(sent, task)
  /\ waiting' = Len(sent')
  /\ queue' = Append(queue, Len(sent'))
  /\ UNCHANGED <<task, tasksRun, output, metrics, readVars>>

\* The client's own timeout; the proxy goes on with the request.
AbandonRequest ==
  /\ waiting # 0
  /\ waiting' = 0
  /\ UNCHANGED <<task, tasksRun, sent, output, queue, metrics, readVars>>

EndTask ==
  /\ task # NoTask /\ waiting = 0
  /\ task' = NoTask
  /\ output' \in {output, Append(output, [is |-> "result", task |-> NoTask])}
  /\ UNCHANGED <<tasksRun, waiting, sent, queue, metrics, readVars>>

-----------------------------------------------------------------------------
(* The proxy's thread. *)

Served ==
  /\ queue # <<>>
  /\ queue' = Tail(queue)
  /\ waiting' = IF waiting = Head(queue) THEN 0 ELSE waiting
  /\ UNCHANGED <<task, tasksRun, sent, output, readVars>>

\* _handle_chat with _record, which precedes the response.
Record ==
  /\ Served
  /\ metrics' = Append(metrics,
       [id |-> Head(queue), tag |-> current,
        late |-> output # <<>> \/ reader # Reading \/ waiting # Head(queue)])

\* Ollama failed or answered no JSON: forwarded without a record.
Forward == Served /\ UNCHANGED metrics

-----------------------------------------------------------------------------
(* The reader. *)

Goes(place) == reader' = [reader EXCEPT !.at = place]

\* A [Config file] line with a bug: it replaces a task that is open, and the
\* proxy is not told.
ReadConfigOver ==
  /\ reader = Reading /\ output # <<>> /\ Head(output).is = "config"
  /\ output' = Tail(output)
  /\ open' = Head(output).task /\ current' = IF open = NoTask THEN open' ELSE current
  /\ UNCHANGED <<evalVars, queue, metrics, reader, figures>>

\* A [Config file] line: the task that is open is finished first.
ReadConfig ==
  /\ reader = Reading /\ output # <<>> /\ Head(output).is = "config"
  /\ IF open # NoTask THEN Goes("on_result") /\ UNCHANGED <<output, open, current>>
     ELSE /\ output' = Tail(output)
          /\ open' = Head(output).task /\ current' = open' /\ UNCHANGED reader
  /\ UNCHANGED <<evalVars, queue, metrics, figures>>

\* A [Result] line without an open task is passed over.
ReadResult ==
  /\ reader = Reading /\ output # <<>> /\ Head(output).is = "result"
  /\ output' = Tail(output)
  /\ Goes(IF open = NoTask THEN "reading" ELSE "on_result")
  /\ UNCHANGED <<evalVars, queue, metrics, current, open, figures>>

\* The finally clause: the output has ended, or SystemExit came from the signal
\* handler wherever the main thread was.  A second one ends the clause as well.
Finally ==
  /\ reader.at # "done"
  /\ reader' = [at |-> IF open = NoTask \/ reader.last THEN "done" ELSE "on_result",
                last |-> TRUE]
  /\ UNCHANGED <<evalVars, output, queue, metrics, current, open, figures>>

\* _finish_task: on_result, which may take minutes (it stops EMON), ...
OnResult ==
  /\ reader.at = "on_result"
  /\ Goes("clear")
  /\ UNCHANGED <<evalVars, output, queue, metrics, current, open, figures>>

\* ... clear_current_task with a bug: it is left to the next task, ...
ClearNothing ==
  /\ reader.at = "clear"
  /\ Goes("collect")
  /\ UNCHANGED <<evalVars, output, queue, metrics, current, open, figures>>

\* ... clear_current_task, ...
Clear ==
  /\ reader.at = "clear"
  /\ current' = NoTask
  /\ Goes("collect")
  /\ UNCHANGED <<evalVars, output, queue, metrics, open, figures>>

\* ... get_per_task_metrics and the record, ...
Collect ==
  /\ reader.at = "collect"
  /\ figures' = [figures EXCEPT ![open] = Ids(open)]
  /\ Goes("close")
  /\ UNCHANGED <<evalVars, output, queue, metrics, current, open>>

\* ... on_task_done, the task's folder and _cur.clear().
CloseTask ==
  /\ reader.at = "close"
  /\ open' = NoTask
  /\ Goes(IF reader.last THEN "done" ELSE "reading")
  /\ UNCHANGED <<evalVars, output, queue, metrics, current, figures>>

ProxyStep ==
  \/ BeginTask \/ SendRequest \/ AbandonRequest \/ EndTask
  \/ Record \/ Forward
  \/ ReadConfig \/ ReadResult \/ Finally
  \/ OnResult \/ Clear \/ Collect \/ CloseTask
=============================================================================
