----------------------------- MODULE RunOutputs -----------------------------
(***************************************************************************)
(* What a WebArena run puts out while it goes on: power samples, live rows *)
(* and the inference figures of each task.  The three share no variable,   *)
(* so their product has no behaviour that one of them alone has not:       *)
(* `shown` says which of them a behaviour shows.                           *)
(***************************************************************************)
EXTENDS RaplPolling, CsvWriter, OllamaProxy

VARIABLE shown

vars == <<shown, raplVars, csvVars, proxyVars>>

Init ==
  /\ shown \in {"power", "rows", "inference"}
  /\ RaplInit /\ CsvInit /\ ProxyInit

Next ==
  /\ UNCHANGED shown
  /\ \/ shown = "power" /\ RaplStep /\ UNCHANGED <<csvVars, proxyVars>>
     \/ shown = "rows" /\ CsvStep /\ UNCHANGED <<raplVars, proxyVars>>
     \/ shown = "inference" /\ ProxyStep /\ UNCHANGED <<raplVars, csvVars>>

Spec == Init /\ [][Next]_vars

-----------------------------------------------------------------------------
(* Properties. *)

\* A sample's energy is what the domain used between the two times it is divided
\* by, wraps and failed readings included, but for two things.  A reading comes
\* after its time: what is used while the second one stalls is counted, what is
\* used while the first one stalled is not.  And a wrap whose range could not be
\* read gives 0, never less.
SampleIsTrue ==
  \A i \in DOMAIN samples :
    LET s == samples[i] IN
    s.delta # Failed => \/ s.delta = s.used + s.late - s.early
                        \/ s.delta = 0 /\ s.wrapped

\* get_mean_power, over the thread's list, and the copy stop_polling returned
\* agree once the thread was joined; a thread that outlasted the join adds the
\* one sample it was reading and no more.
StopIsFinal ==
  /\ caller = "stopped" => Len(samples) = returned
  /\ caller = "gave up" => Len(samples) <= returned + 1

Headers == {i \in DOMAIN file : file[i].kind = "header"}

\* Each row is below a header of its width, although a thread may find the
\* file that another one has created and not yet written.
EveryRowHasHeader ==
  \A j \in DOMAIN file :
    \E i \in Headers : i <= j /\ file[i].width = file[j].width

\* Without overlapping calls that header is the nearest one, through changes
\* of width back and forth.
NearestHeaderFits ==
  ~overlap => \A j \in DOMAIN file :
    LET i == LastHeader(SubSeq(file, 1, j)) IN
    i # 0 /\ file[i].width = file[j].width

\* A task's record holds every request that is ever tagged with the task: none
\* completes into it between the reading of the figures and the next task, nor
\* after a signal made _finish_task run again.
FiguresAreFinal ==
  \A t \in 1..Tasks : figures[t] # NotTaken => figures[t] = Ids(t)

\* A request is counted for the task that sent it, unless it completed while
\* the reader was behind the output or after its client had given it up: then
\* "Tag subsequent inference requests" (278) may tag it with another task's.
CountedForItsTask ==
  \A i \in DOMAIN metrics : ~metrics[i].late => metrics[i].tag = sent[metrics[i].id]

\* "Header is written only when: File does not exist yet, OR Existing file is
\* empty, OR Existing header column count differs" (csv_writer.py:18-21).  Two
\* threads that find no file write it twice.
HeaderOnlyWhenNeeded ==
  \A i, j \in Headers :
    i < j /\ file[i].width = file[j].width =>
      \E k \in Headers : i < k /\ k < j /\ file[k].width # file[i].width
=============================================================================
