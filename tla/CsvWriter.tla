----------------------------- MODULE CsvWriter -----------------------------
(***************************************************************************)
(* common/csv_writer.py: write_csv_row called by several threads on one    *)
(* file.  Header and row go to the file in one write, at close (they fit   *)
(* the file's buffer; a row of more than 8 kB would not).  The rows modelled *)
(* start with a task index, so only headers start with a word.             *)
(***************************************************************************)
EXTENDS Integers, SequencesExt

CONSTANTS
  Writer,  \* the threads that write
  Widths,  \* the numbers of columns a row may have
  MaxRows  \* bound: calls of write_csv_row

VARIABLES
  exists, file,  \* the file: whether it is there, and its lines
  call,          \* where each writer is in write_csv_row
  calls,         \* history: calls made
  overlap        \* history: two calls were in progress at once

csvVars == <<exists, file, call, calls, overlap>>

NoCall == [at |-> "idle"]
Line(kind, width, id) == [kind |-> kind, width |-> width, id |-> id]
Busy == {t \in Writer : call[t] # NoCall}

CsvInit ==
  /\ exists = FALSE /\ file = <<>> /\ calls = 0 /\ overlap = FALSE
  /\ call = [t \in Writer |-> NoCall]

\* `csv_file.exists()`.
Look(t) ==
  /\ call[t] = NoCall /\ calls < MaxRows
  /\ \E width \in Widths :
       call' = [call EXCEPT ![t] =
                  [at |-> IF exists THEN "read" ELSE "open", header |-> ~exists,
                   width |-> width, id |-> calls + 1]]
  /\ calls' = calls + 1
  /\ overlap' = (overlap \/ Busy # {})
  /\ UNCHANGED <<exists, file>>

\* NeedsHeader with a bug: any header of the file will do.
NeedsHeaderAnywhere(width) ==
  \A i \in DOMAIN file : file[i].kind = "header" => file[i].width # width

\* The most recent header among the lines, 0 if there is none.
LastHeader(lines) == SelectLastInSeq(lines, LAMBDA line : line.kind = "header")

\* An empty file, or a most recent header of another column count.
NeedsHeader(width) ==
  LET i == LastHeader(file) IN
  file = <<>> \/ (i # 0 /\ file[i].width # width)

\* Read with a bug: a file that exists is taken to have its header.
ReadNothing(t) ==
  /\ call[t].at = "read"
  /\ call' = [call EXCEPT ![t].at = "open"]
  /\ UNCHANGED <<exists, file, calls, overlap>>

Read(t) ==
  /\ call[t].at = "read"
  /\ call' = [call EXCEPT ![t].at = "open", ![t].header = NeedsHeader(call[t].width)]
  /\ UNCHANGED <<exists, file, calls, overlap>>

\* open(csv_file, "a") makes the file, still empty.
Open(t) ==
  /\ call[t].at = "open"
  /\ exists' = TRUE
  /\ call' = [call EXCEPT ![t].at = "close"]
  /\ UNCHANGED <<file, calls, overlap>>

Close(t) ==
  /\ call[t].at = "close"
  /\ LET c == call[t] IN
       file' = file \o (IF c.header THEN <<Line("header", c.width, c.id)>> ELSE <<>>)
                    \o <<Line("row", c.width, c.id)>>
  /\ call' = [call EXCEPT ![t] = NoCall]
  /\ UNCHANGED <<exists, calls, overlap>>

\* An error is printed and the row given up.
GiveUp(t) ==
  /\ call[t].at \in {"read", "open", "close"}
  /\ call' = [call EXCEPT ![t] = NoCall]
  /\ UNCHANGED <<exists, file, calls, overlap>>

CsvStep == \E t \in Writer : Look(t) \/ Read(t) \/ Open(t) \/ Close(t) \/ GiveUp(t)
=============================================================================
