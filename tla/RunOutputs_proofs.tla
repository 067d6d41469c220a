------------------------- MODULE RunOutputs_proofs -------------------------
(***************************************************************************)
(* Proofs about RunOutputs, one invariant for each of its three parts: for *)
(* any turn of the energy counter, any threads and widths of rows, and any *)
(* number of tasks and requests.                                           *)
(***************************************************************************)
EXTENDS RunOutputs, SequenceTheorems, TLAPS

-----------------------------------------------------------------------------
(* RaplPolling *)

Taken == [delta : {Failed}]
           \cup [delta : Int, used : Int, early : Int, late : Int, wrapped : BOOLEAN]

\* Between readings prev_e is the counter when it was read, less than a turn
\* ago; curr_t is not before that.
Polled ==
  /\ energy \in Nat /\ prevAt \in Nat /\ prevRead \in Nat /\ currAt \in Nat
  /\ thread \in {"asleep", "reading"} =>
       /\ prevRead <= energy /\ energy - prevRead < Turn
       /\ prevE # Failed => prevE = prevRead % Turn
  /\ samples \in Seq(Taken)
  /\ thread \in {"none", "started", "first", "asleep", "reading", "gone"}

\* A thread that was joined is gone; one that is not may take one more sample,
\* as polling is over.
Stopped ==
  /\ caller \in {"idle", "running", "joining", "joined", "timed out", "stopped", "gave up"}
  /\ caller = "idle" => thread = "none"
  /\ caller \in {"joined", "stopped"} => thread = "gone"
  /\ caller \in {"joining", "timed out", "gave up"} => ~polling

Returned ==
  /\ returned \in Nat
  /\ caller = "stopped" => Len(samples) = returned
  /\ caller = "gave up" => Len(samples) <= returned + 1
  /\ caller = "gave up" /\ thread = "reading" => Len(samples) <= returned

RaplInv == Polled /\ Stopped /\ Returned /\ SampleIsTrue

\* Two readings of a counter that turned over at most once between them.
LEMMA Turns ==
  ASSUME RaplAssumption, NEW a \in Nat, NEW b \in Nat, a <= b, b - a < Turn
  PROVE  /\ a % Turn \in Int /\ b % Turn \in Int
         /\ b - a = IF (b % Turn) >= (a % Turn) THEN (b % Turn) - (a % Turn)
                    ELSE (b % Turn) - (a % Turn) + Turn
         /\ (b % Turn) < (a % Turn) => a \div Turn # b \div Turn
<1> DEFINE p == a \div Turn
           q == b \div Turn
           d == q - p
<1> USE DEF RaplAssumption
<1>1. /\ p \in Int /\ q \in Int
      /\ a = Turn * p + (a % Turn) /\ b = Turn * q + (b % Turn)
      /\ a % Turn \in 0..(Turn - 1) /\ b % Turn \in 0..(Turn - 1)
  OBVIOUS
<1>2. d \in Int /\ b - a = Turn * d + ((b % Turn) - (a % Turn))
  BY <1>1
<1> HIDE DEF d
<1>3. CASE d = 0 \/ d = 1
  BY <1>1, <1>2, <1>3
<1>4. CASE d >= 2
  <2>1. Turn * d >= Turn * 2
    BY <1>2, <1>4
  <2> QED BY <1>1, <1>2, <2>1
<1>5. CASE d <= -1
  <2>1. Turn * d <= -Turn
    BY <1>2, <1>5
  <2> QED BY <1>1, <1>2, <2>1
<1> QED BY <1>1, <1>2, <1>3, <1>4, <1>5

LEMMA SampleKeeps ==
  ASSUME RaplAssumption, RaplInv, Sample
  PROVE  RaplInv'
<1> USE DEF RaplInv
<1>1. PICK val \in Readings :
        /\ IF val = Failed \/ prevE = Failed
           THEN samples' = Append(samples, [delta |-> Failed])
           ELSE \E d \in Deltas(prevE, val) : samples' = Append(samples, Truth(d))
        /\ prevE' = val
  BY DEF Sample
<1>2. /\ thread = "reading" /\ thread' = "asleep" /\ prevAt' = currAt /\ prevRead' = energy
      /\ UNCHANGED <<energy, currAt, polling, caller, returned>>
  BY DEF Sample
<1>3. PICK s \in Taken :
        /\ samples' = Append(samples, s)
        /\ s.delta # Failed => \/ s.delta = s.used + s.late - s.early
                               \/ s.delta = 0 /\ s.wrapped
  <2>1. CASE val = Failed \/ prevE = Failed
    BY <1>1, <2>1 DEF Taken
  <2>2. CASE val # Failed /\ prevE # Failed
    <3>1. PICK d \in Deltas(prevE, val) : samples' = Append(samples, Truth(d))
      BY <1>1, <2>2
    <3>2. prevE = prevRead % Turn /\ val = energy % Turn
      BY <1>1, <1>2, <2>2 DEF Readings, Polled
    <3>3. prevAt \in Nat /\ currAt \in Nat /\ prevRead \in Nat /\ energy \in Nat
      BY DEF Polled
    <3>4. /\ prevE \in Int /\ val \in Int
          /\ energy - prevRead = IF val >= prevE THEN val - prevE ELSE val - prevE + Turn
          /\ val < prevE => prevRead \div Turn # energy \div Turn
      <4>1. prevRead <= energy /\ energy - prevRead < Turn
        BY <1>2 DEF Polled
      <4> QED BY <3>2, <3>3, <4>1, Turns
    <3>5. Turn \in Int
      BY DEF RaplAssumption
    <3>6. d \in Int /\ (d = energy - prevRead \/ (d = 0 /\ prevRead \div Turn # energy \div Turn))
      BY <3>1, <3>3, <3>4, <3>5 DEF Deltas
    <3>7. /\ Truth(d).delta = d /\ Truth(d).wrapped = (prevRead \div Turn # energy \div Turn)
          /\ Truth(d).used + Truth(d).late - Truth(d).early = energy - prevRead
      BY <3>3 DEF Truth
    <3>8. Truth(d) \in Taken
      <4>1. /\ currAt - prevAt \in Int /\ prevRead - prevAt \in Int /\ energy - currAt \in Int
        BY <3>3
      <4>2. (prevRead \div Turn # energy \div Turn) \in BOOLEAN
        OBVIOUS
      <4> QED BY <3>6, <4>1, <4>2 DEF Truth, Taken
    <3> QED BY <3>1, <3>6, <3>7, <3>8
  <2> QED BY <2>1, <2>2
<1>4. Len(samples') = Len(samples) + 1 /\ Len(samples) \in Nat
  BY <1>3 DEF Polled
<1>5. SampleIsTrue'
  BY <1>3, AppendProperties DEF SampleIsTrue, Polled
<1>6. Polled'
  <2>1. samples' \in Seq(Taken)
    BY <1>3 DEF Polled
  <2>2. energy - energy < Turn
    BY DEF Polled, RaplAssumption
  <2> QED BY <1>1, <1>2, <2>1, <2>2 DEF Polled, Readings
<1>7. Stopped' /\ caller # "stopped"
  BY <1>2 DEF Stopped
<1>8. Returned'
  <2>1. returned \in Nat /\ Len(samples) \in Nat
    BY <1>4 DEF Returned
  <2>2. ASSUME caller = "gave up" PROVE Len(samples) + 1 <= returned + 1
    <3>1. Len(samples) <= returned
      BY <1>2, <2>2 DEF Returned
    <3> QED BY <2>1, <3>1
  <2> QED BY <1>2, <1>4, <1>7, <2>1, <2>2 DEF Returned
<1> QED BY <1>5, <1>6, <1>7, <1>8

LEMMA RaplStays ==
  ASSUME RaplAssumption, RaplInv, RaplStep
  PROVE  RaplInv'
<1> USE DEF RaplInv
<1>1. ASSUME UNCHANGED samples PROVE SampleIsTrue'
  BY <1>1 DEF SampleIsTrue
<1>2. ASSUME UNCHANGED <<energy, readingVars, samples, thread>> PROVE Polled' /\ SampleIsTrue'
  BY <1>1, <1>2 DEF Polled, readingVars
<1>3. CASE Consume
  <2>1. Polled'
    BY <1>3 DEF Consume, Polled, readingVars
  <2> QED BY <1>1, <1>3, <2>1 DEF Consume, Stopped, Returned
<1>4. CASE StartPolling
  <2>1. Polled' /\ SampleIsTrue'
    BY <1>4 DEF StartPolling, Polled, SampleIsTrue, readingVars
  <2> QED BY <1>4, <2>1 DEF StartPolling, Stopped, Returned
<1>5. CASE FirstTime
  <2>1. Polled'
    BY <1>5 DEF FirstTime, Polled
  <2> QED BY <1>1, <1>5, <2>1 DEF FirstTime, Stopped, Returned
<1>6. CASE FirstRead
  <2>1. Polled'
    <3>1. energy - energy < Turn
      BY DEF Polled, RaplAssumption
    <3> QED BY <1>6, <3>1 DEF FirstRead, Readings, Polled
  <2> QED BY <1>1, <1>6, <2>1 DEF FirstRead, Stopped, Returned
<1>7. CASE Wake
  <2>1. Polled'
    BY <1>7 DEF Wake, Polled
  <2>2. Returned'
    BY <1>7 DEF Wake, Stopped, Returned
  <2> QED BY <1>1, <1>7, <2>1, <2>2 DEF Wake, Stopped
<1>8. CASE ClearPolling \/ Join \/ JoinTimeout
  <2>1. Polled' /\ SampleIsTrue'
    BY <1>2, <1>8 DEF ClearPolling, Join, JoinTimeout
  <2>2. Returned'
    BY <1>8 DEF ClearPolling, Join, JoinTimeout, Returned
  <2>3. Stopped'
    <3>1. CASE ClearPolling
      BY <3>1 DEF ClearPolling, Stopped
    <3>2. CASE Join
      BY <3>2 DEF Join, Stopped
    <3>3. CASE JoinTimeout
      BY <3>3 DEF JoinTimeout, Stopped
    <3> QED BY <1>8, <3>1, <3>2, <3>3
  <2> QED BY <2>1, <2>2, <2>3
<1>9. CASE ReturnSamples
  <2>1. Polled' /\ SampleIsTrue'
    BY <1>2, <1>9 DEF ReturnSamples
  <2>2. Stopped'
    BY <1>9 DEF ReturnSamples, Stopped
  <2>3. Len(samples) \in Nat
    BY DEF Polled
  <2>4. Len(samples) <= Len(samples) + 1
    BY <2>3
  <2>5. returned' = Len(samples) /\ samples' = samples
    BY <1>9 DEF ReturnSamples
  <2>6. Len(samples') = returned' /\ Len(samples') <= returned' + 1 /\ returned' \in Nat
    BY <2>3, <2>4, <2>5
  <2>7. Len(samples') <= returned'
    BY <2>3, <2>6
  <2> QED BY <2>1, <2>2, <2>6, <2>7 DEF Returned
<1> QED BY <1>3, <1>4, <1>5, <1>6, <1>7, <1>8, <1>9, SampleKeeps DEF RaplStep

-----------------------------------------------------------------------------
(* CsvWriter *)

Lines == [kind : {"header", "row"}, width : Widths, id : Nat]
Calls == [at : {"read", "open", "close"}, header : BOOLEAN, width : Widths, id : Nat]

\* Line i is the nearest header at or above line j.
Nearest(i, j) ==
  /\ i \in Headers /\ i <= j
  /\ \A k \in Headers : k <= j => k <= i

\* A thread that will write its row alone has seen a header for it.
WritesAlone(t) == call[t].at \in {"open", "close"} /\ ~call[t].header

CsvTypes ==
  /\ file \in Seq(Lines) /\ calls \in Nat
  /\ call \in [Writer -> {NoCall} \cup Calls]

\* A file that has lines has headers, of every width it has rows of ...
Headed ==
  /\ \A j \in DOMAIN file : \E i \in DOMAIN file : Nearest(i, j)
  /\ \A t \in Writer : WritesAlone(t) =>
       \E i \in Headers : file[i].width = call[t].width
  /\ EveryRowHasHeader

\* ... and while the calls do not overlap, each row fits the nearest one.
Fitting ==
  ~overlap =>
    /\ \A t, u \in Busy : t = u
    /\ \A j \in DOMAIN file : \A i \in DOMAIN file :
         Nearest(i, j) => file[i].width = file[j].width
    /\ \A t \in Writer : WritesAlone(t) =>
         /\ file # <<>>
         /\ \A i \in DOMAIN file : Nearest(i, Len(file)) => file[i].width = call[t].width

CsvInv == CsvTypes /\ Headed /\ Fitting

\* LastHeader finds the header that no header is below.
LEMMA LastHeaderIs ==
  ASSUME NEW s \in Seq(Lines), NEW i \in DOMAIN s, s[i].kind = "header",
         \A k \in DOMAIN s : s[k].kind = "header" => k <= i
  PROVE  LastHeader(s) = i
<1> DEFINE I == {k \in 1..Len(s) : s[k].kind = "header"}
<1>1. i \in I /\ I \subseteq Int /\ \A k \in I : i >= k
  OBVIOUS
<1>2. \A x \in I : (\A k \in I : x >= k) => x = i
  BY <1>1
<1>3. (CHOOSE x \in I : \A k \in I : x >= k) = i
  BY <1>1, <1>2
<1> QED BY <1>1, <1>3 DEF LastHeader, SelectLastInSeq, Max

\* What a Close adds to the file.
LEMMA CloseAdds ==
  ASSUME CsvTypes, NEW t \in Writer, Close(t)
  PROVE  /\ call[t] \in Calls
         /\ file' \in Seq(Lines)
         /\ Len(file') = Len(file) + (IF call[t].header THEN 2 ELSE 1)
         /\ \A k \in 1..Len(file) : file'[k] = file[k]
         /\ call[t].header => /\ file'[Len(file) + 1].kind = "header"
                              /\ file'[Len(file) + 1].width = call[t].width
         /\ file'[Len(file')].kind = "row" /\ file'[Len(file')].width = call[t].width
<1>1. call[t] \in Calls
  BY DEF CsvTypes, Close, NoCall
<1>2. /\ Line("header", call[t].width, call[t].id) \in Lines
      /\ Line("row", call[t].width, call[t].id) \in Lines
  BY <1>1 DEF Line, Lines, Calls
<1>3. CASE call[t].header
  BY <1>1, <1>2, <1>3 DEF Close, CsvTypes, Line
<1>4. CASE ~call[t].header
  BY <1>1, <1>2, <1>4 DEF Close, CsvTypes, Line
<1> QED BY <1>1, <1>3, <1>4 DEF Calls

\* Only a Close moves the file.
LEMMA CloseKeepsHeaded ==
  ASSUME CsvTypes, Headed, NEW t \in Writer, Close(t)
  PROVE  Headed'
<1>n. PICK n \in Nat : n = Len(file)
  BY DEF CsvTypes
<1>c. PICK c \in Calls : c = call[t]
  BY CloseAdds
<1>1. /\ Len(file') \in Nat /\ DOMAIN file = 1..n /\ DOMAIN file' = 1..Len(file')
      /\ n < Len(file')
  BY CloseAdds, <1>n DEF CsvTypes
<1>6. c.header => Len(file') = n + 2 /\ file'[n + 1].kind = "header" /\ file'[n + 1].width = c.width
  BY CloseAdds, <1>n, <1>c
<1>7. ~c.header => Len(file') = n + 1
  BY CloseAdds, <1>n, <1>c
<1>2. \A k \in 1..n : file'[k] = file[k]
  BY CloseAdds, <1>n
<1>3. \A i \in Headers : i \in Headers' /\ file'[i] = file[i]
  BY <1>1, <1>2 DEF Headers
<1>4. \E i \in Headers' : file'[i].width = c.width /\ i <= Len(file')
  <2>1. CASE c.header
    <3>1. /\ n + 1 \in DOMAIN file' /\ n + 1 <= Len(file')
          /\ file'[n + 1].kind = "header" /\ file'[n + 1].width = c.width
      BY <1>1, <1>6, <2>1
    <3> QED BY <3>1 DEF Headers
  <2>2. CASE ~c.header
    <3>1. PICK i \in Headers : file[i].width = c.width
      BY <1>c, <2>2 DEF Headed, WritesAlone, Close
    <3> QED BY <1>1, <1>3, <3>1 DEF Headers
  <2> QED BY <2>1, <2>2
<1>5. file'[Len(file')].kind = "row" /\ file'[Len(file')].width = c.width
  BY CloseAdds, <1>c
<1>8. c.header \in BOOLEAN
  BY DEF Calls
<1>9. EveryRowHasHeader'
  <2> SUFFICES ASSUME NEW j \in DOMAIN file'
               PROVE  \E i \in Headers' : i <= j /\ file'[i].width = file'[j].width
    BY DEF EveryRowHasHeader
  <2>1. CASE j \in 1..n
    <3>1. PICK i \in Headers : i <= j /\ file[i].width = file[j].width
      BY <1>1, <2>1 DEF Headed, EveryRowHasHeader
    <3> QED BY <1>2, <1>3, <2>1, <3>1
  <2>2. CASE j = Len(file')
    BY <1>4, <1>5, <2>2
  <2>3. CASE c.header /\ j = n + 1
    BY <1>1, <1>6, <2>3 DEF Headers
  <2>4. j \in 1..n \/ j = Len(file') \/ (c.header /\ j = n + 1)
    <3>1. j \in 1..Len(file')
      BY <1>1
    <3>2. CASE c.header
      BY <1>n, <1>6, <3>1, <3>2
    <3>3. CASE ~c.header
      BY <1>n, <1>7, <3>1, <3>3
    <3> QED BY <3>2, <3>3
  <2> QED BY <2>1, <2>2, <2>3, <2>4
<1>10. \A j \in DOMAIN file' : \E i \in DOMAIN file' : Nearest(i, j)'
  <2> TAKE j \in DOMAIN file'
  <2>1. CASE j \in 1..n
    BY <1>1, <1>2, <2>1 DEF Headed, Nearest, Headers
  <2>2. CASE c.header /\ j > n
    <3>1. Nearest(n + 1, j)'
      <4>1. n + 1 \in Headers' /\ \A k \in Headers' : k <= n + 1
        BY <1>1, <1>5, <1>6, <2>2 DEF Headers
      <4> QED BY <1>1, <2>2, <4>1 DEF Nearest
    <3>2. n + 1 \in DOMAIN file'
      BY <1>1, <1>6, <2>2
    <3> QED BY <3>1, <3>2
  <2>3. CASE ~c.header /\ j = n + 1
    <3>1. n > 0
      BY <1>1, <1>c, <2>3 DEF Headed, WritesAlone, Close, Headers
    <3>2. PICK i \in DOMAIN file : Nearest(i, n)
      <4>1. n \in DOMAIN file
        BY <1>1, <3>1
      <4> QED BY <4>1 DEF Headed
    <3>3. Nearest(i, j)'
      <4>1. i \in Headers' /\ i \in 1..n /\ i <= j
        BY <1>n, <1>1, <1>3, <2>3, <3>2 DEF Nearest
      <4>2. ASSUME NEW k \in Headers', k <= j
            PROVE  k <= i
        <5>1. k \in 1..Len(file') /\ file'[k].kind = "header"
          BY <1>1 DEF Headers
        <5>2. k # j
          BY <1>5, <1>7, <2>3, <5>1
        <5>3. k \in 1..n
          BY <1>n, <1>7, <2>3, <4>2, <5>1, <5>2
        <5>4. k \in Headers
          BY <1>1, <1>2, <5>1, <5>3 DEF Headers
        <5> QED BY <3>2, <5>3, <5>4 DEF Nearest
      <4> QED BY <4>1, <4>2 DEF Nearest
    <3> QED BY <1>1, <3>2, <3>3
  <2>4. j \in 1..n \/ (c.header /\ j > n) \/ (~c.header /\ j = n + 1)
    <3>1. j \in 1..Len(file')
      BY <1>1
    <3>2. CASE ~c.header
      BY <1>n, <1>7, <3>1, <3>2
    <3> QED BY <1>n, <1>1, <3>1, <3>2
  <2> QED BY <2>1, <2>2, <2>3, <2>4
<1>11. \A u \in Writer : WritesAlone(u)' => \E i \in Headers' : file'[i].width = call'[u].width
  <2> TAKE u \in Writer
  <2> HAVE WritesAlone(u)'
  <2>1. WritesAlone(u) /\ call'[u] = call[u]
    BY DEF WritesAlone, Close, CsvTypes, NoCall
  <2> QED BY <1>3, <2>1 DEF Headed
<1> QED BY <1>9, <1>10, <1>11 DEF Headed

LEMMA CloseKeepsFitting ==
  ASSUME CsvTypes, Fitting, NEW t \in Writer, Close(t)
  PROVE  Fitting'
<1>n. PICK n \in Nat : n = Len(file)
  BY DEF CsvTypes
<1>c. PICK c \in Calls : c = call[t]
  BY CloseAdds
<1>1. /\ Len(file') \in Nat /\ DOMAIN file = 1..n /\ DOMAIN file' = 1..Len(file')
  BY CloseAdds, <1>n DEF CsvTypes
<1>2. \A k \in 1..n : file'[k] = file[k]
  BY CloseAdds, <1>n
<1>3. c.header => Len(file') = n + 2 /\ file'[n + 1].kind = "header" /\ file'[n + 1].width = c.width
  BY CloseAdds, <1>n, <1>c
<1>4. ~c.header => Len(file') = n + 1
  BY CloseAdds, <1>n, <1>c
<1>5. file'[Len(file')].kind = "row" /\ file'[Len(file')].width = c.width
  BY CloseAdds, <1>c
<1> SUFFICES ASSUME ~overlap
             PROVE  /\ \A u, v \in Busy' : u = v
                    /\ \A j \in DOMAIN file' : \A i \in DOMAIN file' :
                         Nearest(i, j)' => file'[i].width = file'[j].width
                    /\ \A u \in Writer : ~WritesAlone(u)'
  BY DEF Fitting, Close
<1>6. \A u \in Writer : u # t => call'[u] = NoCall
  <2>1. t \in Busy /\ \A u \in Busy : u = t
    BY DEF Busy, Close, NoCall, Fitting
  <2> QED BY <2>1 DEF Busy, Close, CsvTypes
<1>7. call'[t] = NoCall
  BY DEF Close, CsvTypes
<1>8. ASSUME NEW j \in DOMAIN file', NEW i \in DOMAIN file', Nearest(i, j)'
      PROVE  file'[i].width = file'[j].width
  <2>1. /\ i \in 1..Len(file') /\ j \in 1..Len(file') /\ i <= j
        /\ file'[i].kind = "header"
        /\ \A k \in 1..Len(file') : file'[k].kind = "header" /\ k <= j => k <= i
    BY <1>1, <1>8 DEF Nearest, Headers
  <2>2. CASE j \in 1..n
    <3>1. i \in 1..n
      BY <1>n, <2>1, <2>2
    <3>2. \A k \in 1..n : file'[k].kind = "header" /\ k <= j => k <= i
      BY <1>n, <1>3, <1>4, <2>1 DEF Calls
    <3>3. Nearest(i, j)
      BY <1>1, <1>2, <2>1, <3>1, <3>2 DEF Nearest, Headers
    <3> QED BY <1>1, <1>2, <2>2, <3>1, <3>3 DEF Fitting
  <2>3. CASE c.header /\ j \notin 1..n
    <3>1. Len(file') = n + 2 /\ n + 1 \in 1..Len(file') /\ n + 1 <= j
      BY <1>n, <1>3, <2>1, <2>3
    <3>2. i # n + 2 /\ n + 1 <= i
      BY <1>3, <1>5, <2>1, <2>3, <3>1
    <3>3. i = n + 1
      BY <1>n, <2>1, <3>1, <3>2
    <3>4. j = n + 1 \/ j = Len(file')
      BY <1>n, <2>1, <3>1
    <3> QED BY <1>3, <1>5, <2>3, <3>3, <3>4
  <2>4. CASE ~c.header /\ j \notin 1..n
    <3>1. j = n + 1 /\ j = Len(file')
      BY <1>n, <1>4, <2>1, <2>4
    <3>2. i \in 1..n
      BY <1>n, <1>5, <2>1, <3>1
    <3>3. \A k \in 1..n : file'[k].kind = "header" => k <= i
      BY <1>n, <2>1, <3>1
    <3>4. Nearest(i, n)
      BY <1>n, <1>1, <1>2, <2>1, <3>2, <3>3 DEF Nearest, Headers
    <3>5. file[i].width = c.width
      BY <1>n, <1>c, <1>1, <2>4, <3>2, <3>4 DEF Fitting, WritesAlone, Close
    <3> QED BY <1>2, <1>5, <3>1, <3>2, <3>5
  <2> QED BY <2>2, <2>3, <2>4 DEF Calls
<1> QED BY <1>6, <1>7, <1>8 DEF Busy, WritesAlone, NoCall

\* While the file stays, only a thread that begins to write alone matters.
LEMMA CallsMove ==
  ASSUME CsvInv, UNCHANGED file, overlap => overlap', calls' \in Nat,
         call' \in [Writer -> {NoCall} \cup Calls],
         ~overlap' => \A t, u \in Busy' : t = u,
         \A u \in Writer : WritesAlone(u)' =>
           \/ WritesAlone(u) /\ call'[u].width = call[u].width
           \/ ~NeedsHeader(call'[u].width)
  PROVE  CsvInv'
<1> USE DEF CsvInv
<1>1. ASSUME NEW w, ~NeedsHeader(w)
      PROVE  /\ file # <<>>
             /\ \E i \in Headers : file[i].width = w
             /\ \A i \in DOMAIN file : Nearest(i, Len(file)) => file[i].width = w
  <2>1. file # <<>> /\ Len(file) \in DOMAIN file /\ \A k \in DOMAIN file : k <= Len(file)
    BY <1>1 DEF NeedsHeader, CsvTypes
  <2>2. PICK i \in DOMAIN file : Nearest(i, Len(file))
    BY <2>1 DEF Headed
  <2>3. file[i].kind = "header" /\ \A k \in DOMAIN file : file[k].kind = "header" => k <= i
    BY <2>1, <2>2 DEF Nearest, Headers
  <2>4. LastHeader(file) = i
    BY <2>3, LastHeaderIs DEF CsvTypes
  <2>5. i # 0 /\ file[i].width = w
    BY <1>1, <2>1, <2>4 DEF NeedsHeader, CsvTypes
  <2>6. \A k \in DOMAIN file : Nearest(k, Len(file)) => k = i
    BY <2>1, <2>2 DEF Nearest, Headers, CsvTypes
  <2> QED BY <2>1, <2>2, <2>5, <2>6 DEF Nearest
<1>2. Headers' = Headers /\ EveryRowHasHeader' = EveryRowHasHeader
      /\ \A i, j : Nearest(i, j)' = Nearest(i, j)
  BY DEF Headers, EveryRowHasHeader, Nearest
<1>3. CsvTypes'
  BY DEF CsvTypes
<1>4. Headed'
  <2>1. \A u \in Writer : WritesAlone(u)' => \E i \in Headers' : file'[i].width = call'[u].width
    BY <1>1, <1>2 DEF Headed
  <2> QED BY <1>2, <2>1 DEF Headed
<1>5. Fitting'
  <2> SUFFICES ASSUME ~overlap'
               PROVE  \A u \in Writer : WritesAlone(u)' =>
                        /\ file # <<>>
                        /\ \A i \in DOMAIN file :
                             Nearest(i, Len(file)) => file[i].width = call'[u].width
    BY <1>2 DEF Fitting
  <2> QED BY <1>1 DEF Fitting
<1> QED BY <1>3, <1>4, <1>5

LEMMA CsvStays ==
  ASSUME CsvInv, CsvStep
  PROVE  CsvInv'
<1> USE DEF CsvInv
<1> PICK t \in Writer : Look(t) \/ Read(t) \/ Open(t) \/ Close(t) \/ GiveUp(t)
  BY DEF CsvStep
<1>1. CASE Look(t)
  <2>1. PICK width \in Widths :
          call' = [call EXCEPT ![t] = [at |-> IF exists THEN "read" ELSE "open",
                                       header |-> ~exists, width |-> width, id |-> calls + 1]]
    BY <1>1 DEF Look
  <2>2. UNCHANGED file /\ calls' = calls + 1 /\ overlap' = (overlap \/ Busy # {})
    BY <1>1 DEF Look
  <2>3. call' \in [Writer -> {NoCall} \cup Calls] /\ calls' \in Nat
    BY <2>1, <2>2 DEF CsvTypes, Calls
  <2>4. \A u \in Writer : u # t => call'[u] = call[u]
    BY <2>1 DEF CsvTypes
  <2>5. ~WritesAlone(t)'
    BY <2>1 DEF CsvTypes, WritesAlone
  <2>6. ~overlap' => \A u, v \in Busy' : u = v
    BY <2>2, <2>4 DEF Busy
  <2> QED BY <2>2, <2>3, <2>4, <2>5, <2>6, CallsMove DEF WritesAlone
<1>2. CASE Read(t)
  <2>0. call[t] \in Calls
    BY <1>2 DEF Read, CsvTypes, NoCall
  <2>1. /\ call' \in [Writer -> {NoCall} \cup Calls] /\ UNCHANGED <<file, calls, overlap>>
        /\ call'[t].header = NeedsHeader(call[t].width) /\ call'[t].width = call[t].width
        /\ \A u \in Writer : u # t => call'[u] = call[u]
    BY <1>2, <2>0 DEF Read, CsvTypes, NeedsHeader, Calls
  <2>2. Busy' \subseteq Busy
    BY <2>0, <2>1 DEF Busy, NoCall, Calls
  <2>3. \A u \in Writer : WritesAlone(u)' =>
           \/ WritesAlone(u) /\ call'[u].width = call[u].width
           \/ ~NeedsHeader(call'[u].width)
    BY <2>1 DEF WritesAlone
  <2> QED BY <2>1, <2>2, <2>3, CallsMove DEF Fitting, CsvTypes
<1>3. CASE Open(t)
  <2>0. call[t] \in Calls
    BY <1>3 DEF Open, CsvTypes, NoCall
  <2>1. /\ call' \in [Writer -> {NoCall} \cup Calls] /\ UNCHANGED <<file, calls, overlap>>
        /\ call'[t].header = call[t].header /\ call'[t].width = call[t].width
        /\ call[t].at = "open"
        /\ \A u \in Writer : u # t => call'[u] = call[u]
    BY <1>3, <2>0 DEF Open, CsvTypes, Calls
  <2>2. Busy' \subseteq Busy
    BY <2>0, <2>1 DEF Busy, NoCall, Calls
  <2> QED BY <2>1, <2>2, CallsMove DEF Fitting, CsvTypes, WritesAlone
<1>4. CASE Close(t)
  <2>1. CsvTypes'
    BY <1>4, CloseAdds DEF CsvTypes, Close
  <2> QED BY <1>4, <2>1, CloseKeepsHeaded, CloseKeepsFitting
<1>5. CASE GiveUp(t)
  <2>1. /\ call' \in [Writer -> {NoCall} \cup Calls] /\ UNCHANGED <<file, calls, overlap>>
        /\ call'[t] = NoCall
        /\ \A u \in Writer : u # t => call'[u] = call[u]
    BY <1>5 DEF GiveUp, CsvTypes
  <2>2. Busy' \subseteq Busy
    BY <2>1 DEF Busy
  <2> QED BY <2>1, <2>2, CallsMove DEF Fitting, CsvTypes, WritesAlone, NoCall
<1> QED BY <1>1, <1>2, <1>3, <1>4, <1>5

-----------------------------------------------------------------------------
(* OllamaProxy *)

TaskOrNone == 1..Tasks \cup {NoTask}
Printed == [is : {"config"}, task : 1..Tasks] \cup [is : {"result"}, task : {NoTask}]
Finishing == {"on_result", "clear", "collect", "close"}

ProxyTypes ==
  /\ task \in TaskOrNone /\ tasksRun \in 0..Tasks
  /\ sent \in Seq(1..Tasks) /\ waiting \in 0..Len(sent)
  /\ output \in Seq(Printed)
  /\ queue \in Seq(Nat) /\ \A i \in DOMAIN queue : queue[i] \in 1..Len(sent)
  /\ metrics \in Seq([id : Nat, tag : TaskOrNone, late : BOOLEAN])
  /\ \A i \in DOMAIN metrics : metrics[i].id \in 1..Len(sent)
  /\ current \in TaskOrNone /\ open \in TaskOrNone
  /\ reader \in [at : {"reading", "done"} \cup Finishing, last : BOOLEAN]
  /\ figures \in [1..Tasks -> SUBSET Nat]

\* The tasks announced and not yet read are new ones, each announced once.
Ahead ==
  /\ open # NoTask => open <= tasksRun
  /\ \A t \in 1..Tasks : t > tasksRun => figures[t] = NotTaken
  /\ \A i \in DOMAIN output : output[i].is = "config" =>
       /\ output[i].task <= tasksRun /\ output[i].task # open
       /\ figures[output[i].task] = NotTaken
  /\ \A i, j \in DOMAIN output :
       i < j /\ output[i].is = "config" /\ output[j].is = "config" =>
         output[i].task # output[j].task

\* Requests are tagged with the open task until its figures are read.
Tagged ==
  /\ current \in {open, NoTask}
  /\ reader.at \in Finishing => open # NoTask
  /\ reader.at \in {"collect", "close"} => current = NoTask
  /\ open # NoTask /\ figures[open] # NotTaken => current = NoTask

\* The evaluation waits for a request of its task.
Awaits == waiting # 0 => task # NoTask /\ sent[waiting] = task

\* A reader that has read all there is knows the task of the evaluation.
UpToDate ==
  task # NoTask =>
    /\ output # <<>> => output[Len(output)] = [is |-> "config", task |-> task]
    /\ output = <<>> /\ ~reader.last => reader.at = "reading" /\ open = task /\ current = task

ProxyInv ==
  /\ ProxyTypes /\ Ahead /\ Tagged /\ Awaits /\ UpToDate
  /\ FiguresAreFinal /\ CountedForItsTask

LEMMA ProxyTypesStay ==
  ASSUME ProxyAssumption, ProxyTypes, Tagged, ProxyStep
  PROVE  ProxyTypes'
<1> USE DEF ProxyTypes, TaskOrNone, Finishing, ProxyAssumption, readVars, evalVars, Goes
<1>1. CASE BeginTask
  <2>1. task' \in 1..Tasks /\ tasksRun' \in 0..Tasks
    BY <1>1 DEF BeginTask
  <2>2. [is |-> "config", task |-> task'] \in Printed
    BY <2>1 DEF Printed
  <2>3. output' \in Seq(Printed)
    BY <1>1, <2>2 DEF BeginTask
  <2> QED BY <1>1, <2>1, <2>3 DEF BeginTask
<1>2. CASE SendRequest
  <2>1. /\ sent' \in Seq(1..Tasks) /\ Len(sent') = Len(sent) + 1 /\ Len(sent) \in Nat
        /\ waiting' = Len(sent') /\ queue' = Append(queue, Len(sent'))
    BY <1>2 DEF SendRequest
  <2>2. queue' \in Seq(Nat) /\ \A k \in DOMAIN queue' : queue'[k] \in 1..Len(sent')
    BY <2>1
  <2>3. \A k \in DOMAIN metrics' : metrics'[k].id \in 1..Len(sent')
    BY <1>2, <2>1 DEF SendRequest
  <2>4. UNCHANGED <<task, tasksRun, output, metrics, current, open, reader, figures>>
    BY <1>2 DEF SendRequest
  <2> QED BY <2>1, <2>2, <2>3, <2>4
<1>3. CASE AbandonRequest
  BY <1>3 DEF AbandonRequest
<1>4. CASE EndTask
  <2>1. [is |-> "result", task |-> NoTask] \in Printed
    BY DEF Printed
  <2>2. output' = output \/ output' = Append(output, [is |-> "result", task |-> NoTask])
    BY <1>4 DEF EndTask
  <2>3. output' \in Seq(Printed)
    <3>1. output \in Seq(Printed)
      OBVIOUS
    <3> QED BY ONLY <2>1, <2>2, <3>1, AppendProperties
  <2> QED BY <1>4, <2>3 DEF EndTask
<1>5. CASE Record \/ Forward
  <2>0. queue # <<>> /\ queue' = Tail(queue)
    BY <1>5 DEF Record, Forward, Served
  <2>1. /\ queue' \in Seq(Nat) /\ \A k \in DOMAIN queue' : queue'[k] \in 1..Len(sent)
        /\ Head(queue) \in Nat /\ Head(queue) \in 1..Len(sent)
    <3>1. queue \in Seq(Nat) /\ \A k \in DOMAIN queue : queue[k] \in 1..Len(sent)
      OBVIOUS
    <3>2. /\ queue' \in Seq(Nat) /\ Len(queue') = Len(queue) - 1
          /\ \A k \in 1..Len(queue') : queue'[k] = queue[k + 1]
          /\ Head(queue) = queue[1]
      BY ONLY <2>0, <3>1, HeadTailProperties
    <3>3. Len(queue) \in Nat /\ DOMAIN queue = 1..Len(queue) /\ DOMAIN queue' = 1..Len(queue')
          /\ Len(queue) # 0
      BY ONLY <2>0, <3>1, <3>2
    <3>4. 1 \in DOMAIN queue /\ \A k \in DOMAIN queue' : k + 1 \in DOMAIN queue
      BY ONLY <3>2, <3>3
    <3> QED BY ONLY <3>1, <3>2, <3>3, <3>4
  <2>2. waiting' \in 0..Len(sent)
    BY <1>5 DEF Record, Forward, Served
  <2>3. UNCHANGED <<task, tasksRun, sent, output, current, open, reader, figures>>
    BY <1>5 DEF Record, Forward, Served
  <2>4. CASE Record
    <3>1. PICK late \in BOOLEAN :
            metrics' = Append(metrics, [id |-> Head(queue), tag |-> current, late |-> late])
      BY <2>4 DEF Record
    <3>2. [id |-> Head(queue), tag |-> current, late |-> late]
            \in [id : Nat, tag : TaskOrNone, late : BOOLEAN]
      BY <2>1
    <3>3. metrics' \in Seq([id : Nat, tag : TaskOrNone, late : BOOLEAN])
      BY <3>1, <3>2
    <3>4. ASSUME NEW k \in DOMAIN metrics'
          PROVE  metrics'[k].id \in 1..Len(sent)
      <4>1. k \in 1..(Len(metrics) + 1) /\ Len(metrics) \in Nat
        BY <3>1
      <4>2. CASE k = Len(metrics) + 1
        BY <2>1, <3>1, <4>2
      <4>3. CASE k \in 1..Len(metrics)
        BY <3>1, <4>3
      <4> QED BY <4>1, <4>2, <4>3
    <3> QED BY <3>4, <2>1, <2>2, <2>3, <3>3
  <2>5. CASE Forward
    BY <2>1, <2>2, <2>3, <2>5 DEF Forward
  <2> QED BY <1>5, <2>4, <2>5
<1>6. CASE ReadConfig
  <2>1. Head(output) \in Printed /\ Tail(output) \in Seq(Printed)
    BY <1>6 DEF ReadConfig
  <2>2. Head(output).task \in 1..Tasks
    BY <1>6, <2>1 DEF ReadConfig, Printed
  <2> QED BY <1>6, <2>1, <2>2 DEF ReadConfig
<1>7. CASE ReadResult
  <2>1. Tail(output) \in Seq(Printed)
    BY <1>7 DEF ReadResult
  <2> QED BY <1>7, <2>1 DEF ReadResult
<1>8. CASE Finally \/ OnResult \/ Clear \/ CloseTask
  <2>1. reader' \in [at : {"reading", "done"} \cup Finishing, last : BOOLEAN]
    <3>1. CASE Finally
      BY <3>1 DEF Finally
    <3>2. CASE OnResult \/ Clear
      BY <3>2 DEF OnResult, Clear
    <3>3. CASE CloseTask
      BY <3>3 DEF CloseTask
    <3> QED BY <1>8, <3>1, <3>2, <3>3
  <2>2. open' \in TaskOrNone /\ current' \in TaskOrNone
    BY <1>8 DEF Finally, OnResult, Clear, CloseTask
  <2>3. UNCHANGED <<task, tasksRun, waiting, sent, output, queue, metrics, figures>>
    BY <1>8 DEF Finally, OnResult, Clear, CloseTask
  <2> QED BY <2>1, <2>2, <2>3
<1>9. CASE Collect
  <2>1. open \in 1..Tasks
    BY <1>9 DEF Collect, Tagged
  <2>2. Ids(open) \in SUBSET Nat
    BY DEF Ids
  <2> QED BY <1>9, <2>1, <2>2 DEF Collect
<1> QED BY <1>1, <1>2, <1>3, <1>4, <1>5, <1>6, <1>7, <1>8, <1>9 DEF ProxyStep

\* The lines left when the first is read, and when one is printed.
LEMMA Unread ==
  ASSUME ProxyTypes, output # <<>>, output' = Tail(output)
  PROVE  /\ Head(output) \in Printed /\ Head(output) = output[1] /\ 1 \in DOMAIN output
         /\ Len(output) \in Nat /\ Len(output') = Len(output) - 1
         /\ \A k \in DOMAIN output' : k + 1 \in DOMAIN output /\ output'[k] = output[k + 1]
<1>1. output \in Seq(Printed)
  BY DEF ProxyTypes
<1>2. /\ Head(output) \in Printed /\ Head(output) = output[1]
      /\ output' \in Seq(Printed) /\ Len(output') = Len(output) - 1
      /\ \A k \in 1..Len(output') : output'[k] = output[k + 1]
  BY ONLY <1>1, output # <<>>, output' = Tail(output), HeadTailProperties
<1>3. Len(output) \in Nat /\ Len(output) # 0
      /\ DOMAIN output = 1..Len(output) /\ DOMAIN output' = 1..Len(output')
  BY ONLY <1>1, <1>2, output # <<>>
<1> QED BY ONLY <1>2, <1>3

LEMMA Told ==
  ASSUME ProxyTypes, NEW line, output' = Append(output, line)
  PROVE  /\ Len(output) \in Nat /\ Len(output') = Len(output) + 1
         /\ DOMAIN output = 1..Len(output) /\ DOMAIN output' = 1..(Len(output) + 1)
         /\ \A k \in DOMAIN output : output'[k] = output[k]
         /\ output'[Len(output) + 1] = line
<1>1. output \in Seq(Printed)
  BY DEF ProxyTypes
<1> QED BY ONLY <1>1, output' = Append(output, line)

LEMMA AheadStays ==
  ASSUME ProxyAssumption, ProxyTypes, Ahead, Tagged, ProxyStep
  PROVE  Ahead'
<1>0. tasksRun \in Nat /\ tasksRun <= Tasks /\ Tasks \in Nat /\ NoTask \notin Nat
      /\ open \in 1..Tasks \cup {NoTask} /\ figures \in [1..Tasks -> SUBSET Nat]
  BY DEF ProxyTypes, TaskOrNone, ProxyAssumption
<1>1. CASE BeginTask
  <2>1. /\ tasksRun' = tasksRun + 1 /\ UNCHANGED <<open, figures>> /\ tasksRun < Tasks
        /\ output' = Append(output, [is |-> "config", task |-> tasksRun + 1])
    BY <1>1 DEF BeginTask, readVars
  <2>2. /\ Len(output) \in Nat
        /\ DOMAIN output = 1..Len(output) /\ DOMAIN output' = 1..(Len(output) + 1)
        /\ \A k \in DOMAIN output : output'[k] = output[k]
        /\ output'[Len(output) + 1] = [is |-> "config", task |-> tasksRun + 1]
    BY <2>1, Told
  <2>3. \A k \in DOMAIN output : output[k].is = "config" =>
          output[k].task \in 1..Tasks /\ output[k].task <= tasksRun
    BY DEF Ahead, ProxyTypes, Printed
  <2>4. open # NoTask => open <= tasksRun'
    BY <1>0, <2>1 DEF Ahead
  <2>5. \A t \in 1..Tasks : t > tasksRun' => figures'[t] = NotTaken
    BY <1>0, <2>1 DEF Ahead
  <2>6. ASSUME NEW k \in DOMAIN output', output'[k].is = "config"
        PROVE  /\ output'[k].task <= tasksRun' /\ output'[k].task # open'
               /\ figures'[output'[k].task] = NotTaken
    <3>1. CASE k = Len(output) + 1
      BY <1>0, <2>1, <2>2, <3>1 DEF Ahead
    <3>2. CASE k \in DOMAIN output
      BY <1>0, <2>1, <2>2, <2>3, <2>6, <3>2 DEF Ahead
    <3> QED BY <2>2, <3>1, <3>2
  <2>7. ASSUME NEW j \in DOMAIN output', NEW k \in DOMAIN output', j < k,
               output'[j].is = "config", output'[k].is = "config"
        PROVE  output'[j].task # output'[k].task
    <3>1. j \in DOMAIN output
      BY <2>2, <2>7
    <3>2. CASE k = Len(output) + 1
      BY <1>0, <2>2, <2>3, <2>7, <3>1, <3>2
    <3>3. CASE k \in DOMAIN output
      BY <2>2, <2>7, <3>1, <3>3 DEF Ahead
    <3> QED BY <2>2, <3>2, <3>3
  <2>8. \A k \in DOMAIN output' : output'[k].is = "config" =>
          /\ output'[k].task <= tasksRun' /\ output'[k].task # open'
          /\ figures'[output'[k].task] = NotTaken
    BY <2>6
  <2>9. \A j, k \in DOMAIN output' :
          j < k /\ output'[j].is = "config" /\ output'[k].is = "config" =>
            output'[j].task # output'[k].task
    BY <2>7
  <2> QED BY ONLY <2>1, <2>4, <2>5, <2>8, <2>9 DEF Ahead
<1>2. CASE EndTask
  <2>1. UNCHANGED <<tasksRun, open, figures>>
    BY <1>2 DEF EndTask, readVars
  <2>2. CASE output' = output
    BY <2>1, <2>2 DEF Ahead
  <2>3. CASE output' = Append(output, [is |-> "result", task |-> NoTask])
    <3>1. \A k \in DOMAIN output' : output'[k].is = "config" =>
            k \in DOMAIN output /\ output'[k] = output[k]
      BY <2>3, Told
    <3> QED BY <2>1, <3>1 DEF Ahead
  <2> QED BY <1>2, <2>2, <2>3 DEF EndTask
<1>3. CASE ReadConfig /\ open = NoTask
  <2>1. /\ output # <<>> /\ output' = Tail(output) /\ Head(output).is = "config"
        /\ open' = Head(output).task /\ UNCHANGED <<tasksRun, figures>>
    BY <1>3 DEF ReadConfig, evalVars
  <2>2. /\ Head(output) = output[1] /\ 1 \in DOMAIN output
        /\ \A k \in DOMAIN output' :
             k + 1 \in DOMAIN output /\ output'[k] = output[k + 1] /\ k \in Nat /\ 1 < k + 1
    BY <2>1, Unread DEF ProxyTypes
  <2>3. open' <= tasksRun
    BY <2>1, <2>2 DEF Ahead
  <2>4. \A k \in DOMAIN output' : output'[k].is = "config" =>
          /\ output'[k].task <= tasksRun' /\ output'[k].task # open'
          /\ figures'[output'[k].task] = NotTaken
    BY <2>1, <2>2 DEF Ahead
  <2>5. \A j, k \in DOMAIN output' :
          j < k /\ output'[j].is = "config" /\ output'[k].is = "config" =>
            output'[j].task # output'[k].task
    BY <2>2 DEF Ahead
  <2> QED BY <2>1, <2>3, <2>4, <2>5 DEF Ahead
<1>4. CASE ReadResult
  <2>1. output # <<>> /\ output' = Tail(output) /\ UNCHANGED <<tasksRun, open, figures>>
    BY <1>4 DEF ReadResult, evalVars
  <2>2. \A k \in DOMAIN output' :
          k + 1 \in DOMAIN output /\ output'[k] = output[k + 1] /\ k \in Nat
    BY <2>1, Unread DEF ProxyTypes
  <2>4. \A k \in DOMAIN output' : output'[k].is = "config" =>
          /\ output'[k].task <= tasksRun' /\ output'[k].task # open'
          /\ figures'[output'[k].task] = NotTaken
    BY <2>1, <2>2 DEF Ahead
  <2>5. \A j, k \in DOMAIN output' :
          j < k /\ output'[j].is = "config" /\ output'[k].is = "config" =>
            output'[j].task # output'[k].task
    BY <2>2 DEF Ahead
  <2> QED BY <2>1, <2>4, <2>5 DEF Ahead
<1>5. CASE Collect
  <2>1. open \in 1..Tasks /\ open <= tasksRun
    BY <1>0, <1>5 DEF Collect, Tagged, Finishing, Ahead
  <2>2. /\ figures' = [figures EXCEPT ![open] = Ids(open)]
        /\ UNCHANGED <<tasksRun, open, output>>
    BY <1>5 DEF Collect, evalVars
  <2>3. \A t \in 1..Tasks : t # open => figures'[t] = figures[t]
    BY <1>0, <2>2
  <2>4. \A k \in DOMAIN output : output[k].is = "config" => output[k].task \in 1..Tasks
    BY DEF ProxyTypes, Printed
  <2>5. \A t \in 1..Tasks : t > tasksRun' => figures'[t] = NotTaken
    BY <1>0, <2>1, <2>2, <2>3 DEF Ahead
  <2> QED BY <2>2, <2>3, <2>4, <2>5 DEF Ahead
<1>6. CASE CloseTask
  <2>1. open' = NoTask /\ UNCHANGED <<tasksRun, output, figures>>
    BY <1>6 DEF CloseTask, evalVars
  <2>2. \A k \in DOMAIN output : output[k].is = "config" => output[k].task # NoTask
    BY <1>0 DEF ProxyTypes, Printed
  <2> QED BY <2>1, <2>2 DEF Ahead
<1>7. CASE UNCHANGED <<tasksRun, output, open, figures>>
  BY <1>7 DEF Ahead
<1>8. CASE \/ SendRequest \/ AbandonRequest \/ Record \/ Forward \/ Finally \/ OnResult \/ Clear
           \/ ReadConfig /\ open # NoTask
  BY <1>7, <1>8 DEF SendRequest, AbandonRequest, Record, Forward, Served, Finally, OnResult, Clear,
                    ReadConfig, evalVars, readVars
<1> QED BY <1>1, <1>2, <1>3, <1>4, <1>5, <1>6, <1>8 DEF ProxyStep

LEMMA TaggedStays ==
  ASSUME ProxyAssumption, ProxyTypes, Ahead, Tagged, ProxyStep
  PROVE  Tagged'
<1>1. reader \in [at : {"reading", "done"} \cup Finishing, last : BOOLEAN]
  BY DEF ProxyTypes
<1>2. CASE ReadConfig /\ open = NoTask
  <2>1. /\ output # <<>> /\ Head(output).is = "config" /\ UNCHANGED <<reader, figures>>
        /\ open' = Head(output).task /\ current' = open' /\ reader.at = "reading"
    BY <1>2 DEF ReadConfig, Reading
  <2>2. Head(output) = output[1] /\ 1 \in DOMAIN output
    BY <2>1, HeadTailProperties DEF ProxyTypes
  <2>3. figures[open'] = NotTaken
    BY <2>1, <2>2 DEF Ahead
  <2> QED BY <2>1, <2>3 DEF Tagged, Finishing
<1>3. CASE (ReadConfig /\ open # NoTask) \/ ReadResult \/ Finally \/ OnResult
  <2>1. UNCHANGED <<current, open, figures>>
    BY <1>3 DEF ReadConfig, ReadResult, Finally, OnResult
  <2>2. reader'.at \in {"on_result", "clear", "reading", "done"}
    BY <1>1, <1>3 DEF ReadConfig, ReadResult, Finally, OnResult, Goes, Reading
  <2>3. reader'.at \in Finishing => open # NoTask
    BY <1>1, <1>3 DEF ReadConfig, ReadResult, Finally, OnResult, Goes, Reading, Tagged, Finishing
  <2> QED BY <2>1, <2>2, <2>3 DEF Tagged
<1>4. CASE Clear
  BY <1>1, <1>4 DEF Clear, Goes, Tagged, Finishing
<1>5. CASE Collect
  BY <1>1, <1>5 DEF Collect, Goes, Tagged, Finishing
<1>6. CASE CloseTask
  <2>1. open' = NoTask /\ UNCHANGED <<current, figures>> /\ reader'.at \in {"done", "reading"}
    BY <1>1, <1>6 DEF CloseTask, Goes
  <2>2. current = NoTask
    BY <1>6 DEF CloseTask, Tagged
  <2> QED BY <2>1, <2>2 DEF Tagged, Finishing
<1>7. CASE BeginTask \/ SendRequest \/ AbandonRequest \/ EndTask \/ Record \/ Forward
  <2>1. UNCHANGED <<current, open, reader, figures>>
    BY <1>7 DEF BeginTask, SendRequest, AbandonRequest, EndTask, Record, Forward, Served, readVars
  <2> QED BY <2>1 DEF Tagged
<1> QED BY <1>2, <1>3, <1>4, <1>5, <1>6, <1>7 DEF ProxyStep

\* Only a request that completes while a task is current changes its Ids.
LEMMA FiguresStay ==
  ASSUME ProxyAssumption, ProxyTypes, Tagged, FiguresAreFinal, ProxyStep
  PROVE  FiguresAreFinal'
<1>1. CASE Record
  <2>1. PICK late \in BOOLEAN :
          metrics' = Append(metrics, [id |-> Head(queue), tag |-> current, late |-> late])
    BY <1>1 DEF Record
  <2>2. UNCHANGED figures
    BY <1>1 DEF Record, Served, readVars
  <2>3. /\ Len(metrics) \in Nat /\ DOMAIN metrics = 1..Len(metrics)
        /\ DOMAIN metrics' = 1..(Len(metrics) + 1)
        /\ \A k \in DOMAIN metrics : metrics'[k] = metrics[k]
        /\ metrics'[Len(metrics) + 1].tag = current
    BY <2>1 DEF ProxyTypes
  <2>4. ASSUME NEW t \in 1..Tasks, figures[t] # NotTaken
        PROVE  Ids(t)' = Ids(t)
    <3>1. t # current
      BY <2>4 DEF Tagged, ProxyAssumption
    <3>2. {j \in DOMAIN metrics' : metrics'[j].tag = t} = {j \in DOMAIN metrics : metrics[j].tag = t}
      BY <2>3, <3>1
    <3> QED BY <2>3, <3>2 DEF Ids
  <2> QED BY <2>2, <2>4 DEF FiguresAreFinal
<1>2. CASE Collect
  <2>1. UNCHANGED metrics /\ figures' = [figures EXCEPT ![open] = Ids(open)]
    BY <1>2 DEF Collect
  <2>2. \A t \in 1..Tasks : figures'[t] = IF t = open THEN Ids(t) ELSE figures[t]
    BY <2>1 DEF ProxyTypes
  <2>3. \A t : Ids(t)' = Ids(t)
    BY <2>1 DEF Ids
  <2> QED BY <2>2, <2>3 DEF FiguresAreFinal
<1>3. CASE \/ BeginTask \/ SendRequest \/ AbandonRequest \/ EndTask \/ Forward \/ ReadConfig
           \/ ReadResult \/ Finally \/ OnResult \/ Clear \/ CloseTask
  <2>1. UNCHANGED <<metrics, figures>>
    BY <1>3 DEF BeginTask, SendRequest, AbandonRequest, EndTask, Forward, Served, ReadConfig,
                ReadResult, Finally, OnResult, Clear, CloseTask, readVars
  <2> QED BY <2>1 DEF FiguresAreFinal, Ids
<1> QED BY <1>1, <1>2, <1>3 DEF ProxyStep

LEMMA AwaitsStays ==
  ASSUME ProxyAssumption, ProxyTypes, Awaits, ProxyStep
  PROVE  Awaits'
<1>1. waiting \in 0..Len(sent) /\ sent \in Seq(1..Tasks)
  BY DEF ProxyTypes
<1>2. CASE BeginTask
  BY <1>2 DEF BeginTask, Awaits
<1>3. CASE SendRequest
  BY <1>1, <1>3 DEF SendRequest, Awaits
<1>4. CASE AbandonRequest
  BY <1>4 DEF AbandonRequest, Awaits
<1>5. CASE EndTask
  BY <1>5 DEF EndTask, Awaits
<1>6. CASE Record \/ Forward
  <2>1. waiting' \in {0, waiting} /\ UNCHANGED <<task, sent>>
    BY <1>6 DEF Record, Forward, Served
  <2> QED BY <2>1 DEF Awaits
<1>7. CASE ReadConfig \/ ReadResult \/ Finally \/ OnResult \/ Clear \/ Collect \/ CloseTask
  <2>1. UNCHANGED <<task, sent, waiting>>
    BY <1>7 DEF ReadConfig, ReadResult, Finally, OnResult, Clear, Collect, CloseTask, evalVars
  <2> QED BY <2>1 DEF Awaits
<1> QED BY <1>2, <1>3, <1>4, <1>5, <1>6, <1>7 DEF ProxyStep

LEMMA UpToDateStays ==
  ASSUME ProxyAssumption, ProxyTypes, Tagged, UpToDate, ProxyStep
  PROVE  UpToDate'
<1>1. reader \in [at : {"reading", "done"} \cup Finishing, last : BOOLEAN]
      /\ output \in Seq(Printed)
  BY DEF ProxyTypes
<1>2. CASE BeginTask
  <2>1. output' = Append(output, [is |-> "config", task |-> task'])
    BY <1>2 DEF BeginTask
  <2>2. output' # <<>> /\ output'[Len(output')] = [is |-> "config", task |-> task']
    BY ONLY <1>1, <2>1
  <2> QED BY <2>2 DEF UpToDate
<1>3. CASE EndTask
  BY <1>3 DEF EndTask, UpToDate
<1>4. CASE ReadConfig /\ open = NoTask
  <2>1. /\ output # <<>> /\ output' = Tail(output) /\ UNCHANGED <<task, reader>>
        /\ open' = Head(output).task /\ current' = open' /\ reader.at = "reading"
    BY <1>4 DEF ReadConfig, Reading, evalVars
  <2>2. /\ Head(output) = output[1] /\ Len(output) \in Nat
        /\ Len(output') = Len(output) - 1 /\ output' \in Seq(Printed)
        /\ \A k \in DOMAIN output' : output'[k] = output[k + 1]
    BY <1>1, <2>1, Unread
  <2>3. CASE output' = <<>>
    <3>1. Len(output) = 1
      BY ONLY <2>2, <2>3
    <3> QED BY <2>1, <2>2, <2>3, <3>1 DEF UpToDate
  <2>4. CASE output' # <<>>
    <3>1. output'[Len(output')] = output[Len(output)]
      BY ONLY <2>2, <2>4
    <3> QED BY <2>1, <2>4, <3>1 DEF UpToDate
  <2> QED BY <2>3, <2>4
<1>5. CASE ReadResult
  <2>1. /\ output # <<>> /\ output' = Tail(output) /\ UNCHANGED <<task, open, current>>
        /\ Head(output).is = "result"
    BY <1>5 DEF ReadResult, evalVars
  <2>2. /\ Head(output) = output[1] /\ Len(output) \in Nat
        /\ Len(output') = Len(output) - 1 /\ output' \in Seq(Printed)
        /\ \A k \in DOMAIN output' : output'[k] = output[k + 1]
    BY <1>1, <2>1, Unread
  <2>3. CASE output' = <<>>
    <3>1. Len(output) = 1
      BY ONLY <2>2, <2>3
    <3>2. task # NoTask => output[1].is = "config"
      BY <2>1, <3>1 DEF UpToDate
    <3> QED BY <2>1, <2>2, <3>2 DEF UpToDate
  <2>4. CASE output' # <<>>
    <3>1. output'[Len(output')] = output[Len(output)]
      BY ONLY <2>2, <2>4
    <3> QED BY <2>1, <2>4, <3>1 DEF UpToDate
  <2> QED BY <2>3, <2>4
<1>6. CASE ReadConfig /\ open # NoTask
  BY <1>6 DEF ReadConfig, UpToDate, evalVars
<1>7. CASE Finally
  BY <1>7 DEF Finally, UpToDate, evalVars
<1>8. CASE OnResult \/ Clear \/ Collect \/ CloseTask
  <2>1. UNCHANGED <<task, output>> /\ reader.at # "reading" /\ reader'.last = reader.last
    BY <1>1, <1>8 DEF OnResult, Clear, Collect, CloseTask, Goes, evalVars
  <2> QED BY <2>1 DEF UpToDate
<1>9. CASE SendRequest \/ AbandonRequest \/ Record \/ Forward
  <2>1. UNCHANGED <<task, output, reader, open, current>>
    BY <1>9 DEF SendRequest, AbandonRequest, Record, Forward, Served, readVars
  <2> QED BY <2>1 DEF UpToDate
<1> QED BY <1>2, <1>3, <1>4, <1>5, <1>6, <1>7, <1>8, <1>9 DEF ProxyStep

\* The request the evaluation waits for is one of its task, which is current.
LEMMA CountedStays ==
  ASSUME ProxyAssumption, ProxyTypes, Awaits, UpToDate, CountedForItsTask, ProxyStep
  PROVE  CountedForItsTask'
<1>1. /\ Len(metrics) \in Nat /\ DOMAIN metrics = 1..Len(metrics)
      /\ sent \in Seq(1..Tasks)
      /\ \A k \in DOMAIN metrics : metrics[k].id \in DOMAIN sent
  BY DEF ProxyTypes
<1>2. CASE Record
  <2> DEFINE behind == output # <<>> \/ reader # Reading \/ waiting # Head(queue)
  <2>1. PICK late \in BOOLEAN :
          /\ late <=> behind
          /\ metrics' = Append(metrics, [id |-> Head(queue), tag |-> current, late |-> late])
    BY <1>2 DEF Record
  <2>2. UNCHANGED sent /\ queue # <<>>
    BY <1>2 DEF Record, Served
  <2>3. metrics \in Seq([id : Nat, tag : TaskOrNone, late : BOOLEAN])
    BY DEF ProxyTypes
  <2>4. /\ DOMAIN metrics' = 1..(Len(metrics) + 1)
        /\ \A k \in DOMAIN metrics : metrics'[k] = metrics[k]
        /\ metrics'[Len(metrics) + 1] = [id |-> Head(queue), tag |-> current, late |-> late]
    BY ONLY <2>1, <2>3
  <2>5. Head(queue) # 0
    BY <2>2, HeadTailProperties DEF ProxyTypes
  <2>6. ~behind => current = sent[Head(queue)]
    BY <2>5 DEF Awaits, UpToDate, Reading
  <2>7. ASSUME NEW k \in DOMAIN metrics', ~metrics'[k].late
        PROVE  metrics'[k].tag = sent[metrics'[k].id]
    <3>1. CASE k = Len(metrics) + 1
      <4>1. ~late
        BY <2>4, <2>7, <3>1
      <4> QED BY <2>1, <2>4, <2>6, <3>1, <4>1
    <3>2. CASE k \in DOMAIN metrics
      BY <2>4, <2>7, <3>2 DEF CountedForItsTask
    <3> QED BY <1>1, <2>4, <3>1, <3>2
  <2> QED BY <2>2, <2>7 DEF CountedForItsTask
<1>3. CASE SendRequest
  <2>1. UNCHANGED metrics /\ \A i \in DOMAIN sent : sent'[i] = sent[i]
    BY <1>1, <1>3 DEF SendRequest
  <2> QED BY <1>1, <2>1 DEF CountedForItsTask
<1>4. CASE \/ BeginTask \/ AbandonRequest \/ EndTask \/ Forward \/ ReadConfig
           \/ ReadResult \/ Finally \/ OnResult \/ Clear \/ Collect \/ CloseTask
  <2>1. UNCHANGED <<metrics, sent>>
    BY <1>4 DEF BeginTask, AbandonRequest, EndTask, Forward, Served, ReadConfig,
                ReadResult, Finally, OnResult, Clear, Collect, CloseTask, evalVars
  <2> QED BY <2>1 DEF CountedForItsTask
<1> QED BY <1>2, <1>3, <1>4 DEF ProxyStep

LEMMA ProxyStays ==
  ASSUME ProxyAssumption, ProxyInv, ProxyStep
  PROVE  ProxyInv'
BY ProxyTypesStay, AheadStays, TaggedStays, AwaitsStays, UpToDateStays, FiguresStay, CountedStays
   DEF ProxyInv

-----------------------------------------------------------------------------
(* The three together. *)

OutputsInv == RaplInv /\ CsvInv /\ ProxyInv

LEMMA InitOutputs ==
  ASSUME RaplAssumption, ProxyAssumption, Init
  PROVE  OutputsInv
<1>1. RaplInv
  BY DEF Init, RaplInit, RaplInv, Polled, Stopped, Returned, SampleIsTrue, RaplAssumption
<1>2. CsvInv
  <2>1. file = <<>> /\ DOMAIN file = {} /\ Busy = {} /\ \A t \in Writer : ~WritesAlone(t)
    BY DEF Init, CsvInit, Busy, WritesAlone, NoCall
  <2>2. CsvTypes
    BY DEF Init, CsvInit, CsvTypes
  <2> QED BY <2>1, <2>2 DEF CsvInv, Headed, Fitting, EveryRowHasHeader
<1>3. ProxyInv
  <2> USE DEF Init, ProxyInit, ProxyAssumption
  <2>1. ProxyTypes
    BY DEF ProxyTypes, TaskOrNone, Reading, NotTaken
  <2>2. Ahead /\ Tagged /\ Awaits /\ UpToDate
    BY DEF Ahead, Tagged, Awaits, UpToDate, Reading, Finishing
  <2>3. FiguresAreFinal /\ CountedForItsTask
    BY DEF FiguresAreFinal, CountedForItsTask
  <2> QED BY <2>1, <2>2, <2>3 DEF ProxyInv
<1> QED BY <1>1, <1>2, <1>3 DEF OutputsInv

LEMMA OutputsStay ==
  ASSUME RaplAssumption, ProxyAssumption, OutputsInv, [Next]_vars
  PROVE  OutputsInv'
<1>1. UNCHANGED raplVars => RaplInv'
  <2> SUFFICES ASSUME UNCHANGED raplVars, RaplInv PROVE RaplInv'
    BY DEF OutputsInv
  <2>1. Polled' /\ SampleIsTrue'
    BY DEF raplVars, readingVars, RaplInv, Polled, SampleIsTrue
  <2>2. Stopped' /\ Returned'
    BY DEF raplVars, RaplInv, Stopped, Returned
  <2> QED BY <2>1, <2>2 DEF RaplInv
<1>2. UNCHANGED csvVars => CsvInv'
  BY DEF OutputsInv, csvVars, CsvInv, CsvTypes, Headed, Fitting, EveryRowHasHeader, Headers,
         Nearest, WritesAlone, Busy
<1>3. UNCHANGED proxyVars => ProxyInv'
  <2> SUFFICES ASSUME UNCHANGED proxyVars, ProxyInv
               PROVE  ProxyInv'
    BY DEF OutputsInv
  <2> USE DEF proxyVars, evalVars, readVars, ProxyInv
  <2>1. ProxyTypes'
    BY DEF ProxyTypes
  <2>2. Ahead'
    BY DEF Ahead
  <2>3. Tagged' /\ Awaits' /\ UpToDate'
    BY DEF Tagged, Awaits, UpToDate
  <2>4. FiguresAreFinal'
    BY DEF FiguresAreFinal, Ids
  <2>5. CountedForItsTask'
    BY DEF CountedForItsTask
  <2> QED BY <2>1, <2>2, <2>3, <2>4, <2>5
<1>4. RaplStep \/ UNCHANGED raplVars
  BY DEF Next, vars
<1>5. CsvStep \/ UNCHANGED csvVars
  BY DEF Next, vars
<1>6. ProxyStep \/ UNCHANGED proxyVars
  BY DEF Next, vars
<1> QED BY <1>1, <1>2, <1>3, <1>4, <1>5, <1>6, RaplStays, CsvStays, ProxyStays DEF OutputsInv

LEMMA OutputsAlways ==
  ASSUME RaplAssumption, ProxyAssumption
  PROVE  Spec => []OutputsInv
<1>1. Init => OutputsInv
  BY InitOutputs
<1>2. OutputsInv /\ [Next]_vars => OutputsInv'
  BY OutputsStay
<1> QED BY <1>1, <1>2, PTL DEF Spec

\* The energy of a sample is what the domain used between its two times, but for
\* what it used while a reading stalled, or 0 if the counter wrapped: for any
\* turn of the counter that no two readings are apart (rapl.py:166-195).
THEOREM PowerSamplesAreTrue == Spec => []SampleIsTrue
<1>1. OutputsInv => SampleIsTrue
  BY DEF OutputsInv, RaplInv
<1> QED BY <1>1, RaplAssumption, ProxyAssumption, OutputsAlways, PTL

\* stop_polling returns every sample if the thread was joined, and all but at
\* most one if the join timed out.
THEOREM StoppedPollingIsFinal == Spec => []StopIsFinal
<1>1. OutputsInv => StopIsFinal
  BY DEF OutputsInv, RaplInv, Returned, StopIsFinal
<1> QED BY <1>1, RaplAssumption, ProxyAssumption, OutputsAlways, PTL

\* No row is above every header of its width, whatever the threads do.
THEOREM RowsHaveHeaders == Spec => []EveryRowHasHeader
<1>1. OutputsInv => EveryRowHasHeader
  BY DEF OutputsInv, CsvInv, Headed
<1> QED BY <1>1, RaplAssumption, ProxyAssumption, OutputsAlways, PTL

\* Calls that do not overlap put each row below a nearest header of its width.
THEOREM RowsFitNearestHeader == Spec => []NearestHeaderFits
<1>1. ASSUME CsvInv
      PROVE  NearestHeaderFits
  <2> USE <1>1 DEF CsvInv
  <2> SUFFICES ASSUME ~overlap, NEW j \in DOMAIN file
               PROVE  LET i == LastHeader(SubSeq(file, 1, j))
                      IN  i # 0 /\ file[i].width = file[j].width
    BY DEF NearestHeaderFits
  <2> DEFINE s == SubSeq(file, 1, j)
  <2>1. file \in Seq(Lines) /\ j \in 1..Len(file)
    BY DEF CsvTypes
  <2>2. /\ s \in Seq(Lines) /\ Len(s) = j /\ DOMAIN s = 1..j
        /\ \A k \in 1..j : s[k] = file[k]
    BY ONLY <2>1
  <2>3. PICK i \in DOMAIN file : Nearest(i, j)
    BY DEF Headed
  <2>4. /\ i \in 1..j /\ file[i].kind = "header"
        /\ \A k \in 1..j : file[k].kind = "header" => k <= i
    BY <2>1, <2>3 DEF Nearest, Headers
  <2>5. LastHeader(s) = i
    <3> HIDE DEF s
    <3> QED BY ONLY <2>2, <2>4, LastHeaderIs
  <2>6. file[i].width = file[j].width
    BY <2>3 DEF Fitting
  <2> QED BY <2>4, <2>5, <2>6
<1>2. OutputsInv => NearestHeaderFits
  BY <1>1 DEF OutputsInv
<1> QED BY <1>2, RaplAssumption, ProxyAssumption, OutputsAlways, PTL

\* Once taken, the figures of a task are all that is ever tagged with it.
THEOREM TaskFiguresAreFinal == Spec => []FiguresAreFinal
<1>1. OutputsInv => FiguresAreFinal
  BY DEF OutputsInv, ProxyInv
<1> QED BY <1>1, RaplAssumption, ProxyAssumption, OutputsAlways, PTL

\* A request in time is tagged with the task that sent it, for any number of
\* tasks and requests.
THEOREM RequestsCountForTheirTask == Spec => []CountedForItsTask
<1>1. OutputsInv => CountedForItsTask
  BY DEF OutputsInv, ProxyInv
<1> QED BY <1>1, RaplAssumption, ProxyAssumption, OutputsAlways, PTL
=============================================================================
