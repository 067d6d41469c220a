------------------------ MODULE EmonCollector_proofs ------------------------
(* Facts about the steps of EmonCollector, for the modules that compose it. *)
EXTENDS EmonCollector, TLAPS

USE DEF Status, Process, Inside, Outcome, Idle

\* A thread at a named place is inside a call on some collector.
LEMMA InsideCall ==
  ASSUME CollectorTypeOK, NEW t \in Thread,
         call[t].at \in Inside \cup Outcome
  PROVE  /\ call[t] \in [at : Inside \cup Outcome, on : Collector]
         /\ call[t].on \in Collector
<1>1. call[t] \in [at : Inside \cup Outcome, on : Collector] \cup {Idle}
  BY DEF CollectorTypeOK
<1>2. call[t] # Idle  OBVIOUS
<1> QED BY <1>1, <1>2

LEMMA GotoType ==
  ASSUME CollectorTypeOK, NEW t \in Thread, NEW there \in Inside \cup Outcome,
         call[t].at \in Inside \cup Outcome, Goto(t, there)
  PROVE  call' \in [Thread -> [at : Inside \cup Outcome, on : Collector] \cup {Idle}]
BY InsideCall DEF CollectorTypeOK, Goto

\* Every step of start_collection and stop_collection keeps the state well-typed.
LEMMA StepType ==
  ASSUME CollectorAssumption, CollectorTypeOK,
         NEW t \in Thread, NEW timed \in BOOLEAN, CollectorStep(t, timed)
  PROVE  CollectorTypeOK'
<1> DEFINE c == call[t].on
<1>1. CASE StartCheck(t)
  <2>1. call[t].at = "start" /\ c \in Collector
    BY <1>1, InsideCall DEF StartCheck, In
  <2>2. \E there \in Inside \cup Outcome : Goto(t, there)
    BY <1>1 DEF StartCheck
  <2>3. status' \in [Collector -> Status]
    BY <1>1, <2>1 DEF StartCheck, CollectorTypeOK
  <2> QED BY <1>1, <2>1, <2>2, <2>3, GotoType DEF StartCheck, CollectorTypeOK
<1>2. CASE Launch(t, timed)
  <2>1. call[t].at = "launch" /\ c \in Collector
    BY <1>2, InsideCall DEF Launch, In
  <2>2. \E there \in Inside \cup Outcome : Goto(t, there)
    BY <1>2 DEF Launch
  <2>3. reloads' \in [Collector -> 0..MaxReload]
    BY <1>2, <2>1 DEF Launch, CollectorTypeOK, CollectorAssumption
  <2>4. /\ status' \in [Collector -> Status]
        /\ process' \in [Collector -> Process]
        /\ armed' \in SUBSET Collector
        /\ unstopped' \in SUBSET Collector
    BY <1>2, <2>1 DEF Launch, CollectorTypeOK
  <2> QED BY <2>1, <2>2, <2>3, <2>4, GotoType DEF CollectorTypeOK
<1>3. CASE StopCheck(t)
  <2>1. call[t].at = "stop"
    BY <1>3 DEF StopCheck, In
  <2>2. \E there \in Inside \cup Outcome : Goto(t, there)
    BY <1>3 DEF StopCheck
  <2> QED BY <1>3, <2>1, <2>2, GotoType DEF StopCheck, CollectorTypeOK
<1>4. CASE EmonStop(t)
  <2>1. call[t].at = "emon_stop" /\ c \in Collector
    BY <1>4, InsideCall DEF EmonStop, In
  <2>2. \E there \in Inside \cup Outcome : Goto(t, there)
    BY <1>4 DEF EmonStop
  <2>3. process' \in [Collector -> Process]
    BY <1>4 DEF EmonStop, CollectorTypeOK
  <2>4. status' \in [Collector -> Status] /\ unstopped' \in SUBSET Collector
    BY <1>4, <2>1 DEF EmonStop, CollectorTypeOK
  <2>5. UNCHANGED <<armed, reloads>>
    BY <1>4 DEF EmonStop
  <2> QED BY <2>1, <2>2, <2>3, <2>4, <2>5, GotoType DEF CollectorTypeOK
<1>5. CASE Reap(t)
  <2>1. call[t].at = "reap" /\ c \in Collector
    BY <1>5, InsideCall DEF Reap, In
  <2>2. \E there \in Inside \cup Outcome : Goto(t, there)
    BY <1>5 DEF Reap
  <2>3. /\ status' \in [Collector -> Status]
        /\ process' \in [Collector -> Process]
        /\ unstopped' \in SUBSET Collector
    BY <1>5, <2>1 DEF Reap, CollectorTypeOK
  <2>4. UNCHANGED <<armed, reloads>>
    BY <1>5 DEF Reap
  <2> QED BY <2>1, <2>2, <2>3, <2>4, GotoType DEF CollectorTypeOK
<1> QED BY <1>1, <1>2, <1>3, <1>4, <1>5 DEF CollectorStep

\* Calling, returning, unwinding and dying keep it well-typed too.
LEMMA InvokeType ==
  ASSUME CollectorTypeOK, NEW t \in Thread, NEW c \in Collector,
         NEW op \in {"start", "stop"}, Invoke(t, op, c)
  PROVE  call' \in [Thread -> [at : Inside \cup Outcome, on : Collector] \cup {Idle}]
BY DEF Invoke, CollectorTypeOK

LEMMA IdleType ==
  ASSUME CollectorTypeOK, NEW t \in Thread, call' = [call EXCEPT ![t] = Idle]
  PROVE  call' \in [Thread -> [at : Inside \cup Outcome, on : Collector] \cup {Idle}]
BY DEF CollectorTypeOK

LEMMA ExitType ==
  ASSUME CollectorTypeOK, NEW c \in Collector, EmonExit(c)
  PROVE  CollectorTypeOK'
BY DEF EmonExit, CollectorTypeOK

-----------------------------------------------------------------------------
\* No step of any thread makes a collector say STOPPED over a live process.
LEMMA StepKeepsStoppedDown ==
  ASSUME CollectorTypeOK, StoppedIsDown,
         NEW t \in Thread, NEW timed \in BOOLEAN, CollectorStep(t, timed)
  PROVE  StoppedIsDown'
<1> USE DEF StoppedIsDown
<1>1. CASE StartCheck(t)  BY <1>1 DEF StartCheck, CollectorTypeOK
<1>2. CASE Launch(t, timed)  BY <1>2 DEF Launch, CollectorTypeOK
<1>3. CASE StopCheck(t)  BY <1>3 DEF StopCheck, CollectorTypeOK
<1>4. CASE EmonStop(t)  BY <1>4 DEF EmonStop, CollectorTypeOK
<1>5. CASE Reap(t)  BY <1>5 DEF Reap, CollectorTypeOK
<1> QED BY <1>1, <1>2, <1>3, <1>4, <1>5 DEF CollectorStep

-----------------------------------------------------------------------------
\* Where a thread can be that has called start_collection, or stop_collection.
StartPlaces == {"start", "launch", "ok", "failed", "raised"}
StopPlaces == {"stop", "emon_stop", "reap", "ok", "failed"}

\* The collector's EMON runs, and no stop attempt has given it up.
Up(c) == process[c] = "alive" /\ c \notin unstopped

\* Thread t may yet bring up the EMON of its collector.
Launching(t) == call[t].at \in {"start", "launch"}

\* What a step of thread t does to the collector c that it is in.
Effect(t, c) ==
  \/ /\ call[t].at = "start" /\ call'[t].at = "failed"
     /\ status'[c] = IF status[c] = "running" THEN "running" ELSE "error"
     /\ process'[c] = process[c] /\ (c \in unstopped' <=> c \in unstopped)
  \/ /\ call[t].at = "start" /\ call'[t].at \in {"launch", "raised"}
     /\ status'[c] = status[c]
     /\ process'[c] = process[c] /\ (c \in unstopped' <=> c \in unstopped)
  \/ /\ call[t].at = "launch" /\ call'[t].at = "ok"
     /\ status'[c] = "running"
     /\ process'[c] = "alive" /\ (c \in unstopped' <=> c \in unstopped)
  \/ /\ call[t].at = "launch" /\ call'[t].at = "start"
     /\ status'[c] = status[c]
     /\ process'[c] = process[c] /\ (c \in unstopped' <=> c \in unstopped)
  \/ /\ call[t].at = "launch" /\ call'[t].at = "failed"
     /\ status'[c] = "error"
     /\ process'[c] = process[c] /\ (c \in unstopped' <=> c \in unstopped)
  \/ /\ call[t].at = "stop"
     /\ call'[t].at = IF status[c] = "running" THEN "emon_stop" ELSE "failed"
     /\ status'[c] = status[c]
     /\ process'[c] = process[c] /\ (c \in unstopped' <=> c \in unstopped)
  \/ /\ call[t].at = "emon_stop" /\ call'[t].at = "reap"
     /\ status'[c] = status[c] /\ (c \in unstopped' <=> c \in unstopped)
     /\ \/ process'[c] = process[c]
        \/ process[c] = "alive" /\ process'[c] = "exited"
  \/ /\ call[t].at = "emon_stop" /\ call'[t].at = "failed"
     /\ status'[c] = "error" /\ process'[c] = process[c] /\ c \in unstopped'
  \/ /\ call[t].at = "reap" /\ call'[t].at = "ok"
     /\ status'[c] = "stopped" /\ (c \in unstopped => c \in unstopped')
     /\ \/ process[c] # "alive" /\ process'[c] = process[c]
        \/ process[c] = "alive" /\ process'[c] = "exited"
        \/ process[c] = "alive" /\ process'[c] = "alive" /\ c \in unstopped'

\* A step of a thread changes its own call and its own collector, and of the
\* others no more than that `emon -stop` may have ended them too.
LEMMA Effects ==
  ASSUME CollectorAssumption, CollectorTypeOK,
         NEW t \in Thread, NEW timed \in BOOLEAN, CollectorStep(t, timed)
  PROVE  /\ \A u \in Thread \ {t} : call'[u] = call[u]
         /\ call[t] # Idle /\ call'[t] # Idle
         /\ call[t].on \in Collector /\ call'[t].on = call[t].on
         /\ Effect(t, call[t].on)
         /\ \A d \in Collector \ {call[t].on} :
              /\ status'[d] = status[d] /\ (d \in unstopped' <=> d \in unstopped)
              /\ \/ process'[d] = process[d]
                 \/ process[d] = "alive" /\ process'[d] = "exited"
<1> DEFINE Moved ==
      /\ \A u \in Thread \ {t} : call'[u] = call[u]
      /\ call[t] # Idle /\ call'[t] # Idle
      /\ call[t].on \in Collector /\ call'[t].on = call[t].on
<1> USE DEF CollectorAssumption
<1>1. ASSUME NEW there, Goto(t, there), call[t].at \in Inside \cup Outcome
      PROVE  Moved /\ call'[t].at = there
  <2>1. call[t] \in [at : Inside \cup Outcome, on : Collector]
    BY <1>1, InsideCall
  <2>2. /\ call'[t] = [call[t] EXCEPT !.at = there]
        /\ \A u \in Thread \ {t} : call'[u] = call[u]
    BY <1>1 DEF Goto, CollectorTypeOK
  <2>3. call'[t].at = there /\ call'[t].on = call[t].on
    BY <2>1, <2>2
  <2> QED BY <2>1, <2>2, <2>3
<1> USE DEF In, Effect
<1>2. CASE StartCheck(t)
  BY <1>1, <1>2 DEF StartCheck, CollectorTypeOK
<1>3. CASE Launch(t, timed)
  BY <1>1, <1>3 DEF Launch, CollectorTypeOK
<1>4. CASE StopCheck(t)
  BY <1>1, <1>4 DEF StopCheck
<1>5. CASE EmonStop(t)
  BY <1>1, <1>5 DEF EmonStop, CollectorTypeOK
<1>6. CASE Reap(t)
  BY <1>1, <1>6 DEF Reap, CollectorTypeOK
<1> QED BY <1>2, <1>3, <1>4, <1>5, <1>6 DEF CollectorStep
=============================================================================
