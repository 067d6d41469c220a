---------------------------- MODULE RaplPolling ----------------------------
(***************************************************************************)
(* common/telemetry/rapl.py, continuous polling of one power domain: the   *)
(* thread takes the time, reads an energy counter that wraps, sleeps, and  *)
(* turns each pair of readings into a sample.  A reading may stall, may    *)
(* fail, and so may the reading of max_energy_range_uj at a wrap.          *)
(***************************************************************************)
EXTENDS Integers, Sequences

CONSTANTS
  Turn,        \* max_energy_range_uj
  MaxEnergy,   \* bound: the energy the domain uses in a behaviour
  MaxSamples,  \* bound: samples taken
  Failed       \* a reading that failed

ASSUME RaplAssumption == Turn \in Nat \ {0} /\ Failed \notin Int

VARIABLES
  energy,    \* what the domain has used; the counter shows it modulo Turn
  thread,    \* where the polling thread is
  prevE,     \* prev_e: its last reading
  prevAt,    \* prev_t, as history: `energy` at that time ...
  prevRead,  \* ... and when prev_e was read
  currAt,    \* curr_t: `energy` at that time
  polling,   \* self._polling
  samples,   \* self._samples: the delta taken and, as history, the true one
  caller,    \* where TelemetryManager is with start_polling and stop_polling
  returned   \* how many samples stop_polling returned

readingVars == <<prevE, prevAt, prevRead, currAt>>
raplVars == <<energy, thread, readingVars, polling, samples, caller, returned>>

RaplInit ==
  /\ energy = 0 /\ thread = "none"
  /\ prevE = Failed /\ prevAt = 0 /\ prevRead = 0 /\ currAt = 0
  /\ polling = FALSE /\ samples = <<>> /\ caller = "idle" /\ returned = 0

\* The domain uses energy.  From one reading to the next (an interval of seconds
\* and what the reading stalls) the counter (minutes at least) makes no full turn.
Consume ==
  /\ energy < MaxEnergy
  /\ thread \in {"asleep", "reading"} => energy + 1 - prevRead < Turn
  /\ energy' = energy + 1
  /\ UNCHANGED <<thread, readingVars, polling, samples, caller, returned>>

StartPolling ==
  /\ caller = "idle"
  /\ polling' = TRUE /\ samples' = <<>> /\ thread' = "started" /\ caller' = "running"
  /\ UNCHANGED <<energy, readingVars, returned>>

Readings == {Failed, energy % Turn}

\* _poll_loop: prev_t, ...
FirstTime ==
  /\ thread = "started"
  /\ prevAt' = energy /\ thread' = "first"
  /\ UNCHANGED <<energy, prevE, prevRead, currAt, polling, samples, caller, returned>>

\* ... the initial read, then a sleep.
FirstRead ==
  /\ thread = "first"
  /\ prevE' \in Readings /\ prevRead' = energy
  /\ thread' = "asleep"
  /\ UNCHANGED <<energy, prevAt, currAt, polling, samples, caller, returned>>

\* `while self._polling`, and curr_t.
Wake ==
  /\ thread = "asleep"
  /\ IF polling THEN thread' = "reading" /\ currAt' = energy
     ELSE thread' = "gone" /\ UNCHANGED currAt
  /\ UNCHANGED <<energy, prevE, prevAt, prevRead, polling, samples, caller, returned>>

\* The energy between two readings; 0 when the counter wrapped and its range
\* could not be read.
Deltas(before, now) ==
  IF now >= before THEN {now - before} ELSE {now - before + Turn, 0}

\* History: the energy used between the two times and while either reading was
\* late, and whether the counter wrapped between the readings.
Truth(delta) ==
  [delta |-> delta, used |-> currAt - prevAt, early |-> prevRead - prevAt,
   late |-> energy - currAt, wrapped |-> prevRead \div Turn # energy \div Turn]

\* Sample with a bug: a failed reading leaves the one before it in place.
SampleKeepsStale ==
  /\ thread = "reading" /\ Len(samples) < MaxSamples
  /\ \E val \in Readings :
       /\ IF val = Failed \/ prevE = Failed THEN samples' = Append(samples, [delta |-> Failed])
          ELSE \E d \in Deltas(prevE, val) : samples' = Append(samples, Truth(d))
       /\ prevE' = IF val = Failed THEN prevE ELSE val
  /\ prevAt' = currAt /\ prevRead' = energy /\ thread' = "asleep"
  /\ UNCHANGED <<energy, currAt, polling, caller, returned>>

\* A failed reading, and the first after one, give a sample without the domain.
Sample ==
  /\ thread = "reading" /\ Len(samples) < MaxSamples
  /\ \E val \in Readings :
       /\ IF val = Failed \/ prevE = Failed THEN samples' = Append(samples, [delta |-> Failed])
          ELSE \E d \in Deltas(prevE, val) : samples' = Append(samples, Truth(d))
       /\ prevE' = val
  /\ prevAt' = currAt /\ prevRead' = energy /\ thread' = "asleep"
  /\ UNCHANGED <<energy, currAt, polling, caller, returned>>

\* stop_polling, before the join.
ClearPolling ==
  /\ caller = "running"
  /\ polling' = FALSE /\ caller' = "joining"
  /\ UNCHANGED <<energy, thread, readingVars, samples, returned>>

\* stop_polling with a bug: the thread is not waited for.
JoinNothing ==
  /\ caller = "joining"
  /\ caller' = "joined"
  /\ UNCHANGED <<energy, thread, readingVars, polling, samples, returned>>

\* The join ends with the thread ...
Join ==
  /\ caller = "joining" /\ thread = "gone"
  /\ caller' = "joined"
  /\ UNCHANGED <<energy, thread, readingVars, polling, samples, returned>>

\* ... or after three intervals, which only a stalled read outlasts.
JoinTimeout ==
  /\ caller = "joining" /\ thread \in {"first", "reading"}
  /\ caller' = "timed out"
  /\ UNCHANGED <<energy, thread, readingVars, polling, samples, returned>>

\* `return list(self._samples)`.
ReturnSamples ==
  /\ \/ caller = "joined" /\ caller' = "stopped"
     \/ caller = "timed out" /\ caller' = "gave up"
  /\ returned' = Len(samples)
  /\ UNCHANGED <<energy, thread, readingVars, polling, samples>>

RaplStep ==
  \/ Consume \/ StartPolling \/ FirstTime \/ FirstRead \/ Wake \/ Sample
  \/ ClearPolling \/ Join \/ JoinTimeout \/ ReturnSamples
=============================================================================
