---------------------------- MODULE AgentSysPerf ----------------------------
(***************************************************************************)
(* common/agentsysperf at work.  A sweep measures one concurrency level    *)
(* after another and recommends one.  A campaign is a number of runs, each *)
(* writing its summary into a folder of its own, while merge.py may read   *)
(* the folders at any time.  The two share figures but no state: `job`     *)
(* says which one a behaviour is.                                          *)
(***************************************************************************)
EXTENDS SweepCapacity

CONSTANTS
  Plans,        \* sweeps: [kind |-> "sweep", levels |-> a sequence, reps |-> repetitions]
  Throughputs,  \* what a repetition may measure
  LatencySeqs,
  Folders,      \* bound: the campaign's folders are 1..Folders, in path order
  WorkloadOf,   \* the workload of each folder
  Results,      \* what a run may come to
  Slos, Cost    \* the campaign's thresholds and cost model

ASSUME AgentSysPerfAssumption ==
  /\ \A p \in Plans : p.kind = "sweep" /\ p.levels \in Seq(Int) /\ p.reps \in Nat \ {0}
  /\ Throughputs \subseteq Int /\ LatencySeqs \subseteq Seq(Int)
  /\ Folders \in Nat
  /\ \A r \in Results : r.total \in Nat /\ r.completed \in Nat /\ r.runtime \in Nat
                        /\ r.vcpus \in Nat /\ r.agents \in Nat
                        /\ r.latencies \in Seq(Int) \cup {None}
  /\ Slos \subseteq [p95 : Int \cup {None}, success : Int \cup {None}, cost : Int \cup {None}]
  /\ Cost \in [hourly : Nat, package : Nat \cup {None}, dram : Nat \cup {None}, price : Nat \cup {None}]

VARIABLES
  job,
  left,    \* the levels still to be measured
  reps,    \* repetitions measured at the first of them
  pool,    \* their throughputs, latencies and SLO verdicts
  points,  \* the sweep points of the levels measured
  missed,  \* history: levels of which a repetition missed its SLO
  report,  \* what write_sweep_artifacts wrote
  folder,  \* agentsysperf_summary.json of each folder
  slo,     \* the campaign's thresholds
  merge,   \* the merge in progress: the files listed and not yet read, the rows
           \* read; history: the summaries that were complete when it began
  merged   \* platform_capacity_summary.csv: the folder of each workload's row

sweepVars == <<left, reps, pool, points, missed, report>>
campaignVars == <<folder, merge, merged>>
vars == <<job, slo, sweepVars, campaignVars>>

Folder == 1..Folders
Workload == {WorkloadOf[f] : f \in Folder}
Empty == [throughputs |-> <<>>, latencies |-> <<>>, slo |-> <<>>]
NoFile == [is |-> "absent"]
NoMerge == [at |-> "idle", todo |-> {}, rows |-> {}, before |-> {}]
NoThresholds == [p95 |-> None, success |-> None, cost |-> None]

Init ==
  /\ \/ job \in Plans /\ left = job.levels /\ slo = NoThresholds
     \/ job = [kind |-> "campaign"] /\ left = <<>> /\ slo \in Slos
  /\ reps = 0 /\ pool = Empty /\ points = <<>> /\ missed = {} /\ report = None
  /\ folder = [f \in Folder |-> NoFile]
  /\ merge = NoMerge /\ merged = [w \in Workload |-> None]

-----------------------------------------------------------------------------
(* run_concurrency_sweep. *)

\* One call of run_fn: the caller's own measurement.
Measure ==
  /\ left # <<>> /\ reps < job.reps
  /\ \E thr \in Throughputs, lat \in LatencySeqs, passed \in BOOLEAN :
       /\ pool' = [throughputs |-> Append(pool.throughputs, thr),
                   latencies |-> pool.latencies \o lat,
                   slo |-> Append(pool.slo, passed)]
       /\ missed' = IF passed THEN missed ELSE missed \cup {Head(left)}
  /\ reps' = reps + 1
  /\ UNCHANGED <<job, slo, left, points, report, campaignVars>>

Sum(seq) ==
  LET sum[i \in 0..Len(seq)] == IF i = 0 THEN 0 ELSE sum[i - 1] + seq[i] IN sum[Len(seq)]

\* Aggregate with a bug: one repetition that met its SLO is enough.
AggregateAny ==
  /\ left # <<>> /\ reps = job.reps
  /\ points' = Append(points,
       [level |-> Head(left), throughput |-> Sum(pool.throughputs) \div reps,
        p95 |-> Percentile(pool.latencies, 95), p99 |-> Percentile(pool.latencies, 99),
        slo |-> \E i \in DOMAIN pool.slo : pool.slo[i]])
  /\ left' = Tail(left) /\ reps' = 0 /\ pool' = Empty
  /\ UNCHANGED <<job, slo, missed, report, campaignVars>>

\* All repetitions of a level make one point.
Aggregate ==
  /\ left # <<>> /\ reps = job.reps
  /\ points' = Append(points,
       [level |-> Head(left), throughput |-> Sum(pool.throughputs) \div reps,
        p95 |-> Percentile(pool.latencies, 95), p99 |-> Percentile(pool.latencies, 99),
        slo |-> \A i \in DOMAIN pool.slo : pool.slo[i]])
  /\ left' = Tail(left) /\ reps' = 0 /\ pool' = Empty
  /\ UNCHANGED <<job, slo, missed, report, campaignVars>>

\* write_sweep_artifacts: every file is written from the one CapacitySummary.
WriteSweep ==
  /\ job.kind = "sweep" /\ left = <<>> /\ report = None
  /\ report' = DetectCapacity(points)
  /\ UNCHANGED <<job, slo, left, reps, pool, points, missed, campaignVars>>

-----------------------------------------------------------------------------
(* emit_agentsysperf_artifacts and merge_run_summaries. *)

\* The summary of a run is computed from its figures and opened for writing:
\* torn until json.dump is through.
EmitOf(f, r) ==
  /\ job.kind = "campaign" /\ folder[f] = NoFile
  /\ folder' = [folder EXCEPT ![f] = [is |-> "torn", kpi |-> BuildRunSummary(slo, r, Cost)]]
  /\ UNCHANGED <<job, slo, merge, merged, sweepVars>>

Emit(f) == \E r \in Results : EmitOf(f, r)

\* The dump ends.  (It may also never: a full disk raises, which
\* emit_agentsysperf_artifacts catches, or the run dies; the file stays torn.)
Dump(f) ==
  /\ folder[f].is = "torn"
  /\ folder' = [folder EXCEPT ![f] = [is |-> "whole", kpi |-> folder[f].kpi]]
  /\ UNCHANGED <<job, slo, merge, merged, sweepVars>>

Existing == {f \in Folder : folder[f] # NoFile}
Complete == {f \in Folder : folder[f].is = "whole"}

\* _load_summaries, while runs go on: the tree is walked, which takes time.  A
\* file that was there before is listed, one that appears meanwhile may be.
BeginMerge ==
  /\ job.kind = "campaign" /\ merge.at = "idle"
  /\ merge' = [at |-> "walk", todo |-> Existing, rows |-> {}, before |-> Complete]
  /\ UNCHANGED <<job, slo, folder, merged, sweepVars>>

EndWalk ==
  /\ merge.at = "walk"
  /\ \E late \in SUBSET (Existing \ merge.todo) :
       merge' = [merge EXCEPT !.at = "read", !.todo = @ \cup late]
  /\ UNCHANGED <<job, slo, folder, merged, sweepVars>>

\* ReadSummary with a bug: the first file that does not parse ends the reading.
ReadUntilTorn ==
  /\ merge.at = "read" /\ merge.todo # {}
  /\ LET f == Min(merge.todo) IN
       merge' = IF folder[f].is = "whole"
                THEN [merge EXCEPT !.todo = @ \ {f}, !.rows = @ \cup {f}]
                ELSE [merge EXCEPT !.todo = {}]
  /\ UNCHANGED <<job, slo, folder, merged, sweepVars>>

\* The files one by one, in path order: one that does not parse is passed over.
ReadSummary ==
  /\ merge.at = "read" /\ merge.todo # {}
  /\ LET f == Min(merge.todo) IN
       merge' = [merge EXCEPT !.todo = @ \ {f},
                   !.rows = IF folder[f].is = "whole" THEN @ \cup {f} ELSE @]
  /\ UNCHANGED <<job, slo, folder, merged, sweepVars>>

Rank(f) == IF folder[f].kpi.density = None THEN 0 ELSE folder[f].kpi.density

\* The first of the densest runs, among those that met their SLO if one did.
BestOf(rows) ==
  LET passing == {f \in rows : folder[f].kpi.slo = TRUE}
      among == IF passing = {} THEN rows ELSE passing
  IN {f \in among : \A g \in among : Rank(g) < Rank(f) \/ (Rank(g) = Rank(f) /\ f <= g)}

WriteMerge ==
  /\ merge.at = "read" /\ merge.todo = {}
  /\ LET best == [w \in Workload |-> BestOf({f \in merge.rows : WorkloadOf[f] = w})] IN
       merged' = [w \in Workload |-> IF best[w] = {} THEN None ELSE CHOOSE f \in best[w] : TRUE]
  /\ merge' = NoMerge
  /\ UNCHANGED <<job, slo, folder, sweepVars>>

Next ==
  \/ Measure \/ Aggregate \/ WriteSweep
  \/ \E f \in Folder : Emit(f) \/ Dump(f)
  \/ BeginMerge \/ EndWalk \/ ReadSummary \/ WriteMerge

Spec == Init /\ [][Next]_vars

-----------------------------------------------------------------------------
(* Properties. *)

\* percentile by counting instead of sorting: with n values, more than
\* pct% of n-1 of them are at most the percentile, and so many are not below
\* it; and p50 <= p95 <= p99.
Splits(values, pct) ==
  LET p == Percentile(values, pct)
      n == Len(values)
  IN /\ 100 * Cardinality({i \in 1..n : 100 * values[i] <= p}) > pct * (n - 1)
     /\ 100 * Cardinality({i \in 1..n : 100 * values[i] >= p}) > (100 - pct) * (n - 1)

PercentilesSplit ==
  pool.latencies # <<>> =>
    /\ \A pct \in {0, 50, 95, 99, 100} : Splits(pool.latencies, pct)
    /\ Percentile(pool.latencies, 50) <= Percentile(pool.latencies, 95)
    /\ Percentile(pool.latencies, 95) <= Percentile(pool.latencies, 99)

\* The saturation point by definition: the first level of the ordered sweep
\* that missed its SLO, or whose gain is under a tenth of a positive gain
\* before it ("first concurrency level where the SLA fails, or where marginal
\* throughput gain collapses", capacity.py:8-11).
Gain(seq, i) == IF i = 1 THEN 0 ELSE seq[i].throughput - seq[i - 1].throughput
Saturates(seq, i) ==
  \/ ~seq[i].slo
  \/ \E j \in 1..(i - 1) : Gain(seq, j) > 0 /\ Gain(seq, j) > 10 * Gain(seq, i)

SaturationIsFirst ==
  report # None =>
    LET at == {i \in DOMAIN report.points : Saturates(report.points, i)} IN
    IF at = {} THEN report.saturation = None
    ELSE report.saturation = report.points[Min(at)].level

\* The recommended level is one at which, and below which, no repetition
\* missed its SLO; no level between it and saturation has a stable tail; and
\* there is one whenever the lowest level does not saturate.
RecommendedSafe ==
  report # None /\ report.points # <<>> =>
    LET below == {i \in DOMAIN report.points :
                    report.saturation = None \/ report.points[i].level < report.saturation}
    IN IF report.recommended = None THEN below = {}
       ELSE /\ \A l \in missed : l > report.recommended
            /\ \E i \in below : report.points[i].level = report.recommended
            /\ (\E i \in below : Stable(report.points[i])) =>
                 \A i \in below : Stable(report.points[i]) =>
                                    report.points[i].level <= report.recommended

\* What a run cost: the node for its runtime and, where power and price are
\* known, the energy.
Spent(r) ==
  LET dram == IF Cost.dram = None THEN 0 ELSE Cost.dram
      energy == IF None \in {Cost.package, Cost.price} THEN 0
                ELSE (Cost.package + dram) * Cost.price
  IN r.runtime * (Cost.hourly + energy)

\* A summary that says that the run met its SLO is right by the raw figures:
\* enough of a non-empty batch was completed; where a cost per task is limited,
\* something was completed and all of it cost no more (to the unit) than so
\* many tasks may; and of its times per task at most 5% (of all but one) lie
\* above the limit, of at least one.  Exempt: a run whose runtime is 0 costs 0
\* and passes any cost limit (cost.py:21, 57), although "Any field that cannot
\* be computed (e.g. runtime_s == 0) is null, never a fabricated zero"
\* (docs/agentsysperf.md:67-68), and what is null does not pass (76).
PassedIsEarned ==
  [][\A f \in Folder : folder[f] = NoFile /\ folder'[f] # NoFile =>
       \A r \in Results : EmitOf(f, r) /\ folder'[f].kpi.slo = TRUE =>
         LET times == Latencies(r)
             over == {i \in DOMAIN times : 100 * times[i] > slo.p95}
         IN /\ slo.success # None => r.total > 0 /\ 100 * r.completed >= slo.success * r.total
            /\ slo.cost # None =>
                 /\ r.completed > 0
                 /\ r.runtime = 0 \/ Spent(r) < (slo.cost + 1) * r.completed
            /\ slo.p95 # None =>
                 times # <<>> /\ 100 * Cardinality(over) <= 5 * (Len(times) - 1) + 99]_vars

\* A merge that runs while summaries are still being written is right by those
\* that were complete when it began: each workload that had one then gets a row;
\* a row is of a complete summary of its workload; if one met its SLO then, the
\* row met it and none that did then is denser ("best-seen
\* active_agents_per_vcpu among SLO-passing runs", merge.py:9-11).  Of what was
\* completed behind the reading nothing is promised.
MergedIsDensest ==
  [][WriteMerge => \A w \in Workload :
       LET done == {f \in merge.before : WorkloadOf[f] = w}
           passing == {f \in done : folder[f].kpi.slo = TRUE}
           row == merged'[w]
       IN /\ done # {} => row # None
          /\ row # None => row \in Complete /\ WorkloadOf[row] = w
          /\ passing # {} => /\ folder[row].kpi.slo = TRUE
                             /\ \A f \in passing : Rank(f) <= Rank(row)]_vars
=============================================================================
