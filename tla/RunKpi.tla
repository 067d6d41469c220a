------------------------------ MODULE RunKpi ------------------------------
(***************************************************************************)
(* common/agentsysperf: the figures of one run and their SLO verdict.      *)
(* Fractions are integers: latencies and percentiles in hundredths of a    *)
(* millisecond, rates in percent, costs in a unit small enough that the    *)
(* code's rounding (to 1e-6 $) does not matter.                            *)
(***************************************************************************)
EXTENDS Orders, SequencesExt

CONSTANT None  \* a figure that is not available

ASSUME NoneAssumption == None \notin Int

\* percentile with a bug: the values are taken in the order they came in.
PercentileUnsorted(values, pct) ==
  IF values = <<>> THEN None
  ELSE LET rank == pct * (Len(values) - 1)
           lo == rank \div 100 + 1
           hi == IF rank % 100 = 0 THEN lo ELSE lo + 1
       IN 100 * values[lo] + (values[hi] - values[lo]) * (rank % 100)

\* percentile: linear interpolation between the two closest ranks.
Percentile(values, pct) ==
  IF values = <<>> THEN None
  ELSE LET order == SortOrder(values)
           rank == pct * (Len(values) - 1)
           lo == rank \div 100 + 1
           low == values[order[lo]]
           high == IF rank % 100 = 0 THEN low ELSE values[order[lo + 1]]
       IN 100 * low + (high - low) * (rank % 100)

\* emit_agentsysperf_artifacts: a workload without a time per task is given
\* the mean once per completed task, or the whole runtime as one sample.
Latencies(result) ==
  CASE result.latencies # None -> result.latencies
    [] result.latencies = None /\ result.runtime > 0 /\ result.completed > 0 ->
         [i \in 1..result.completed |-> result.runtime \div result.completed]
    [] result.latencies = None /\ result.runtime > 0 /\ result.completed = 0 ->
         <<result.runtime>>
    [] OTHER -> <<>>

\* compute_cost: energy counts only if both package power and price are known;
\* nothing completed has no cost per task.
CostPerTask(result, cost) ==
  LET watts == cost.package + (IF cost.dram = None THEN 0 ELSE cost.dram)
      energy == IF cost.package = None \/ cost.price = None THEN 0
                ELSE watts * cost.price * result.runtime
  IN IF result.completed > 0
     THEN (cost.hourly * result.runtime + energy) \div result.completed ELSE None

SuccessRate(result) ==
  IF result.total > 0 THEN (100 * result.completed) \div result.total ELSE None

Density(result) ==
  IF result.vcpus > 0 THEN (100 * result.agents) \div result.vcpus ELSE None

\* Exceeds with a bug: what is not known is not held against the run.
ExceedsIfKnown(metric, threshold) ==
  threshold # None /\ metric # None /\ metric > threshold

\* evaluate_slo: a threshold that is set is missed by a metric that is missing.
Exceeds(metric, threshold) == threshold # None /\ (metric = None \/ metric > threshold)
FallsShort(metric, threshold) == threshold # None /\ (metric = None \/ metric < threshold)

\* No threshold at all: the run is not evaluated.
SloPassed(slo, result, cost) ==
  IF slo.p95 = None /\ slo.success = None /\ slo.cost = None THEN None
  ELSE /\ ~Exceeds(Percentile(Latencies(result), 95), slo.p95)
       /\ ~FallsShort(SuccessRate(result), slo.success)
       /\ ~Exceeds(CostPerTask(result, cost), slo.cost)

\* build_run_summary: the figures that a merge reads.
BuildRunSummary(slo, result, cost) ==
  [slo |-> SloPassed(slo, result, cost), density |-> Density(result)]
=============================================================================
