--------------------------- MODULE SweepCapacity ---------------------------
(***************************************************************************)
(* common/agentsysperf/capacity.py: where throughput saturates along a     *)
(* sweep over concurrency levels, and which level is recommended.          *)
(* A point is [level, throughput, p95, p99, slo].                          *)
(***************************************************************************)
EXTENDS RunKpi

\* sorted(points, key=concurrency).
Ordered(points) ==
  LET order == SortOrder([i \in DOMAIN points |-> points[i].level])
  IN [i \in DOMAIN points |-> points[order[i]]]

\* The loop's body with a bug: every gain is taken against the first point.
StepFromFirst(acc, p) ==
  LET gain == p.throughput - acc.prev IN
  CASE acc.sat # None -> acc
    [] acc.sat = None /\ ~p.slo -> [acc EXCEPT !.sat = p.level]
    [] acc.sat = None /\ p.slo /\ gain > acc.best -> [acc EXCEPT !.best = gain]
    [] OTHER -> IF acc.best > 0 /\ 10 * gain < acc.best
                THEN [acc EXCEPT !.sat = p.level] ELSE acc

\* The loop's body: an SLO that is missed saturates, so does a gain under a
\* tenth (marginal_gain_floor) of the best gain so far.
Step(acc, p) ==
  LET gain == p.throughput - acc.prev IN
  CASE acc.sat # None -> acc
    [] acc.sat = None /\ ~p.slo -> [acc EXCEPT !.sat = p.level]
    [] acc.sat = None /\ p.slo /\ gain > acc.best ->
         [acc EXCEPT !.best = gain, !.prev = p.throughput]
    [] OTHER -> IF acc.best > 0 /\ 10 * gain < acc.best
                THEN [acc EXCEPT !.sat = p.level]
                ELSE [acc EXCEPT !.prev = p.throughput]

\* The loop, to the end of the points.
Saturation(ordered) ==
  LET acc[i \in 0..Len(ordered)] ==
        IF i = 0 THEN [sat |-> None, best |-> 0, prev |-> ordered[1].throughput]
        ELSE Step(acc[i - 1], ordered[i])
  IN acc[Len(ordered)].sat

\* p99/p95 at most tail_ratio_max = 1.5, or the ratio cannot be taken.
Stable(p) == p.p95 = None \/ p.p99 = None \/ p.p95 = 0 \/ 2 * p.p99 <= 3 * p.p95

\* detect_capacity: the highest stable candidate, else the highest candidate.
\* (The comment at 93 admits the saturation point itself; the code does not.)
DetectCapacity(points) ==
  IF points = <<>> THEN [points |-> <<>>, saturation |-> None, recommended |-> None]
  ELSE LET ordered == Ordered(points)
           sat == Saturation(ordered)
           candidates == {i \in DOMAIN ordered :
                            ordered[i].slo /\ (sat = None \/ ordered[i].level < sat)}
           stable == {i \in candidates : Stable(ordered[i])}
           among == IF stable = {} THEN candidates ELSE stable
       IN [points |-> ordered, saturation |-> sat,
           recommended |-> IF among = {} THEN None ELSE ordered[Max(among)].level]
=============================================================================
