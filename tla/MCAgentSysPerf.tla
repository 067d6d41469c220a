--------------------------- MODULE MCAgentSysPerf ---------------------------
(***************************************************************************)
(* AgentSysPerf for TLC.  Three levels are the fewest at which a gain can  *)
(* collapse; 22 tasks the fewest whose p99 can be 1.5 times their p95.     *)
(***************************************************************************)
EXTENDS AgentSysPerf

MCPlans == {[kind |-> "sweep", levels |-> l, reps |-> 1] : l \in {<<1, 2, 4>>, <<4, 1, 2>>, <<1, 2, 2>>}}
             \cup {[kind |-> "sweep", levels |-> <<1, 2>>, reps |-> 2],
                  [kind |-> "sweep", levels |-> <<>>, reps |-> 1]}
MCThroughputs == {0, 20, 21, 40}
Tail22 == [i \in 1..22 |-> IF i = 7 THEN 9 ELSE 1]
MCLatencySeqs == {<<>>, <<0>>, <<9, 2>>, Tail22}

MCWorkloadOf == <<"webarena", "webarena", "osworld">>
MCResults ==
  {r \in [total : {0, 2}, completed : {0, 1, 2}, runtime : {0, 6}, vcpus : {0, 4},
          agents : {2}, latencies : {None, <<1, 8>>}] : r.completed <= r.total}
\* No threshold, each alone, or all of them.
MCSlos ==
  {t \in [p95 : {None, 500}, success : {None, 75}, cost : {None, 20}] :
     Cardinality({x \in {"p95", "success", "cost"} : t[x] = None}) # 1}
MCCost == [hourly |-> 5, package |-> 2, dram |-> None, price |-> 1]
=============================================================================
