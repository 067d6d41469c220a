------------------------------- MODULE Orders -------------------------------
(***************************************************************************)
(* What the code takes from Python's sorted(): a stable order by key.      *)
(* The SortSeq of the TLC module promises no stability and, being          *)
(* evaluated by TLC alone, has no definition a proof could use.            *)
(***************************************************************************)
EXTENDS Integers, FiniteSets

\* Position i comes before position j: by key, then as it stands.
Before(keys, i, j) == keys[i] < keys[j] \/ (keys[i] = keys[j] /\ i < j)

\* The k-th position is the one that k - 1 others come before.
SortOrder(keys) ==
  [k \in DOMAIN keys |->
     CHOOSE i \in DOMAIN keys : Cardinality({j \in DOMAIN keys : Before(keys, j, i)}) = k - 1]
=============================================================================
