----------------------------- MODULE MCPrefetch -----------------------------
(* Prefetch for TLC: invocations are interchangeable. *)
EXTENDS Prefetch, TLC

Symmetry == Permutations(Process)
=============================================================================
