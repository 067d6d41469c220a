--------------------------- MODULE MCPerTaskEmon ---------------------------
(* PerTaskEmon for TLC: the order of the tasks does not matter. *)
EXTENDS PerTaskEmon, TLC

Symmetry == Permutations(Task)
=============================================================================
