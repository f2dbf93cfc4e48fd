---------------------------- MODULE MCStateStore ----------------------------
(* Bounded instances of StateStore for TLC. *)
EXTENDS StateStore, TLC

Every == AllFaults

Symmetry == Permutations(Procs) \cup Permutations(Changes)
=============================================================================
