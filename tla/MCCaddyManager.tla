--------------------------- MODULE MCCaddyManager ---------------------------
(* Bounded instances of CaddyManager for TLC. *)
EXTENDS CaddyManager, TLC

Every == AllFaults

Symmetry == Permutations(Configs) \cup Permutations(Procs)
=============================================================================
