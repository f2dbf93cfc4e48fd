---------------------------- MODULE MCScheduler ----------------------------
(* Bounded instance of Scheduler for TLC. *)
EXTENDS Scheduler, TLC

Alike == Permutations(Processes) \cup Permutations(Binaries)
=============================================================================
