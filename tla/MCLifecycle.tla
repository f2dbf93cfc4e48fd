----------------------------- MODULE MCLifecycle -----------------------------
(* Small instances of Lifecycle for TLC. *)
EXTENDS Lifecycle, TLC

OnePort == {1}
TwoPorts == {1, 2}
ThreePorts == {1, 2, 3}

NoFaults    == {}
EveryFault  == AllFaults
Lost        == {"crash", "ambiguous", "public", "rollback"}
Repairable  == {"crash", "rollback", "caddyDies"}
TornOnly    == {"torn"}
AmbigOnly   == {"ambiguous"}

\* Ids, revisions and agents are interchangeable where no timer is told apart.
Symmetry == Permutations(Ids) \cup Permutations(Revs) \cup Permutations(Agents)
=============================================================================
