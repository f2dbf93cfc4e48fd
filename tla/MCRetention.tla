---------------------------- MODULE MCRetention ----------------------------
(* Bounded instances of Retention for TLC. *)
EXTENDS Retention, TLC

CONSTANTS i1, i2, i3, u1, u2

\* Two of the three projects are worktrees of one service.
Shared == i1 :> u1 @@ i2 :> u1 @@ i3 :> u2
=============================================================================
