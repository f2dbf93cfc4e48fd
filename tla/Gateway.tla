------------------------------- MODULE Gateway -------------------------------
(***************************************************************************)
(* What the commands of tailpreview rely on when they call Caddy.Apply     *)
(* (internal/app/service.go): Caddy takes the wanted configuration or      *)
(* keeps the one it has, caddy.json follows, and a failed call may have    *)
(* taken effect.  CaddyManager implements it, and the Apply of Lifecycle   *)
(* is its call in a single step.                                           *)
(***************************************************************************)
CONSTANTS Configs, Nothing

VARIABLES loaded, file, want, answer, strayed
vars == <<loaded, file, want, answer, strayed>>

MaybeConfigs == Configs \cup {Nothing}

Init ==
  /\ loaded = Nothing /\ file = Nothing
  /\ want = Nothing /\ answer = "none"
  /\ strayed = FALSE

\* The call begins: it is pending until it answers.
Ask(c) ==
  /\ answer # "pending"
  /\ want' = c /\ answer' = "pending"
  /\ UNCHANGED <<loaded, file>>

Current == file = want /\ loaded # Nothing

\* Caddy takes the configuration; the comparison with caddy.json spares it
\* the one it is believed to run.
Take ==
  /\ answer = "pending" /\ ~Current
  /\ loaded' = want
  /\ UNCHANGED <<file, want, answer>>

\* Caddy.Apply returns nil.  Caddy may have died since it took the change.
Succeed ==
  /\ answer = "pending" /\ answer' = "ok" /\ want' = Nothing
  /\ \/ want = Nothing /\ loaded = Nothing /\ UNCHANGED file
     \/ want # Nothing /\ Current /\ UNCHANGED file
     \/ want # Nothing /\ loaded \in {want, Nothing} /\ file' = want
  /\ UNCHANGED loaded

\* Caddy.Apply returns an error, whatever it has done, or its caller dies.
Fail ==
  /\ answer = "pending"
  /\ answer' \in {"err", "none"} /\ want' = Nothing
  /\ UNCHANGED <<loaded, file>>

Dies == loaded' = Nothing /\ UNCHANGED <<file, want, answer>>

Step == (\E c \in MaybeConfigs : Ask(c)) \/ Take \/ Succeed \/ Fail \/ Dies

\* Once two Caddy processes may be alive, nothing is promised.
Next == (Step /\ UNCHANGED strayed) \/ strayed'

Spec == Init /\ [][Next]_vars
=============================================================================
