------------------------------ MODULE Register ------------------------------
(***************************************************************************)
(* The registry as the commands see it (internal/app/service.go): a value  *)
(* that only the holder of a lock reads and replaces, in one step, by what *)
(* it was with one more change; a power loss may take it back to the last  *)
(* value that was safely on disk.                                          *)
(***************************************************************************)
CONSTANTS Procs, Changes, NoProc

VARIABLES holder, value, safe
vars == <<holder, value, safe>>

Init == holder = NoProc /\ value = {} /\ safe = {}

Acquire(p) == holder = NoProc /\ holder' = p /\ UNCHANGED <<value, safe>>
Release(p) == holder = p /\ holder' = NoProc /\ UNCHANGED <<value, safe>>
Update(p) ==
  /\ holder = p /\ UNCHANGED <<holder, safe>>
  /\ \E c \in Changes \ value : value' = value \cup {c}

\* The value a power loss may take the registry back to catches up with it.
Settle == safe' = value /\ UNCHANGED <<holder, value>>
PowerLoss == holder' = NoProc /\ value' \in {value, safe} /\ safe' = value'

Next == (\E p \in Procs : Acquire(p) \/ Release(p) \/ Update(p)) \/ Settle \/ PowerLoss

Spec == Init /\ [][Next]_vars
=============================================================================
