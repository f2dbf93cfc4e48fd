------------------------------- MODULE Catalog -------------------------------
(***************************************************************************)
(* What the commands of internal/app/service.go promise about the list of  *)
(* previews, seen from outside: each command takes effect in one step, on  *)
(* the list as it is at that moment, or not at all.  Caddy, Tailscale,     *)
(* locks, crashes and rollbacks are no part of it.  Lifecycle implements   *)
(* this specification.                                                     *)
(***************************************************************************)
EXTENDS FiniteSets

CONSTANTS
  Ids, Ports, Revs,
  NoPort    \* no port is reserved

VARIABLE registry   \* [previews, res]: the previews, and the port reserved per id

Init == registry = [previews |-> {}, res |-> [i \in Ids |-> NoPort]]

previews == registry.previews
res == registry.res

Preview(id, rev, p, pinned) == [id |-> id, port |-> p, rev |-> rev, pinned |-> pinned]

\* The reservations after a command: ids have those of their previews in
\* reserved, others may have been pruned.
Reserve(reserved) ==
  /\ registry'.res \in [Ids -> Ports \cup {NoPort}]
  /\ \A v \in reserved : registry'.res[v.id] = v.port
  /\ \A i \in Ids \ {v.id : v \in reserved} : registry'.res[i] \in {res[i], NoPort}

Put(kept, v) == registry'.previews = kept \cup {v} /\ Reserve({v})

\* up: a known project keeps its port and its pin ...
Update(v, rev) == Put(previews \ {v}, Preview(v.id, rev, v.port, v.pinned))

\* ... a new one gets a port of its own ...
Unknown(id) == \A v \in previews : v.id # id
Add(id, rev, p) ==
  /\ Unknown(id) /\ \A v \in previews : v.port # p
  /\ Put(previews, Preview(id, rev, p, FALSE))

\* ... or the port of one unpinned preview, which goes.
Evict(id, rev, v) ==
  /\ Unknown(id) /\ ~v.pinned
  /\ Put(previews \ {v}, Preview(id, rev, v.port, FALSE))

Down(v) ==
  registry' = [previews |-> previews \ {v}, res |-> [res EXCEPT ![v.id] = v.port]]

\* gc: any unpinned previews, each of which leaves its port reserved.
Expire(gone) ==
  /\ gone # {} /\ \A v \in gone : ~v.pinned
  /\ registry'.previews = previews \ gone /\ Reserve(gone)

Pin(v, value) ==
  registry' = [registry EXCEPT !.previews = (@ \ {v}) \cup {[v EXCEPT !.pinned = value]}]

Next ==
  \/ \E id \in Ids, rev \in Revs, p \in Ports : Add(id, rev, p)
  \/ \E v \in previews, id \in Ids, rev \in Revs : Update(v, rev) \/ Evict(id, rev, v)
  \/ \E v \in previews, value \in BOOLEAN : Down(v) \/ Pin(v, value)
  \/ \E gone \in SUBSET previews : Expire(gone)

Spec == Init /\ [][Next]_registry
=============================================================================
