------------------------------ MODULE Lifecycle ------------------------------
(***************************************************************************)
(* The commands of tailpreview (internal/app/service.go) as transactions   *)
(* over the three stores they must keep in step and that share no          *)
(* transaction: the registry file, Caddy, and Tailscale Serve.  Every      *)
(* command runs under one cross-process file lock, performs its external   *)
(* calls one at a time, and compensates when a later call fails.           *)
(*                                                                         *)
(* One step of an agent is one external call (Caddy.Apply, Expose, Remove, *)
(* Verify, Save) with the branch the handler takes on its result.  Data    *)
(* is abstracted: a project root is an id, the routes, health checks and   *)
(* settings of a configuration are a revision, and a gateway port is the   *)
(* external port it is derived from (gatewayFor is a bijection).  Time is  *)
(* not here: the least recently used victim, the set of expired previews   *)
(* and the set of stale reservations are any sets the guards allow.  The   *)
(* access logs that feed that clock are no part of this state.             *)
(***************************************************************************)
EXTENDS Naturals, FiniteSets

CONSTANTS
  Agents,        \* running tailpreview processes
  Timers,        \* those the scheduler starts: they only run gc
  Ids,           \* preview ids, one per project root
  Ports,         \* the external port pool
  Revs,          \* distinguishable configurations of a project
  BusyGateways,  \* ports whose gateway another local program listens on
  FaultKinds,    \* the faults the environment may inject
  NoAgent

NoPort == 0

AllFaults == {"crash", "torn", "ambiguous", "public", "rollback", "caddyDies", "foreign"}

ASSUME LifecycleAssumption ==
  /\ Timers \subseteq Agents
  /\ Ports \subseteq Nat \ {NoPort}
  /\ FaultKinds \subseteq AllFaults
  /\ NoAgent \notin Agents

VARIABLES
  lock,      \* holder of registry.lock
  registry,  \* registry.json
  loaded,    \* the servers Caddy runs; Caddy is running iff there is one
  file,      \* the servers in caddy.json
  serve,     \* per pool port, who configured it in Tailscale Serve
  pc,        \* per agent, the next call of its command
  tx,        \* per agent, the local variables of its command
  faults     \* whether a fault was injected, or they are over

env == <<registry, loaded, file, serve>>
vars == <<lock, registry, loaded, file, serve, pc, tx, faults>>
-----------------------------------------------------------------------------
Preview == [id : Ids, port : Ports, rev : Revs, pinned : BOOLEAN]
Server  == [id : Ids, port : Ports, rev : Revs]
Registry == [previews : SUBSET Preview, res : [Ids -> Ports \cup {NoPort}]]
Tx == [kind : {"none", "up", "down", "gc", "edit"}, old : Registry, new : Registry,
       port : Ports \cup {NoPort}, todo : SUBSET Ports]
PCs == {"idle", "loaded", "apply", "expose", "verify", "drop", "save",
        "undrop", "undoapply", "reexpose"}

PortsOf(previews) == {v.port : v \in previews}
IdsOf(previews)   == {v.id : v \in previews}
WithoutIDKeepsOld(previews, id) == previews
WithoutID(previews, id) == {v \in previews : v.id # id}

\* up and down record the port they used for a later up of the same project.
ReserveOnce(res, id, p) == IF res[id] = NoPort THEN [res EXCEPT ![id] = p] ELSE res
Reserve(res, id, p) == [res EXCEPT ![id] = p]

\* The Caddy configuration generated for a set of previews.
GenerateWithoutRoutes(previews) == {[id |-> v.id, port |-> v.port] : v \in previews}
Generate(previews) == {[id |-> v.id, port |-> v.port, rev |-> v.rev] : v \in previews}

NewRegistry == [previews |-> {}, res |-> [i \in Ids |-> NoPort]]
NoTx == [kind |-> "none", old |-> NewRegistry, new |-> NewRegistry, port |-> NoPort, todo |-> {}]

Init ==
  /\ lock = NoAgent
  /\ registry = NewRegistry
  /\ loaded = {} /\ file = {}
  /\ serve \in [Ports -> {"none", "foreign"}]
  /\ pc = [a \in Agents |-> "idle"]
  /\ tx = [a \in Agents |-> NoTx]
  /\ faults = "none"
-----------------------------------------------------------------------------
(* Faults, and the moves every command shares.                             *)

MayFail == faults # "over"
Strike(kind) == MayFail /\ kind \in FaultKinds /\ faults' = "some"

Goto(a, label) == pc' = [pc EXCEPT ![a] = label] /\ UNCHANGED lock

\* The command returns: the deferred Close releases the lock.
Return(a) ==
  /\ pc' = [pc EXCEPT ![a] = "idle"]
  /\ tx' = [tx EXCEPT ![a] = NoTx]
  /\ lock' = IF lock = a THEN NoAgent ELSE lock

LockFree == lock = NoAgent

LockRegistryShared(a) ==
  /\ pc[a] = "idle"
  /\ lock' = a
  /\ pc' = [pc EXCEPT ![a] = "loaded"]
  /\ tx' = [tx EXCEPT ![a] = [NoTx EXCEPT !.old = registry]]
  /\ UNCHANGED <<env, faults>>

LockRegistry(a) ==
  /\ pc[a] = "idle" /\ LockFree
  /\ lock' = a
  /\ pc' = [pc EXCEPT ![a] = "loaded"]
  /\ tx' = [tx EXCEPT ![a] = [NoTx EXCEPT !.old = registry]]
  /\ UNCHANGED <<env, faults>>

\* The command has read what it needs: label is its first call.
BeginDropAll(a, label, kind, new, port) ==
  /\ Goto(a, label)
  /\ tx' = [tx EXCEPT ![a] = [kind |-> kind, old |-> @.old, new |-> new, port |-> port,
                todo |-> IF kind = "gc" THEN PortsOf(@.old.previews)
                         ELSE PortsOf(@.old.previews) \ PortsOf(new.previews)]]
  /\ UNCHANGED <<env, faults>>
Begin(a, label, kind, new, port) ==
  /\ Goto(a, label)
  /\ tx' = [tx EXCEPT ![a] = [kind |-> kind, old |-> @.old, new |-> new, port |-> port,
                todo |-> PortsOf(@.old.previews) \ PortsOf(new.previews)]]
  /\ UNCHANGED <<env, faults>>

\* Not found, no port, Tailscale down, a health check failed: nothing changed yet.
Abort(a) == pc[a] = "loaded" /\ Return(a) /\ UNCHANGED <<env, faults>>

-----------------------------------------------------------------------------
(* Caddy.Apply, with the result the caller sees.                           *)

Running == loaded # {}
CurrentByPort(want) == want # {} /\ PortsOf(file) = PortsOf(want) /\ Running
CurrentWithoutProbe(want) == want # {} /\ file = want
Current(want) == want # {} /\ file = want /\ Running

ApplyOk(want) ==
  \/ want = {} /\ loaded' = {} /\ UNCHANGED file
  \/ Current(want) /\ UNCHANGED <<loaded, file>>
  \/ want # {} /\ ~Current(want) /\ loaded' = want /\ file' = want

\* The error comes after Caddy took the configuration: a lost answer to
\* /load or /stop, a late start, or a failed write of caddy.json.
ApplyTorn(want) ==
  /\ ~Current(want) /\ loaded' = want /\ UNCHANGED file
  /\ Strike("torn")

Apply(a) ==
  LET want == Generate(tx[a].new.previews) IN
  /\ pc[a] = "apply"
  /\ \/ /\ ApplyOk(want)
        /\ Goto(a, IF tx[a].kind = "up" THEN "expose" ELSE IF tx[a].todo = {} THEN "save" ELSE "drop")
        /\ UNCHANGED <<tx, faults>>
     \/ MayFail /\ Return(a) /\ UNCHANGED <<loaded, file, faults>>
     \/ ApplyTorn(want) /\ Return(a)
  /\ UNCHANGED <<registry, serve>>
-----------------------------------------------------------------------------
(* up                                                                      *)

FreeUnusedUnchecked(previews, p) ==
  p \notin BusyGateways /\ p \notin PortsOf(loaded) /\ serve[p] = "none"
FreeServeUnchecked(previews, p) ==
  p \notin PortsOf(previews) /\ p \notin BusyGateways /\ p \notin PortsOf(loaded)
Free(previews, p) ==
  /\ p \notin PortsOf(previews)
  /\ p \notin BusyGateways /\ p \notin PortsOf(loaded)
  /\ serve[p] = "none"

\* The port choosePort returns without evicting anyone; req is --port.
ChosenPort(reg, id, req, p) ==
  IF id \in IdsOf(reg.previews)
  THEN /\ \E v \in reg.previews : v.id = id /\ v.port = p
       /\ req \in {NoPort, p}
  ELSE /\ Free(reg.previews, p)
       /\ req = NoPort =>
            \/ p = reg.res[id]
            \/ /\ \A q \in Ports : Free(reg.previews, q) => p <= q
               /\ reg.res[id] \in Ports => ~Free(reg.previews, reg.res[id])
       /\ req \in {NoPort, p}

\* The preview choosePort evicts when no port of the pool is free.
EvictableIfPinned(reg, id, v) ==
  /\ v \in reg.previews /\ id \notin IdsOf(reg.previews)
  /\ \A q \in Ports : ~Free(reg.previews, q)
Evictable(reg, id, v) ==
  /\ v \in reg.previews /\ ~v.pinned
  /\ id \notin IdsOf(reg.previews)
  /\ \A q \in Ports : ~Free(reg.previews, q)

PruneReservations(reg, stale) ==
  [previews |-> reg.previews, res |-> [i \in Ids |-> IF i \in stale THEN NoPort ELSE reg.res[i]]]

UpPlan(a, id, rev, req, stale) ==
  LET reg == PruneReservations(tx[a].old, stale)
      pinned == \E v \in reg.previews : v.id = id /\ v.pinned
      With(p, kept) ==
        [previews |-> WithoutID(kept, id) \cup
                        {[id |-> id, port |-> p, rev |-> rev, pinned |-> pinned]},
         res |-> Reserve(reg.res, id, p)]
  IN
  /\ pc[a] = "loaded" /\ a \notin Timers
  /\ \E p \in Ports :
       \/ /\ ChosenPort(reg, id, req, p)
          /\ Begin(a, "apply", "up", With(p, reg.previews), p)
       \/ \E v \in reg.previews :
            /\ req = NoPort /\ v.port = p /\ Evictable(reg, id, v)
            /\ Begin(a, "apply", "up", With(p, WithoutID(reg.previews, v.id)), p)

\* Rolling back starts at label with these ports left to expose again.
Undo(a, label, ports) == Goto(a, label) /\ tx' = [tx EXCEPT ![a].todo = ports]

Expose(a) ==
  LET p == tx[a].port IN
  /\ pc[a] = "expose"
  /\ \/ /\ serve' = [serve EXCEPT ![p] = "own"]
        /\ Goto(a, "verify") /\ UNCHANGED <<tx, faults>>
     \/ MayFail /\ Undo(a, "undoapply", {}) /\ UNCHANGED <<serve, faults>>
     \* the 15 s timeout killed the client after the daemon took the change
     \/ /\ Strike("ambiguous") /\ serve' = [serve EXCEPT ![p] = "own"]
        /\ Undo(a, "undoapply", {})
     \* "available on the internet": Expose itself removes the port
     \/ /\ Strike("public") /\ serve' = [serve EXCEPT ![p] = "none"]
        /\ Undo(a, "undoapply", {})
  /\ UNCHANGED <<registry, loaded, file>>

Answers(p) == serve[p] = "foreign" \/ (serve[p] = "own" /\ p \in PortsOf(loaded))

Verify(a) ==
  /\ pc[a] = "verify"
  /\ \/ Answers(tx[a].port) /\ Goto(a, "save") /\ UNCHANGED tx
     \/ Undo(a, "undrop", {})
  /\ UNCHANGED <<env, faults>>
-----------------------------------------------------------------------------
(* down, gc, and the commands that only rewrite the registry               *)

DownPlan(a, id) ==
  LET reg == tx[a].old IN
  /\ pc[a] = "loaded" /\ a \notin Timers
  /\ \E v \in reg.previews :
       /\ v.id = id
       /\ Begin(a, "apply", "down",
                [previews |-> reg.previews \ {v}, res |-> Reserve(reg.res, id, v.port)], NoPort)

\* expired: the previews whose idle time, age or unhealthy grace is over.
GCPlan(a, expired, stale) ==
  LET reg == tx[a].old
      kept == {v \in reg.previews : v.pinned \/ v.id \notin expired}
      gone == reg.previews \ kept
      seen == [previews |-> kept,
               res |-> [i \in Ids |-> IF \E v \in gone : v.id = i
                                      THEN (CHOOSE v \in gone : v.id = i).port ELSE reg.res[i]]]
  IN
  /\ pc[a] = "loaded"
  /\ stale \cap IdsOf(gone) = {} /\ (gone = {} => stale = {})
  /\ Begin(a, "apply", "gc", PruneReservations(seen, stale), NoPort)

SetPinned(a, id, value) ==
  LET reg == tx[a].old
      mark(v) == IF v.id = id THEN [v EXCEPT !.pinned = value] ELSE v
  IN
  /\ pc[a] = "loaded" /\ a \notin Timers
  /\ id \in IdsOf(reg.previews)
  /\ Begin(a, "save", "edit", [previews |-> {mark(v) : v \in reg.previews}, res |-> reg.res], NoPort)

\* list and check save the previews they loaded with fresh metadata only.
Refresh(a) ==
  /\ pc[a] = "loaded" /\ a \notin Timers
  /\ Begin(a, "save", "edit", tx[a].old, NoPort)

RemovedForgotten(a) == {}
\* The ports whose previews the command takes out of the registry.
Removed(a) == PortsOf(tx[a].old.previews) \ PortsOf(tx[a].new.previews)

RemoveIgnoresErrors(a) ==
  \E p \in tx[a].todo :
    /\ pc[a] = "drop" /\ \A q \in tx[a].todo : p <= q
    /\ \/ serve' = [serve EXCEPT ![p] = "none"] /\ UNCHANGED faults
       \/ MayFail /\ UNCHANGED <<serve, faults>>
    /\ tx' = [tx EXCEPT ![a].todo = @ \ {p}]
    /\ Goto(a, IF tx[a].todo = {p} THEN "save" ELSE "drop")
    /\ UNCHANGED <<registry, loaded, file>>
Remove(a) ==
  \E p \in tx[a].todo :
    /\ pc[a] = "drop" /\ \A q \in tx[a].todo : p <= q
    /\ LET failed == IF tx[a].kind = "gc" THEN Removed(a) ELSE {} IN
       \/ /\ serve' = [serve EXCEPT ![p] = "none"]
          /\ tx' = [tx EXCEPT ![a].todo = @ \ {p}]
          /\ Goto(a, IF tx[a].todo = {p} THEN "save" ELSE "drop")
          /\ UNCHANGED faults
       \/ MayFail /\ Undo(a, "undoapply", failed) /\ UNCHANGED <<serve, faults>>
       \/ /\ Strike("ambiguous") /\ serve' = [serve EXCEPT ![p] = "none"]
          /\ Undo(a, "undoapply", failed)
    /\ UNCHANGED <<registry, loaded, file>>

Save(a) ==
  /\ pc[a] = "save"
  /\ \/ registry' = tx[a].new /\ Return(a)
     \/ /\ MayFail /\ UNCHANGED registry
        /\ \/ tx[a].kind = "up" /\ Undo(a, "undrop", {})
           \/ tx[a].kind \in {"down", "gc"} /\ Removed(a) # {} /\ Undo(a, "undoapply", Removed(a))
           \/ tx[a].kind # "up" /\ Removed(a) = {} /\ Return(a)
  /\ UNCHANGED <<loaded, file, serve, faults>>
-----------------------------------------------------------------------------
(* Compensation: every call's error is ignored.                            *)

UndoExpose(a) ==
  /\ pc[a] = "undrop"
  /\ \/ serve' = [serve EXCEPT ![tx[a].port] = "none"] /\ UNCHANGED faults
     \/ Strike("rollback") /\ UNCHANGED serve
  /\ Undo(a, "undoapply", {tx[a].port} \cap PortsOf(tx[a].old.previews))
  /\ UNCHANGED <<registry, loaded, file>>

UndoApply(a) ==
  LET want == Generate(tx[a].old.previews) IN
  /\ pc[a] = "undoapply"
  /\ \/ ApplyOk(want) /\ UNCHANGED faults
     \/ Strike("rollback") /\ UNCHANGED <<loaded, file>>
     \/ ApplyTorn(want)
  /\ IF tx[a].todo = {} THEN Return(a) ELSE Goto(a, "reexpose") /\ UNCHANGED tx
  /\ UNCHANGED <<registry, serve>>

UndoRemove(a) ==
  \E p \in tx[a].todo :
    /\ pc[a] = "reexpose" /\ \A q \in tx[a].todo : p <= q
    /\ \/ serve' = [serve EXCEPT ![p] = "own"] /\ UNCHANGED faults
       \/ Strike("rollback") /\ UNCHANGED serve
    /\ IF tx[a].todo = {p} THEN Return(a) ELSE Undo(a, "reexpose", tx[a].todo \ {p})
    /\ UNCHANGED <<registry, loaded, file>>
-----------------------------------------------------------------------------
(* The environment.                                                        *)

\* A signal or power loss between two calls; the kernel drops the flock.
Crash(a) == pc[a] # "idle" /\ Strike("crash") /\ Return(a) /\ UNCHANGED env

CaddyDies ==
  /\ Running /\ Strike("caddyDies") /\ loaded' = {}
  /\ UNCHANGED <<lock, registry, file, serve, pc, tx>>

\* Another user of Tailscale Serve takes or clears a port of the pool.
ForeignServe(p) ==
  /\ Strike("foreign")
  /\ \E owner \in {"none", "foreign"} : serve' = [serve EXCEPT ![p] = owner]
  /\ UNCHANGED <<lock, registry, loaded, file, pc, tx>>

Command(a) ==
  \/ \E id \in Ids, rev \in Revs, req \in Ports \cup {NoPort}, stale \in SUBSET Ids :
       UpPlan(a, id, rev, req, stale)
  \/ \E id \in Ids : DownPlan(a, id)
  \/ \E expired, stale \in SUBSET Ids : GCPlan(a, expired, stale)
  \/ \E id \in Ids, value \in BOOLEAN : SetPinned(a, id, value)
  \/ Refresh(a)
  \/ Abort(a)

Step(a) ==
  \/ Command(a) \/ Apply(a) \/ Expose(a) \/ Verify(a) \/ Remove(a) \/ Save(a)
  \/ UndoExpose(a) \/ UndoApply(a) \/ UndoRemove(a)

Environment ==
  \/ \E a \in Agents : Crash(a)
  \/ CaddyDies
  \/ \E p \in Ports : ForeignServe(p)

Next ==
  \/ \E a \in Agents : LockRegistry(a) \/ Step(a)
  \/ Environment

Spec == Init /\ [][Next]_vars
-----------------------------------------------------------------------------
(* Once the environment injects no more faults: the basis of the liveness  *)
(* property.  A process that holds the lock keeps running, flock hands the *)
(* lock to the scheduler's gc again and again, and gc runs its plan.       *)

Calm == faults' = "over" /\ UNCHANGED <<lock, env, pc, tx>>

Fairness ==
  /\ \A a \in Agents : WF_vars(Step(a))
  /\ \A a \in Timers : SF_vars(LockRegistry(a))
  /\ \A a \in Timers : SF_vars(\E expired, stale \in SUBSET Ids : GCPlan(a, expired, stale))

FairSpec == Init /\ [][Next \/ Calm]_vars /\ Fairness
-----------------------------------------------------------------------------
(* Properties.                                                             *)

TypeOK ==
  /\ lock \in Agents \cup {NoAgent}
  /\ registry \in Registry
  /\ loaded \subseteq Server /\ file \subseteq Server
  /\ serve \in [Ports -> {"none", "own", "foreign"}]
  /\ pc \in [Agents -> PCs]
  /\ tx \in [Agents -> Tx]
  /\ faults \in {"none", "some", "over"}

\* A preview is identified by its id and owns its port: no two registered
\* previews share either, whatever commands, crashes and faults interleave.
Sound(previews) ==
  \A v, w \in previews : v.id = w.id \/ v.port = w.port => v = w
RegistrySound == Sound(registry.previews)

\* The reservation kept for the id of a live preview is that preview's port,
\* so that up after down, expiry or eviction comes back to the same URL.
ReservationAgrees ==
  \A v \in registry.previews : registry.res[v.id] \in {NoPort, v.port}

\* No command writes over another command's write: whoever changes the
\* registry holds the lock and derived its version from the one on disk.
NoLostUpdate ==
  [][registry' # registry =>
       \E a \in Agents : lock = a /\ pc[a] = "save" /\ tx[a].old = registry]_vars

\* A pinned preview leaves the registry only through a down of that preview:
\* neither gc nor an eviction takes it, even when pin raced with them.
PinnedSurvive ==
  [][\A v \in registry.previews :
       v.pinned /\ v.id \notin IdsOf(registry'.previews) =>
         \E a \in Agents : /\ pc[a] = "save" /\ tx[a].kind = "down"
                           /\ tx[a].new.previews = registry.previews \ {v}]_vars

\* While nothing worse than a plain failure happened, every command that
\* returned, successfully or not, left the three stores in step.
Own == {p \in Ports : serve[p] = "own"}
InStep ==
  faults = "none" /\ LockFree =>
    /\ loaded = Generate(registry.previews)
    /\ Own = PortsOf(registry.previews)

\* The same at every point of a command, for the previews it is not about:
\* they are proxied and exposed throughout.
Bystander(v) ==
  \A a \in Agents : tx[a].kind # "none" => v \in tx[a].new.previews /\ v.port # tx[a].port
BystandersServed ==
  faults = "none" =>
    \A v \in registry.previews :
      Bystander(v) => Generate({v}) \subseteq loaded /\ serve[v.port] = "own"

\* The ports tailpreview goes by as its own: those of registered previews and
\* that of an up at work.
Claimed == PortsOf(registry.previews) \cup {tx[a].port : a \in Agents}

\* No command lays claim to a port that another program uses in Tailscale
\* Serve (choosePort), and no call overwrites or removes what another program
\* configured, unless that program took a port already claimed.
ForeignKept ==
  [][\A p \in Ports : serve[p] = "foreign" /\ p \notin Claimed =>
       /\ p \notin Claimed'
       /\ <<pc, tx>>' # <<pc, tx>> => serve'[p] = "foreign"]_vars

\* A failed up leaves no listener behind: outside a command the ports that
\* tailpreview exposes are those of registered previews.
NoOrphanListener == LockFree => Own \subseteq PortsOf(registry.previews)

\* Seen through the registry alone, every command is one atomic step on the
\* list as it is then, whatever crashes, fails or is rolled back in between.
Outside == INSTANCE Catalog
ImplementsCatalog == Outside!Spec

\* A preview that a command is about to strike off the registry is gone: Caddy
\* does not proxy it any more and Serve does not expose it, also after earlier
\* commands crashed, lost an answer or failed to roll back.
RemovedIsGone ==
  \A a \in Agents :
    pc[a] = "save" => Removed(a) \cap (PortsOf(loaded) \cup Own) = {}

\* What up is about to record as verified is served under the configuration
\* it records, also after earlier commands crashed or failed to roll back.
VerifiedIsServed ==
  \A a \in Agents :
    pc[a] = "save" /\ tx[a].kind = "up" =>
      loaded = Generate(tx[a].new.previews) /\ serve[tx[a].port] = "own"

\* Once faults are over, the periodic gc brings Caddy back to the registry.
CaddyHeals ==
  faults = "over" ~> (LockFree /\ loaded = Generate(registry.previews))
-----------------------------------------------------------------------------
(* Strengthenings for the proofs (LifecycleProofs).                        *)

\* Without a torn Apply, caddy.json is what a running Caddy runs: the
\* comparison that lets Apply skip a reload is then right.
FileIsLoaded == Running => file = loaded

\* Only the holder of the lock is inside a command, and the registry it
\* loaded is the one on disk until it saves.
LockInv ==
  \A a \in Agents : pc[a] # "idle" => lock = a /\ tx[a].old = registry

\* What a plan promises about the registry it is going to save.
Agrees(reg) == \A v \in reg.previews : reg.res[v.id] \in {NoPort, v.port}
KeepsPinned(t) ==
  IF t.kind = "down" THEN \E v \in t.old.previews : t.new.previews = t.old.previews \ {v}
  ELSE \A v \in t.old.previews : v.pinned => v.id \in IdsOf(t.new.previews)
PlanSound(t) == Sound(t.new.previews) /\ Agrees(t.new) /\ KeepsPinned(t)
PlanInv ==
  /\ Sound(registry.previews) /\ Agrees(registry)
  /\ \A a \in Agents : pc[a] \notin {"idle", "loaded"} => PlanSound(tx[a])

\* The ports and servers of the plan against those of the old registry.
PlanShape(t) ==
  LET old == t.old.previews  new == t.new.previews IN
  CASE t.kind = "up"   -> t.port \in Ports /\ PortsOf(new) = PortsOf(old) \cup {t.port}
    [] t.kind = "down" -> /\ t.port = NoPort /\ new \subseteq old
                          /\ \E v \in old : new = old \ {v} /\ v.port \notin PortsOf(new)
    [] t.kind = "gc"   -> t.port = NoPort /\ new \subseteq old
    [] t.kind = "edit" -> /\ t.port = NoPort
                          /\ Generate(new) = Generate(old) /\ PortsOf(new) = PortsOf(old)
    [] OTHER -> FALSE

\* Where Caddy and Serve stand at each point of a command without faults.
At(a) ==
  LET old == tx[a].old.previews  new == tx[a].new.previews  todo == tx[a].todo
      Caddy(previews) == loaded = Generate(previews)
  IN
  CASE pc[a] = "loaded" -> Caddy(old) /\ Own = PortsOf(old)
    [] pc[a] = "apply"  -> /\ Caddy(old) /\ Own = PortsOf(old) /\ todo = Removed(a)
                           /\ tx[a].kind # "edit" /\ (tx[a].kind = "up" => todo = {})
    [] pc[a] = "expose" -> Caddy(new) /\ Own = PortsOf(old) /\ tx[a].kind = "up"
    [] pc[a] \in {"verify", "undrop"} -> Caddy(new) /\ Own = PortsOf(new) /\ tx[a].kind = "up"
    [] pc[a] = "save"   -> Caddy(new) /\ Own = PortsOf(new)
    [] pc[a] = "drop"   -> /\ Caddy(new) /\ Own = PortsOf(new) \cup todo
                           /\ todo \subseteq Removed(a) /\ tx[a].kind \in {"down", "gc"}
                           /\ tx[a].kind = "down" => todo = Removed(a)
    [] pc[a] = "undoapply" -> /\ Caddy(new) /\ Own \cup todo = PortsOf(old)
                              /\ todo \subseteq Removed(a) \cup {tx[a].port}
                              /\ tx[a].kind # "edit"
    [] pc[a] = "reexpose"  -> /\ Caddy(old) /\ Own \cup todo = PortsOf(old)
                              /\ todo \subseteq Removed(a) \cup {tx[a].port}
    [] OTHER -> TRUE

StepInv ==
  /\ \A a \in Agents : pc[a] \notin {"idle", "loaded"} => PlanShape(tx[a])
  /\ \A a \in Agents : pc[a] = "idle" => tx[a] = NoTx
  /\ lock # NoAgent => pc[lock] # "idle"
  /\ faults = "none" =>
       /\ Running => file = loaded
       /\ LockFree => loaded = Generate(registry.previews) /\ Own = PortsOf(registry.previews)
       /\ \A a \in Agents : At(a)
=============================================================================
