--------------------------- MODULE LifecycleProofs ---------------------------
(***************************************************************************)
(* Theorems about Lifecycle, for any agents, ids, ports, revisions and     *)
(* fault kinds.                                                            *)
(***************************************************************************)
EXTENDS Lifecycle, TLAPS

USE LifecycleAssumption
-----------------------------------------------------------------------------
(* What the operators return.                                              *)

\* An empty registry and an idle agent's locals are well-typed.
LEMMA NoTxType == NewRegistry \in Registry /\ NoTx \in Tx
  BY DEF NewRegistry, NoTx, Registry, Tx

\* Generate yields servers, and the ports of previews are ports.
LEMMA GenerateType ==
  ASSUME NEW previews \in SUBSET Preview
  PROVE  Generate(previews) \in SUBSET Server /\ PortsOf(previews) \in SUBSET Ports
  BY DEF Generate, Preview, Server, PortsOf

\* Reserve keeps a table of reservations.
LEMMA ReserveType ==
  ASSUME NEW res \in [Ids -> Ports \cup {NoPort}], NEW id \in Ids, NEW p \in Ports
  PROVE  Reserve(res, id, p) \in [Ids -> Ports \cup {NoPort}]
  BY DEF Reserve

\* Pruning keeps a registry, and its previews.
LEMMA PruneType ==
  ASSUME NEW reg \in Registry, NEW stale
  PROVE  /\ PruneReservations(reg, stale) \in Registry
         /\ PruneReservations(reg, stale).previews = reg.previews
  BY DEF PruneReservations, Registry
-----------------------------------------------------------------------------
(* The steps shared by the commands keep the types.                        *)

\* Return keeps the types of what it changes.
LEMMA ReturnType ==
  ASSUME TypeOK, NEW a \in Agents, Return(a)
  PROVE  /\ lock' \in Agents \cup {NoAgent}
         /\ pc' \in [Agents -> PCs]
         /\ tx' \in [Agents -> Tx]
  BY NoTxType DEF TypeOK, Return, PCs

\* Starting or continuing a rollback keeps the types of what it changes.
LEMMA UndoType ==
  ASSUME TypeOK, NEW a \in Agents, NEW label \in PCs, NEW ports \in SUBSET Ports,
         Undo(a, label, ports)
  PROVE  /\ lock' \in Agents \cup {NoAgent}
         /\ pc' \in [Agents -> PCs]
         /\ tx' \in [Agents -> Tx]
  <1>1. [tx[a] EXCEPT !.todo = ports] \in Tx
    BY DEF TypeOK, Tx
  <1>2. tx' = [tx EXCEPT ![a] = [tx[a] EXCEPT !.todo = ports]]
    BY DEF Undo
  <1>3. QED
    BY <1>1, <1>2 DEF TypeOK, Undo, Goto

\* A plan keeps all types when what it is going to save is a registry.
LEMMA BeginType ==
  ASSUME TypeOK, NEW a \in Agents, NEW label \in PCs, NEW new \in Registry,
         NEW kind \in {"up", "down", "gc", "edit"}, NEW port \in Ports \cup {NoPort},
         Begin(a, label, kind, new, port)
  PROVE  TypeOK'
  <1> DEFINE t == [kind |-> kind, old |-> tx[a].old, new |-> new, port |-> port,
                   todo |-> PortsOf(tx[a].old.previews) \ PortsOf(new.previews)]
  <1>1. tx[a].old \in Registry /\ tx[a].old.previews \in SUBSET Preview
    BY DEF TypeOK, Tx, Registry
  <1>2. t \in Tx
    BY <1>1, GenerateType DEF Tx
  <1>3. tx' = [tx EXCEPT ![a] = t]
    BY DEF Begin
  <1>4. tx' \in [Agents -> Tx]
    BY <1>2, <1>3 DEF TypeOK
  <1>5. QED
    BY <1>4 DEF TypeOK, Begin, Goto, env

\* A successful Apply keeps the types of Caddy and caddy.json.
LEMMA ApplyOkType ==
  ASSUME TypeOK, NEW want \in SUBSET Server, ApplyOk(want)
  PROVE  loaded' \subseteq Server /\ file' \subseteq Server
  BY DEF TypeOK, ApplyOk

\* So does one whose answer is lost.
LEMMA ApplyTornType ==
  ASSUME TypeOK, NEW want \in SUBSET Server, ApplyTorn(want)
  PROVE  loaded' \subseteq Server /\ file' \subseteq Server /\ faults' = "some"
  BY DEF TypeOK, ApplyTorn, Strike
-----------------------------------------------------------------------------
\* The initial stores are well-typed.
LEMMA InitType == Init => TypeOK
  BY NoTxType DEF Init, TypeOK, PCs, Registry, NewRegistry, Preview, Server

\* Every command's plan keeps the types.
LEMMA PlanType ==
  ASSUME TypeOK, NEW a \in Agents, Command(a)
  PROVE  TypeOK'
  <1>0. tx[a].old \in Registry /\ tx[a].old.previews \in SUBSET Preview
    BY DEF TypeOK, Tx, Registry
  <1>1. ASSUME NEW id \in Ids, NEW rev \in Revs, NEW req \in Ports \cup {NoPort},
               NEW stale \in SUBSET Ids, UpPlan(a, id, rev, req, stale)
        PROVE  TypeOK'
    <2> DEFINE reg == PruneReservations(tx[a].old, stale)
               pinned == \E v \in reg.previews : v.id = id /\ v.pinned
               With(p, kept) ==
                 [previews |-> WithoutID(kept, id) \cup
                        {[id |-> id, port |-> p, rev |-> rev, pinned |-> pinned]},
                  res |-> Reserve(reg.res, id, p)]
    <2>1. reg \in Registry
      BY <1>0, PruneType
    <2>2. ASSUME NEW p \in Ports, NEW kept \in SUBSET Preview
          PROVE  With(p, kept) \in Registry
      <3>1. [id |-> id, port |-> p, rev |-> rev, pinned |-> pinned] \in Preview
        BY DEF Preview
      <3>2. WithoutID(kept, id) \in SUBSET Preview
        BY DEF WithoutID
      <3>3. Reserve(reg.res, id, p) \in [Ids -> Ports \cup {NoPort}]
        BY <2>1, ReserveType DEF Registry
      <3>4. QED
        BY <3>1, <3>2, <3>3 DEF Registry
    <2>3. PICK p \in Ports, kept \in SUBSET Preview : Begin(a, "apply", "up", With(p, kept), p)
      <3>1. reg.previews \in SUBSET Preview
        BY <2>1 DEF Registry
      <3>2. \A v : WithoutID(reg.previews, v.id) \in SUBSET Preview
        BY <3>1 DEF WithoutID
      <3>3. QED
        BY <1>1, <3>1, <3>2 DEF UpPlan
    <2>4. QED
      BY <2>2, <2>3, BeginType DEF PCs
  <1>2. ASSUME NEW id \in Ids, DownPlan(a, id)
        PROVE  TypeOK'
    <2>1. PICK v \in tx[a].old.previews :
            Begin(a, "apply", "down", [previews |-> tx[a].old.previews \ {v},
                    res |-> Reserve(tx[a].old.res, id, v.port)], NoPort)
      BY <1>2 DEF DownPlan
    <2>2. [previews |-> tx[a].old.previews \ {v},
           res |-> Reserve(tx[a].old.res, id, v.port)] \in Registry
      BY <1>0, ReserveType DEF Registry, Preview
    <2>3. QED
      BY <2>1, <2>2, BeginType DEF PCs
  <1>3. ASSUME NEW expired \in SUBSET Ids, NEW stale \in SUBSET Ids, GCPlan(a, expired, stale)
        PROVE  TypeOK'
    <2> DEFINE reg == tx[a].old
               kept == {v \in reg.previews : v.pinned \/ v.id \notin expired}
               gone == reg.previews \ kept
               res  == [i \in Ids |-> IF \E v \in gone : v.id = i
                                      THEN (CHOOSE v \in gone : v.id = i).port ELSE reg.res[i]]
               seen == [previews |-> kept, res |-> res]
    <2>1. ASSUME NEW i \in Ids
          PROVE  res[i] \in Ports \cup {NoPort}
      <3>1. CASE \E v \in gone : v.id = i
        <4>1. (CHOOSE v \in gone : v.id = i) \in gone
          BY <3>1
        <4>2. QED
          BY <1>0, <3>1, <4>1 DEF Preview
      <3>2. CASE ~\E v \in gone : v.id = i
        BY <1>0, <3>2 DEF Registry
      <3>3. QED
        BY <3>1, <3>2
    <2>2. res \in [Ids -> Ports \cup {NoPort}]
      BY <2>1
    <2>3. seen \in Registry
      BY <1>0, <2>2 DEF Registry
    <2>4. Begin(a, "apply", "gc", PruneReservations(seen, stale), NoPort)
      BY <1>3 DEF GCPlan
    <2>5. QED
      BY <2>3, <2>4, PruneType, BeginType DEF PCs
  <1>4. ASSUME NEW id \in Ids, NEW value \in BOOLEAN, SetPinned(a, id, value)
        PROVE  TypeOK'
    <2> DEFINE mark(v) == IF v.id = id THEN [v EXCEPT !.pinned = value] ELSE v
               new == [previews |-> {mark(v) : v \in tx[a].old.previews}, res |-> tx[a].old.res]
    <2>1. new \in Registry
      BY <1>0 DEF Registry, Preview
    <2>2. Begin(a, "save", "edit", new, NoPort)
      BY <1>4 DEF SetPinned
    <2>3. QED
      BY <2>1, <2>2, BeginType DEF PCs
  <1>5. CASE Refresh(a)
    BY <1>0, <1>5, BeginType DEF Refresh, PCs
  <1>6. CASE Abort(a)
    BY <1>6, ReturnType DEF Abort, TypeOK, env
  <1>7. QED
    BY <1>1, <1>2, <1>3, <1>4, <1>5, <1>6 DEF Command

\* Every step keeps the types.
LEMMA NextType == TypeOK /\ [Next]_vars => TypeOK'
  <1> SUFFICES ASSUME TypeOK, [Next]_vars
               PROVE  TypeOK'
    OBVIOUS
  <1>0. ASSUME NEW a \in Agents
        PROVE  /\ tx[a] \in Tx /\ tx[a].todo \in SUBSET Ports
               /\ tx[a].old \in Registry /\ tx[a].new \in Registry
               /\ tx[a].old.previews \in SUBSET Preview
               /\ tx[a].new.previews \in SUBSET Preview
               /\ Generate(tx[a].old.previews) \in SUBSET Server
               /\ Generate(tx[a].new.previews) \in SUBSET Server
               /\ PortsOf(tx[a].old.previews) \in SUBSET Ports
               /\ Removed(a) \in SUBSET Ports
    <2>1. /\ tx[a] \in Tx /\ tx[a].todo \in SUBSET Ports
          /\ tx[a].old \in Registry /\ tx[a].new \in Registry
      BY DEF TypeOK, Tx
    <2>2. tx[a].old.previews \in SUBSET Preview /\ tx[a].new.previews \in SUBSET Preview
      BY <2>1 DEF Registry
    <2>3. QED
      BY <2>1, <2>2, GenerateType DEF Removed
  <1>1. ASSUME NEW a \in Agents, LockRegistry(a)
        PROVE  TypeOK'
    <2>1. [NoTx EXCEPT !.old = registry] \in Tx
      BY NoTxType DEF Tx, TypeOK
    <2>2. QED
      BY <1>1, <2>1 DEF LockRegistry, TypeOK, PCs, env
  <1>2. ASSUME NEW a \in Agents, Command(a)
        PROVE  TypeOK'
    BY <1>2, PlanType
  <1>3. ASSUME NEW a \in Agents, Apply(a)
        PROVE  TypeOK'
    <2> DEFINE want == Generate(tx[a].new.previews)
    <2>1. CASE ApplyOk(want) /\ Goto(a, IF tx[a].kind = "up" THEN "expose"
                              ELSE IF tx[a].todo = {} THEN "save" ELSE "drop")
                             /\ UNCHANGED <<tx, faults>>
      BY <1>0, <1>3, <2>1, ApplyOkType DEF Apply, TypeOK, Goto, PCs
    <2>2. CASE MayFail /\ Return(a) /\ UNCHANGED <<loaded, file, faults>>
      BY <1>3, <2>2, ReturnType DEF Apply, TypeOK
    <2>3. CASE ApplyTorn(want) /\ Return(a)
      BY <1>0, <1>3, <2>3, ReturnType, ApplyTornType DEF Apply, TypeOK
    <2>4. QED
      BY <1>3, <2>1, <2>2, <2>3 DEF Apply
  <1>4. ASSUME NEW a \in Agents, Expose(a)
        PROVE  TypeOK'
    <2>1. /\ serve' \in [Ports -> {"none", "own", "foreign"}]
          /\ faults' \in {"none", "some", "over"}
      BY <1>4 DEF Expose, TypeOK, Strike
    <2>2. CASE Goto(a, "verify") /\ UNCHANGED tx
      BY <1>4, <2>1, <2>2 DEF Expose, TypeOK, Goto, PCs
    <2>3. CASE Undo(a, "undoapply", {})
      BY <1>4, <2>1, <2>3, UndoType DEF Expose, TypeOK, PCs
    <2>4. QED
      BY <1>4, <2>2, <2>3 DEF Expose
  <1>5. ASSUME NEW a \in Agents, Verify(a)
        PROVE  TypeOK'
    <2>1. CASE Goto(a, "save") /\ UNCHANGED tx
      BY <1>5, <2>1 DEF Verify, TypeOK, Goto, PCs, env
    <2>2. CASE Undo(a, "undrop", {})
      BY <1>5, <2>2, UndoType DEF Verify, TypeOK, PCs, env
    <2>3. QED
      BY <1>5, <2>1, <2>2 DEF Verify
  <1>6. ASSUME NEW a \in Agents, Remove(a)
        PROVE  TypeOK'
    <2> DEFINE failed == IF tx[a].kind = "gc" THEN Removed(a) ELSE {}
    <2>0. failed \in SUBSET Ports
      BY <1>0
    <2>1. PICK p \in tx[a].todo :
            \/ /\ serve' = [serve EXCEPT ![p] = "none"]
               /\ tx' = [tx EXCEPT ![a].todo = @ \ {p}]
               /\ Goto(a, IF tx[a].todo = {p} THEN "save" ELSE "drop")
               /\ UNCHANGED faults
            \/ MayFail /\ Undo(a, "undoapply", failed) /\ UNCHANGED <<serve, faults>>
            \/ /\ Strike("ambiguous") /\ serve' = [serve EXCEPT ![p] = "none"]
               /\ Undo(a, "undoapply", failed)
      BY <1>6 DEF Remove
    <2>2. /\ serve' \in [Ports -> {"none", "own", "foreign"}]
          /\ faults' \in {"none", "some", "over"}
      BY <2>1 DEF TypeOK, Strike
    <2>3. CASE /\ tx' = [tx EXCEPT ![a].todo = @ \ {p}]
               /\ Goto(a, IF tx[a].todo = {p} THEN "save" ELSE "drop")
      <3>1. [tx[a] EXCEPT !.todo = tx[a].todo \ {p}] \in Tx
        BY <1>0 DEF Tx
      <3>2. tx' = [tx EXCEPT ![a] = [tx[a] EXCEPT !.todo = tx[a].todo \ {p}]]
        BY <2>3
      <3>3. QED
        BY <1>6, <2>2, <2>3, <3>1, <3>2 DEF Remove, TypeOK, Goto, PCs
    <2>4. CASE Undo(a, "undoapply", failed)
      BY <1>6, <2>0, <2>2, <2>4, UndoType DEF Remove, TypeOK, PCs
    <2>5. QED
      BY <2>1, <2>3, <2>4
  <1>7. ASSUME NEW a \in Agents, Save(a)
        PROVE  TypeOK'
    <2>1. CASE registry' = tx[a].new /\ Return(a)
      BY <1>0, <1>7, <2>1, ReturnType DEF Save, TypeOK
    <2>2. CASE UNCHANGED registry /\ Undo(a, "undrop", {})
      BY <1>7, <2>2, UndoType DEF Save, TypeOK, PCs
    <2>3. CASE UNCHANGED registry /\ Undo(a, "undoapply", Removed(a))
      BY <1>0, <1>7, <2>3, UndoType DEF Save, TypeOK, PCs
    <2>4. CASE UNCHANGED registry /\ Return(a)
      BY <1>7, <2>4, ReturnType DEF Save, TypeOK
    <2>5. QED
      BY <1>7, <2>1, <2>2, <2>3, <2>4 DEF Save
  <1>8. ASSUME NEW a \in Agents, UndoExpose(a)
        PROVE  TypeOK'
    <2>1. {tx[a].port} \cap PortsOf(tx[a].old.previews) \in SUBSET Ports
      BY <1>0
    <2>2. Undo(a, "undoapply", {tx[a].port} \cap PortsOf(tx[a].old.previews))
      BY <1>8 DEF UndoExpose
    <2>3. /\ serve' \in [Ports -> {"none", "own", "foreign"}]
          /\ faults' \in {"none", "some", "over"}
      BY <1>8 DEF UndoExpose, TypeOK, Strike
    <2>4. QED
      BY <1>8, <2>1, <2>2, <2>3, UndoType DEF UndoExpose, TypeOK, PCs
  <1>9. ASSUME NEW a \in Agents, UndoApply(a)
        PROVE  TypeOK'
    <2>1. /\ loaded' \subseteq Server /\ file' \subseteq Server
          /\ faults' \in {"none", "some", "over"}
      BY <1>0, <1>9, ApplyOkType, ApplyTornType DEF UndoApply, TypeOK, Strike
    <2>2. CASE Return(a)
      BY <1>9, <2>1, <2>2, ReturnType DEF UndoApply, TypeOK
    <2>3. CASE Goto(a, "reexpose") /\ UNCHANGED tx
      BY <1>9, <2>1, <2>3 DEF UndoApply, TypeOK, Goto, PCs
    <2>4. QED
      BY <1>9, <2>2, <2>3 DEF UndoApply
  <1>10. ASSUME NEW a \in Agents, UndoRemove(a)
         PROVE  TypeOK'
    <2>1. PICK p \in tx[a].todo :
            /\ \/ serve' = [serve EXCEPT ![p] = "own"] /\ UNCHANGED faults
               \/ Strike("rollback") /\ UNCHANGED serve
            /\ IF tx[a].todo = {p} THEN Return(a) ELSE Undo(a, "reexpose", tx[a].todo \ {p})
      BY <1>10 DEF UndoRemove
    <2>2. /\ serve' \in [Ports -> {"none", "own", "foreign"}]
          /\ faults' \in {"none", "some", "over"}
      BY <2>1 DEF TypeOK, Strike
    <2>3. CASE Return(a)
      BY <1>10, <2>2, <2>3, ReturnType DEF UndoRemove, TypeOK
    <2>4. CASE Undo(a, "reexpose", tx[a].todo \ {p})
      BY <1>0, <1>10, <2>2, <2>4, UndoType DEF UndoRemove, TypeOK, PCs
    <2>5. QED
      BY <2>1, <2>3, <2>4
  <1>11. CASE Environment
    <2>1. ASSUME NEW a \in Agents, Crash(a)
          PROVE  TypeOK'
      BY <2>1, ReturnType DEF Crash, Strike, TypeOK, env
    <2>2. CASE CaddyDies
      BY <2>2 DEF CaddyDies, Strike, TypeOK
    <2>3. ASSUME NEW p \in Ports, ForeignServe(p)
          PROVE  TypeOK'
      BY <2>3 DEF ForeignServe, Strike, TypeOK
    <2>4. QED
      BY <1>11, <2>1, <2>2, <2>3 DEF Environment
  <1>12. CASE UNCHANGED vars
    BY <1>12 DEF vars, TypeOK
  <1>13. QED
    BY <1>1, <1>2, <1>3, <1>4, <1>5, <1>6, <1>7, <1>8, <1>9, <1>10, <1>11, <1>12
       DEF Next, Step

\* Type correctness: every value the commands put into the lock, the three
\* stores and their own locals, under any faults, is one the code can hold.
THEOREM TypeCorrect == Spec => []TypeOK
  BY InitType, NextType, PTL DEF Spec
-----------------------------------------------------------------------------
(* The lock, and what a plan promises.                                     *)

\* A command's step: either its process returns, or it keeps the lock and
\* the plan, and nothing but Save writes the registry.
Frame(a) ==
  /\ \A b \in Agents \ {a} : pc'[b] = pc[b] /\ tx'[b] = tx[b]
  /\ \/ pc'[a] = "idle" /\ tx'[a] = NoTx /\ lock' = IF lock = a THEN NoAgent ELSE lock
     \/ /\ pc'[a] \notin {"idle", "loaded"} /\ lock' = lock
        /\ tx'[a].kind = tx[a].kind /\ tx'[a].old = tx[a].old
        /\ tx'[a].new = tx[a].new /\ tx'[a].port = tx[a].port

\* A returning command touches its own control state only.
LEMMA ReturnFrame ==
  ASSUME TypeOK, NEW a \in Agents, Return(a)
  PROVE  Frame(a) /\ pc'[a] = "idle"
  BY DEF TypeOK, Return, Frame

\* So does one that rolls back,
LEMMA UndoFrame ==
  ASSUME TypeOK, NEW a \in Agents, NEW label \in PCs \ {"idle", "loaded"}, NEW ports,
         Undo(a, label, ports)
  PROVE  Frame(a) /\ pc'[a] = label /\ tx'[a].todo = ports
  <1>1. tx' = [tx EXCEPT ![a] = [tx[a] EXCEPT !.todo = ports]]
    BY DEF Undo
  <1>2. [tx[a] EXCEPT !.todo = ports].todo = ports
    BY DEF TypeOK, Tx
  <1>3. QED
    BY <1>1, <1>2 DEF TypeOK, Tx, Undo, Goto, Frame

\* and one that goes on to its next call.
LEMMA GotoFrame ==
  ASSUME TypeOK, NEW a \in Agents, NEW label \in PCs \ {"idle", "loaded"},
         Goto(a, label), UNCHANGED tx
  PROVE  Frame(a) /\ pc'[a] = label
  BY DEF TypeOK, Goto, Frame

\* No call but Save changes the registry, or what another command works on.
LEMMA StepFrame ==
  ASSUME TypeOK, NEW a \in Agents,
         Apply(a) \/ Expose(a) \/ Verify(a) \/ Remove(a) \/ UndoExpose(a)
           \/ UndoApply(a) \/ UndoRemove(a)
  PROVE  Frame(a) /\ pc[a] \notin {"idle", "loaded"} /\ UNCHANGED registry
  <1>1. CASE Apply(a)
    BY <1>1, ReturnFrame, GotoFrame DEF Apply, PCs
  <1>2. CASE Expose(a)
    BY <1>2, UndoFrame, GotoFrame DEF Expose, PCs
  <1>3. CASE Verify(a)
    BY <1>3, UndoFrame, GotoFrame DEF Verify, PCs, env
  <1>4. CASE Remove(a)
    <2>1. PICK p \in tx[a].todo :
            \/ /\ tx' = [tx EXCEPT ![a].todo = @ \ {p}]
               /\ Goto(a, IF tx[a].todo = {p} THEN "save" ELSE "drop")
            \/ Undo(a, "undoapply", IF tx[a].kind = "gc" THEN Removed(a) ELSE {})
      BY <1>4 DEF Remove
    <2>2. CASE /\ tx' = [tx EXCEPT ![a].todo = @ \ {p}]
               /\ Goto(a, IF tx[a].todo = {p} THEN "save" ELSE "drop")
      BY <1>4, <2>2, UndoFrame DEF Remove, Undo, PCs
    <2>3. QED
      BY <1>4, <2>1, <2>2, UndoFrame DEF Remove, PCs
  <1>5. CASE UndoExpose(a)
    BY <1>5, UndoFrame DEF UndoExpose, PCs
  <1>6. CASE UndoApply(a)
    BY <1>6, ReturnFrame, GotoFrame DEF UndoApply, PCs
  <1>7. CASE UndoRemove(a)
    BY <1>7, ReturnFrame, UndoFrame DEF UndoRemove, PCs
  <1>8. QED
    BY <1>1, <1>2, <1>3, <1>4, <1>5, <1>6, <1>7

\* Save changes the registry, if at all, to the planned one and returns.
LEMMA SaveFrame ==
  ASSUME TypeOK, NEW a \in Agents, Save(a)
  PROVE  /\ Frame(a) /\ pc[a] = "save"
         /\ \/ UNCHANGED registry
            \/ registry' = tx[a].new /\ pc'[a] = "idle"
  <1>1. CASE registry' = tx[a].new /\ Return(a)
    BY <1>1, ReturnFrame DEF Save
  <1>2. CASE UNCHANGED registry /\ Return(a)
    BY <1>2, ReturnFrame DEF Save
  <1>3. CASE /\ UNCHANGED registry
             /\ \E label \in {"undrop", "undoapply"} : \E ports : Undo(a, label, ports)
    BY <1>3, UndoFrame DEF Save, PCs
  <1>4. QED
    BY <1>1, <1>2, <1>3 DEF Save

\* What Begin leaves behind, for the proofs about the plans.
Planned(a, label, kind, new, port) ==
  /\ \A b \in Agents \ {a} : pc'[b] = pc[b] /\ tx'[b] = tx[b]
  /\ pc[a] = "loaded" /\ pc'[a] = label /\ lock' = lock /\ UNCHANGED <<env, faults>>
  /\ tx'[a] = [kind |-> kind, old |-> tx[a].old, new |-> new, port |-> port,
               todo |-> PortsOf(tx[a].old.previews) \ PortsOf(new.previews)]

\* Begin does what Planned says.
LEMMA BeginPlanned ==
  ASSUME TypeOK, NEW a \in Agents, pc[a] = "loaded", NEW label, NEW kind, NEW new, NEW port,
         Begin(a, label, kind, new, port)
  PROVE  Planned(a, label, kind, new, port)
  BY DEF TypeOK, Begin, Goto, Planned

\* WithoutID removes the previews with an id and no others.
LEMMA WithoutIDFacts ==
  ASSUME NEW previews \in SUBSET Preview, NEW id
  PROVE  /\ WithoutID(previews, id) \subseteq previews
         /\ \A v \in previews : v.id # id => v \in WithoutID(previews, id)
         /\ \A v \in WithoutID(previews, id) : v.id # id
  BY DEF WithoutID

\* The registry up is going to save: the others kept, this one at port p.
UpFits(old, kept, id, p, res, mine, new) ==
  /\ old \in SUBSET Preview /\ Sound(old) /\ kept \in SUBSET old
  /\ id \in Ids /\ p \in Ports /\ res \in [Ids -> Ports \cup {NoPort}]
  /\ mine.id = id /\ mine.port = p
  /\ \A v \in kept : v.id # id => v.port # p /\ res[v.id] \in {NoPort, v.port}
  /\ \A v \in old \ kept : v.port = p /\ ~v.pinned
  /\ \A v \in old : v.id = id => v.port = p /\ v \in kept
  /\ new.previews = WithoutID(kept, id) \cup {mine} /\ new.res = Reserve(res, id, p)

\* What up is going to save is sound, agrees with its reservations and keeps
\* what is pinned.
LEMMA UpRegistry ==
  ASSUME NEW old, NEW kept, NEW id, NEW p, NEW res, NEW mine, NEW new,
         UpFits(old, kept, id, p, res, mine, new)
  PROVE  /\ Sound(new.previews) /\ Agrees(new)
         /\ \A v \in old : v.pinned => v.id \in IdsOf(new.previews)
         /\ PortsOf(new.previews) = PortsOf(old) \cup {p}
  <1> USE DEF UpFits
  <1> DEFINE rest == WithoutID(kept, id)
  <1>1. /\ new.previews = rest \cup {mine} /\ new.res = Reserve(res, id, p)
        /\ mine.id = id /\ mine.port = p
    OBVIOUS
  <1>2. /\ rest \subseteq kept /\ rest \subseteq old
        /\ \A v \in rest : v.id # id /\ v.port # p /\ res[v.id] \in {NoPort, v.port}
        /\ \A v \in kept : v.id # id => v \in rest
    BY DEF WithoutID
  <1>3. Sound(new.previews)
    BY <1>1, <1>2 DEF Sound
  <1>4. Agrees(new)
    <2>1. ASSUME NEW v \in rest
          PROVE  new.res[v.id] \in {NoPort, v.port}
      BY <1>1, <1>2 DEF Reserve, Preview
    <2>2. new.res[id] = p
      BY <1>1 DEF Reserve
    <2>3. QED
      BY <1>1, <2>1, <2>2 DEF Agrees
  <1>5. \A v \in old : v.pinned => v.id \in IdsOf(new.previews)
    BY <1>1, <1>2 DEF IdsOf
  <1>6. PortsOf(new.previews) = PortsOf(old) \cup {p}
    <2>1. PortsOf(new.previews) \subseteq PortsOf(old) \cup {p}
      BY <1>1, <1>2 DEF PortsOf
    <2>2. \A v \in old : v.port \in PortsOf(new.previews)
      BY <1>1, <1>2 DEF PortsOf
    <2>3. p \in PortsOf(new.previews)
      BY <1>1 DEF PortsOf
    <2>4. QED
      BY <2>1, <2>2, <2>3 DEF PortsOf
  <1>7. QED
    BY <1>3, <1>4, <1>5, <1>6

\* Pruning keeps the reservations in agreement with the live previews.
LEMMA PruneFacts ==
  ASSUME NEW reg \in Registry, Agrees(reg), NEW stale
  PROVE  Agrees(PruneReservations(reg, stale))
  <1>1. PruneReservations(reg, stale) =
          [previews |-> reg.previews,
           res |-> [i \in Ids |-> IF i \in stale THEN NoPort ELSE reg.res[i]]]
    BY DEF PruneReservations, Registry
  <1>2. \A v \in reg.previews : v.id \in Ids
    BY DEF Registry, Preview
  <1>3. QED
    BY <1>1, <1>2 DEF Agrees

\* The plan of up is a good plan, with or without an eviction.
LEMMA UpPlanned ==
  ASSUME TypeOK, NEW a \in Agents, Sound(tx[a].old.previews), Agrees(tx[a].old),
         NEW id \in Ids, NEW rev \in Revs, NEW req \in Ports \cup {NoPort},
         NEW stale \in SUBSET Ids, UpPlan(a, id, rev, req, stale)
  PROVE  \E new, p : Planned(a, "apply", "up", new, p) /\ PlanSound(tx'[a]) /\ PlanShape(tx'[a])
  <1> DEFINE old == tx[a].old.previews
             reg == PruneReservations(tx[a].old, stale)
             pinned == \E v \in reg.previews : v.id = id /\ v.pinned
             With(p, kept) ==
               [previews |-> WithoutID(kept, id) \cup
                      {[id |-> id, port |-> p, rev |-> rev, pinned |-> pinned]},
                res |-> Reserve(reg.res, id, p)]
  <1>1. /\ reg \in Registry /\ reg.previews = old /\ old \in SUBSET Preview
        /\ reg.res \in [Ids -> Ports \cup {NoPort}]
    BY PruneType DEF TypeOK, Tx, Registry
  <1>2. \A v \in old : reg.res[v.id] \in {NoPort, v.port}
    BY <1>1, PruneFacts DEF Agrees, TypeOK, Tx
  <1>3. PICK p \in Ports :
          \/ ChosenPort(reg, id, req, p) /\ Begin(a, "apply", "up", With(p, reg.previews), p)
          \/ \E v \in reg.previews :
               /\ v.port = p /\ Evictable(reg, id, v)
               /\ Begin(a, "apply", "up", With(p, WithoutID(reg.previews, v.id)), p)
    BY <1>1 DEF UpPlan
  <1>4. PICK kept \in SUBSET old :
          /\ Begin(a, "apply", "up", With(p, kept), p)
          /\ \A v \in kept : v.id # id => v.port # p
          /\ \A v \in old \ kept : v.port = p /\ ~v.pinned
          /\ \A v \in old : v.id = id => v.port = p /\ v \in kept
    <2>1. CASE ChosenPort(reg, id, req, p) /\ Begin(a, "apply", "up", With(p, reg.previews), p)
      <3>1. CASE id \in IdsOf(old)
        <4>1. \E v \in old : v.id = id /\ v.port = p
          BY <1>1, <2>1, <3>1 DEF ChosenPort
        <4>2. \A v \in old : v.id = id <=> v.port = p
          BY <4>1 DEF Sound
        <4>3. QED
          BY <1>1, <2>1, <4>2
      <3>2. CASE id \notin IdsOf(old)
        <4>1. p \notin PortsOf(old)
          BY <1>1, <2>1, <3>2 DEF ChosenPort, Free
        <4>2. \A v \in old : v.id # id /\ v.port # p
          BY <3>2, <4>1 DEF IdsOf, PortsOf
        <4>3. QED
          BY <1>1, <2>1, <4>2
      <3>3. QED
        BY <3>1, <3>2
    <2>2. CASE \E v \in reg.previews :
                 /\ v.port = p /\ Evictable(reg, id, v)
                 /\ Begin(a, "apply", "up", With(p, WithoutID(reg.previews, v.id)), p)
      <3>1. PICK v \in old : /\ v.port = p /\ Evictable(reg, id, v)
                             /\ Begin(a, "apply", "up", With(p, WithoutID(old, v.id)), p)
        BY <1>1, <2>2
      <3>2. ~v.pinned /\ \A w \in old : w.id # id
        BY <1>1, <3>1 DEF Evictable, IdsOf
      <3>3. \A w \in WithoutID(old, v.id) : w.port # p
        BY <3>1 DEF WithoutID, Sound
      <3>4. \A w \in old \ WithoutID(old, v.id) : w = v
        BY DEF WithoutID, Sound
      <3>5. WithoutID(old, v.id) \in SUBSET old
        BY DEF WithoutID
      <3>6. QED
        BY <3>1, <3>2, <3>3, <3>4, <3>5
    <2>3. QED
      BY <1>3, <2>1, <2>2
  <1>5. pinned \in BOOLEAN
    OBVIOUS
  <1> HIDE DEF reg, pinned
  <1>6. /\ Sound(With(p, kept).previews) /\ Agrees(With(p, kept))
        /\ \A v \in old : v.pinned => v.id \in IdsOf(With(p, kept).previews)
        /\ PortsOf(With(p, kept).previews) = PortsOf(old) \cup {p}
    <2> DEFINE mine == [id |-> id, port |-> p, rev |-> rev, pinned |-> pinned]
    <2>1. /\ With(p, kept).previews = WithoutID(kept, id) \cup {mine}
          /\ With(p, kept).res = Reserve(reg.res, id, p)
          /\ mine.id = id /\ mine.port = p
      OBVIOUS
    <2>2. \A v \in kept : v.id # id => v.port # p /\ reg.res[v.id] \in {NoPort, v.port}
      BY <1>2, <1>4
    <2>3. old \in SUBSET Preview
      BY <1>1
    <2>4. Sound(old)
      OBVIOUS
    <2>5. reg.res \in [Ids -> Ports \cup {NoPort}]
      BY <1>1
    <2>6. \A v \in old \ kept : v.port = p /\ ~v.pinned
      BY <1>4
    <2>7. \A v \in old : v.id = id => v.port = p /\ v \in kept
      BY <1>4
    <2>8. kept \in SUBSET old
      OBVIOUS
    <2> HIDE DEF With, old, mine
    <2>9. UpFits(old, kept, id, p, reg.res, mine, With(p, kept))
      BY <2>1, <2>2, <2>3, <2>4, <2>5, <2>6, <2>7, <2>8 DEF UpFits
    <2>10. QED
      BY <2>9, UpRegistry
  <1> HIDE DEF With
  <1>7. Planned(a, "apply", "up", With(p, kept), p)
    <2>1. pc[a] = "loaded"
      BY DEF UpPlan
    <2>2. QED
      BY <1>4, <2>1, BeginPlanned
  <1>8. /\ tx'[a].kind = "up" /\ tx'[a].old = tx[a].old /\ tx'[a].new = With(p, kept)
        /\ tx'[a].port = p
    BY <1>7 DEF Planned
  <1>9. PlanSound(tx'[a]) /\ PlanShape(tx'[a])
    BY <1>6, <1>8 DEF PlanSound, PlanShape, KeepsPinned
  <1>10. QED
    BY <1>7, <1>9

\* So is that of down,
LEMMA DownPlanned ==
  ASSUME TypeOK, NEW a \in Agents, Sound(tx[a].old.previews), Agrees(tx[a].old),
         NEW id \in Ids, DownPlan(a, id)
  PROVE  \E new, p : Planned(a, "apply", "down", new, p) /\ PlanSound(tx'[a]) /\ PlanShape(tx'[a])
  <1> DEFINE old == tx[a].old.previews
  <1>1. /\ tx[a].old \in Registry /\ old \in SUBSET Preview
        /\ tx[a].old.res \in [Ids -> Ports \cup {NoPort}]
    BY DEF TypeOK, Tx, Registry
  <1>2. PICK v \in old :
          /\ v.id = id
          /\ Begin(a, "apply", "down", [previews |-> old \ {v},
                   res |-> Reserve(tx[a].old.res, id, v.port)], NoPort)
    BY DEF DownPlan
  <1> DEFINE new == [previews |-> old \ {v}, res |-> Reserve(tx[a].old.res, id, v.port)]
  <1>3. new.previews = old \ {v} /\ new.res = Reserve(tx[a].old.res, id, v.port)
    OBVIOUS
  <1>4. \A w \in old \ {v} : /\ w.id # id /\ w.port # v.port /\ w.id \in Ids
                             /\ tx[a].old.res[w.id] \in {NoPort, w.port}
    BY <1>1, <1>2 DEF Sound, Preview, Agrees
  <1>5. Sound(new.previews)
    BY <1>3 DEF Sound
  <1>6. Agrees(new)
    BY <1>1, <1>3, <1>4 DEF Agrees, Reserve
  <1>7. v.port \notin PortsOf(new.previews)
    BY <1>3, <1>4 DEF PortsOf
  <1> HIDE DEF new
  <1>8. Planned(a, "apply", "down", new, NoPort)
    BY <1>2, BeginPlanned DEF DownPlan, new
  <1>9. /\ tx'[a].kind = "down" /\ tx'[a].old = tx[a].old /\ tx'[a].new = new
        /\ tx'[a].port = NoPort
    BY <1>8 DEF Planned
  <1>10. PlanSound(tx'[a]) /\ PlanShape(tx'[a])
    BY <1>2, <1>3, <1>5, <1>6, <1>7, <1>9 DEF PlanSound, PlanShape, KeepsPinned
  <1>11. QED
    BY <1>8, <1>10

\* that of gc,
LEMMA GCPlanned ==
  ASSUME TypeOK, NEW a \in Agents, Sound(tx[a].old.previews), Agrees(tx[a].old),
         NEW expired \in SUBSET Ids, NEW stale \in SUBSET Ids, GCPlan(a, expired, stale)
  PROVE  \E new, p : Planned(a, "apply", "gc", new, p) /\ PlanSound(tx'[a]) /\ PlanShape(tx'[a])
  <1> DEFINE old  == tx[a].old.previews
             kept == {v \in old : v.pinned \/ v.id \notin expired}
             gone == old \ kept
             res  == [i \in Ids |-> IF \E v \in gone : v.id = i
                                    THEN (CHOOSE v \in gone : v.id = i).port ELSE tx[a].old.res[i]]
             seen == [previews |-> kept, res |-> res]
             new  == PruneReservations(seen, stale)
  <1>1. /\ tx[a].old \in Registry /\ old \in SUBSET Preview
        /\ tx[a].old.res \in [Ids -> Ports \cup {NoPort}]
    BY DEF TypeOK, Tx, Registry
  <1>2. seen.previews = kept /\ seen.res = res
    OBVIOUS
  <1>3. res \in [Ids -> Ports \cup {NoPort}]
    <2>1. ASSUME NEW i \in Ids
          PROVE  res[i] \in Ports \cup {NoPort}
      <3>1. CASE \E v \in gone : v.id = i
        <4>1. (CHOOSE v \in gone : v.id = i) \in gone
          BY <3>1
        <4>2. QED
          BY <1>1, <3>1, <4>1 DEF Preview
      <3>2. CASE ~\E v \in gone : v.id = i
        BY <1>1, <3>2
      <3>3. QED
        BY <3>1, <3>2
    <2>2. QED
      BY <2>1
  <1>4. seen \in Registry
    BY <1>1, <1>2, <1>3 DEF Registry
  <1>5. \A v \in kept : v.id \in Ids /\ res[v.id] \in {NoPort, v.port}
    <2>1. ASSUME NEW v \in kept
          PROVE  ~\E w \in gone : w.id = v.id
      BY DEF Sound
    <2>2. \A v \in old : v.id \in Ids
      BY <1>1 DEF Preview
    <2>3. QED
      BY <2>1, <2>2 DEF Agrees
  <1>6. Agrees(seen)
    BY <1>2, <1>5 DEF Agrees
  <1> HIDE DEF res
  <1>7. Agrees(new) /\ new.previews = kept
    <2>1. seen.previews = kept
      BY <1>2
    <2> HIDE DEF seen
    <2>2. QED
      BY <1>4, <1>6, <2>1, PruneFacts, PruneType
  <1>8. Begin(a, "apply", "gc", new, NoPort)
    BY DEF GCPlan, res
  <1> HIDE DEF seen, new
  <1>9. Planned(a, "apply", "gc", new, NoPort)
    BY <1>8, BeginPlanned DEF GCPlan
  <1>10. /\ tx'[a].kind = "gc" /\ tx'[a].old = tx[a].old /\ tx'[a].new = new
         /\ tx'[a].port = NoPort
    BY <1>9 DEF Planned
  <1>11. Sound(kept) /\ \A v \in old : v.pinned => v.id \in IdsOf(kept)
    BY DEF Sound, IdsOf
  <1>12. PlanSound(tx'[a]) /\ PlanShape(tx'[a])
    BY <1>7, <1>10, <1>11 DEF PlanSound, PlanShape, KeepsPinned
  <1>13. QED
    BY <1>9, <1>12

\* and those of the commands that only rewrite the registry.
LEMMA EditPlanned ==
  ASSUME TypeOK, NEW a \in Agents, Sound(tx[a].old.previews), Agrees(tx[a].old),
         Refresh(a) \/ \E id \in Ids, value \in BOOLEAN : SetPinned(a, id, value)
  PROVE  \E new, p : Planned(a, "save", "edit", new, p) /\ PlanSound(tx'[a]) /\ PlanShape(tx'[a])
  <1> DEFINE old == tx[a].old.previews
  <1>1. /\ tx[a].old \in Registry /\ old \in SUBSET Preview
        /\ tx[a].old.res \in [Ids -> Ports \cup {NoPort}]
    BY DEF TypeOK, Tx, Registry
  <1>2. CASE Refresh(a)
    <2>1. Planned(a, "save", "edit", tx[a].old, NoPort)
      BY <1>2, BeginPlanned DEF Refresh
    <2>2. /\ tx'[a].kind = "edit" /\ tx'[a].old = tx[a].old /\ tx'[a].new = tx[a].old
          /\ tx'[a].port = NoPort
      BY <2>1 DEF Planned
    <2>3. PlanSound(tx'[a]) /\ PlanShape(tx'[a])
      BY <2>2 DEF PlanSound, PlanShape, KeepsPinned, IdsOf
    <2>4. QED
      BY <2>1, <2>3
  <1>3. ASSUME NEW id \in Ids, NEW value \in BOOLEAN, SetPinned(a, id, value)
        PROVE  \E new, p : Planned(a, "save", "edit", new, p) /\ PlanSound(tx'[a]) /\ PlanShape(tx'[a])
    <2> DEFINE mark(v) == IF v.id = id THEN [v EXCEPT !.pinned = value] ELSE v
               new == [previews |-> {mark(v) : v \in old}, res |-> tx[a].old.res]
    <2>1. Begin(a, "save", "edit", new, NoPort)
      BY <1>3 DEF SetPinned
    <2>3. new.previews = {mark(v) : v \in old} /\ new.res = tx[a].old.res
      OBVIOUS
    <2>4. \A v \in old : mark(v).id = v.id /\ mark(v).port = v.port /\ mark(v).rev = v.rev
      BY <1>1 DEF Preview
    <2> HIDE DEF mark, new
    <2>5. Planned(a, "save", "edit", new, NoPort)
      BY <1>3, <2>1, BeginPlanned DEF SetPinned
    <2>6. /\ tx'[a].kind = "edit" /\ tx'[a].old = tx[a].old /\ tx'[a].new = new
          /\ tx'[a].port = NoPort
      BY <2>5 DEF Planned
    <2>7. Sound(new.previews)
      BY <2>3, <2>4 DEF Sound
    <2>8. Agrees(new)
      BY <2>3, <2>4 DEF Agrees
    <2>9. \A v \in old : v.id \in IdsOf(new.previews)
      BY <2>3, <2>4 DEF IdsOf
    <2>10. Generate(new.previews) = Generate(old)
      BY <2>3, <2>4 DEF Generate
    <2>11. PortsOf(new.previews) = PortsOf(old)
      BY <2>3, <2>4 DEF PortsOf
    <2>12. PlanSound(tx'[a]) /\ PlanShape(tx'[a])
      BY <2>6, <2>7, <2>8, <2>9, <2>10, <2>11 DEF PlanSound, PlanShape, KeepsPinned
    <2>13. QED
      BY <2>5, <2>12
  <1>4. QED
    BY <1>2, <1>3

\* Whatever command runs, its plan is a good one, or it returns unchanged.
LEMMA CommandPlanned ==
  ASSUME TypeOK, NEW a \in Agents, Sound(tx[a].old.previews), Agrees(tx[a].old),
         Command(a), ~Abort(a)
  PROVE  /\ PlanSound(tx'[a]) /\ PlanShape(tx'[a])
         /\ \E label \in {"apply", "save"} : \E kind, new, p :
              /\ Planned(a, label, kind, new, p)
              /\ label = "save" <=> kind = "edit"
              /\ kind \in {"up", "down", "gc", "edit"}
  BY UpPlanned, DownPlanned, GCPlanned, EditPlanned DEF Command

\* Only the lock's holder is inside a command, it works on the registry that
\* is on disk, and what it will save is sound.
LEMMA PlanInvNext == TypeOK /\ LockInv /\ PlanInv /\ [Next]_vars => LockInv' /\ PlanInv'
  <1> SUFFICES ASSUME TypeOK, LockInv, PlanInv, [Next]_vars
               PROVE  LockInv' /\ PlanInv'
    OBVIOUS
  <1>0. NoAgent \notin Agents
    OBVIOUS
  <1>1. ASSUME NEW a \in Agents, Frame(a), UNCHANGED registry, pc[a] \notin {"idle", "loaded"}
        PROVE  LockInv' /\ PlanInv'
    BY <1>0, <1>1 DEF Frame, LockInv, PlanInv, PlanSound, KeepsPinned
  <1>2. ASSUME NEW a \in Agents, LockRegistry(a)
        PROVE  LockInv' /\ PlanInv'
    <2>1. tx'[a].old = registry /\ pc'[a] = "loaded" /\ lock' = a /\ lock = NoAgent
      BY <1>2 DEF LockRegistry, LockFree, TypeOK, NoTx
    <2>2. \A b \in Agents \ {a} : pc'[b] = pc[b] /\ tx'[b] = tx[b]
      BY <1>2 DEF LockRegistry, TypeOK
    <2>3. QED
      BY <1>0, <1>2, <2>1, <2>2 DEF LockRegistry, LockInv, PlanInv, PlanSound, KeepsPinned, env
  <1>3. ASSUME NEW a \in Agents, Command(a)
        PROVE  LockInv' /\ PlanInv'
    <2>1. CASE Abort(a)
      <3>1. Frame(a) /\ pc'[a] = "idle" /\ UNCHANGED registry /\ pc[a] = "loaded"
        BY <2>1, ReturnFrame DEF Abort, env
      <3>2. QED
        BY <1>0, <3>1 DEF Frame, LockInv, PlanInv, PlanSound, KeepsPinned
    <2>2. CASE ~Abort(a)
      <3>1. pc[a] = "loaded"
        BY <1>3 DEF Command, UpPlan, DownPlan, GCPlan, SetPinned, Refresh, Abort
      <3>2. Sound(tx[a].old.previews) /\ Agrees(tx[a].old)
        BY <3>1 DEF LockInv, PlanInv
      <3>3. /\ PlanSound(tx'[a])
            /\ \E label \in {"apply", "save"} : \E kind, new, p : Planned(a, label, kind, new, p)
        BY <1>3, <2>2, <3>2, CommandPlanned
      <3>4. /\ \A b \in Agents \ {a} : pc'[b] = pc[b] /\ tx'[b] = tx[b]
            /\ lock' = lock /\ UNCHANGED registry /\ tx'[a].old = tx[a].old
        BY <3>3 DEF Planned, env
      <3>5. QED
        BY <3>1, <3>3, <3>4 DEF LockInv, PlanInv, PlanSound, KeepsPinned
    <2>3. QED
      BY <2>1, <2>2
  <1>4. ASSUME NEW a \in Agents, Save(a)
        PROVE  LockInv' /\ PlanInv'
    <2>1. CASE UNCHANGED registry
      BY <1>1, <1>4, <2>1, SaveFrame
    <2>2. CASE registry' = tx[a].new /\ pc'[a] = "idle"
      <3>1. Frame(a) /\ pc[a] = "save"
        BY <1>4, SaveFrame
      <3>2. \A b \in Agents : pc'[b] = "idle"
        BY <1>0, <2>2, <3>1 DEF Frame, LockInv
      <3>3. Sound(registry'.previews) /\ Agrees(registry')
        BY <2>2, <3>1 DEF PlanInv, PlanSound
      <3>4. QED
        BY <3>2, <3>3 DEF LockInv, PlanInv
    <2>3. QED
      BY <1>4, <2>1, <2>2, SaveFrame
  <1>5. ASSUME NEW a \in Agents, Crash(a)
        PROVE  LockInv' /\ PlanInv'
    <2>1. Frame(a) /\ pc'[a] = "idle" /\ UNCHANGED registry
      BY <1>5, ReturnFrame DEF Crash, env
    <2>2. QED
      BY <1>0, <1>5, <2>1 DEF Crash, Frame, LockInv, PlanInv, PlanSound, KeepsPinned
  <1>6. CASE UNCHANGED <<lock, registry, pc, tx>>
    BY <1>6 DEF LockInv, PlanInv, PlanSound, KeepsPinned
  <1>7. CASE UNCHANGED vars
    BY <1>6, <1>7 DEF vars
  <1>8. CASE \E a \in Agents : Apply(a) \/ Expose(a) \/ Verify(a) \/ Remove(a)
                                 \/ UndoExpose(a) \/ UndoApply(a) \/ UndoRemove(a)
    BY <1>1, <1>8, StepFrame
  <1>9. CASE Environment
    BY <1>5, <1>6, <1>9 DEF Environment, CaddyDies, ForeignServe
  <1>10. QED
    BY <1>2, <1>3, <1>4, <1>7, <1>8, <1>9 DEF Next, Step

\* Initially nobody works and nothing is planned.
LEMMA PlanInvInit == Init => LockInv /\ PlanInv
  BY DEF Init, NewRegistry, LockInv, PlanInv, Sound, Agrees

\* The inductive invariant behind the safety theorems: the process inside a
\* command holds the lock and the registry it read is still the one on disk,
\* and what its plan will save is sound and keeps the pinned previews.
THEOREM Planning == Spec => [](TypeOK /\ LockInv /\ PlanInv)
  BY TypeCorrect, PlanInvInit, PlanInvNext, PTL DEF Spec

\* Two registered previews never share an id or a port, whatever commands of
\* whatever processes interleave and whatever faults strike them.
THEOREM RegistryIsSound == Spec => []RegistrySound
  <1>1. PlanInv => RegistrySound
    BY DEF PlanInv, RegistrySound
  <1>2. QED
    BY <1>1, Planning, PTL

\* A kept reservation of a live preview names its own port.
THEOREM ReservationsAgree == Spec => []ReservationAgrees
  <1>1. PlanInv => ReservationAgrees
    BY DEF PlanInv, Agrees, ReservationAgrees
  <1>2. QED
    BY <1>1, Planning, PTL

\* Who writes the registry, and with what.
LEMMA OnlySaveWrites ==
  ASSUME TypeOK, LockInv, PlanInv, [Next]_vars, registry' # registry
  PROVE  \E a \in Agents : /\ lock = a /\ pc[a] = "save" /\ tx[a].old = registry
                           /\ registry' = tx[a].new /\ KeepsPinned(tx[a])
  <1>1. PICK a \in Agents : Save(a)
    <2>1. ASSUME NEW a \in Agents, LockRegistry(a) \/ Crash(a) \/ Abort(a)
          PROVE  FALSE
      BY <2>1 DEF LockRegistry, Crash, Abort, env
    <2>2. ASSUME NEW a \in Agents, Command(a), ~Abort(a)
          PROVE  FALSE
      <3>1. pc[a] = "loaded"
        BY <2>2 DEF Command, UpPlan, DownPlan, GCPlan, SetPinned, Refresh, Abort
      <3>2. Sound(tx[a].old.previews) /\ Agrees(tx[a].old)
        BY <3>1 DEF LockInv, PlanInv
      <3>3. PICK label, kind, new, p : Planned(a, label, kind, new, p)
        BY <2>2, <3>2, CommandPlanned
      <3>4. QED
        BY <3>3 DEF Planned, env
    <2>3. ~UNCHANGED vars
      BY DEF vars
    <2>4. QED
      BY <2>1, <2>2, <2>3, StepFrame DEF Next, Step, Environment, CaddyDies, ForeignServe
  <1>2. pc[a] = "save" /\ registry' = tx[a].new
    BY <1>1, SaveFrame
  <1>3. QED
    BY <1>2 DEF LockInv, PlanInv, PlanSound

\* No lost update: every write of the registry is derived, under the lock,
\* from the version it replaces.
THEOREM NoUpdateLost == Spec => NoLostUpdate
  <1>1. TypeOK /\ LockInv /\ PlanInv /\ [Next]_vars =>
          [registry' # registry =>
             \E a \in Agents : lock = a /\ pc[a] = "save" /\ tx[a].old = registry]_vars
    BY OnlySaveWrites
  <1>2. QED
    BY <1>1, Planning, PTL DEF Spec, NoLostUpdate

\* A pinned preview leaves the registry only through its own down.
THEOREM PinnedPreviewsSurvive == Spec => PinnedSurvive
  <1>1. ASSUME TypeOK, LockInv, PlanInv, [Next]_vars,
               NEW v \in registry.previews, v.pinned, v.id \notin IdsOf(registry'.previews)
        PROVE  \E a \in Agents : /\ pc[a] = "save" /\ tx[a].kind = "down"
                                 /\ tx[a].new.previews = registry.previews \ {v}
    <2>1. registry' # registry
      BY <1>1 DEF IdsOf
    <2>2. PICK a \in Agents : /\ pc[a] = "save" /\ tx[a].old = registry
                              /\ registry' = tx[a].new /\ KeepsPinned(tx[a])
      BY <1>1, <2>1, OnlySaveWrites
    <2>3. tx[a].kind = "down"
      BY <1>1, <2>2 DEF KeepsPinned
    <2>4. PICK w \in registry.previews : tx[a].new.previews = registry.previews \ {w}
      BY <2>2, <2>3 DEF KeepsPinned
    <2>5. v = w
      BY <1>1, <2>2, <2>4 DEF IdsOf
    <2>6. QED
      BY <2>2, <2>3, <2>4, <2>5
  <1>2. TypeOK /\ LockInv /\ PlanInv /\ [Next]_vars =>
          [\A v \in registry.previews :
             v.pinned /\ v.id \notin IdsOf(registry'.previews) =>
               \E a \in Agents : /\ pc[a] = "save" /\ tx[a].kind = "down"
                                 /\ tx[a].new.previews = registry.previews \ {v}]_vars
    BY <1>1
  <1>3. QED
    BY <1>2, Planning, PTL DEF Spec, PinnedSurvive
-----------------------------------------------------------------------------
(* The three stores stay in step when nothing worse than a plain failure   *)
(* happens.                                                                *)

SafeInv == TypeOK /\ LockInv /\ PlanInv

\* Where the command of a, or its return, leaves the stores.
Settled(a) ==
  /\ Running => file = loaded
  /\ IF pc[a] = "idle"
     THEN loaded = Generate(registry.previews) /\ Own = PortsOf(registry.previews)
     ELSE At(a)

\* What setting a port to own or none does to the ports served.
LEMMA OwnFacts ==
  ASSUME TypeOK, NEW p \in Ports
  PROVE  /\ serve' = [serve EXCEPT ![p] = "own"]  => Own' = Own \cup {p}
         /\ serve' = [serve EXCEPT ![p] = "none"] => Own' = Own \ {p}
         /\ serve' = serve => Own' = Own
  BY DEF TypeOK, Own

\* After a successful Apply Caddy runs what was asked for, and caddy.json has it.
LEMMA ApplyLoads ==
  ASSUME Running => file = loaded, NEW want, ApplyOk(want)
  PROVE  loaded' = want /\ (Running' => file' = loaded')
  BY DEF ApplyOk, Current, Running

\* What holds at a command's step, before it, when no fault is injected.
LEMMA Before ==
  ASSUME SafeInv, StepInv, NEW a \in Agents, pc[a] # "idle", faults = "none"
  PROVE  /\ At(a) /\ (Running => file = loaded)
         /\ lock = a /\ tx[a].old = registry
         /\ tx[a].todo \in SUBSET Ports
         /\ PortsOf(tx[a].old.previews) \in SUBSET Ports
         /\ pc[a] # "loaded" => PlanShape(tx[a])
  <1>1. tx[a].old \in Registry /\ tx[a].todo \in SUBSET Ports
    BY DEF SafeInv, TypeOK, Tx
  <1>2. tx[a].old.previews \in SUBSET Preview
    BY <1>1 DEF Registry
  <1>3. PortsOf(tx[a].old.previews) \in SUBSET Ports
    BY <1>2, GenerateType
  <1>4. QED
    BY <1>1, <1>3 DEF SafeInv, LockInv, StepInv

\* gc and down only drop ports, edit none, and down exactly one.
LEMMA ShapeFacts ==
  ASSUME NEW a \in Agents, PlanShape(tx[a])
  PROVE  /\ tx[a].kind \in {"up", "down", "gc", "edit"}
         /\ tx[a].kind \in {"down", "gc"} =>
              PortsOf(tx[a].old.previews) = PortsOf(tx[a].new.previews) \cup Removed(a)
         /\ tx[a].kind = "up" =>
              /\ tx[a].port \in Ports
              /\ PortsOf(tx[a].new.previews) = PortsOf(tx[a].old.previews) \cup {tx[a].port}
         /\ tx[a].kind = "down" => \E p : Removed(a) = {p}
         /\ tx[a].kind = "edit" =>
              /\ Generate(tx[a].new.previews) = Generate(tx[a].old.previews)
              /\ PortsOf(tx[a].new.previews) = PortsOf(tx[a].old.previews)
  <1>1. tx[a].kind \in {"up", "down", "gc", "edit"}
    BY DEF PlanShape
  <1>2. ASSUME tx[a].kind \in {"down", "gc"}
        PROVE  PortsOf(tx[a].old.previews) = PortsOf(tx[a].new.previews) \cup Removed(a)
    <2>1. tx[a].new.previews \subseteq tx[a].old.previews
      BY <1>2 DEF PlanShape
    <2>2. PortsOf(tx[a].new.previews) \subseteq PortsOf(tx[a].old.previews)
      BY <2>1 DEF PortsOf
    <2>3. QED
      BY <2>2 DEF Removed
  <1>3. ASSUME tx[a].kind = "down"
        PROVE  \E p : Removed(a) = {p}
    <2>1. PICK v \in tx[a].old.previews : /\ tx[a].new.previews = tx[a].old.previews \ {v}
                                          /\ v.port \notin PortsOf(tx[a].new.previews)
      BY <1>3 DEF PlanShape
    <2>2. \A p \in Removed(a) : p = v.port
      BY <2>1 DEF Removed, PortsOf
    <2>3. v.port \in Removed(a)
      BY <2>1 DEF Removed, PortsOf
    <2>4. QED
      BY <2>2, <2>3
  <1>4. QED
    BY <1>1, <1>2, <1>3 DEF PlanShape

\* Apply keeps the stores in step with the plan.
LEMMA ApplySettles ==
  ASSUME SafeInv, StepInv, NEW a \in Agents, Apply(a), faults' = "none"
  PROVE  Settled(a)'
  <1> DEFINE want == Generate(tx[a].new.previews)
  <1>0. TypeOK /\ faults = "none" /\ pc[a] = "apply"
    BY DEF SafeInv, Apply, ApplyTorn, Strike
  <1>1. /\ At(a) /\ (Running => file = loaded) /\ lock = a /\ tx[a].old = registry
        /\ PlanShape(tx[a])
    BY <1>0, Before
  <1>2. /\ loaded = Generate(registry.previews) /\ Own = PortsOf(registry.previews)
        /\ tx[a].todo = Removed(a) /\ tx[a].kind # "edit"
        /\ tx[a].kind = "up" => tx[a].todo = {}
    BY <1>0, <1>1 DEF At
  <1>3. UNCHANGED registry /\ Own' = Own
    BY DEF Apply, Own
  <1>4. CASE ApplyOk(want) /\ Goto(a, IF tx[a].kind = "up" THEN "expose"
                            ELSE IF tx[a].todo = {} THEN "save" ELSE "drop")
                           /\ UNCHANGED <<tx, faults>>
    <2>1. loaded' = want /\ (Running' => file' = loaded')
      BY <1>1, <1>4, ApplyLoads
    <2>2. /\ tx' = tx
          /\ pc'[a] = IF tx[a].kind = "up" THEN "expose"
                      ELSE IF tx[a].todo = {} THEN "save" ELSE "drop"
      BY <1>0, <1>4 DEF Goto, TypeOK
    <2>3. CASE tx[a].kind = "up"
      BY <1>1, <1>2, <1>3, <2>1, <2>2, <2>3 DEF Settled, At, Running
    <2>4. CASE tx[a].kind # "up"
      <3>1. /\ tx[a].kind \in {"down", "gc"}
            /\ Own = PortsOf(tx[a].new.previews) \cup Removed(a)
        BY <1>1, <1>2, <2>4, ShapeFacts
      <3>2. Removed(a)' = Removed(a)
        BY <2>2 DEF Removed
      <3>3. QED
        BY <1>1, <1>2, <1>3, <2>1, <2>2, <2>4, <3>1, <3>2 DEF Settled, At, Running
    <2>5. QED
      BY <2>3, <2>4
  <1>5. CASE Return(a) /\ UNCHANGED <<loaded, file>>
    BY <1>0, <1>1, <1>2, <1>3, <1>5, ReturnFrame DEF Settled, Running
  <1>6. QED
    BY <1>4, <1>5 DEF Apply, ApplyTorn, Strike

\* So does Expose,
LEMMA ExposeSettles ==
  ASSUME SafeInv, StepInv, NEW a \in Agents, Expose(a), faults' = "none"
  PROVE  Settled(a)'
  <1> DEFINE p == tx[a].port
  <1>0. TypeOK /\ faults = "none" /\ pc[a] = "expose" /\ UNCHANGED <<registry, loaded, file>>
    BY DEF SafeInv, Expose, Strike
  <1>1. /\ At(a) /\ (Running => file = loaded) /\ lock = a /\ tx[a].old = registry
        /\ PlanShape(tx[a])
    BY <1>0, Before
  <1>2. /\ loaded = Generate(tx[a].new.previews) /\ Own = PortsOf(registry.previews)
        /\ tx[a].kind = "up"
    BY <1>0, <1>1 DEF At
  <1>3. p \in Ports /\ PortsOf(tx[a].new.previews) = PortsOf(registry.previews) \cup {p}
    BY <1>1, <1>2, ShapeFacts
  <1>4. CASE serve' = [serve EXCEPT ![p] = "own"] /\ Goto(a, "verify") /\ UNCHANGED tx
    <2>1. Own' = Own \cup {p}
      BY <1>0, <1>3, <1>4, OwnFacts
    <2>2. pc'[a] = "verify" /\ tx' = tx
      BY <1>0, <1>4 DEF Goto, TypeOK
    <2>3. QED
      BY <1>0, <1>1, <1>2, <1>3, <2>1, <2>2 DEF Settled, At, Running
  <1>5. CASE Undo(a, "undoapply", {}) /\ UNCHANGED serve
    <2>1. Frame(a) /\ pc'[a] = "undoapply" /\ tx'[a].todo = {}
      BY <1>0, <1>5, UndoFrame DEF PCs
    <2>2. /\ tx'[a].kind = tx[a].kind /\ tx'[a].old = tx[a].old /\ tx'[a].new = tx[a].new
          /\ Own' = Own
      BY <1>5, <2>1 DEF Frame, Own
    <2>3. QED
      BY <1>0, <1>1, <1>2, <2>1, <2>2 DEF Settled, At, Running
  <1>6. QED
    BY <1>4, <1>5 DEF Expose, Strike

\* and Verify,
LEMMA VerifySettles ==
  ASSUME SafeInv, StepInv, NEW a \in Agents, Verify(a), faults' = "none"
  PROVE  Settled(a)'
  <1>0. TypeOK /\ faults = "none" /\ pc[a] = "verify" /\ UNCHANGED env
    BY DEF SafeInv, Verify
  <1>1. At(a) /\ (Running => file = loaded)
    BY <1>0, Before
  <1>2. /\ loaded = Generate(tx[a].new.previews) /\ Own = PortsOf(tx[a].new.previews)
        /\ tx[a].kind = "up"
    BY <1>0, <1>1 DEF At
  <1>3. UNCHANGED <<registry, loaded, file>> /\ Own' = Own
    BY <1>0 DEF env, Own
  <1>4. pc'[a] \in {"save", "undrop"} /\ tx'[a].kind = tx[a].kind /\ tx'[a].new = tx[a].new
    <2>1. CASE Goto(a, "save") /\ UNCHANGED tx
      BY <1>0, <2>1 DEF Goto, TypeOK
    <2>2. CASE Undo(a, "undrop", {})
      BY <1>0, <2>2, UndoFrame DEF PCs, Frame
    <2>3. QED
      BY <2>1, <2>2 DEF Verify
  <1>5. QED
    BY <1>1, <1>2, <1>3, <1>4 DEF Settled, At, Running

\* and Remove,
LEMMA RemoveSettles ==
  ASSUME SafeInv, StepInv, NEW a \in Agents, Remove(a), faults' = "none"
  PROVE  Settled(a)'
  <1> DEFINE failed == IF tx[a].kind = "gc" THEN Removed(a) ELSE {}
             t == tx[a]
  <1>0. TypeOK /\ faults = "none" /\ pc[a] = "drop" /\ UNCHANGED <<registry, loaded, file>>
    BY DEF SafeInv, Remove, Strike
  <1>1. /\ At(a) /\ (Running => file = loaded) /\ lock = a /\ tx[a].old = registry
        /\ PlanShape(tx[a]) /\ tx[a].todo \in SUBSET Ports
    BY <1>0, Before
  <1>2. /\ loaded = Generate(tx[a].new.previews) /\ Own = PortsOf(tx[a].new.previews) \cup tx[a].todo
        /\ tx[a].todo \subseteq Removed(a) /\ tx[a].kind \in {"down", "gc"}
        /\ tx[a].kind = "down" => tx[a].todo = Removed(a)
    BY <1>0, <1>1 DEF At
  <1>3. /\ PortsOf(tx[a].old.previews) = PortsOf(tx[a].new.previews) \cup Removed(a)
        /\ tx[a].kind = "down" => \E q : Removed(a) = {q}
    BY <1>1, <1>2, ShapeFacts
  <1>4. PICK p \in tx[a].todo :
          \/ /\ serve' = [serve EXCEPT ![p] = "none"]
             /\ tx' = [tx EXCEPT ![a].todo = @ \ {p}]
             /\ Goto(a, IF tx[a].todo = {p} THEN "save" ELSE "drop")
          \/ Undo(a, "undoapply", failed) /\ UNCHANGED serve
    BY <1>0 DEF Remove, Strike
  <1>5. p \notin PortsOf(tx[a].new.previews) /\ p \in Ports
    BY <1>1, <1>2 DEF Removed
  <1>6. CASE /\ serve' = [serve EXCEPT ![p] = "none"]
             /\ tx' = [tx EXCEPT ![a].todo = @ \ {p}]
             /\ Goto(a, IF tx[a].todo = {p} THEN "save" ELSE "drop")
    <2>1. Own' = Own \ {p}
      BY <1>0, <1>5, <1>6, OwnFacts
    <2>2. pc'[a] = IF tx[a].todo = {p} THEN "save" ELSE "drop"
      BY <1>0, <1>6 DEF Goto, TypeOK
    <2>3. Undo(a, IF tx[a].todo = {p} THEN "save" ELSE "drop", tx[a].todo \ {p})
      BY <1>6 DEF Undo
    <2>4. Frame(a) /\ tx'[a].todo = tx[a].todo \ {p}
      BY <1>0, <2>3, UndoFrame DEF PCs
    <2>5. /\ tx'[a].kind = tx[a].kind /\ tx'[a].old = tx[a].old /\ tx'[a].new = tx[a].new
          /\ Removed(a)' = Removed(a)
      BY <2>2, <2>4 DEF Frame, Removed
    <2>6. tx[a].kind = "down" => tx[a].todo = {p}
      BY <1>2, <1>3
    <2>7. CASE tx[a].todo = {p}
      BY <1>0, <1>1, <1>2, <1>5, <2>1, <2>2, <2>5, <2>7 DEF Settled, At, Running
    <2>8. CASE tx[a].todo # {p}
      BY <1>0, <1>1, <1>2, <1>5, <2>1, <2>2, <2>4, <2>5, <2>6, <2>8 DEF Settled, At, Running
    <2>9. QED
      BY <2>7, <2>8
  <1>7. CASE Undo(a, "undoapply", failed) /\ UNCHANGED serve
    <2>1. Frame(a) /\ pc'[a] = "undoapply" /\ tx'[a].todo = failed
      BY <1>0, <1>7, UndoFrame DEF PCs
    <2>2. /\ tx'[a].kind = tx[a].kind /\ tx'[a].old = tx[a].old /\ tx'[a].new = tx[a].new
          /\ Removed(a)' = Removed(a) /\ Own' = Own
      BY <1>7, <2>1 DEF Frame, Removed, Own
    <2>3. Own \cup failed = PortsOf(tx[a].old.previews)
      BY <1>2, <1>3
    <2>4. QED
      BY <1>0, <1>1, <1>2, <2>1, <2>2, <2>3 DEF Settled, At, Running
  <1>8. QED
    BY <1>4, <1>6, <1>7

\* and Save,
LEMMA SaveSettles ==
  ASSUME SafeInv, StepInv, NEW a \in Agents, Save(a), faults' = "none"
  PROVE  Settled(a)'
  <1>0. TypeOK /\ faults = "none" /\ pc[a] = "save" /\ UNCHANGED <<loaded, file, serve>>
    BY DEF SafeInv, Save
  <1>1. /\ At(a) /\ (Running => file = loaded) /\ lock = a /\ tx[a].old = registry
        /\ PlanShape(tx[a])
    BY <1>0, Before
  <1>2. loaded = Generate(tx[a].new.previews) /\ Own = PortsOf(tx[a].new.previews)
    BY <1>0, <1>1 DEF At
  <1>3. Own' = Own
    BY <1>0 DEF Own
  <1>4. CASE registry' = tx[a].new /\ Return(a)
    BY <1>0, <1>1, <1>2, <1>3, <1>4, ReturnFrame DEF Settled, Running
  <1>5. CASE UNCHANGED registry /\ tx[a].kind = "up" /\ Undo(a, "undrop", {})
    <2>1. Frame(a) /\ pc'[a] = "undrop"
      BY <1>0, <1>5, UndoFrame DEF PCs
    <2>2. QED
      BY <1>0, <1>1, <1>2, <1>3, <1>5, <2>1 DEF Frame, Settled, At, Running
  <1>6. CASE /\ UNCHANGED registry /\ tx[a].kind \in {"down", "gc"}
             /\ Undo(a, "undoapply", Removed(a))
    <2>1. Frame(a) /\ pc'[a] = "undoapply" /\ tx'[a].todo = Removed(a)
      BY <1>0, <1>6, UndoFrame DEF PCs
    <2>2. Removed(a)' = Removed(a)
      BY <2>1 DEF Frame, Removed
    <2>3. PortsOf(tx[a].old.previews) = PortsOf(tx[a].new.previews) \cup Removed(a)
      BY <1>1, <1>6, ShapeFacts
    <2>4. QED
      BY <1>0, <1>1, <1>2, <1>3, <1>6, <2>1, <2>2, <2>3 DEF Frame, Settled, At, Running
  <1>7. CASE UNCHANGED registry /\ tx[a].kind # "up" /\ Removed(a) = {} /\ Return(a)
    <2>1. tx[a].kind \in {"down", "gc", "edit"}
      BY <1>1, <1>7, ShapeFacts
    <2>2. PortsOf(tx[a].new.previews) = PortsOf(registry.previews)
      BY <1>1, <1>7, <2>1, ShapeFacts
    <2>3. Generate(tx[a].new.previews) = Generate(registry.previews)
      <3>1. CASE tx[a].kind = "edit"
        BY <1>1, <3>1, ShapeFacts
      <3>2. CASE tx[a].kind \in {"down", "gc"}
        <4>1. tx[a].new.previews \subseteq registry.previews
          BY <1>1, <3>2 DEF PlanShape
        <4>2. Sound(registry.previews)
          BY DEF SafeInv, PlanInv
        <4>3. \A v \in registry.previews : v \in tx[a].new.previews
          BY <2>2, <4>1, <4>2 DEF PortsOf, Sound
        <4>4. tx[a].new.previews = registry.previews
          BY <4>1, <4>3
        <4>5. QED
          BY <4>4
      <3>3. QED
        BY <2>1, <3>1, <3>2
    <2>4. QED
      BY <1>0, <1>1, <1>2, <1>3, <1>7, <2>2, <2>3, ReturnFrame DEF Settled, Running
  <1>8. QED
    BY <1>4, <1>5, <1>6, <1>7 DEF Save

\* and, when a later call failed, the removal of the exposed port,
LEMMA UndoExposeSettles ==
  ASSUME SafeInv, StepInv, NEW a \in Agents, UndoExpose(a), faults' = "none"
  PROVE  Settled(a)'
  <1> DEFINE p == tx[a].port
             todo == {p} \cap PortsOf(tx[a].old.previews)
  <1>0. /\ TypeOK /\ faults = "none" /\ pc[a] = "undrop" /\ UNCHANGED <<registry, loaded, file>>
        /\ serve' = [serve EXCEPT ![p] = "none"] /\ Undo(a, "undoapply", todo)
    BY DEF SafeInv, UndoExpose, Strike
  <1>1. /\ At(a) /\ (Running => file = loaded) /\ lock = a /\ tx[a].old = registry
        /\ PlanShape(tx[a])
    BY <1>0, Before
  <1>2. /\ loaded = Generate(tx[a].new.previews) /\ Own = PortsOf(tx[a].new.previews)
        /\ tx[a].kind = "up"
    BY <1>0, <1>1 DEF At
  <1>3. p \in Ports /\ PortsOf(tx[a].new.previews) = PortsOf(tx[a].old.previews) \cup {p}
    BY <1>1, <1>2, ShapeFacts
  <1>4. Own' = Own \ {p}
    BY <1>0, <1>3, OwnFacts
  <1>5. Frame(a) /\ pc'[a] = "undoapply" /\ tx'[a].todo = todo
    BY <1>0, UndoFrame DEF PCs
  <1>6. /\ tx'[a].kind = tx[a].kind /\ tx'[a].old = tx[a].old /\ tx'[a].new = tx[a].new
        /\ tx'[a].port = p
    BY <1>5 DEF Frame
  <1>7. Own' \cup todo = PortsOf(tx[a].old.previews)
    BY <1>2, <1>3, <1>4
  <1>8. QED
    BY <1>0, <1>1, <1>2, <1>5, <1>6, <1>7 DEF Settled, At, Running

\* the reloading of the previous previews,
LEMMA UndoApplySettles ==
  ASSUME SafeInv, StepInv, NEW a \in Agents, UndoApply(a), faults' = "none"
  PROVE  Settled(a)'
  <1> DEFINE want == Generate(tx[a].old.previews)
  <1>0. /\ TypeOK /\ faults = "none" /\ pc[a] = "undoapply" /\ UNCHANGED <<registry, serve>>
        /\ ApplyOk(want)
        /\ IF tx[a].todo = {} THEN Return(a) ELSE Goto(a, "reexpose") /\ UNCHANGED tx
    BY DEF SafeInv, UndoApply, ApplyTorn, Strike
  <1>1. /\ At(a) /\ (Running => file = loaded) /\ lock = a /\ tx[a].old = registry
    BY <1>0, Before
  <1>2. /\ Own \cup tx[a].todo = PortsOf(registry.previews)
        /\ tx[a].todo \subseteq Removed(a) \cup {tx[a].port}
    BY <1>0, <1>1 DEF At
  <1>3. loaded' = want /\ (Running' => file' = loaded')
    BY <1>0, <1>1, ApplyLoads
  <1>4. Own' = Own
    BY <1>0 DEF Own
  <1>5. CASE tx[a].todo = {}
    BY <1>0, <1>1, <1>2, <1>3, <1>4, <1>5, ReturnFrame DEF Settled, Running
  <1>6. CASE tx[a].todo # {}
    <2>1. pc'[a] = "reexpose" /\ tx' = tx
      BY <1>0, <1>6 DEF Goto, TypeOK
    <2>2. Removed(a)' = Removed(a)
      BY <2>1 DEF Removed
    <2>3. QED
      BY <1>1, <1>2, <1>3, <1>4, <2>1, <2>2 DEF Settled, At, Running
  <1>7. QED
    BY <1>5, <1>6

\* and the exposing again of their ports.
LEMMA UndoRemoveSettles ==
  ASSUME SafeInv, StepInv, NEW a \in Agents, UndoRemove(a), faults' = "none"
  PROVE  Settled(a)'
  <1>0. TypeOK /\ faults = "none" /\ pc[a] = "reexpose" /\ UNCHANGED <<registry, loaded, file>>
    BY DEF SafeInv, UndoRemove, Strike
  <1>1. /\ At(a) /\ (Running => file = loaded) /\ lock = a /\ tx[a].old = registry
        /\ tx[a].todo \in SUBSET Ports
    BY <1>0, Before
  <1>2. /\ loaded = Generate(registry.previews) /\ Own \cup tx[a].todo = PortsOf(registry.previews)
        /\ tx[a].todo \subseteq Removed(a) \cup {tx[a].port}
    BY <1>0, <1>1 DEF At
  <1>3. PICK p \in tx[a].todo :
          /\ serve' = [serve EXCEPT ![p] = "own"]
          /\ IF tx[a].todo = {p} THEN Return(a) ELSE Undo(a, "reexpose", tx[a].todo \ {p})
    BY DEF UndoRemove, Strike
  <1>4. Own' = Own \cup {p}
    BY <1>0, <1>1, <1>3, OwnFacts
  <1>5. CASE tx[a].todo = {p}
    BY <1>0, <1>1, <1>2, <1>3, <1>4, <1>5, ReturnFrame DEF Settled, Running
  <1>6. CASE tx[a].todo # {p}
    <2>1. Frame(a) /\ pc'[a] = "reexpose" /\ tx'[a].todo = tx[a].todo \ {p}
      BY <1>0, <1>3, <1>6, UndoFrame DEF PCs
    <2>2. /\ tx'[a].kind = tx[a].kind /\ tx'[a].old = tx[a].old /\ tx'[a].new = tx[a].new
          /\ tx'[a].port = tx[a].port /\ Removed(a)' = Removed(a)
      BY <2>1 DEF Frame, Removed
    <2>3. QED
      BY <1>0, <1>1, <1>2, <1>4, <2>1, <2>2 DEF Settled, At, Running
  <1>7. QED
    BY <1>5, <1>6

\* Nobody but the holder of the lock is inside a command, so what the step of
\* one command settles is settled for all.
LEMMA FrameStepInv ==
  ASSUME SafeInv, StepInv, NEW a \in Agents, Frame(a), pc[a] # "idle",
         pc[a] = "loaded" => pc'[a] = "idle",
         faults' = "none" => Settled(a)'
  PROVE  StepInv'
  <1>0. TypeOK /\ NoAgent \notin Agents /\ lock = a
    BY DEF SafeInv, LockInv
  <1>1. \A b \in Agents \ {a} : pc[b] = "idle" /\ pc'[b] = "idle" /\ tx'[b] = NoTx
    BY <1>0 DEF SafeInv, LockInv, Frame, StepInv
  <1>2. \A b \in Agents : pc'[b] \notin {"idle", "loaded"} => PlanShape(tx'[b])
    <2>1. PlanShape(tx[a]) /\ pc'[a] # "idle" => PlanShape(tx'[a])
      BY DEF Frame, PlanShape
    <2>2. QED
      BY <1>1, <2>1 DEF StepInv, Frame
  <1>3. \A b \in Agents : pc'[b] = "idle" => tx'[b] = NoTx
    BY <1>1 DEF Frame
  <1>4. lock' # NoAgent => pc'[lock'] # "idle"
    BY <1>0 DEF Frame
  <1>5. ASSUME faults' = "none"
        PROVE  \A b \in Agents : At(b)'
    <2>1. \A b \in Agents \ {a} : At(b)'
      BY <1>1 DEF At
    <2>2. At(a)'
      BY <1>5 DEF Settled, At
    <2>3. QED
      BY <2>1, <2>2
  <1>6. ASSUME faults' = "none", LockFree'
        PROVE  loaded' = Generate(registry'.previews) /\ Own' = PortsOf(registry'.previews)
    <2>1. pc'[a] = "idle"
      BY <1>0, <1>6 DEF Frame, LockFree
    <2>2. QED
      BY <1>6, <2>1 DEF Settled
  <1>7. faults' = "none" => (Running => file = loaded)'
    BY DEF Settled
  <1>8. QED
    BY <1>2, <1>3, <1>4, <1>5, <1>6, <1>7 DEF StepInv

\* Initially the stores are in step.
LEMMA StepInvInit == Init => StepInv
  BY DEF Init, NewRegistry, NoTx, StepInv, At, LockFree, Running, Own, Generate, PortsOf

\* Every step keeps the stores in step with the plan, or strikes a fault.
LEMMA StepInvNext == SafeInv /\ StepInv /\ [Next]_vars => StepInv'
  <1> SUFFICES ASSUME SafeInv, StepInv, [Next]_vars
               PROVE  StepInv'
    OBVIOUS
  <1>0. TypeOK /\ LockInv /\ NoAgent \notin Agents
    BY DEF SafeInv
  <1>1. ASSUME NEW a \in Agents, LockRegistry(a)
        PROVE  StepInv'
    <2>1. /\ tx'[a] = [NoTx EXCEPT !.old = registry]
          /\ pc'[a] = "loaded" /\ lock' = a /\ lock = NoAgent
          /\ UNCHANGED <<registry, loaded, file, serve, faults>>
      BY <1>0, <1>1 DEF LockRegistry, LockFree, TypeOK, env
    <2>2. tx'[a].old = registry
      BY <2>1 DEF NoTx
    <2>3. \A b \in Agents \ {a} : pc'[b] = pc[b] /\ tx'[b] = tx[b] /\ pc[b] = "idle"
      BY <1>0, <1>1, <2>1 DEF LockRegistry, LockInv, TypeOK
    <2>4. Own' = Own
      BY <2>1 DEF Own
    <2>5. faults = "none" => At(a)'
      BY <2>1, <2>2, <2>4 DEF StepInv, LockFree, At
    <2>6. \A b \in Agents \ {a} : At(b)'
      BY <2>3 DEF At
    <2>7. QED
      BY <1>0, <2>1, <2>3, <2>4, <2>5, <2>6 DEF StepInv, LockFree, Running
  <1>2. ASSUME NEW a \in Agents, Command(a), ~Abort(a)
        PROVE  StepInv'
    <2>1. pc[a] = "loaded"
      BY <1>2 DEF Command, UpPlan, DownPlan, GCPlan, SetPinned, Refresh, Abort
    <2>2. Sound(tx[a].old.previews) /\ Agrees(tx[a].old) /\ lock = a /\ tx[a].old = registry
      BY <2>1 DEF SafeInv, LockInv, PlanInv
    <2>3. PlanShape(tx'[a])
      BY <1>0, <1>2, <2>2, CommandPlanned
    <2>4. PICK label, kind, new, p :
            /\ label \in {"apply", "save"} /\ kind \in {"up", "down", "gc", "edit"}
            /\ Planned(a, label, kind, new, p) /\ (label = "save" <=> kind = "edit")
      BY <1>0, <1>2, <2>2, CommandPlanned
    <2>5. /\ \A b \in Agents \ {a} : pc'[b] = pc[b] /\ tx'[b] = tx[b]
          /\ pc'[a] = label /\ lock' = lock
          /\ tx'[a].kind = kind /\ tx'[a].old = registry /\ tx'[a].todo = Removed(a)'
      BY <2>2, <2>4 DEF Planned, Removed
    <2>6. UNCHANGED <<registry, loaded, file, serve, faults>> /\ Own' = Own
      BY <2>4 DEF Planned, env, Own
    <2>7. \A b \in Agents \ {a} : pc[b] = "idle" /\ At(b)'
      BY <1>0, <2>1, <2>2, <2>5 DEF LockInv, At
    <2>8. ASSUME faults = "none"
          PROVE  At(a)'
      <3>1. loaded = Generate(registry.previews) /\ Own = PortsOf(registry.previews)
        BY <2>1, <2>2, <2>8 DEF StepInv, At
      <3>2. kind = "up" => tx'[a].todo = {}
        BY <2>3, <2>5 DEF PlanShape, Removed
      <3>3. kind = "edit" => /\ Generate(tx'[a].new.previews) = Generate(registry.previews)
                             /\ PortsOf(tx'[a].new.previews) = PortsOf(registry.previews)
        BY <2>3, <2>5 DEF PlanShape
      <3>4. QED
        BY <2>4, <2>5, <2>6, <3>1, <3>2, <3>3 DEF At
    <2>9. QED
      BY <1>0, <2>2, <2>3, <2>4, <2>5, <2>6, <2>7, <2>8 DEF StepInv, LockFree, Running
  <1>3. ASSUME NEW a \in Agents, Abort(a)
        PROVE  StepInv'
    <2>1. /\ Frame(a) /\ pc'[a] = "idle" /\ pc[a] = "loaded"
          /\ UNCHANGED <<registry, loaded, file, serve, faults>> /\ Own' = Own
      BY <1>0, <1>3, ReturnFrame DEF Abort, env, Own
    <2>2. faults' = "none" => Settled(a)'
      BY <2>1, Before DEF At, Settled, Running
    <2>3. QED
      BY <2>1, <2>2, FrameStepInv
  <1>4. ASSUME NEW a \in Agents, Apply(a) \/ Expose(a) \/ Verify(a) \/ Remove(a) \/ Save(a)
                                   \/ UndoExpose(a) \/ UndoApply(a) \/ UndoRemove(a)
        PROVE  StepInv'
    <2>1. Frame(a) /\ pc[a] \notin {"idle", "loaded"}
      BY <1>0, <1>4, StepFrame, SaveFrame
    <2>2. faults' = "none" => Settled(a)'
      BY <1>4, ApplySettles, ExposeSettles, VerifySettles, RemoveSettles, SaveSettles,
         UndoExposeSettles, UndoApplySettles, UndoRemoveSettles
    <2>3. QED
      BY <2>1, <2>2, FrameStepInv
  <1>5. ASSUME NEW a \in Agents, Crash(a)
        PROVE  StepInv'
    <2>1. Frame(a) /\ pc'[a] = "idle" /\ pc[a] # "idle" /\ faults' = "some"
      BY <1>0, <1>5, ReturnFrame DEF Crash, Strike
    <2>2. QED
      BY <2>1, FrameStepInv
  <1>6. CASE CaddyDies \/ \E p \in Ports : ForeignServe(p)
    BY <1>6 DEF CaddyDies, ForeignServe, Strike, StepInv
  <1>7. CASE UNCHANGED vars
    BY <1>7 DEF vars, StepInv, LockFree, Running, Own, At, Removed
  <1>8. QED
    BY <1>1, <1>2, <1>3, <1>4, <1>5, <1>6, <1>7 DEF Next, Step, Environment

\* Where Caddy and Serve stand at each call of a fault-free command: the
\* inductive invariant behind the two theorems on the stores.
THEOREM Stepping == Spec => [](SafeInv /\ StepInv)
  <1>1. Init => SafeInv /\ StepInv
    BY InitType, PlanInvInit, StepInvInit DEF SafeInv
  <1>2. SafeInv /\ StepInv /\ [Next]_vars => (SafeInv /\ StepInv)'
    BY NextType, PlanInvNext, StepInvNext DEF SafeInv
  <1>3. QED
    BY <1>1, <1>2, PTL DEF Spec

\* Compensation works: while only plain failures happened, whenever no command
\* runs, Caddy runs exactly the registered previews and exactly their ports are
\* exposed, whether the commands before succeeded or failed at any call.
THEOREM StoresInStep == Spec => []InStep
  <1>1. StepInv => InStep
    BY DEF StepInv, InStep
  <1>2. QED
    BY <1>1, Stepping, PTL

\* A command never interrupts the previews it is not about, not even between
\* its calls or while it is rolled back.
THEOREM BystandersAreServed == Spec => []BystandersServed
  <1>1. ASSUME SafeInv, StepInv, faults = "none",
               NEW v \in registry.previews, Bystander(v)
        PROVE  Generate({v}) \subseteq loaded /\ serve[v.port] = "own"
    <2>1. \A S : v \in S => Generate({v}) \subseteq Generate(S) /\ v.port \in PortsOf(S)
      BY DEF Generate, PortsOf
    <2>2. v.port \in Own => serve[v.port] = "own"
      BY DEF Own
    <2>3. CASE LockFree
      BY <1>1, <2>1, <2>2, <2>3 DEF StepInv
    <2>4. CASE ~LockFree
      <3> DEFINE a == lock
      <3>1. a \in Agents /\ pc[a] # "idle" /\ pc[a] \in PCs
        BY <1>1, <2>4 DEF SafeInv, TypeOK, StepInv, LockFree
      <3>2. /\ At(a) /\ tx[a].old = registry
            /\ pc[a] # "loaded" => PlanShape(tx[a])
        BY <1>1, <3>1, Before
      <3>3. CASE pc[a] = "loaded"
        BY <2>1, <2>2, <3>2, <3>3 DEF At
      <3>4. CASE pc[a] # "loaded"
        <4>1. v \in tx[a].new.previews /\ v.port # tx[a].port
          BY <1>1, <3>1, <3>2, <3>4, ShapeFacts DEF Bystander
        <4>2. /\ Generate({v}) \subseteq Generate(tx[a].new.previews)
              /\ Generate({v}) \subseteq Generate(tx[a].old.previews)
              /\ v.port \in PortsOf(tx[a].new.previews)
              /\ v.port \in PortsOf(tx[a].old.previews)
          BY <2>1, <3>2, <4>1
        <4>3. v.port \notin Removed(a) \cup {tx[a].port}
          BY <4>1, <4>2 DEF Removed
        <4>4. Generate({v}) \subseteq loaded
          BY <3>1, <3>2, <3>4, <4>2 DEF At, PCs
        <4>5. v.port \in Own
          BY <3>1, <3>2, <3>4, <4>2, <4>3 DEF At, PCs
        <4>6. QED
          BY <2>2, <4>4, <4>5
      <3>5. QED
        BY <3>3, <3>4
    <2>5. QED
      BY <2>3, <2>4
  <1>2. SafeInv /\ StepInv => BystandersServed
    BY <1>1 DEF BystandersServed
  <1>3. QED
    BY <1>2, Stepping, PTL
-----------------------------------------------------------------------------
(* What holds on when more than plain failures happens: as long as the     *)
(* faults that contradict it outright are not injected.                    *)

\* Planning reads the stores and writes none.
LEMMA CommandReads ==
  ASSUME NEW a \in Agents, Command(a)
  PROVE  UNCHANGED env
  <1>1. \A label, kind, new, port : Begin(a, label, kind, new, port) => UNCHANGED env
    BY DEF Begin
  <1>2. ASSUME NEW id \in Ids, NEW rev \in Revs, NEW req \in Ports \cup {NoPort},
               NEW stale \in SUBSET Ids, UpPlan(a, id, rev, req, stale)
        PROVE  \E label, kind, new, port : Begin(a, label, kind, new, port)
    BY <1>2, Zenon DEF UpPlan
  <1>3. ASSUME NEW id \in Ids, DownPlan(a, id)
        PROVE  \E label, kind, new, port : Begin(a, label, kind, new, port)
    BY <1>3, Zenon DEF DownPlan
  <1>4. ASSUME NEW expired \in SUBSET Ids, NEW stale \in SUBSET Ids, GCPlan(a, expired, stale)
        PROVE  \E label, kind, new, port : Begin(a, label, kind, new, port)
    BY <1>4, Zenon DEF GCPlan
  <1>5. ASSUME NEW id \in Ids, NEW value \in BOOLEAN, SetPinned(a, id, value)
        PROVE  \E label, kind, new, port : Begin(a, label, kind, new, port)
    BY <1>5, Zenon DEF SetPinned
  <1>6. CASE Refresh(a)
    BY <1>1, <1>6 DEF Refresh
  <1>7. CASE Abort(a)
    BY <1>7 DEF Abort
  <1>8. QED
    BY <1>1, <1>2, <1>3, <1>4, <1>5, <1>6, <1>7 DEF Command

\* Without torn, Caddy and caddy.json change together, or Caddy stops.
LEMMA FileIsLoadedNext ==
  ASSUME "torn" \notin FaultKinds, FileIsLoaded, [Next]_vars
  PROVE  FileIsLoaded'
  <1> USE DEF FileIsLoaded, Running
  <1>1. \A want : ~ApplyTorn(want)
    BY DEF ApplyTorn, Strike
  <1>2. CASE \E want : ApplyOk(want)
    BY <1>2, ApplyLoads
  <1>3. CASE loaded' = loaded /\ file' = file
    BY <1>3
  <1>4. CASE loaded' = {}
    BY <1>4
  <1>5. ASSUME NEW a \in Agents, Command(a)
        PROVE  FileIsLoaded'
    BY <1>3, <1>5, CommandReads DEF env
  <1>6. ASSUME NEW a \in Agents, Apply(a)
        PROVE  FileIsLoaded'
    BY <1>1, <1>2, <1>3, <1>6 DEF Apply
  <1>7. ASSUME NEW a \in Agents, UndoApply(a)
        PROVE  FileIsLoaded'
    BY <1>1, <1>2, <1>3, <1>7 DEF UndoApply
  <1>8. ASSUME NEW a \in Agents,
               Expose(a) \/ Verify(a) \/ Remove(a) \/ Save(a) \/ UndoExpose(a) \/ UndoRemove(a)
        PROVE  FileIsLoaded'
    BY <1>3, <1>8 DEF Expose, Verify, Remove, Save, UndoExpose, UndoRemove, env
  <1>9. CASE Environment \/ UNCHANGED vars \/ \E a \in Agents : LockRegistry(a)
    BY <1>3, <1>4, <1>9 DEF LockRegistry, Environment, Crash, CaddyDies, ForeignServe, env, vars
  <1>10. QED
    BY <1>5, <1>6, <1>7, <1>8, <1>9 DEF Next, Step

\* Apply may compare with caddy.json to decide that no reload is needed: while
\* Caddy runs, that file is what it runs, whatever crashes or fails.
LEMMA FileShowsLoaded == "torn" \notin FaultKinds => (Spec => []FileIsLoaded)
  <1> SUFFICES ASSUME "torn" \notin FaultKinds
               PROVE  Spec => []FileIsLoaded
    OBVIOUS
  <1>1. Init => FileIsLoaded
    BY DEF Init, FileIsLoaded, Running
  <1>2. FileIsLoaded /\ [Next]_vars => FileIsLoaded'
    BY FileIsLoadedNext
  <1>3. QED
    BY <1>1, <1>2, PTL DEF Spec

\* From the call of Expose on, Caddy runs what up will record, and from that
\* of Verify on the port is exposed too; drop is for down and gc.
UpServed ==
  \A a \in Agents :
    /\ pc[a] \in {"expose", "verify", "save"} /\ tx[a].kind = "up" =>
         /\ loaded = Generate(tx[a].new.previews)
         /\ pc[a] # "expose" => serve[tx[a].port] = "own"
    /\ pc[a] = "drop" => tx[a].kind # "up"

\* Commands keep it, since nobody else touches Caddy or Serve meanwhile.
LEMMA UpServedNext ==
  ASSUME FaultKinds \cap {"torn", "caddyDies", "foreign"} = {},
         SafeInv, StepInv, FileIsLoaded, UpServed, [Next]_vars
  PROVE  UpServed'
  <1>0. TypeOK /\ LockInv /\ NoAgent \notin Agents
    BY DEF SafeInv
  <1>1. ASSUME NEW a \in Agents, pc[a] # "idle",
               \A b \in Agents \ {a} : pc'[b] = pc[b],
               pc'[a] \notin {"expose", "verify", "save", "drop"}
        PROVE  UpServed'
    BY <1>0, <1>1 DEF LockInv, UpServed
  <1>2. ASSUME NEW a \in Agents, LockRegistry(a)
        PROVE  UpServed'
    <2>1. pc'[a] = "loaded" /\ \A b \in Agents \ {a} : pc'[b] = pc[b] /\ pc[b] = "idle"
      BY <1>0, <1>2 DEF LockRegistry, LockFree, LockInv, TypeOK
    <2>2. QED
      BY <2>1 DEF UpServed
  <1>3. ASSUME NEW a \in Agents, Command(a)
        PROVE  UpServed'
    <2>1. pc[a] = "loaded" /\ Sound(tx[a].old.previews) /\ Agrees(tx[a].old)
      BY <1>0, <1>3 DEF Command, UpPlan, DownPlan, GCPlan, SetPinned, Refresh, Abort,
                        SafeInv, LockInv, PlanInv
    <2>2. CASE Abort(a)
      BY <1>0, <1>1, <2>1, <2>2, ReturnFrame DEF Abort, Frame
    <2>3. CASE ~Abort(a)
      <3>1. PICK label, kind, new, p :
              /\ label \in {"apply", "save"} /\ (label = "save" <=> kind = "edit")
              /\ Planned(a, label, kind, new, p)
        BY <1>0, <1>3, <2>1, <2>3, CommandPlanned
      <3>2. /\ pc'[a] = label /\ tx'[a].kind = kind
            /\ \A b \in Agents \ {a} : pc'[b] = pc[b] /\ pc[b] = "idle"
        BY <1>0, <2>1, <3>1 DEF Planned, LockInv
      <3>3. QED
        BY <3>1, <3>2 DEF UpServed
    <2>4. QED
      BY <2>2, <2>3
  <1>4. ASSUME NEW a \in Agents, Apply(a)
        PROVE  UpServed'
    <2> DEFINE want == Generate(tx[a].new.previews)
    <2>1. pc[a] = "apply" /\ Frame(a)
      BY <1>0, <1>4, StepFrame DEF Apply
    <2>2. CASE pc'[a] = "idle"
      BY <1>1, <2>1, <2>2 DEF Frame
    <2>3. CASE pc'[a] # "idle"
      <3>1. ~Return(a)
        BY <1>0, <2>3 DEF Return, TypeOK
      <3>2. ApplyOk(want) /\ UNCHANGED tx /\ Goto(a, IF tx[a].kind = "up" THEN "expose"
                              ELSE IF tx[a].todo = {} THEN "save" ELSE "drop")
        BY <1>4, <3>1 DEF Apply
      <3>3. loaded' = want
        BY <3>2, ApplyLoads DEF FileIsLoaded
      <3>4. pc'[a] = IF tx[a].kind = "up" THEN "expose"
                     ELSE IF tx[a].todo = {} THEN "save" ELSE "drop"
        BY <1>0, <3>2 DEF Goto, TypeOK
      <3>5. \A b \in Agents \ {a} : pc'[b] = "idle"
        BY <1>0, <2>1 DEF Frame, LockInv
      <3>6. QED
        BY <3>2, <3>3, <3>4, <3>5 DEF UpServed
    <2>4. QED
      BY <2>2, <2>3
  <1>5. ASSUME NEW a \in Agents, Expose(a)
        PROVE  UpServed'
    <2>1. pc[a] = "expose" /\ Frame(a) /\ UNCHANGED loaded
      BY <1>0, <1>5, StepFrame DEF Expose
    <2>2. CASE Undo(a, "undoapply", {})
      BY <1>0, <1>1, <2>1, <2>2, UndoFrame DEF Frame, PCs
    <2>3. CASE serve' = [serve EXCEPT ![tx[a].port] = "own"] /\ Goto(a, "verify") /\ UNCHANGED tx
      <3>1. tx[a].kind = "up" => tx[a].port \in Ports
        BY <2>1 DEF StepInv, PlanShape
      <3>2. tx[a].kind = "up" => serve'[tx[a].port] = "own"
        BY <1>0, <2>3, <3>1 DEF TypeOK
      <3>3. pc'[a] = "verify" /\ \A b \in Agents \ {a} : pc'[b] = "idle"
        BY <1>0, <2>1, <2>3 DEF Frame, LockInv, Goto, TypeOK
      <3>4. QED
        BY <2>1, <2>3, <3>2, <3>3 DEF UpServed
    <2>4. QED
      BY <1>5, <2>2, <2>3 DEF Expose
  <1>6. ASSUME NEW a \in Agents, Verify(a)
        PROVE  UpServed'
    <2>1. pc[a] = "verify" /\ Frame(a) /\ UNCHANGED <<loaded, serve>>
      BY <1>0, <1>6, StepFrame DEF Verify, env
    <2>2. CASE Undo(a, "undrop", {})
      BY <1>0, <1>1, <2>1, <2>2, UndoFrame DEF Frame, PCs
    <2>3. CASE Goto(a, "save") /\ UNCHANGED tx
      <3>1. pc'[a] = "save" /\ \A b \in Agents \ {a} : pc'[b] = "idle"
        BY <1>0, <2>1, <2>3 DEF Frame, LockInv, Goto, TypeOK
      <3>2. QED
        BY <2>1, <2>3, <3>1 DEF UpServed
    <2>4. QED
      BY <1>6, <2>2, <2>3 DEF Verify
  <1>7. ASSUME NEW a \in Agents, Remove(a)
        PROVE  UpServed'
    <2>1. pc[a] = "drop" /\ Frame(a) /\ tx[a].kind # "up"
      BY <1>0, <1>7, StepFrame DEF Remove, UpServed
    <2>2. tx'[a].kind # "up" /\ \A b \in Agents \ {a} : pc'[b] = "idle"
      BY <1>0, <2>1 DEF Frame, LockInv, NoTx
    <2>3. QED
      BY <2>2 DEF UpServed
  <1>8. ASSUME NEW a \in Agents, Save(a)
        PROVE  UpServed'
    <2>1. Frame(a) /\ pc[a] = "save"
      BY <1>0, <1>8, SaveFrame
    <2>2. CASE Return(a)
      BY <1>0, <1>1, <2>1, <2>2, ReturnFrame DEF Frame
    <2>3. CASE \E label \in {"undrop", "undoapply"} : \E ports : Undo(a, label, ports)
      <3>1. pc'[a] \in {"undrop", "undoapply"}
        BY <1>0, <2>3 DEF Undo, Goto, TypeOK
      <3>2. QED
        BY <1>1, <2>1, <3>1 DEF Frame
    <2>4. QED
      BY <1>8, <2>2, <2>3 DEF Save
  <1>9. ASSUME NEW a \in Agents, UndoExpose(a) \/ UndoApply(a) \/ UndoRemove(a)
        PROVE  UpServed'
    <2>1. Frame(a) /\ pc[a] # "idle"
      BY <1>0, <1>9, StepFrame
    <2>2. pc'[a] \in {"idle", "undoapply", "reexpose"}
      <3>1. CASE UndoExpose(a)
        BY <1>0, <3>1 DEF UndoExpose, Undo, Goto, TypeOK
      <3>2. CASE UndoApply(a)
        BY <1>0, <3>2 DEF UndoApply, Return, Goto, TypeOK
      <3>3. CASE UndoRemove(a)
        BY <1>0, <3>3 DEF UndoRemove, Return, Undo, Goto, TypeOK
      <3>4. QED
        BY <1>9, <3>1, <3>2, <3>3
    <2>3. QED
      BY <1>1, <2>1, <2>2 DEF Frame
  <1>10. ASSUME NEW a \in Agents, Crash(a)
         PROVE  UpServed'
    BY <1>0, <1>1, <1>10, ReturnFrame DEF Crash, Frame
  <1>11. ~CaddyDies /\ \A p \in Ports : ~ForeignServe(p)
    BY DEF CaddyDies, ForeignServe, Strike
  <1>12. CASE UNCHANGED vars
    BY <1>12 DEF vars, UpServed
  <1>13. QED
    BY <1>2, <1>3, <1>4, <1>5, <1>6, <1>7, <1>8, <1>9, <1>10, <1>11, <1>12
       DEF Next, Step, Environment

\* What up records as verified is served under the configuration it records,
\* also after crashed commands, lost answers and failed rollbacks, as long as
\* Apply is not torn and nobody else stops Caddy or takes the port meanwhile.
THEOREM RecordedIsServed ==
  FaultKinds \cap {"torn", "caddyDies", "foreign"} = {} => (Spec => []VerifiedIsServed)
  <1> SUFFICES ASSUME FaultKinds \cap {"torn", "caddyDies", "foreign"} = {}
               PROVE  Spec => []VerifiedIsServed
    OBVIOUS
  <1>1. "torn" \notin FaultKinds
    OBVIOUS
  <1>2. Spec => []FileIsLoaded
    BY <1>1, FileShowsLoaded
  <1>3. Init => UpServed
    BY DEF Init, UpServed
  <1>4. SafeInv /\ StepInv /\ FileIsLoaded /\ UpServed /\ [Next]_vars => UpServed'
    BY UpServedNext
  <1>5. UpServed => VerifiedIsServed
    BY DEF UpServed, VerifiedIsServed
  <1>6. QED
    BY <1>2, <1>3, <1>4, <1>5, Stepping, PTL DEF Spec

\* From Apply on, Caddy runs nothing that the command removes, and Serve has
\* only those of the removed ports that are still to do.
Dropped(a, rest) == Removed(a) \cap PortsOf(loaded) = {} /\ Removed(a) \cap Own \subseteq rest
GoneInv ==
  \A a \in Agents :
    /\ pc[a] = "apply" => Removed(a) \subseteq tx[a].todo
    /\ pc[a] \in {"expose", "verify"} => tx[a].kind = "up"
    /\ pc[a] = "drop" => Dropped(a, tx[a].todo)
    /\ pc[a] = "save" => Dropped(a, {})

\* An up replaces its own preview or an evicted one on the same port.
LEMMA OnlyDropsRemove ==
  ASSUME NEW a \in Agents, PlanShape(tx[a]), tx[a].kind \in {"up", "edit"}
  PROVE  Removed(a) = {}
  BY DEF PlanShape, Removed

\* What a step leaves of a plan that goes on.
LEMMA FrameRemoved ==
  ASSUME NEW a \in Agents, Frame(a), pc'[a] # "idle"
  PROVE  Removed(a)' = Removed(a)
  BY DEF Frame, Removed

\* Every step keeps it: the others are idle while a command is at work.
LEMMA GoneNext ==
  ASSUME "torn" \notin FaultKinds, SafeInv, StepInv, FileIsLoaded, GoneInv, [Next]_vars
  PROVE  GoneInv'
  <1>0. TypeOK /\ LockInv /\ NoAgent \notin Agents
    BY DEF SafeInv
  <1>1. ASSUME NEW a \in Agents, pc[a] # "idle",
               \A b \in Agents \ {a} : pc'[b] = pc[b],
               pc'[a] \notin {"apply", "expose", "verify", "drop", "save"}
        PROVE  GoneInv'
    BY <1>0, <1>1 DEF LockInv, GoneInv
  <1>2. ASSUME NEW a \in Agents, LockRegistry(a)
        PROVE  GoneInv'
    <2>1. pc'[a] = "loaded" /\ \A b \in Agents \ {a} : pc'[b] = pc[b] /\ pc[b] = "idle"
      BY <1>0, <1>2 DEF LockRegistry, LockFree, LockInv, TypeOK
    <2>2. QED
      BY <2>1 DEF GoneInv
  <1>3. ASSUME NEW a \in Agents, Command(a)
        PROVE  GoneInv'
    <2>1. pc[a] = "loaded" /\ Sound(tx[a].old.previews) /\ Agrees(tx[a].old)
      BY <1>0, <1>3 DEF Command, UpPlan, DownPlan, GCPlan, SetPinned, Refresh, Abort,
                        SafeInv, LockInv, PlanInv
    <2>2. CASE Abort(a)
      BY <1>0, <1>1, <2>1, <2>2, ReturnFrame DEF Abort, Frame
    <2>3. CASE ~Abort(a)
      <3>1. PICK label, kind, new, p :
              /\ label \in {"apply", "save"} /\ (label = "save" <=> kind = "edit")
              /\ Planned(a, label, kind, new, p)
        BY <1>0, <1>3, <2>1, <2>3, CommandPlanned
      <3>2. /\ pc'[a] = label /\ tx'[a].kind = kind
            /\ \A b \in Agents \ {a} : pc'[b] = pc[b] /\ pc[b] = "idle"
        BY <1>0, <2>1, <3>1 DEF Planned, LockInv
      <3>3. Removed(a)' = tx'[a].todo
        BY <3>1 DEF Planned, Removed
      <3>4. PlanShape(tx'[a])
        BY <1>0, <1>3, <2>1, <2>3, CommandPlanned
      <3>5. label = "save" => Removed(a)' = {}
        BY <3>1, <3>2, <3>4 DEF PlanShape, Removed
      <3>6. label = "save" => Dropped(a, {})'
        BY <3>5 DEF Dropped
      <3>7. QED
        BY <3>1, <3>2, <3>3, <3>6 DEF GoneInv
    <2>4. QED
      BY <2>2, <2>3
  <1>4. ASSUME NEW a \in Agents, Apply(a)
        PROVE  GoneInv'
    <2> DEFINE want == Generate(tx[a].new.previews)
    <2>1. pc[a] = "apply" /\ Frame(a) /\ UNCHANGED serve
      BY <1>0, <1>4, StepFrame DEF Apply
    <2>2. CASE pc'[a] = "idle"
      BY <1>1, <2>1, <2>2 DEF Frame
    <2>3. CASE pc'[a] # "idle"
      <3>1. ~Return(a)
        BY <1>0, <2>3 DEF Return, TypeOK
      <3>2. ApplyOk(want) /\ UNCHANGED tx /\ Goto(a, IF tx[a].kind = "up" THEN "expose"
                              ELSE IF tx[a].todo = {} THEN "save" ELSE "drop")
        BY <1>4, <3>1 DEF Apply
      <3>3. loaded' = want
        BY <3>2, ApplyLoads DEF FileIsLoaded
      <3>4. PortsOf(loaded)' \subseteq PortsOf(tx[a].new.previews)
        <4>1. \A w \in loaded' : \E v \in tx[a].new.previews : w.port = v.port
          BY <3>3 DEF Generate
        <4>2. QED
          BY <4>1 DEF PortsOf
      <3>5. pc'[a] = IF tx[a].kind = "up" THEN "expose"
                     ELSE IF tx[a].todo = {} THEN "save" ELSE "drop"
        BY <1>0, <3>2 DEF Goto, TypeOK
      <3>6. \A b \in Agents \ {a} : pc'[b] = "idle"
        BY <1>0, <2>1 DEF Frame, LockInv
      <3>7. Removed(a)' = Removed(a) /\ Removed(a) \subseteq tx[a].todo /\ tx'[a].todo = tx[a].todo
        BY <2>1, <2>3, <3>2, FrameRemoved DEF GoneInv
      <3>8. Removed(a) \cap PortsOf(tx[a].new.previews) = {}
        BY DEF Removed
      <3>9. Dropped(a, tx[a].todo)'
        BY <3>4, <3>7, <3>8 DEF Dropped
      <3>10. tx[a].todo = {} => Dropped(a, {})'
        BY <3>7, <3>9 DEF Dropped
      <3>11. QED
        BY <3>2, <3>5, <3>6, <3>7, <3>9, <3>10 DEF GoneInv
    <2>4. QED
      BY <2>2, <2>3
  <1>5. ASSUME NEW a \in Agents, UndoExpose(a) \/ UndoApply(a) \/ UndoRemove(a)
        PROVE  GoneInv'
    <2>1. Frame(a) /\ pc[a] # "idle"
      BY <1>0, <1>5, StepFrame
    <2>2. pc'[a] \in {"idle", "undoapply", "reexpose"}
      <3>1. CASE UndoExpose(a)
        BY <1>0, <3>1 DEF UndoExpose, Undo, Goto, TypeOK
      <3>2. CASE UndoApply(a)
        BY <1>0, <3>2 DEF UndoApply, Return, Goto, TypeOK
      <3>3. CASE UndoRemove(a)
        BY <1>0, <3>3 DEF UndoRemove, Return, Undo, Goto, TypeOK
      <3>4. QED
        BY <1>5, <3>1, <3>2, <3>3
    <2>3. QED
      BY <1>1, <2>1, <2>2 DEF Frame
  <1>6. ASSUME NEW a \in Agents, Expose(a)
        PROVE  GoneInv'
    <2>1. pc[a] = "expose" /\ Frame(a) /\ tx[a].kind = "up"
      BY <1>0, <1>6, StepFrame DEF Expose, GoneInv
    <2>2. pc'[a] \in {"verify", "undoapply"}
      BY <1>0, <1>6 DEF Expose, Undo, Goto, TypeOK
    <2>3. tx'[a].kind = "up" /\ \A b \in Agents \ {a} : pc'[b] = "idle"
      BY <1>0, <2>1, <2>2 DEF Frame, LockInv
    <2>4. QED
      BY <2>2, <2>3 DEF GoneInv
  <1>7. ASSUME NEW a \in Agents, Verify(a)
        PROVE  GoneInv'
    <2>1. pc[a] = "verify" /\ Frame(a)
      BY <1>0, <1>7, StepFrame DEF Verify
    <2>2. tx[a].kind = "up" /\ PlanShape(tx[a])
      BY <2>1 DEF StepInv, GoneInv
    <2>3. CASE pc'[a] = "idle"
      BY <1>1, <2>1, <2>3 DEF Frame
    <2>4. CASE pc'[a] # "idle"
      <3>1. Removed(a)' = {}
        BY <2>1, <2>2, <2>4, OnlyDropsRemove, FrameRemoved
      <3>2. \A b \in Agents \ {a} : pc'[b] = "idle"
        BY <1>0, <2>1 DEF Frame, LockInv
      <3>3. pc'[a] \in {"save", "undrop"}
        BY <1>0, <1>7 DEF Verify, Undo, Goto, TypeOK
      <3>4. Dropped(a, {})'
        BY <3>1 DEF Dropped
      <3>5. QED
        BY <3>2, <3>3, <3>4 DEF GoneInv
    <2>5. QED
      BY <2>3, <2>4
  <1>8. ASSUME NEW a \in Agents, Remove(a)
        PROVE  GoneInv'
    <2>1. pc[a] = "drop" /\ Frame(a)
      BY <1>0, <1>8, StepFrame DEF Remove
    <2>2. PICK p \in tx[a].todo :
            \/ /\ serve' = [serve EXCEPT ![p] = "none"]
               /\ tx' = [tx EXCEPT ![a].todo = @ \ {p}]
               /\ Goto(a, IF tx[a].todo = {p} THEN "save" ELSE "drop")
               /\ UNCHANGED loaded
            \/ Undo(a, "undoapply", IF tx[a].kind = "gc" THEN Removed(a) ELSE {})
      BY <1>8 DEF Remove
    <2>3. CASE Undo(a, "undoapply", IF tx[a].kind = "gc" THEN Removed(a) ELSE {})
      BY <1>0, <1>1, <2>1, <2>3 DEF Undo, Goto, Frame, TypeOK
    <2>4. CASE /\ serve' = [serve EXCEPT ![p] = "none"]
               /\ tx' = [tx EXCEPT ![a].todo = @ \ {p}]
               /\ Goto(a, IF tx[a].todo = {p} THEN "save" ELSE "drop")
               /\ UNCHANGED loaded
      <3>1. pc'[a] = IF tx[a].todo = {p} THEN "save" ELSE "drop"
        BY <1>0, <2>4 DEF Goto, TypeOK
      <3>2. tx'[a].todo = tx[a].todo \ {p}
        BY <1>0, <2>4 DEF TypeOK, Tx
      <3>3. Removed(a)' = Removed(a) /\ Dropped(a, tx[a].todo)
        BY <2>1, <3>1, FrameRemoved DEF GoneInv
      <3>4. p \in Ports /\ Own' \subseteq Own \ {p}
        BY <1>0, <2>4 DEF Own, TypeOK, Tx
      <3>5. \A b \in Agents \ {a} : pc'[b] = "idle"
        BY <1>0, <2>1 DEF Frame, LockInv
      <3>6. Dropped(a, tx[a].todo)'
        BY <2>4, <3>2, <3>3, <3>4 DEF Dropped
      <3>7. tx[a].todo = {p} => Dropped(a, {})'
        BY <3>2, <3>6 DEF Dropped
      <3>8. QED
        BY <3>1, <3>5, <3>6, <3>7 DEF GoneInv
    <2>5. QED
      BY <2>2, <2>3, <2>4
  <1>9. ASSUME NEW a \in Agents, Save(a)
        PROVE  GoneInv'
    <2>1. Frame(a) /\ pc[a] = "save"
      BY <1>0, <1>9, SaveFrame
    <2>2. CASE Return(a)
      BY <1>0, <1>1, <2>1, <2>2, ReturnFrame DEF Frame
    <2>3. CASE \E label \in {"undrop", "undoapply"} : \E ports : Undo(a, label, ports)
      <3>1. pc'[a] \in {"undrop", "undoapply"}
        BY <1>0, <2>3 DEF Undo, Goto, TypeOK
      <3>2. QED
        BY <1>1, <2>1, <3>1 DEF Frame
    <2>4. QED
      BY <1>9, <2>2, <2>3 DEF Save
  <1>10. ASSUME NEW a \in Agents, Crash(a)
        PROVE  GoneInv'
    BY <1>0, <1>1, <1>10, ReturnFrame DEF Crash, Frame
  <1>11. CASE CaddyDies \/ \E p \in Ports : ForeignServe(p)
    <2>1. UNCHANGED <<pc, tx>> /\ loaded' \subseteq loaded
      BY <1>11 DEF CaddyDies, ForeignServe
    <2>2. PortsOf(loaded)' \subseteq PortsOf(loaded)
      BY <2>1 DEF PortsOf
    <2>3. Own' \subseteq Own
      BY <1>0, <1>11 DEF CaddyDies, ForeignServe, Own, TypeOK
    <2>4. \A a \in Agents : Removed(a)' = Removed(a)
      BY <2>1 DEF Removed
    <2>5. QED
      BY <2>1, <2>2, <2>3, <2>4 DEF GoneInv, Dropped
  <1>12. CASE UNCHANGED vars
    BY <1>12 DEF vars, GoneInv, Dropped, Removed, PortsOf, Own
  <1>13. QED
    BY <1>2, <1>3, <1>4, <1>5, <1>7, <1>8, <1>9, <1>10, <1>11, <1>12, <1>6
       DEF Next, Step, Environment

\* What down and gc strike off the registry is gone from Caddy and from
\* Serve, whatever earlier commands left behind, unless an Apply was torn.
THEOREM StruckOffIsGone == "torn" \notin FaultKinds => (Spec => []RemovedIsGone)
  <1> SUFFICES ASSUME "torn" \notin FaultKinds
               PROVE  Spec => []RemovedIsGone
    OBVIOUS
  <1>1. Spec => []FileIsLoaded
    BY FileShowsLoaded
  <1>2. Init => GoneInv
    BY DEF Init, GoneInv
  <1>3. SafeInv /\ StepInv /\ FileIsLoaded /\ GoneInv /\ [Next]_vars => GoneInv'
    BY GoneNext
  <1>4. GoneInv => RemovedIsGone
    BY DEF GoneInv, RemovedIsGone, Dropped
  <1>5. QED
    BY <1>1, <1>2, <1>3, <1>4, Stepping, PTL DEF Spec
-----------------------------------------------------------------------------
(* What other programs configured in Tailscale Serve.                      *)

\* What a command has left to do concerns ports of the registry it loaded.
TodoOwned == \A a \in Agents : tx[a].todo \subseteq PortsOf(tx[a].old.previews)

\* What is left to do is part of what was, or ports of the old previews.
LEMMA TodoShrinks ==
  ASSUME TypeOK, NEW a \in Agents,
         Apply(a) \/ Expose(a) \/ Verify(a) \/ Remove(a) \/ Save(a)
           \/ UndoExpose(a) \/ UndoApply(a) \/ UndoRemove(a),
         pc'[a] # "idle"
  PROVE  tx'[a].todo \subseteq tx[a].todo \cup PortsOf(tx[a].old.previews)
  <1>1. ~Return(a)
    BY DEF Return, TypeOK
  <1>2. \A ports, label : Undo(a, label, ports) => tx'[a].todo = ports
    BY DEF Undo, TypeOK, Tx
  <1>3. Removed(a) \subseteq PortsOf(tx[a].old.previews)
    BY DEF Removed
  <1>4. CASE UNCHANGED tx
    BY <1>4
  <1>5. CASE Remove(a)
    <2>1. PICK p \in tx[a].todo :
            \/ tx' = [tx EXCEPT ![a].todo = @ \ {p}]
            \/ Undo(a, "undoapply", IF tx[a].kind = "gc" THEN Removed(a) ELSE {})
      BY <1>5 DEF Remove
    <2>2. CASE tx' = [tx EXCEPT ![a].todo = @ \ {p}]
      BY <2>2 DEF TypeOK, Tx
    <2>3. QED
      BY <1>2, <1>3, <2>1, <2>2
  <1>6. QED
    BY <1>1, <1>2, <1>3, <1>4, <1>5
       DEF Apply, ApplyTorn, Expose, Verify, Save, UndoExpose, UndoApply, UndoRemove

\* The port of a new preview was free in Serve, that of a known one is its own.
LEMMA UpTakesFree ==
  ASSUME TypeOK, NEW a \in Agents, NEW id \in Ids, NEW rev \in Revs,
         NEW req \in Ports \cup {NoPort}, NEW stale \in SUBSET Ids, UpPlan(a, id, rev, req, stale)
  PROVE  \/ tx'[a].port \in PortsOf(tx[a].old.previews)
         \/ tx'[a].port \in Ports /\ serve[tx'[a].port] = "none"
  <1> DEFINE reg == PruneReservations(tx[a].old, stale)
  <1>1. reg.previews = tx[a].old.previews
    BY PruneType DEF TypeOK, Tx
  <1>2. PICK p \in Ports :
          /\ \/ ChosenPort(reg, id, req, p)
             \/ \E v \in reg.previews : v.port = p
          /\ \E new : Begin(a, "apply", "up", new, p)
    BY DEF UpPlan
  <1>3. p \in PortsOf(tx[a].old.previews) \/ serve[p] = "none"
    <2> HIDE DEF reg
    <2>1. QED
      BY <1>1, <1>2 DEF ChosenPort, Free, PortsOf
  <1>4. tx'[a].port = p
    <2>1. pc[a] = "loaded"
      BY DEF UpPlan
    <2>2. PICK new : Planned(a, "apply", "up", new, p)
      BY <1>2, <2>1, BeginPlanned
    <2>3. QED
      BY <2>2 DEF Planned
  <1>5. QED
    BY <1>3, <1>4

\* Plans start with such ports, and calls keep to them.
LEMMA TodoOwnedNext ==
  ASSUME SafeInv, TodoOwned, [Next]_vars
  PROVE  TodoOwned'
  <1>0. TypeOK /\ LockInv /\ PlanInv
    BY DEF SafeInv
  <1>1. ASSUME NEW a \in Agents, Frame(a),
               pc'[a] # "idle" => tx'[a].todo \subseteq tx[a].todo \cup PortsOf(tx[a].old.previews)
        PROVE  TodoOwned'
    <2>1. tx'[a].todo \subseteq PortsOf(tx'[a].old.previews)
      BY <1>1 DEF Frame, TodoOwned, NoTx
    <2>2. QED
      BY <1>1, <2>1 DEF Frame, TodoOwned
  <1>2. ASSUME NEW a \in Agents, LockRegistry(a)
        PROVE  TodoOwned'
    <2>1. tx' = [tx EXCEPT ![a] = [NoTx EXCEPT !.old = registry]]
      BY <1>2 DEF LockRegistry
    <2>2. [NoTx EXCEPT !.old = registry].todo = {}
      BY DEF NoTx
    <2>3. tx'[a].todo = {} /\ \A b \in Agents \ {a} : tx'[b] = tx[b]
      BY <1>0, <2>1, <2>2 DEF TypeOK
    <2>4. QED
      BY <2>3 DEF TodoOwned
  <1>3. ASSUME NEW a \in Agents, Command(a), ~Abort(a)
        PROVE  TodoOwned'
    <2>1. pc[a] = "loaded" /\ Sound(tx[a].old.previews) /\ Agrees(tx[a].old)
      BY <1>0, <1>3 DEF Command, UpPlan, DownPlan, GCPlan, SetPinned, Refresh, Abort,
                        LockInv, PlanInv
    <2>2. PICK label, kind, new, p : Planned(a, label, kind, new, p)
      BY <1>0, <1>3, <2>1, CommandPlanned
    <2>3. QED
      BY <2>2 DEF Planned, TodoOwned
  <1>4. ASSUME NEW a \in Agents, Abort(a) \/ Crash(a)
        PROVE  TodoOwned'
    BY <1>0, <1>1, <1>4, ReturnFrame DEF Abort, Crash
  <1>5. ASSUME NEW a \in Agents,
               Apply(a) \/ Expose(a) \/ Verify(a) \/ Remove(a) \/ Save(a)
                 \/ UndoExpose(a) \/ UndoApply(a) \/ UndoRemove(a)
        PROVE  TodoOwned'
    BY <1>0, <1>1, <1>5, StepFrame, SaveFrame, TodoShrinks
  <1>6. CASE UNCHANGED tx
    BY <1>6 DEF TodoOwned
  <1>7. QED
    BY <1>2, <1>3, <1>4, <1>5, <1>6
       DEF Next, Step, Environment, CaddyDies, ForeignServe, vars

\* The ports a command may write stay among those claimed.
LEMMA ClaimsGrowFree ==
  ASSUME SafeInv, StepInv, [Next]_vars, NEW p \in Ports, p \notin Claimed, serve[p] = "foreign"
  PROVE  p \notin Claimed'
  <1>0. TypeOK /\ LockInv /\ PlanInv /\ NoPort \notin Ports
    BY LifecycleAssumption DEF SafeInv
  <1>1. p \notin PortsOf(registry.previews) /\ \A a \in Agents : tx[a].port # p
    BY DEF Claimed
  <1>2. p \notin PortsOf(registry'.previews)
    <2>1. CASE registry' = registry
      BY <1>1, <2>1
    <2>2. CASE registry' # registry
      <3>1. PICK a \in Agents : pc[a] = "save" /\ tx[a].old = registry /\ registry' = tx[a].new
        BY <1>0, <2>2, OnlySaveWrites
      <3>2. PlanShape(tx[a])
        BY <3>1 DEF StepInv
      <3>3. PortsOf(tx[a].new.previews) \subseteq PortsOf(tx[a].old.previews) \cup {tx[a].port}
        BY <3>2 DEF PlanShape, PortsOf
      <3>4. QED
        BY <1>1, <3>1, <3>3
    <2>3. QED
      BY <2>1, <2>2
  <1>3. ASSUME NEW a \in Agents, Frame(a)
        PROVE  \A b \in Agents : tx'[b].port # p
    BY <1>0, <1>1, <1>3 DEF Frame, NoTx
  <1>4. ASSUME NEW a \in Agents, LockRegistry(a)
        PROVE  \A b \in Agents : tx'[b].port # p
    <2>1. tx' = [tx EXCEPT ![a] = [NoTx EXCEPT !.old = registry]]
      BY <1>4 DEF LockRegistry
    <2>2. [NoTx EXCEPT !.old = registry].port = NoPort
      BY DEF NoTx
    <2>3. tx'[a].port = NoPort /\ \A b \in Agents \ {a} : tx'[b] = tx[b]
      BY <1>0, <2>1, <2>2 DEF TypeOK
    <2>4. QED
      BY <1>0, <1>1, <2>3
  <1>5. ASSUME NEW a \in Agents, Command(a), ~Abort(a)
        PROVE  \A b \in Agents : tx'[b].port # p
    <2>1. pc[a] = "loaded" /\ Sound(tx[a].old.previews) /\ Agrees(tx[a].old) /\ tx[a].old = registry
      BY <1>0, <1>5 DEF Command, UpPlan, DownPlan, GCPlan, SetPinned, Refresh, Abort,
                        LockInv, PlanInv
    <2>2. PICK label, kind, new, q : Planned(a, label, kind, new, q)
      BY <1>0, <1>5, <2>1, CommandPlanned
    <2>3. \A b \in Agents \ {a} : tx'[b] = tx[b]
      BY <2>2 DEF Planned
    <2>4. tx'[a].port # p
      <3>1. CASE \E id \in Ids, rev \in Revs, req \in Ports \cup {NoPort}, stale \in SUBSET Ids :
                   UpPlan(a, id, rev, req, stale)
        BY <1>0, <1>1, <2>1, <3>1, UpTakesFree
      <3>2. CASE ~\E id \in Ids, rev \in Revs, req \in Ports \cup {NoPort}, stale \in SUBSET Ids :
                    UpPlan(a, id, rev, req, stale)
        <4>1. PICK other, any, o :
                /\ other \in {"down", "gc", "edit"}
                /\ Planned(a, "apply", other, any, o) \/ Planned(a, "save", other, any, o)
          BY <1>0, <1>5, <2>1, <3>2, DownPlanned, GCPlanned, EditPlanned DEF Command
        <4>2. PlanShape(tx'[a])
          BY <1>0, <1>5, <2>1, CommandPlanned
        <4>3. tx'[a].port = NoPort
          BY <4>1, <4>2 DEF Planned, PlanShape
        <4>4. QED
          BY <1>0, <4>3
      <3>3. QED
        BY <3>1, <3>2
    <2>5. QED
      BY <1>1, <2>3, <2>4
  <1>6. ASSUME NEW a \in Agents, Abort(a) \/ Crash(a)
        PROVE  \A b \in Agents : tx'[b].port # p
    BY <1>0, <1>3, <1>6, ReturnFrame DEF Abort, Crash
  <1>7. ASSUME NEW a \in Agents,
               Apply(a) \/ Expose(a) \/ Verify(a) \/ Remove(a) \/ Save(a)
                 \/ UndoExpose(a) \/ UndoApply(a) \/ UndoRemove(a)
        PROVE  \A b \in Agents : tx'[b].port # p
    BY <1>0, <1>3, <1>7, StepFrame, SaveFrame
  <1>8. ASSUME UNCHANGED tx
        PROVE  \A b \in Agents : tx'[b].port # p
    BY <1>1, <1>8
  <1>9. \A b \in Agents : tx'[b].port # p
    BY <1>4, <1>5, <1>6, <1>7, <1>8
       DEF Next, Step, Environment, CaddyDies, ForeignServe, vars
  <1>10. QED
    BY <1>2, <1>9 DEF Claimed

\* A call writes its up's port, or one it has left to do.
LEMMA CallsSpare ==
  ASSUME SafeInv, TodoOwned, NEW a \in Agents, Step(a), NEW p \in Ports, p \notin Claimed
  PROVE  serve'[p] = serve[p]
  <1>0. TypeOK /\ LockInv
    BY DEF SafeInv
  <1>1. CASE UNCHANGED serve
    BY <1>1
  <1>2. p # tx[a].port /\ p \notin PortsOf(registry.previews)
    BY DEF Claimed
  <1>3. pc[a] # "idle" => p \notin tx[a].todo
    BY <1>0, <1>2 DEF TodoOwned, LockInv
  <1>4. CASE Command(a)
    BY <1>1, <1>4, CommandReads DEF env
  <1>5. CASE Expose(a) \/ UndoExpose(a)
    BY <1>0, <1>1, <1>2, <1>5 DEF Expose, UndoExpose, TypeOK
  <1>6. CASE Remove(a) \/ UndoRemove(a)
    BY <1>0, <1>1, <1>3, <1>6 DEF Remove, UndoRemove, TypeOK
  <1>7. QED
    BY <1>1, <1>4, <1>5, <1>6 DEF Step, Apply, Verify, Save, UndoApply, env

\* Whatever other programs do with Tailscale Serve, and whatever crashes or
\* fails: no command turns to a port that one of them uses, and no call
\* touches what they configured, except on ports claimed before they came.
THEOREM ForeignIsKept == Spec => ForeignKept
  <1>1. Init => TodoOwned
    BY DEF Init, NoTx, TodoOwned
  <1>2. SafeInv /\ TodoOwned /\ [Next]_vars => TodoOwned'
    BY TodoOwnedNext
  <1>3. SafeInv /\ StepInv /\ TodoOwned /\ [Next]_vars =>
          [\A p \in Ports : serve[p] = "foreign" /\ p \notin Claimed =>
             /\ p \notin Claimed'
             /\ <<pc, tx>>' # <<pc, tx>> => serve'[p] = "foreign"]_vars
    <2> SUFFICES ASSUME SafeInv, StepInv, TodoOwned, Next,
                        NEW p \in Ports, serve[p] = "foreign", p \notin Claimed
                 PROVE  /\ p \notin Claimed'
                        /\ <<pc, tx>>' # <<pc, tx>> => serve'[p] = "foreign"
      OBVIOUS
    <2>1. CASE \E a \in Agents : LockRegistry(a) \/ Crash(a)
      BY <2>1, ClaimsGrowFree DEF LockRegistry, Crash, env
    <2>2. CASE \E a \in Agents : Step(a)
      BY <2>2, ClaimsGrowFree, CallsSpare
    <2>3. CASE CaddyDies \/ \E q \in Ports : ForeignServe(q)
      BY <2>3, ClaimsGrowFree DEF CaddyDies, ForeignServe
    <2>4. QED
      BY <2>1, <2>2, <2>3 DEF Next, Environment
  <1>4. QED
    BY <1>1, <1>2, <1>3, Stepping, PTL DEF Spec, ForeignKept
-----------------------------------------------------------------------------
(* Lifecycle implements Catalog: every command, whatever crashes, fails or *)
(* is rolled back in between, changes the registry in one step of the      *)
(* catalog or not at all.                                                  *)
(*                                                                         *)
(* The argument: a plan, made when the command has read the registry, is   *)
(* an effect of the catalog on that registry (Effect, EffectInv); LockInv  *)
(* says that it is still the one on disk when the plan is saved.           *)
-----------------------------------------------------------------------------
(* The steps of Catalog, as relations of two registries.                   *)

Reserving(old, new, reserved) ==
  /\ new.res \in [Ids -> Ports \cup {NoPort}]
  /\ \A v \in reserved : new.res[v.id] = v.port
  /\ \A i \in Ids \ IdsOf(reserved) : new.res[i] \in {old.res[i], NoPort}

Putting(old, new, kept, v) == new.previews = kept \cup {v} /\ Reserving(old, new, {v})

UpEffect(old, new) ==
  \E id \in Ids, rev \in Revs, p \in Ports :
    LET Mine(pinned) == [id |-> id, port |-> p, rev |-> rev, pinned |-> pinned] IN
    \/ /\ id \notin IdsOf(old.previews) /\ p \notin PortsOf(old.previews)
       /\ Putting(old, new, old.previews, Mine(FALSE))
    \/ \E v \in old.previews :
         /\ v.id = id /\ v.port = p
         /\ Putting(old, new, old.previews \ {v}, Mine(v.pinned))
    \/ \E v \in old.previews :
         /\ id \notin IdsOf(old.previews) /\ ~v.pinned /\ v.port = p
         /\ Putting(old, new, old.previews \ {v}, Mine(FALSE))

DownEffect(old, new) ==
  \E v \in old.previews :
    new = [previews |-> old.previews \ {v}, res |-> [old.res EXCEPT ![v.id] = v.port]]

ExpireEffect(old, new) ==
  \E gone \in SUBSET old.previews :
    /\ gone # {} /\ \A v \in gone : ~v.pinned
    /\ new.previews = old.previews \ gone /\ Reserving(old, new, gone)

PinEffect(old, new) ==
  \E v \in old.previews, value \in BOOLEAN :
    new = [old EXCEPT !.previews = (@ \ {v}) \cup {[v EXCEPT !.pinned = value]}]

Effect(old, new) ==
  new = old \/ UpEffect(old, new) \/ DownEffect(old, new)
    \/ ExpireEffect(old, new) \/ PinEffect(old, new)

EffectInv ==
  \A a \in Agents : pc[a] \notin {"idle", "loaded"} => Effect(tx[a].old, tx[a].new)
-----------------------------------------------------------------------------
(* Every plan is an effect.                                                *)

\* What a command finds in the registry it read.
LEMMA OldFacts ==
  ASSUME TypeOK, NEW a \in Agents
  PROVE  /\ tx[a].old \in Registry /\ tx[a].old.previews \in SUBSET Preview
         /\ tx[a].old.res \in [Ids -> Ports \cup {NoPort}]
         /\ \A v \in tx[a].old.previews : v.id \in Ids /\ v.port \in Ports /\ v.pinned \in BOOLEAN
  BY DEF TypeOK, Tx, Registry, Preview

\* A new reservation after pruning leaves the others, or none.
LEMMA ReserveEffect ==
  ASSUME NEW old \in Registry, NEW stale, NEW id \in Ids, NEW p \in Ports, NEW new, NEW v,
         new.res = Reserve(PruneReservations(old, stale).res, id, p), v.id = id, v.port = p
  PROVE  Reserving(old, new, {v})
  <1>1. /\ PruneReservations(old, stale).res =
             [i \in Ids |-> IF i \in stale THEN NoPort ELSE old.res[i]]
        /\ old.res \in [Ids -> Ports \cup {NoPort}]
    BY DEF PruneReservations, Registry
  <1>2. IdsOf({v}) = {id}
    BY DEF IdsOf
  <1>3. /\ new.res \in [Ids -> Ports \cup {NoPort}] /\ new.res[id] = p
        /\ \A i \in Ids \ {id} : new.res[i] \in {old.res[i], NoPort}
    BY <1>1 DEF Reserve
  <1>4. QED
    BY <1>2, <1>3 DEF Reserving

\* up updates a preview, adds one, or replaces an unpinned one.
LEMMA UpEffective ==
  ASSUME TypeOK, NEW a \in Agents, Sound(tx[a].old.previews),
         NEW id \in Ids, NEW rev \in Revs, NEW req \in Ports \cup {NoPort},
         NEW stale \in SUBSET Ids, UpPlan(a, id, rev, req, stale)
  PROVE  Effect(tx'[a].old, tx'[a].new)
  <1> DEFINE old == tx[a].old.previews
             reg == PruneReservations(tx[a].old, stale)
             pinned == \E v \in reg.previews : v.id = id /\ v.pinned
             mine(p) == [id |-> id, port |-> p, rev |-> rev, pinned |-> pinned]
             With(p, kept) ==
               [previews |-> WithoutID(kept, id) \cup {mine(p)},
                res |-> Reserve(reg.res, id, p)]
  <1>1. /\ tx[a].old \in Registry /\ old \in SUBSET Preview /\ reg.previews = old
        /\ \A v \in old : v.pinned \in BOOLEAN
    BY OldFacts, PruneType
  <1>2. pc[a] = "loaded"
    BY DEF UpPlan
  <1>3. PICK p \in Ports :
          \/ ChosenPort(reg, id, req, p) /\ Begin(a, "apply", "up", With(p, reg.previews), p)
          \/ \E v \in reg.previews :
               /\ v.port = p /\ Evictable(reg, id, v)
               /\ Begin(a, "apply", "up", With(p, WithoutID(reg.previews, v.id)), p)
    BY DEF UpPlan
  <1>4. ASSUME NEW kept, Begin(a, "apply", "up", With(p, kept), p)
        PROVE  /\ tx'[a].old = tx[a].old
               /\ Putting(tx[a].old, tx'[a].new, WithoutID(kept, id), mine(p))
    <2> DEFINE new == With(p, kept)
    <2>1. new.previews = WithoutID(kept, id) \cup {mine(p)} /\ new.res = Reserve(reg.res, id, p)
      OBVIOUS
    <2>2. mine(p).id = id /\ mine(p).port = p
      OBVIOUS
    <2> HIDE DEF new, mine
    <2>3. Planned(a, "apply", "up", new, p)
      BY <1>2, <1>4, BeginPlanned DEF new
    <2>4. tx'[a].old = tx[a].old /\ tx'[a].new = new
      BY <2>3 DEF Planned
    <2>5. Reserving(tx[a].old, new, {mine(p)})
      BY <1>1, <2>1, <2>2, ReserveEffect
    <2>6. QED
      BY <2>1, <2>4, <2>5 DEF Putting
  <1>5. \A v \in old : v.id = id => pinned = v.pinned /\ WithoutID(old, id) = old \ {v}
    BY <1>1 DEF Sound, WithoutID
  <1>6. id \notin IdsOf(old) => pinned = FALSE /\ \A kept \in SUBSET old : WithoutID(kept, id) = kept
    BY <1>1 DEF IdsOf, WithoutID
  <1> HIDE DEF With, reg, pinned
  <1>7. \A v \in old : v.id = id =>
          mine(p) = [id |-> id, port |-> p, rev |-> rev, pinned |-> v.pinned]
    BY <1>5, Zenon
  <1>8. id \notin IdsOf(old) =>
          mine(p) = [id |-> id, port |-> p, rev |-> rev, pinned |-> FALSE]
    BY <1>6, Zenon
  <1> HIDE DEF mine
  <1>9. CASE ChosenPort(reg, id, req, p) /\ Begin(a, "apply", "up", With(p, reg.previews), p)
    <2>1. /\ tx'[a].old = tx[a].old
          /\ Putting(tx[a].old, tx'[a].new, WithoutID(old, id), mine(p))
      BY <1>1, <1>4, <1>9
    <2>2. CASE id \in IdsOf(old)
      <3>1. PICK v \in old : v.id = id /\ v.port = p
        BY <1>1, <1>9, <2>2 DEF ChosenPort
      <3>2. Putting(tx[a].old, tx'[a].new, old \ {v},
                    [id |-> id, port |-> p, rev |-> rev, pinned |-> v.pinned])
        BY <1>5, <1>7, <2>1, <3>1
      <3>3. UpEffect(tx[a].old, tx'[a].new)
        BY <3>1, <3>2 DEF UpEffect
      <3>4. QED
        BY <2>1, <3>3 DEF Effect
    <2>3. CASE id \notin IdsOf(old)
      <3>1. p \notin PortsOf(old)
        BY <1>1, <1>9, <2>3 DEF ChosenPort, Free
      <3>2. Putting(tx[a].old, tx'[a].new, old,
                    [id |-> id, port |-> p, rev |-> rev, pinned |-> FALSE])
        BY <1>6, <1>8, <2>1, <2>3
      <3>3. UpEffect(tx[a].old, tx'[a].new)
        BY <2>3, <3>1, <3>2 DEF UpEffect
      <3>4. QED
        BY <2>1, <3>3 DEF Effect
    <2>4. QED
      BY <2>2, <2>3
  <1>10. CASE \E v \in reg.previews :
                /\ v.port = p /\ Evictable(reg, id, v)
                /\ Begin(a, "apply", "up", With(p, WithoutID(reg.previews, v.id)), p)
    <2>1. PICK v \in old : /\ v.port = p /\ Evictable(reg, id, v)
                           /\ Begin(a, "apply", "up", With(p, WithoutID(old, v.id)), p)
      BY <1>1, <1>10
    <2>2. ~v.pinned /\ id \notin IdsOf(old)
      BY <1>1, <2>1 DEF Evictable
    <2>3. WithoutID(old, v.id) = old \ {v}
      BY DEF Sound, WithoutID
    <2>4. Begin(a, "apply", "up", With(p, old \ {v}), p)
      BY <2>1, <2>3
    <2>5. WithoutID(old \ {v}, id) = old \ {v}
      BY <1>6, <2>2
    <2>6. /\ tx'[a].old = tx[a].old
          /\ Putting(tx[a].old, tx'[a].new, WithoutID(old \ {v}, id), mine(p))
      BY <1>4, <2>4
    <2>7. Putting(tx[a].old, tx'[a].new, old \ {v},
                  [id |-> id, port |-> p, rev |-> rev, pinned |-> FALSE])
      BY <1>8, <2>2, <2>5, <2>6
    <2>8. UpEffect(tx[a].old, tx'[a].new)
      BY <2>1, <2>2, <2>7 DEF UpEffect
    <2>9. QED
      BY <2>6, <2>8 DEF Effect
  <1>11. QED
    BY <1>3, <1>9, <1>10

\* down removes one preview and reserves its port.
LEMMA DownEffective ==
  ASSUME TypeOK, NEW a \in Agents, NEW id \in Ids, DownPlan(a, id)
  PROVE  Effect(tx'[a].old, tx'[a].new)
  <1> DEFINE old == tx[a].old.previews
  <1>1. PICK v \in old :
          /\ v.id = id
          /\ Begin(a, "apply", "down", [previews |-> old \ {v},
                   res |-> Reserve(tx[a].old.res, id, v.port)], NoPort)
    BY DEF DownPlan
  <1> DEFINE new == [previews |-> old \ {v}, res |-> Reserve(tx[a].old.res, id, v.port)]
  <1>2. Planned(a, "apply", "down", new, NoPort)
    BY <1>1, BeginPlanned DEF DownPlan
  <1>3. tx'[a].old = tx[a].old /\ tx'[a].new = new
    BY <1>2 DEF Planned
  <1>4. new = [previews |-> old \ {v}, res |-> [tx[a].old.res EXCEPT ![v.id] = v.port]]
    BY <1>1 DEF Reserve
  <1>5. QED
    BY <1>3, <1>4 DEF Effect, DownEffect

\* gc removes unpinned previews, and reserves their ports, or nothing.
LEMMA GCEffective ==
  ASSUME TypeOK, NEW a \in Agents, Sound(tx[a].old.previews),
         NEW expired \in SUBSET Ids, NEW stale \in SUBSET Ids, GCPlan(a, expired, stale)
  PROVE  Effect(tx'[a].old, tx'[a].new)
  <1> DEFINE old  == tx[a].old.previews
             kept == {v \in old : v.pinned \/ v.id \notin expired}
             gone == old \ kept
             res  == [i \in Ids |-> IF \E v \in gone : v.id = i
                                    THEN (CHOOSE v \in gone : v.id = i).port ELSE tx[a].old.res[i]]
             seen == [previews |-> kept, res |-> res]
             new  == PruneReservations(seen, stale)
  <1>1. /\ tx[a].old \in Registry /\ old \in SUBSET Preview
        /\ tx[a].old.res \in [Ids -> Ports \cup {NoPort}]
        /\ \A v \in old : v.id \in Ids /\ v.port \in Ports /\ v.pinned \in BOOLEAN
    BY OldFacts
  <1>2. /\ pc[a] = "loaded" /\ stale \cap IdsOf(gone) = {} /\ (gone = {} => stale = {})
        /\ Begin(a, "apply", "gc", new, NoPort)
    BY DEF GCPlan
  <1>3. new = [previews |-> kept, res |-> [i \in Ids |-> IF i \in stale THEN NoPort ELSE res[i]]]
    BY DEF PruneReservations
  <1>4. \A v \in gone : res[v.id] = v.port
    <2> TAKE v \in gone
    <2>1. v.id \in Ids
      BY <1>1
    <2>2. \A w \in gone : w.id = v.id => w = v
      BY DEF Sound
    <2>3. (CHOOSE w \in gone : w.id = v.id) = v
      BY <2>2
    <2>4. QED
      BY <2>1, <2>3
  <1>5. \A i \in Ids \ IdsOf(gone) : res[i] = tx[a].old.res[i]
    BY DEF IdsOf
  <1>6. \A i \in Ids : res[i] \in Ports \cup {NoPort}
    <2> TAKE i \in Ids
    <2>1. CASE i \in IdsOf(gone)
      BY <1>1, <1>4, <2>1 DEF IdsOf
    <2>2. CASE i \notin IdsOf(gone)
      BY <1>1, <1>5, <2>2
    <2>3. QED
      BY <2>1, <2>2
  <1> HIDE DEF res, new, seen
  <1>7. Planned(a, "apply", "gc", new, NoPort)
    BY <1>2, BeginPlanned
  <1>8. tx'[a].old = tx[a].old /\ tx'[a].new = new
    BY <1>7 DEF Planned
  <1>9. CASE gone = {}
    <2>1. kept = old /\ stale = {}
      BY <1>2, <1>9
    <2>2. [i \in Ids |-> IF i \in stale THEN NoPort ELSE res[i]] = tx[a].old.res
      BY <1>1, <1>5, <1>9, <2>1 DEF IdsOf
    <2>3. new = tx[a].old
      BY <1>1, <1>3, <2>1, <2>2 DEF Registry
    <2>4. QED
      BY <1>8, <2>3 DEF Effect
  <1>10. CASE gone # {}
    <2>1. new.previews = old \ gone
      BY <1>3
    <2>2. /\ new.res \in [Ids -> Ports \cup {NoPort}]
          /\ \A i \in Ids : new.res[i] = IF i \in stale THEN NoPort ELSE res[i]
      BY <1>3, <1>6
    <2>3. \A v \in gone : v.id \notin stale /\ v.id \in Ids
      BY <1>1, <1>2 DEF IdsOf
    <2>4. Reserving(tx[a].old, new, gone)
      BY <1>4, <1>5, <2>2, <2>3 DEF Reserving
    <2>5. \A v \in gone : ~v.pinned
      OBVIOUS
    <2>6. ExpireEffect(tx[a].old, new)
      BY <1>10, <2>1, <2>4, <2>5 DEF ExpireEffect
    <2>7. QED
      BY <1>8, <2>6 DEF Effect
  <1>11. QED
    BY <1>9, <1>10

\* pin and unpin rewrite one preview, list and check none.
LEMMA EditEffective ==
  ASSUME TypeOK, NEW a \in Agents, Sound(tx[a].old.previews),
         Refresh(a) \/ \E id \in Ids, value \in BOOLEAN : SetPinned(a, id, value)
  PROVE  Effect(tx'[a].old, tx'[a].new)
  <1> DEFINE old == tx[a].old.previews
  <1>1. /\ tx[a].old \in Registry /\ old \in SUBSET Preview
        /\ \A v \in old : v.pinned \in BOOLEAN
    BY OldFacts
  <1>2. CASE Refresh(a)
    <2>1. Planned(a, "save", "edit", tx[a].old, NoPort)
      BY <1>2, BeginPlanned DEF Refresh
    <2>2. QED
      BY <2>1 DEF Planned, Effect
  <1>3. ASSUME NEW id \in Ids, NEW value \in BOOLEAN, SetPinned(a, id, value)
        PROVE  Effect(tx'[a].old, tx'[a].new)
    <2> DEFINE mark(v) == IF v.id = id THEN [v EXCEPT !.pinned = value] ELSE v
               new == [previews |-> {mark(v) : v \in old}, res |-> tx[a].old.res]
    <2>1. Begin(a, "save", "edit", new, NoPort) /\ pc[a] = "loaded"
      BY <1>3 DEF SetPinned
    <2>2. PICK v \in old : v.id = id
      BY <1>3 DEF SetPinned, IdsOf
    <2>3. mark(v) = [v EXCEPT !.pinned = value] /\ \A w \in old \ {v} : mark(w) = w
      BY <2>2 DEF Sound
    <2> HIDE DEF mark
    <2>4. {mark(w) : w \in old} = (old \ {v}) \cup {[v EXCEPT !.pinned = value]}
      BY <2>2, <2>3
    <2>5. new = [tx[a].old EXCEPT !.previews = (@ \ {v}) \cup {[v EXCEPT !.pinned = value]}]
      <3>1. \A kept : [tx[a].old EXCEPT !.previews = kept] = [previews |-> kept, res |-> tx[a].old.res]
        BY <1>1 DEF Registry
      <3>2. QED
        BY <2>4, <3>1, Zenon
    <2>6. PinEffect(tx[a].old, new)
      BY <2>5 DEF PinEffect
    <2> HIDE DEF new
    <2>7. Planned(a, "save", "edit", new, NoPort)
      BY <2>1, BeginPlanned
    <2>8. QED
      BY <2>6, <2>7 DEF Planned, Effect
  <1>4. QED
    BY <1>2, <1>3
-----------------------------------------------------------------------------
(* Every step keeps every plan an effect.                                  *)

\* Initially nothing is planned.
LEMMA EffectInvInit == Init => EffectInv
  BY DEF Init, EffectInv

\* A plan is an effect when it is made, and stays as it is until the return.
LEMMA EffectInvNext == SafeInv /\ EffectInv /\ [Next]_vars => EffectInv'
  <1> SUFFICES ASSUME SafeInv, EffectInv, [Next]_vars
               PROVE  EffectInv'
    OBVIOUS
  <1>0. TypeOK /\ LockInv /\ PlanInv
    BY DEF SafeInv
  <1>1. ASSUME NEW a \in Agents, Frame(a), pc[a] = "loaded" => pc'[a] = "idle", pc[a] # "idle"
        PROVE  EffectInv'
    BY <1>1 DEF Frame, EffectInv
  <1>2. ASSUME NEW a \in Agents, LockRegistry(a)
        PROVE  EffectInv'
    BY <1>0, <1>2 DEF LockRegistry, TypeOK, EffectInv
  <1>3. ASSUME NEW a \in Agents, Abort(a)
        PROVE  EffectInv'
    <2>1. Frame(a) /\ pc'[a] = "idle" /\ pc[a] # "idle"
      BY <1>0, <1>3, ReturnFrame DEF Abort
    <2>2. QED
      BY <1>1, <2>1
  <1>4. ASSUME NEW a \in Agents, Command(a), ~Abort(a)
        PROVE  EffectInv'
    <2>1. pc[a] = "loaded"
      BY <1>4 DEF Command, UpPlan, DownPlan, GCPlan, SetPinned, Refresh, Abort
    <2>2. Sound(tx[a].old.previews) /\ Agrees(tx[a].old)
      BY <1>0, <2>1 DEF LockInv, PlanInv
    <2>3. Effect(tx'[a].old, tx'[a].new)
      BY <1>0, <1>4, <2>2, UpEffective, DownEffective, GCEffective, EditEffective DEF Command
    <2>4. \A b \in Agents \ {a} : pc'[b] = pc[b] /\ tx'[b] = tx[b]
      BY <1>0, <1>4, <2>2, CommandPlanned DEF Planned
    <2>5. QED
      BY <2>3, <2>4 DEF EffectInv
  <1>5. ASSUME NEW a \in Agents, Apply(a) \/ Expose(a) \/ Verify(a) \/ Remove(a) \/ Save(a)
                                   \/ UndoExpose(a) \/ UndoApply(a) \/ UndoRemove(a)
        PROVE  EffectInv'
    <2>1. Frame(a) /\ pc[a] \notin {"idle", "loaded"}
      BY <1>0, <1>5, StepFrame, SaveFrame
    <2>2. QED
      BY <1>1, <2>1
  <1>6. ASSUME NEW a \in Agents, Crash(a)
        PROVE  EffectInv'
    <2>1. Frame(a) /\ pc'[a] = "idle" /\ pc[a] # "idle"
      BY <1>0, <1>6, ReturnFrame DEF Crash
    <2>2. QED
      BY <1>1, <2>1
  <1>7. CASE UNCHANGED <<pc, tx>>
    BY <1>7 DEF EffectInv
  <1>8. QED
    BY <1>2, <1>3, <1>4, <1>5, <1>6, <1>7
       DEF Next, Step, Environment, CaddyDies, ForeignServe, vars

\* Every plan, at every point of a command, is an effect of the catalog on the
\* registry it was made for.
THEOREM PlansAreEffects == Spec => [](SafeInv /\ EffectInv)
  <1>1. Init => SafeInv /\ EffectInv
    BY InitType, PlanInvInit, EffectInvInit DEF SafeInv
  <1>2. SafeInv /\ EffectInv /\ [Next]_vars => (SafeInv /\ EffectInv)'
    BY NextType, PlanInvNext, EffectInvNext DEF SafeInv
  <1>3. QED
    BY <1>1, <1>2, PTL DEF Spec
-----------------------------------------------------------------------------
(* An effect is a step of Catalog.                                         *)

\* The mapped registry is the concrete one: its reservations and previews.
LEMMA ReservingIsReserve ==
  ASSUME NEW reserved, Reserving(registry, registry', reserved)
  PROVE  Outside!Reserve(reserved)
  BY DEF Reserving, Outside!Reserve, Outside!res, IdsOf

\* A registry that changes by an effect makes a step of Catalog.
LEMMA EffectIsStep ==
  ASSUME TypeOK, Effect(registry, registry'), registry' # registry
  PROVE  Outside!Next
  <1>1. registry \in Registry /\ \A v \in registry.previews : v.id \in Ids
    BY DEF TypeOK, Registry, Preview
  <1>2. ASSUME UpEffect(registry, registry')
        PROVE  Outside!Next
    <2>1. PICK id \in Ids, rev \in Revs, p \in Ports :
            LET Mine(pinned) == [id |-> id, port |-> p, rev |-> rev, pinned |-> pinned] IN
            \/ /\ id \notin IdsOf(registry.previews) /\ p \notin PortsOf(registry.previews)
               /\ Putting(registry, registry', registry.previews, Mine(FALSE))
            \/ \E v \in registry.previews :
                 /\ v.id = id /\ v.port = p
                 /\ Putting(registry, registry', registry.previews \ {v}, Mine(v.pinned))
            \/ \E v \in registry.previews :
                 /\ id \notin IdsOf(registry.previews) /\ ~v.pinned /\ v.port = p
                 /\ Putting(registry, registry', registry.previews \ {v}, Mine(FALSE))
      BY <1>2 DEF UpEffect
    <2>2. \A kept, v : Putting(registry, registry', kept, v) => Outside!Put(kept, v)
      BY ReservingIsReserve DEF Putting, Outside!Put
    <2>3. id \notin IdsOf(registry.previews) => Outside!Unknown(id)
      BY DEF IdsOf, Outside!Unknown, Outside!previews
    <2>4. CASE /\ id \notin IdsOf(registry.previews) /\ p \notin PortsOf(registry.previews)
               /\ Putting(registry, registry', registry.previews,
                          [id |-> id, port |-> p, rev |-> rev, pinned |-> FALSE])
      <3>1. Outside!Add(id, rev, p)
        BY <2>2, <2>3, <2>4 DEF Outside!Add, Outside!Preview, Outside!previews, PortsOf
      <3>2. QED
        BY <3>1 DEF Outside!Next
    <2>5. CASE \E v \in registry.previews :
                 /\ v.id = id /\ v.port = p
                 /\ Putting(registry, registry', registry.previews \ {v},
                            [id |-> id, port |-> p, rev |-> rev, pinned |-> v.pinned])
      <3>1. PICK v \in registry.previews : Outside!Update(v, rev)
        BY <2>2, <2>5 DEF Outside!Update, Outside!Preview, Outside!previews
      <3>2. QED
        BY <3>1 DEF Outside!Next, Outside!previews
    <2>6. CASE \E v \in registry.previews :
                 /\ id \notin IdsOf(registry.previews) /\ ~v.pinned /\ v.port = p
                 /\ Putting(registry, registry', registry.previews \ {v},
                            [id |-> id, port |-> p, rev |-> rev, pinned |-> FALSE])
      <3>1. PICK v \in registry.previews : Outside!Evict(id, rev, v)
        BY <2>2, <2>3, <2>6 DEF Outside!Evict, Outside!Preview, Outside!previews
      <3>2. QED
        BY <3>1 DEF Outside!Next, Outside!previews
    <2>7. QED
      BY <2>1, <2>4, <2>5, <2>6
  <1>3. ASSUME DownEffect(registry, registry')
        PROVE  Outside!Next
    <2>1. PICK v \in registry.previews : Outside!Down(v)
      BY <1>3 DEF DownEffect, Outside!Down, Outside!previews, Outside!res
    <2>2. QED
      BY <2>1 DEF Outside!Next, Outside!previews
  <1>4. ASSUME ExpireEffect(registry, registry')
        PROVE  Outside!Next
    <2>1. PICK gone \in SUBSET registry.previews : Outside!Expire(gone)
      BY <1>4, ReservingIsReserve DEF ExpireEffect, Outside!Expire, Outside!previews
    <2>2. QED
      BY <2>1 DEF Outside!Next, Outside!previews
  <1>5. ASSUME PinEffect(registry, registry')
        PROVE  Outside!Next
    <2>1. PICK v \in registry.previews, value \in BOOLEAN : Outside!Pin(v, value)
      BY <1>5 DEF PinEffect, Outside!Pin
    <2>2. QED
      BY <2>1 DEF Outside!Next, Outside!previews
  <1>6. QED
    BY <1>2, <1>3, <1>4, <1>5 DEF Effect

\* Seen through the registry, every command is one step of the catalog on the
\* list as it is then, or none: no interleaving, crash or rollback shows.
THEOREM CommandsAreAtomic == Spec => ImplementsCatalog
  <1>1. Init => Outside!Init
    BY DEF Init, NewRegistry, Outside!Init
  <1>2. SafeInv /\ EffectInv /\ [Next]_vars => [Outside!Next]_registry
    <2> SUFFICES ASSUME SafeInv, EffectInv, [Next]_vars, registry' # registry
                 PROVE  Outside!Next
      OBVIOUS
    <2>1. PICK a \in Agents : pc[a] = "save" /\ tx[a].old = registry /\ registry' = tx[a].new
      BY OnlySaveWrites DEF SafeInv
    <2>2. Effect(registry, registry')
      BY <2>1 DEF EffectInv
    <2>3. QED
      BY <2>2, EffectIsStep DEF SafeInv
  <1>3. QED
    BY <1>1, <1>2, PlansAreEffects, PTL DEF Spec, ImplementsCatalog, Outside!Spec
=============================================================================
