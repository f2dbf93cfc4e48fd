----------------------------- MODULE Retention -----------------------------
(***************************************************************************)
(* How long a preview lives (internal/app/service.go): the use that the    *)
(* access logs record, idle and maximum age, the grace of an unhealthy     *)
(* upstream, pins, active requests, and the least recently used victim of  *)
(* an up that finds the port pool full.                                    *)
(*                                                                         *)
(* A time is kept as an age that Tick advances up to the threshold it is   *)
(* compared with; ages of use go on to Cap, for they are compared with     *)
(* each other.  Commands run under the registry lock, one at a time, each   *)
(* within one unit of time; what happens when their calls fail is in       *)
(* Lifecycle.  The two that remove other previews than they were asked for *)
(* are two steps each: one reads the logs and counts the open requests,    *)
(* the other removes, and requests open and complete in between.  The      *)
(* others are one step.  A request may also complete between a command's   *)
(* reading of the clock and of the log's modification time (racing).       *)
(***************************************************************************)
EXTENDS Naturals, FiniteSets

CONSTANTS
  Ids,          \* projects
  Slots,        \* size of the port pool
  UpstreamOf,   \* the local service each project's routes lead to
  IdleTTL, MaxAge, Grace,
  Cap

Upstreams == {UpstreamOf[i] : i \in Ids}
Never == Cap + 1

ASSUME RetentionAssumption ==
  /\ Slots \in Nat \ {0} /\ Cap \in Nat
  /\ {IdleTTL, MaxAge, Grace} \subseteq 1..Cap

VARIABLES
  live,    \* the registered previews
  rec,     \* per id, the ages of created_at, last_used_at, unhealthy_since; pinned
  log,     \* per id, the age of its access log, or Never
  busy,    \* previews with a request or WebSocket open
  doing,   \* the command that has counted and not removed yet: gc, or an up
  seen,    \* its copy of the records, refreshed from the logs
  counted, \* the previews it counted an open request of
  swap     \* of an up: the preview it evicts, and its own project

reading == <<doing, seen, counted, swap>>
vars == <<live, rec, log, busy, reading>>

Ages == 0..Cap
Rec == [created : Ages, used : Ages, sick : Ages \cup {Never}, pinned : BOOLEAN]
Fresh == [created |-> 0, used |-> 0, sick |-> Never, pinned |-> FALSE]

Init ==
  /\ live = {} /\ busy = {}
  /\ rec = [i \in Ids |-> Fresh]
  /\ log = [i \in Ids |-> Never]
  /\ doing = "nothing" /\ seen = [i \in Ids |-> Fresh]
  /\ counted = {} /\ swap = <<>>

\* The registry lock is free.
Unlocked == doing = "nothing" /\ UNCHANGED reading
-----------------------------------------------------------------------------
(* The world.                                                              *)

Older(age, cap) == IF age < cap THEN age + 1 ELSE age

Tick ==
  /\ Unlocked
  /\ rec' = [i \in Ids |-> IF i \in live
               THEN [created |-> Older(rec[i].created, MaxAge), used |-> Older(rec[i].used, Cap),
                     sick |-> Older(rec[i].sick, Grace), pinned |-> rec[i].pinned]
               ELSE rec[i]]
  /\ log' = [i \in Ids |-> Older(log[i], Cap)]
  /\ UNCHANGED <<live, busy>>

\* Caddy writes the access log when the request completes.
Open(i) ==
  /\ i \in live \ busy /\ busy' = busy \cup {i}
  /\ UNCHANGED <<live, rec, log, reading>>
Complete(i) ==
  /\ i \in busy /\ busy' = busy \ {i}
  /\ log' = [log EXCEPT ![i] = 0]
  /\ UNCHANGED <<live, rec, reading>>
-----------------------------------------------------------------------------
(* What the commands compute.                                              *)

\* Requests in progress are counted per upstream; when the counts cannot be
\* read, the error is dropped and none is seen.
Active(readable) == IF readable THEN busy ELSE {}
HasActiveNever(i, open) == FALSE
HasActive(i, open) == \E j \in open : UpstreamOf[j] = UpstreamOf[i]

\* A log dated after the command's clock is not believed.
UsedUnrefreshed(i, racing) == rec[i].used
Used(i, racing) ==
  IF i \notin racing /\ log[i] < rec[i].used THEN log[i] ELSE rec[i].used

Refreshed(racing) ==
  [i \in Ids |-> IF i \in live THEN [rec[i] EXCEPT !.used = Used(i, racing)] ELSE rec[i]]

\* The registry entries, the logs and the requests of ids end with them.
Forget(ids, recs) ==
  /\ rec' = [i \in Ids |-> IF i \in ids THEN Fresh ELSE recs[i]]
  /\ log' = [i \in Ids |-> IF i \in ids THEN Never ELSE log[i]]
  /\ busy' = busy \ ids

OverAge(r) == r.used >= IdleTTL \/ r.created >= MaxAge
-----------------------------------------------------------------------------
(* The commands.                                                           *)

\* An up verifies the URL through Caddy, which logs the request.  An expired
\* preview that is brought up again starts a new life.
Revived(r) == [Fresh EXCEPT !.created = IF OverAge(r) THEN 0 ELSE r.created, !.pinned = r.pinned]

UpExisting(i, racing) ==
  /\ Unlocked /\ i \in live
  /\ rec' = [Refreshed(racing) EXCEPT ![i] = Revived(@)]
  /\ log' = [log EXCEPT ![i] = 0]
  /\ UNCHANGED <<live, busy>>

UpNewUnbounded(i, racing) ==
  /\ Unlocked /\ i \notin live
  /\ live' = live \cup {i}
  /\ rec' = [Refreshed(racing) EXCEPT ![i] = Fresh]
  /\ log' = [log EXCEPT ![i] = 0]
  /\ UNCHANGED busy
UpNew(i, racing) ==
  /\ Unlocked /\ i \notin live /\ Cardinality(live) < Slots
  /\ live' = live \cup {i}
  /\ rec' = [Refreshed(racing) EXCEPT ![i] = Fresh]
  /\ log' = [log EXCEPT ![i] = 0]
  /\ UNCHANGED busy

\* A command reads the logs and counts the requests, to remove later.
Count(command, racing, readable) ==
  /\ doing = "nothing" /\ doing' = command
  /\ seen' = Refreshed(racing) /\ counted' = Active(readable)
  /\ UNCHANGED <<live, rec, log, busy>>

\* It is over.
Finish ==
  /\ doing' = "nothing" /\ seen' = [i \in Ids |-> Fresh]
  /\ counted' = {} /\ swap' = <<>>

VictimsOldest(racing, readable) ==
  LET evictable == {v \in live : ~rec[v].pinned /\ ~HasActive(v, Active(readable))}
  IN  {v \in evictable : \A w \in evictable : rec[v].created >= rec[w].created}
Victims(racing, readable) ==
  LET evictable == {v \in live : ~rec[v].pinned /\ ~HasActive(v, Active(readable))}
  IN  {v \in evictable : \A w \in evictable : Used(v, racing) >= Used(w, racing)}

\* choosePort, when the pool is full.
ChooseVictim(i, racing, readable) ==
  /\ i \notin live /\ Cardinality(live) >= Slots
  /\ Count("up", racing, readable)
  /\ \E v \in Victims(racing, readable) : swap' = <<v, i>>

\* The route of the victim goes with the Apply that brings the new one.
UpEvicting ==
  /\ doing = "up" /\ Finish
  /\ LET v == swap[1]  i == swap[2] IN
       /\ live' = (live \ {v}) \cup {i}
       /\ rec' = [seen EXCEPT ![v] = Fresh, ![i] = Fresh]
       /\ log' = [log EXCEPT ![v] = Never, ![i] = 0]
       /\ busy' = busy \ {v}

Down(i) ==
  /\ Unlocked /\ i \in live /\ live' = live \ {i}
  /\ Forget({i}, rec)

SetPinned(i, value) ==
  /\ Unlocked /\ i \in live /\ rec' = [rec EXCEPT ![i].pinned = value]
  /\ UNCHANGED <<live, log, busy>>

List(racing) ==
  Unlocked /\ rec' = Refreshed(racing) /\ UNCHANGED <<live, log, busy>>

\* Its own requests pass through Caddy; unhealthy_since stays what it was.
Check(i) ==
  /\ Unlocked /\ i \in live
  /\ log' = [log EXCEPT ![i] = 0]
  /\ UNCHANGED <<live, rec, busy>>

\* answering: the upstreams whose required health checks pass.
Sick(i, answering) ==
  IF UpstreamOf[i] \in answering THEN Never
  ELSE IF rec[i].sick = Never THEN 0 ELSE rec[i].sick

ExpiredIdleOnly(i, r) ==
  ~r.pinned /\ (r.used >= IdleTTL \/ r.sick \in Grace..Cap) /\ ~HasActive(i, counted)
ExpiredSinceAnyFailure(i, r) ==
  ~r.pinned /\ (OverAge(r) \/ r.sick # Never) /\ ~HasActive(i, counted)
Expired(i, r) ==
  ~r.pinned /\ (OverAge(r) \/ r.sick \in Grace..Cap) /\ ~HasActive(i, counted)

GCCounts(racing, readable) == Count("gc", racing, readable) /\ UNCHANGED swap

\* gc probes one upstream after the other, and drops the routes of what has
\* expired.
GC(answering) ==
  LET found == [i \in Ids |-> IF i \in live
                  THEN [seen[i] EXCEPT !.sick = Sick(i, answering)] ELSE rec[i]]
      gone == {i \in live : Expired(i, found[i])}
  IN
  /\ doing = "gc" /\ Finish
  /\ live' = live \ gone
  /\ Forget(gone, found)

\* The previews whose use a command may miss by an instant.
JustLogged == {i \in live : log[i] = 0 /\ rec[i].used > 0}

PeriodicGC == \E racing \in SUBSET JustLogged, readable \in BOOLEAN : GCCounts(racing, readable)
Removal == UpEvicting \/ \E answering \in SUBSET Upstreams : GC(answering)

Next ==
  \/ PeriodicGC \/ Removal
  \/ \E i \in Ids, racing \in SUBSET JustLogged, readable \in BOOLEAN : ChooseVictim(i, racing, readable)
  \/ \E i \in Ids, racing \in SUBSET JustLogged : UpExisting(i, racing) \/ UpNew(i, racing)
  \/ \E racing \in SUBSET JustLogged : List(racing)
  \/ \E i \in Ids : Down(i) \/ Check(i) \/ SetPinned(i, TRUE) \/ SetPinned(i, FALSE)
  \/ \E i \in Ids : Open(i) \/ Complete(i)
  \/ Tick

Spec == Init /\ [][Next]_vars

\* The scheduler runs gc every five minutes, and it gets the lock at some time,
\* for a command ends: every call it makes has a timeout.
FairSpec == Spec /\ SF_vars(PeriodicGC) /\ WF_vars(Removal)
-----------------------------------------------------------------------------
(* Properties.                                                             *)

TypeOK ==
  /\ live \subseteq Ids /\ busy \subseteq live
  /\ Cardinality(live) <= Slots
  /\ rec \in [Ids -> Rec] /\ log \in [Ids -> Ages \cup {Never}]
  /\ \A i \in live : rec[i].used <= rec[i].created \/ rec[i].created = MaxAge
  /\ doing \in {"nothing", "gc", "up"} /\ seen \in [Ids -> Rec]
  /\ counted \subseteq live
  /\ IF doing = "up" THEN swap \in live \X (Ids \ live) ELSE swap = <<>>

\* The last use of a preview: its registered one, or a request logged since.
LastUse(i) == IF log[i] < rec[i].used THEN log[i] ELSE rec[i].used
Removed == {i \in live : i \notin live'}

\* A preview with an active request or WebSocket is never selected
\* (README.md), neither by gc nor for eviction: one whose open request the
\* command counted is not removed by it, whatever opened or completed since.  A
\* request that opens after the counting, or while the counts cannot be read,
\* is in no count, and is cut off.
SparesActive ==
  [][\A i \in Removed : Down(i) \/ i \notin counted]_vars

\* The victim of an up is the least recently requested of those it may take,
\* unless it was requested in the very instant of the choice, or since.
EvictsLeastRecent ==
  [][\A v \in Removed : (\E i \in Ids : i \in live' \ live) =>
       \/ v \in JustLogged
       \/ \A w \in live : rec[w].pinned \/ HasActive(w, counted) \/ LastUse(v) >= LastUse(w)]_vars

\* Without an up, nothing but its own down removes a preview that was used
\* within the idle time, is within its maximum age, and was not found sick by a
\* gc a grace period ago; one used since the gc read its log may go.
NoEarlyExpiry ==
  [][\A i \in Removed :
       \/ live' \ live # {} \/ Down(i) \/ i \in JustLogged
       \/ LastUse(i) >= IdleTTL \/ rec[i].created >= MaxAge
       \/ rec[i].sick \in Grace..Cap]_vars

\* The scheduler's gc gets to every preview that is past its maximum age: none
\* stays forever unpinned and without a request in progress.
Overdue(i) ==
  /\ i \in live /\ ~rec[i].pinned /\ rec[i].created >= MaxAge
  /\ ~\E j \in busy : UpstreamOf[j] = UpstreamOf[i]
OverdueGoes == \A i \in Ids : []<>~Overdue(i)
=============================================================================
