--------------------------- MODULE RetentionProofs ---------------------------
(***************************************************************************)
(* Theorems about Retention, for any projects, upstreams, pool size and    *)
(* thresholds: what gc and evictions may take, and when.                   *)
(*                                                                         *)
(* A removal rests on what its command read some steps before.  The        *)
(* argument: until then only requests open and complete, so its copy of a  *)
(* record differs from the last use only for a preview that was requested  *)
(* since (SeenInv), and the victim it chose is still the least recently    *)
(* used of what it saw (ChoiceInv).                                        *)
(***************************************************************************)
EXTENDS Retention, FiniteSetTheorems, TLAPS

USE RetentionAssumption
-----------------------------------------------------------------------------
(* What the operators return.                                              *)

\* The thresholds are ages, and no age is Never.
LEMMA Thresholds ==
  /\ IdleTTL \in Ages /\ MaxAge \in Ages /\ Grace \in Ages
  /\ Never \notin Ages /\ 0 \in Ages /\ Grace > 0
  /\ \A age \in Ages \cup {Never} : age \in Nat
  BY DEF Ages, Never

\* An age stays one when it grows.
LEMMA OlderFacts ==
  ASSUME NEW age, NEW cap \in Ages
  PROVE  /\ age \in Ages => Older(age, cap) \in Ages
         /\ age \in Ages \cup {Never} => Older(age, cap) \in Ages \cup {Never}
  BY DEF Older, Ages, Never

\* The recorded use of a preview, once refreshed, is its last use, or, when the
\* log was dated after the command's clock, an earlier one.
LEMMA UsedFacts ==
  ASSUME rec \in [Ids -> Rec], log \in [Ids -> Ages \cup {Never}],
         NEW racing, NEW i \in Ids
  PROVE  /\ Used(i, racing) \in Ages /\ LastUse(i) \in Ages
         /\ LastUse(i) <= Used(i, racing) /\ Used(i, racing) <= rec[i].used
         /\ i \notin racing => Used(i, racing) = LastUse(i)
  BY DEF Used, LastUse, Rec, Ages, Never

\* What an entry is after it was refreshed.
LEMMA RefreshedFacts ==
  ASSUME rec \in [Ids -> Rec], log \in [Ids -> Ages \cup {Never}], NEW racing, NEW i \in Ids
  PROVE  /\ Refreshed(racing) \in [Ids -> Rec]
         /\ i \in live => Refreshed(racing)[i] = [rec[i] EXCEPT !.used = Used(i, racing)]
         /\ i \notin live => Refreshed(racing)[i] = rec[i]
  BY UsedFacts DEF Refreshed, Rec

\* The use of a record does not reach back before its creation, unless that is
\* as long ago as is counted.
Consistent(r) == r.created <= MaxAge /\ (r.used <= r.created \/ r.created = MaxAge)

\* A fresh record is consistent,
LEMMA FreshConsistent == Fresh \in Rec /\ Consistent(Fresh)
  BY DEF Fresh, Rec, Consistent, Ages, Never

\* and a consistent one that is refreshed stays so.
LEMMA RefreshedConsistent ==
  ASSUME rec \in [Ids -> Rec], log \in [Ids -> Ages \cup {Never}], NEW racing, NEW i \in Ids,
         Consistent(rec[i])
  PROVE  Consistent(Refreshed(racing)[i])
  <1>1. rec[i] \in Rec
    OBVIOUS
  <1>2. /\ Used(i, racing) \in Ages /\ Used(i, racing) <= rec[i].used
        /\ Refreshed(racing)[i] \in {[rec[i] EXCEPT !.used = Used(i, racing)], rec[i]}
    BY UsedFacts, RefreshedFacts
  <1>3. QED
    BY <1>1, <1>2 DEF Consistent, Rec, Ages

\* A revived record starts anew, or goes on from its creation.
LEMMA RevivedFacts ==
  ASSUME NEW r \in Rec, r.created <= MaxAge
  PROVE  Revived(r) \in Rec /\ Consistent(Revived(r))
  <1> DEFINE created == IF OverAge(r) THEN 0 ELSE r.created
  <1>1. created \in Ages /\ created <= MaxAge /\ r.pinned \in BOOLEAN
    BY DEF Rec, Ages
  <1>2. \A c \in Ages, p \in BOOLEAN :
          LET new == [Fresh EXCEPT !.created = c, !.pinned = p] IN
          new \in Rec /\ new.created = c /\ new.used = 0
    BY FreshConsistent DEF Rec, Fresh
  <1>3. Revived(r) \in Rec /\ Revived(r).created = created /\ Revived(r).used = 0
    BY <1>1, <1>2 DEF Revived
  <1> HIDE DEF created
  <1>4. QED
    BY <1>1, <1>3 DEF Consistent, Ages
-----------------------------------------------------------------------------
(* The invariant: the types, a pool that is never exceeded, and consistent *)
(* records.                                                                *)

RecordsInv == /\ rec \in [Ids -> Rec] /\ log \in [Ids -> Ages \cup {Never}]
              /\ seen \in [Ids -> Rec]
              /\ \A i \in Ids : Consistent(rec[i]) /\ Consistent(seen[i])
PoolInv == /\ live \subseteq Ids /\ IsFiniteSet(live) /\ Cardinality(live) <= Slots
           /\ busy \subseteq live /\ counted \subseteq live
           /\ doing \in {"nothing", "gc", "up"}
           /\ doing = "up" => swap \in live \X (Ids \ live)
           /\ doing # "up" => swap = <<>>
           /\ doing = "nothing" => counted = {}

\* What a command saw of a preview, beside what there is to see.
Seen(i) ==
  /\ seen[i].created = rec[i].created /\ seen[i].pinned = rec[i].pinned
  /\ seen[i].sick = rec[i].sick
  /\ LastUse(i) <= seen[i].used /\ seen[i].used <= rec[i].used
  /\ i \notin JustLogged => seen[i].used = LastUse(i)
SeenInv == doing # "nothing" => \A i \in live : Seen(i)

\* The victim an up has chosen.
ChoiceInv ==
  doing = "up" =>
    /\ ~HasActive(swap[1], counted)
    /\ \A w \in live : \/ rec[w].pinned \/ HasActive(w, counted)
                       \/ seen[swap[1]].used >= seen[w].used

IInv == RecordsInv /\ PoolInv /\ SeenInv /\ ChoiceInv

\* Nothing is registered initially.
LEMMA InitInv == Init => IInv
  <1> SUFFICES ASSUME Init
               PROVE  IInv
    OBVIOUS
  <1>1. RecordsInv
    BY FreshConsistent DEF Init, RecordsInv
  <1>2. IsFiniteSet({}) /\ Cardinality({}) = 0
    BY FS_EmptySet
  <1>3. PoolInv
    BY <1>2 DEF Init, PoolInv
  <1>4. SeenInv /\ ChoiceInv
    BY DEF Init, SeenInv, ChoiceInv
  <1>5. QED
    BY <1>1, <1>3, <1>4 DEF IInv

\* What List writes.
LEMMA RefreshedInv ==
  ASSUME RecordsInv, NEW racing
  PROVE  /\ Refreshed(racing) \in [Ids -> Rec]
         /\ \A i \in Ids : Consistent(Refreshed(racing)[i]) /\ Refreshed(racing)[i].created <= MaxAge
  <1>1. \A i \in Ids : Consistent(Refreshed(racing)[i])
    BY RefreshedConsistent DEF RecordsInv
  <1>2. Refreshed(racing) \in [Ids -> Rec]
    BY UsedFacts DEF RecordsInv, Refreshed, Rec
  <1>3. QED
    BY <1>1, <1>2 DEF Consistent

\* Time keeps the records consistent.
LEMMA TickRecords ==
  ASSUME RecordsInv, Tick
  PROVE  RecordsInv'
  <1>1. ASSUME NEW i \in Ids
        PROVE  rec'[i] \in Rec /\ Consistent(rec'[i]) /\ log'[i] \in Ages \cup {Never}
    <2> DEFINE created == Older(rec[i].created, MaxAge)
               used == Older(rec[i].used, Cap)
               sick == Older(rec[i].sick, Grace)
    <2>1. /\ rec[i] \in Rec /\ Consistent(rec[i]) /\ log[i] \in Ages \cup {Never} /\ Cap \in Ages
          /\ rec[i].created \in Ages /\ rec[i].used \in Ages /\ rec[i].sick \in Ages \cup {Never}
          /\ rec[i].pinned \in BOOLEAN
      BY DEF RecordsInv, Rec, Ages
    <2>2. created \in Ages /\ used \in Ages /\ sick \in Ages \cup {Never}
      <3>1. rec[i].created \in Ages /\ rec[i].used \in Ages /\ rec[i].sick \in Ages \cup {Never} /\ Cap \in Ages
        BY <2>1
      <3>2. MaxAge \in Ages /\ Grace \in Ages
        BY Thresholds
      <3>3. created \in Ages
        BY <3>1, <3>2, OlderFacts
      <3>4. used \in Ages
        BY <3>1, OlderFacts
      <3>5. sick \in Ages \cup {Never}
        BY <3>1, <3>2, OlderFacts
      <3>6. QED
        BY <3>3, <3>4, <3>5
    <2>3. created <= MaxAge /\ (used <= created \/ created = MaxAge)
      BY <2>1 DEF Consistent, Older, Ages
    <2>4. log'[i] = Older(log[i], Cap)
      BY DEF Tick
    <2>5. rec'[i] = IF i \in live THEN [created |-> created, used |-> used, sick |-> sick,
                                        pinned |-> rec[i].pinned]
                    ELSE rec[i]
      BY DEF Tick
    <2> HIDE DEF created, used, sick
    <2>6. QED
      <3>1. log'[i] \in Ages \cup {Never}
        <4>1. log[i] \in Ages \cup {Never} /\ Cap \in Ages
          BY <2>1
        <4>2. Older(log[i], Cap) \in Ages \cup {Never}
          BY <4>1, OlderFacts
        <4>3. QED
          BY <2>4, <4>2
      <3>2. CASE i \in live
        BY <2>1, <2>2, <2>3, <2>5, <3>1, <3>2 DEF Rec, Consistent
      <3>3. CASE i \notin live
        BY <2>1, <2>5, <3>1, <3>3
      <3>4. QED
        BY <3>2, <3>3
  <1>2. QED
    BY <1>1 DEF Tick, Unlocked, reading, RecordsInv

\* Forgetting ids makes their records fresh.
LEMMA ForgetRecords ==
  ASSUME RecordsInv, NEW ids, NEW recs \in [Ids -> Rec], \A i \in Ids : Consistent(recs[i]),
         Forget(ids, recs), Finish \/ UNCHANGED seen
  PROVE  RecordsInv'
  BY FreshConsistent DEF RecordsInv, Forget, Finish

\* gc notes how each upstream answers.
LEMMA SickType ==
  ASSUME RecordsInv, NEW i \in Ids, NEW answering
  PROVE  Sick(i, answering) \in Ages \cup {Never}
  BY Thresholds DEF Sick, RecordsInv, Rec

\* Every step keeps the records consistent,
LEMMA RecordsNext == RecordsInv /\ [Next]_vars => RecordsInv'
  <1> SUFFICES ASSUME RecordsInv, [Next]_vars
               PROVE  RecordsInv'
    OBVIOUS
  <1>0. 0 \in Ages /\ Never \in Ages \cup {Never}
    BY Thresholds
  <1>1. ASSUME NEW i \in Ids, NEW racing, UpExisting(i, racing)
        PROVE  RecordsInv'
    <2>1. /\ Revived(Refreshed(racing)[i]) \in Rec /\ Consistent(Revived(Refreshed(racing)[i]))
          /\ rec' = [Refreshed(racing) EXCEPT ![i] = Revived(Refreshed(racing)[i])]
      BY <1>1, RefreshedInv, RevivedFacts DEF UpExisting
    <2>2. QED
      BY <1>0, <1>1, <2>1, RefreshedInv DEF UpExisting, Unlocked, reading, RecordsInv
  <1>2. ASSUME NEW i \in Ids, NEW racing, UpNew(i, racing)
        PROVE  RecordsInv'
    BY <1>0, <1>2, RefreshedInv, FreshConsistent DEF UpNew, Unlocked, reading, RecordsInv
  <1>3. ASSUME NEW command, NEW racing, NEW readable, Count(command, racing, readable)
        PROVE  RecordsInv'
    BY <1>3, RefreshedInv DEF Count, RecordsInv
  <1>4. CASE UpEvicting
    <2>1. PICK v, i : /\ rec' = [seen EXCEPT ![v] = Fresh, ![i] = Fresh]
                      /\ log' = [log EXCEPT ![v] = Never, ![i] = 0]
      BY <1>4 DEF UpEvicting
    <2>2. seen' = [j \in Ids |-> Fresh]
      BY <1>4 DEF UpEvicting, Finish
    <2>3. QED
      BY <1>0, <2>1, <2>2, FreshConsistent DEF RecordsInv
  <1>5. ASSUME NEW i \in Ids, Down(i)
        PROVE  RecordsInv'
    BY <1>5, ForgetRecords DEF Down, Unlocked, reading, RecordsInv
  <1>6. ASSUME NEW i \in Ids, NEW value \in BOOLEAN, SetPinned(i, value)
        PROVE  RecordsInv'
    <2>1. [rec[i] EXCEPT !.pinned = value] \in Rec /\ Consistent([rec[i] EXCEPT !.pinned = value])
      BY DEF RecordsInv, Rec, Consistent
    <2>2. rec' = [rec EXCEPT ![i] = [rec[i] EXCEPT !.pinned = value]]
      BY <1>6 DEF SetPinned
    <2>3. QED
      BY <1>6, <2>1, <2>2 DEF SetPinned, Unlocked, reading, RecordsInv
  <1>7. ASSUME NEW racing, List(racing)
        PROVE  RecordsInv'
    BY <1>7, RefreshedInv DEF List, Unlocked, reading, RecordsInv
  <1>8. ASSUME NEW i \in Ids, Check(i) \/ Open(i) \/ Complete(i)
        PROVE  RecordsInv'
    BY <1>0, <1>8 DEF Check, Open, Complete, Unlocked, reading, RecordsInv
  <1>9. ASSUME NEW answering, GC(answering)
        PROVE  RecordsInv'
    <2> DEFINE found == [i \in Ids |-> IF i \in live
                           THEN [seen[i] EXCEPT !.sick = Sick(i, answering)] ELSE rec[i]]
               gone == {i \in live : Expired(i, found[i])}
    <2>1. ASSUME NEW i \in Ids
          PROVE  found[i] \in Rec /\ Consistent(found[i])
      <3>1. seen[i] \in Rec /\ Consistent(seen[i]) /\ Sick(i, answering) \in Ages \cup {Never}
        BY SickType DEF RecordsInv
      <3>2. [seen[i] EXCEPT !.sick = Sick(i, answering)] \in Rec
            /\ Consistent([seen[i] EXCEPT !.sick = Sick(i, answering)])
        BY <3>1 DEF Rec, Consistent
      <3>3. QED
        BY <3>2 DEF RecordsInv
    <2>2. found \in [Ids -> Rec]
      BY <2>1
    <2>3. Forget(gone, found) /\ Finish
      BY <1>9 DEF GC
    <2> HIDE DEF found, gone
    <2>4. QED
      BY <2>1, <2>2, <2>3, ForgetRecords
  <1>10. CASE Tick
    BY <1>10, TickRecords
  <1>11. CASE UNCHANGED vars
    BY <1>11 DEF vars, reading, RecordsInv
  <1>12. QED
    BY <1>1, <1>2, <1>3, <1>4, <1>5, <1>6, <1>7, <1>8, <1>9, <1>10, <1>11
       DEF Next, PeriodicGC, GCCounts, ChooseVictim, Removal

\* What an up may choose.
LEMMA VictimFacts ==
  ASSUME NEW racing, NEW readable, NEW v \in Victims(racing, readable)
  PROVE  /\ v \in live /\ ~rec[v].pinned /\ ~HasActive(v, Active(readable))
         /\ \A w \in live : \/ rec[w].pinned \/ HasActive(w, Active(readable))
                            \/ Used(v, racing) >= Used(w, racing)
  BY DEF Victims

\* An up that evicts exchanges one preview for another.
LEMMA EvictingFacts ==
  ASSUME PoolInv, UpEvicting
  PROVE  \E v \in live, i \in Ids \ live :
           /\ swap[1] = v
           /\ live' = (live \ {v}) \cup {i} /\ busy' = busy \ {v}
  <1>1. swap \in live \X (Ids \ live)
    BY DEF PoolInv, UpEvicting
  <1>2. swap[1] \in live /\ swap[2] \in Ids \ live
    BY <1>1
  <1>3. live' = (live \ {swap[1]}) \cup {swap[2]} /\ busy' = busy \ {swap[1]}
    BY DEF UpEvicting
  <1>4. QED
    BY <1>2, <1>3

\* and the pool within its size.
LEMMA PoolNext == PoolInv /\ [Next]_vars => PoolInv'
  <1> SUFFICES ASSUME PoolInv, [Next]_vars
               PROVE  PoolInv'
    OBVIOUS
  <1>1. Cardinality(live) \in Nat
    BY FS_CardinalityType DEF PoolInv
  <1>2. \A gone : /\ IsFiniteSet(live \ gone) /\ Cardinality(live \ gone) \in Nat
                  /\ Cardinality(live \ gone) <= Slots
    <2> TAKE gone
    <2>1. IsFiniteSet(live \ gone) /\ Cardinality(live \ gone) <= Cardinality(live)
      BY FS_Subset DEF PoolInv
    <2>2. Cardinality(live \ gone) \in Nat
      BY <2>1, FS_CardinalityType
    <2>3. Cardinality(live \ gone) <= Slots
      BY <1>1, <2>1, <2>2 DEF PoolInv
    <2>4. QED
      BY <2>1, <2>2, <2>3
  <1>3. Unlocked => /\ doing' = "nothing" /\ swap' = <<>> /\ counted' = counted
                    /\ doing = "nothing" /\ swap = <<>>
    BY DEF Unlocked, reading, PoolInv
  <1>4. Finish => doing' = "nothing" /\ swap' = <<>> /\ counted' = {}
    BY DEF Finish
  <1>5. ASSUME Finish, NEW gone, live' = live \ gone, busy' = busy \ gone
        PROVE  PoolInv'
    <2>1. IsFiniteSet(live') /\ Cardinality(live') <= Slots
      BY <1>2, <1>5
    <2>2. QED
      BY <1>4, <1>5, <2>1 DEF PoolInv
  <1>6. ASSUME NEW i \in Ids, NEW racing, UpNew(i, racing)
        PROVE  PoolInv'
    <2>1. IsFiniteSet(live') /\ Cardinality(live') = Cardinality(live) + 1
      BY <1>6, FS_AddElement DEF UpNew, PoolInv
    <2>2. Cardinality(live') <= Slots
      BY <1>1, <1>6, <2>1 DEF UpNew
    <2>3. live' \subseteq Ids /\ busy' \subseteq live' /\ counted' \subseteq live'
      BY <1>3, <1>6 DEF UpNew, PoolInv
    <2>4. QED
      BY <1>3, <1>6, <2>1, <2>2, <2>3 DEF UpNew, PoolInv
  <1>7. CASE UpEvicting
    <2>1. PICK v \in live, i \in Ids \ live :
            live' = (live \ {v}) \cup {i} /\ busy' = busy \ {v}
      BY <1>7, EvictingFacts
    <2>2. Cardinality(live \ {v}) = Cardinality(live) - 1
      BY FS_RemoveElement DEF PoolInv
    <2>3. IsFiniteSet(live') /\ Cardinality(live') = Cardinality(live)
      <3>1. i \notin live \ {v} /\ IsFiniteSet(live \ {v})
        BY <1>2
      <3>2. IsFiniteSet(live') /\ Cardinality(live') = Cardinality(live \ {v}) + 1
        BY <2>1, <3>1, FS_AddElement
      <3>3. QED
        BY <1>1, <2>2, <3>2
    <2>4. Finish
      BY <1>7 DEF UpEvicting
    <2>5. QED
      BY <1>4, <2>1, <2>3, <2>4 DEF PoolInv
  <1>8. ASSUME NEW i \in Ids, Down(i)
        PROVE  PoolInv'
    <2>1. IsFiniteSet(live') /\ Cardinality(live') <= Slots
      BY <1>2, <1>8 DEF Down
    <2>2. counted' = {}
      BY <1>3, <1>8 DEF Down, PoolInv
    <2>3. QED
      BY <1>3, <1>8, <2>1, <2>2 DEF Down, Forget, PoolInv
  <1>9. ASSUME NEW answering, GC(answering)
        PROVE  PoolInv'
    <2>1. \E gone : Finish /\ live' = live \ gone /\ busy' = busy \ gone
      BY <1>9 DEF GC, Forget
    <2>2. QED
      BY <1>5, <2>1
  <1>10. ASSUME NEW racing, NEW readable, GCCounts(racing, readable)
         PROVE  PoolInv'
    BY <1>10 DEF GCCounts, Count, Active, PoolInv
  <1>11. ASSUME NEW i \in Ids, NEW racing, NEW readable, ChooseVictim(i, racing, readable)
         PROVE  PoolInv'
    <2>1. PICK v \in live : swap' = <<v, i>>
      BY <1>11, VictimFacts DEF ChooseVictim
    <2>2. i \in Ids \ live /\ doing' = "up" /\ UNCHANGED <<live, busy>> /\ counted' \subseteq live
      BY <1>11 DEF ChooseVictim, Count, Active, PoolInv
    <2>3. QED
      BY <2>1, <2>2 DEF PoolInv
  <1>12. ASSUME UNCHANGED live, busy' \in SUBSET live, UNCHANGED reading
         PROVE  PoolInv'
    BY <1>12 DEF reading, PoolInv
  <1>13. ASSUME NEW i \in Ids, NEW racing,
                \/ UpExisting(i, racing) \/ List(racing) \/ Check(i)
                \/ SetPinned(i, TRUE) \/ SetPinned(i, FALSE) \/ Open(i) \/ Complete(i) \/ Tick
         PROVE  PoolInv'
    BY <1>12, <1>13
       DEF UpExisting, List, Check, SetPinned, Open, Complete, Tick, Unlocked, PoolInv
  <1>14. CASE UNCHANGED vars
    BY <1>12, <1>14 DEF vars, PoolInv
  <1>15. QED
    <2>1. \A racing : List(racing) => PoolInv'
      BY <1>12 DEF List, Unlocked, PoolInv
    <2>2. Tick => PoolInv'
      BY <1>12 DEF Tick, Unlocked, PoolInv
    <2>3. QED
      BY <1>6, <1>7, <1>8, <1>9, <1>10, <1>11, <1>13, <1>14, <2>1, <2>2
         DEF Next, PeriodicGC, Removal

\* What the command in progress has seen, and chosen, stays right.
LEMMA SeenNext == IInv /\ [Next]_vars => SeenInv' /\ ChoiceInv'
  <1> SUFFICES ASSUME IInv, [Next]_vars
               PROVE  SeenInv' /\ ChoiceInv'
    OBVIOUS
  <1>0. RecordsInv /\ PoolInv /\ SeenInv /\ ChoiceInv
    BY DEF IInv
  <1>1. ASSUME doing' = "nothing" PROVE SeenInv' /\ ChoiceInv'
    BY <1>1 DEF SeenInv, ChoiceInv
  <1>2. ASSUME NEW command, NEW racing \in SUBSET JustLogged, NEW readable,
               Count(command, racing, readable)
        PROVE  SeenInv' /\ \A j \in live : seen'[j].used = Used(j, racing)
    <2> SUFFICES ASSUME NEW j \in live PROVE Seen(j)' /\ seen'[j].used = Used(j, racing)
      BY <1>2 DEF Count, SeenInv
    <2>1. j \in Ids /\ rec[j] \in Rec
      BY <1>0 DEF PoolInv, RecordsInv
    <2>2. /\ LastUse(j) <= Used(j, racing) /\ Used(j, racing) <= rec[j].used
          /\ j \notin racing => Used(j, racing) = LastUse(j)
      BY <1>0, <2>1, UsedFacts DEF RecordsInv
    <2>3. seen'[j] = [rec[j] EXCEPT !.used = Used(j, racing)]
      BY <1>0, <1>2, <2>1, RefreshedFacts DEF Count, RecordsInv
    <2>4. /\ seen'[j].used = Used(j, racing) /\ seen'[j].created = rec[j].created
          /\ seen'[j].pinned = rec[j].pinned /\ seen'[j].sick = rec[j].sick
      BY <2>1, <2>3 DEF Rec
    <2>5. rec' = rec /\ LastUse(j)' = LastUse(j) /\ JustLogged' = JustLogged
      BY <1>2 DEF Count, LastUse, JustLogged
    <2>6. j \notin JustLogged => j \notin racing
      OBVIOUS
    <2>7. QED
      BY <2>2, <2>4, <2>5, <2>6 DEF Seen
  <1>3. ASSUME NEW racing \in SUBSET JustLogged, NEW readable, GCCounts(racing, readable)
        PROVE  SeenInv' /\ ChoiceInv'
    BY <1>2, <1>3 DEF GCCounts, Count, ChoiceInv
  <1>4. ASSUME NEW i \in Ids, NEW racing \in SUBSET JustLogged, NEW readable,
               ChooseVictim(i, racing, readable)
        PROVE  SeenInv' /\ ChoiceInv'
    <2>1. PICK v \in Victims(racing, readable) : swap' = <<v, i>>
      BY <1>4 DEF ChooseVictim
    <2>2. swap'[1] = v
      BY <2>1
    <2>3. /\ UNCHANGED <<live, rec>> /\ counted' = Active(readable)
          /\ SeenInv' /\ \A j \in live : seen'[j].used = Used(j, racing)
      BY <1>2, <1>4 DEF ChooseVictim, Count
    <2>4. /\ v \in live /\ ~HasActive(v, Active(readable))
          /\ \A w \in live : \/ rec[w].pinned \/ HasActive(w, Active(readable))
                             \/ Used(v, racing) >= Used(w, racing)
      BY <2>1, VictimFacts
    <2>5. ~HasActive(swap'[1], counted')
      BY <2>2, <2>3, <2>4
    <2>6. \A w \in live : \/ rec[w].pinned \/ HasActive(w, counted')
                          \/ seen'[swap'[1]].used >= seen'[w].used
      BY <2>2, <2>3, <2>4
    <2>7. QED
      BY <2>3, <2>5, <2>6 DEF ChoiceInv, HasActive
  <1>5. ASSUME NEW i \in Ids, Complete(i)
        PROVE  SeenInv' /\ ChoiceInv'
    <2>1. UNCHANGED <<live, rec, doing, seen, counted, swap>>
      BY <1>5 DEF Complete, reading
    <2>2. ChoiceInv'
      BY <1>0, <2>1 DEF ChoiceInv, HasActive
    <2>3. ASSUME NEW j \in live, Seen(j) PROVE Seen(j)'
      <3>1. j \in Ids /\ rec[j].used \in Nat /\ log[j] \in Nat /\ seen[j].used \in Nat
        BY <1>0, Thresholds DEF PoolInv, RecordsInv, Rec
      <3>2. log'[j] = log[j] \/ log'[j] = 0
        BY <1>0, <1>5, <3>1 DEF Complete, RecordsInv
      <3>3. CASE log'[j] = log[j]
        BY <2>1, <2>3, <3>3 DEF Seen, LastUse, JustLogged
      <3>4. CASE log'[j] = 0
        <4>1. LastUse(j)' = 0
          BY <2>1, <3>1, <3>4 DEF LastUse
        <4>2. j \notin JustLogged' => rec[j].used = 0
          BY <2>1, <3>1, <3>4 DEF JustLogged
        <4>3. seen[j].used <= rec[j].used
          BY <2>3 DEF Seen
        <4>4. j \notin JustLogged' => seen[j].used = 0
          BY <3>1, <4>2, <4>3
        <4>5. QED
          BY <2>1, <2>3, <3>1, <4>1, <4>4 DEF Seen
      <3>5. QED
        BY <3>2, <3>3, <3>4
    <2>4. QED
      BY <1>0, <2>1, <2>2, <2>3 DEF SeenInv
  <1>6. ASSUME UNCHANGED <<live, rec, log, reading>>
        PROVE  SeenInv' /\ ChoiceInv'
    BY <1>0, <1>6 DEF reading, SeenInv, Seen, LastUse, JustLogged, ChoiceInv, HasActive
  <1>7. QED
    BY <1>1, <1>3, <1>4, <1>5, <1>6
       DEF Next, PeriodicGC, Removal, UpEvicting, GC, Finish, Unlocked, reading, vars,
           UpExisting, UpNew, List, Down, Check, SetPinned, Open, Tick

\* The invariant of the module, for the theorems that follow.
THEOREM Inductive == Spec => []IInv
  <1>1. IInv /\ [Next]_vars => IInv'
    BY RecordsNext, PoolNext, SeenNext DEF IInv
  <1>2. QED
    BY <1>1, InitInv, PTL DEF Spec

\* Ages stay within their bounds, requests belong to live previews, the pool is
\* never exceeded, and no preview was used before it was created.
THEOREM TypeCorrect == Spec => []TypeOK
  <1>1. IInv => TypeOK
    BY DEF IInv, RecordsInv, PoolInv, TypeOK, Consistent
  <1>2. QED
    BY <1>1, Inductive, PTL
-----------------------------------------------------------------------------
(* What gc and evictions may take.                                         *)

\* Three steps remove a preview.
LEMMA WhoRemoves ==
  ASSUME PoolInv, [Next]_vars, NEW i \in Removed
  PROVE  Down(i) \/ UpEvicting \/ \E answering \in SUBSET Upstreams : GC(answering)
  BY DEF Removed, Next, PeriodicGC, Removal, GCCounts, ChooseVictim, Count, Down, Check,
         SetPinned, List, UpExisting, UpNew, Open, Complete, Tick, vars

\* Whom gc takes,
LEMMA GCTakes ==
  ASSUME IInv, NEW answering, GC(answering), NEW i \in Removed
  PROVE  /\ i \in Ids /\ i \in live /\ ~rec[i].pinned /\ ~HasActive(i, counted)
         /\ Seen(i) /\ live' \subseteq live
         /\ \/ seen[i].used >= IdleTTL \/ rec[i].created >= MaxAge
            \/ rec[i].sick \in Grace..Cap
  <1> DEFINE found == [j \in Ids |-> IF j \in live
                         THEN [seen[j] EXCEPT !.sick = Sick(j, answering)] ELSE rec[j]]
  <1>1. i \in live /\ i \in Ids /\ Expired(i, found[i]) /\ live' \subseteq live
    BY DEF Removed, GC, IInv, PoolInv
  <1>2. Seen(i) /\ seen[i] \in Rec
    BY <1>1 DEF GC, IInv, SeenInv, RecordsInv
  <1>3. /\ found[i].pinned = rec[i].pinned /\ found[i].used = seen[i].used
        /\ found[i].created = rec[i].created /\ found[i].sick = Sick(i, answering)
    BY <1>1, <1>2 DEF Rec, Seen
  <1> HIDE DEF found
  <1>4. Sick(i, answering) \in Grace..Cap => rec[i].sick \in Grace..Cap
    BY Thresholds DEF Sick, Never
  <1>5. QED
    BY <1>1, <1>2, <1>3, <1>4 DEF Expired, OverAge

\* and whom an up.
LEMMA UpTakes ==
  ASSUME IInv, UpEvicting, NEW i \in Removed
  PROVE  /\ i = swap[1] /\ i \in live /\ i \in Ids /\ live' \ live # {}
         /\ ~HasActive(i, counted) /\ \A w \in live : Seen(w)
         /\ \A w \in live : rec[w].pinned \/ HasActive(w, counted) \/ seen[i].used >= seen[w].used
  <1>1. PICK v \in live, j \in Ids \ live : swap[1] = v /\ live' = (live \ {v}) \cup {j}
    BY EvictingFacts DEF IInv
  <1>2. i = v /\ i = swap[1] /\ live' \ live # {} /\ i \in Ids
    BY <1>1 DEF Removed, IInv, PoolInv
  <1>3. SeenInv /\ ChoiceInv /\ doing = "up"
    BY DEF IInv, UpEvicting
  <1>4. QED
    BY <1>1, <1>2, <1>3 DEF SeenInv, ChoiceInv

\* A preview of which the command counted an open request is spared by it,
\* whatever opens and completes between the counting and the removal.
THEOREM ActiveAreSpared == Spec => SparesActive
  <1>1. ASSUME IInv, [Next]_vars, NEW i \in Removed, i \in counted
        PROVE  Down(i)
    <2>1. HasActive(i, counted)
      BY <1>1 DEF HasActive
    <2>2. QED
      BY <1>1, <2>1, WhoRemoves, GCTakes, UpTakes DEF IInv
  <1>2. IInv /\ [Next]_vars => [\A i \in Removed : Down(i) \/ i \notin counted]_vars
    BY <1>1
  <1>3. QED
    BY <1>2, Inductive, PTL DEF Spec, SparesActive

\* An up that finds the pool full takes the least recently requested of the
\* previews it may take.
THEOREM LeastRecentIsEvicted == Spec => EvictsLeastRecent
  <1>1. ASSUME IInv, [Next]_vars, NEW v \in Removed, NEW i \in live' \ live, v \notin JustLogged,
               NEW w \in live, ~rec[w].pinned, ~HasActive(w, counted)
        PROVE  LastUse(v) >= LastUse(w)
    <2>1. UpEvicting
      BY <1>1, WhoRemoves, GCTakes DEF IInv, Down
    <2>2. v \in live /\ Seen(v) /\ Seen(w) /\ seen[v].used >= seen[w].used
      BY <1>1, <2>1, UpTakes
    <2>3. v \in Ids /\ w \in Ids
      BY <1>1, <2>2 DEF IInv, PoolInv
    <2>4. /\ LastUse(v) \in Nat /\ LastUse(w) \in Nat
          /\ seen[v].used \in Nat /\ seen[w].used \in Nat
      BY <1>1, <2>3, UsedFacts, Thresholds DEF IInv, RecordsInv, Rec
    <2>5. seen[v].used = LastUse(v) /\ LastUse(w) <= seen[w].used
      BY <1>1, <2>2 DEF Seen
    <2>6. QED
      BY <2>2, <2>4, <2>5
  <1>2. IInv /\ [Next]_vars =>
          [\A v \in Removed : (\E i \in Ids : i \in live' \ live) =>
             \/ v \in JustLogged
             \/ \A w \in live : rec[w].pinned \/ HasActive(w, counted) \/ LastUse(v) >= LastUse(w)]_vars
    BY <1>1
  <1>3. QED
    BY <1>2, Inductive, PTL DEF Spec, EvictsLeastRecent

\* gc takes no preview that was used within the idle time, is within its
\* maximum age and was not found sick a grace period ago.
THEOREM NothingExpiresEarly == Spec => NoEarlyExpiry
  <1>1. ASSUME IInv, [Next]_vars, NEW i \in Removed, live' \ live = {}, ~Down(i), i \notin JustLogged
        PROVE  LastUse(i) >= IdleTTL \/ rec[i].created >= MaxAge \/ rec[i].sick \in Grace..Cap
    <2>1. PICK answering \in SUBSET Upstreams : GC(answering)
      BY <1>1, WhoRemoves, UpTakes DEF IInv
    <2>2. Seen(i) /\ (seen[i].used >= IdleTTL \/ rec[i].created >= MaxAge \/ rec[i].sick \in Grace..Cap)
      BY <1>1, <2>1, GCTakes
    <2>3. seen[i].used = LastUse(i)
      BY <1>1, <2>2 DEF Seen
    <2>4. QED
      BY <2>2, <2>3
  <1>2. IInv /\ [Next]_vars =>
          [\A i \in Removed :
             \/ live' \ live # {} \/ Down(i) \/ i \in JustLogged
             \/ LastUse(i) >= IdleTTL \/ rec[i].created >= MaxAge
             \/ rec[i].sick \in Grace..Cap]_vars
    BY <1>1
  <1>3. QED
    BY <1>2, Inductive, PTL DEF Spec, NoEarlyExpiry
=============================================================================
