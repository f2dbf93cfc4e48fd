-------------------------- MODULE StateStoreProofs --------------------------
(***************************************************************************)
(* Theorems about StateStore, for any processes, changes and fault kinds.  *)
(*                                                                         *)
(* The argument: only the holder of the lock is at work (Owner), so the    *)
(* registry it works on is the one the file still has (Latest), and the    *)
(* file it renames is whole and flushed (Ready).                           *)
(***************************************************************************)
EXTENDS StateStore, TLAPS

USE StoreAssumption
-----------------------------------------------------------------------------
(* The inductive invariant.                                                *)

Labels == {"idle", "load", "create", "write", "sync", "rename", "dirsync", "close"}

Types ==
  /\ holder \in Procs \cup {NoProc}
  /\ entry \in File /\ disk \in File /\ tmp \in [Procs -> File]
  /\ pc \in [Procs -> Labels]
  /\ view \in [Procs -> SUBSET Changes]
  /\ acked \subseteq Changes /\ kept \subseteq Changes

NoTemp == \A p \in Procs : tmp[p] # NoFile => pc[p] \in {"write", "sync", "rename"}

Owner == \A p \in Procs : pc[p] # "idle" => holder = p

Sound == entry.whole /\ entry.flushed /\ disk.whole /\ disk.flushed

Ready ==
  \A p \in Procs : pc[p] = "rename" => tmp[p].whole /\ tmp[p].flushed

Latest ==
  \A p \in Procs :
    /\ pc[p] = "create" => view[p] = entry.val
    /\ pc[p] \in {"write", "sync", "rename"} =>
         \E c \in Changes \ entry.val : view[p] = entry.val \cup {c}
    /\ pc[p] = "rename" => tmp[p].val = view[p]

IInv ==
  /\ Types /\ NoTemp /\ Owner /\ Sound /\ Ready /\ Latest
  /\ AckedStays /\ KeptStays
-----------------------------------------------------------------------------
\* The fields of a file, for the provers.
LEMMA FileFacts ==
  ASSUME NEW val \in SUBSET Changes, NEW whole \in BOOLEAN, NEW flushed \in BOOLEAN
  PROVE  LET f == [val |-> val, whole |-> whole, flushed |-> flushed]
         IN  f \in File /\ f.val = val /\ f.whole = whole /\ f.flushed = flushed
  BY DEF File

\* A missing file counts as whole and flushed.
LEMMA NoFileFacts ==
  NoFile \in File /\ NoFile.val = {} /\ NoFile.whole /\ NoFile.flushed
  BY DEF NoFile, File

\* The initial registry is the empty one, whole.
LEMMA InitIInv == Init => IInv
  BY NoFileFacts DEF Init, IInv, Types, Labels, NoTemp, Owner, Sound, Ready, Latest,
     AckedStays, KeptStays

\* Another process has nothing in hand while p is at work.
LEMMA Alone ==
  ASSUME IInv, NEW p \in Procs, pc[p] # "idle"
  PROVE  \A q \in Procs : q # p => pc[q] = "idle"
  BY DEF IInv, Owner

\* Every step of a process, and a power loss, keeps the invariant.
LEMMA StepIInv == IInv /\ [Next]_vars => IInv'
  <1> SUFFICES ASSUME IInv, [Next]_vars PROVE IInv'
    OBVIOUS
  <1> USE DEF Goto
  <1>1. ASSUME NEW p \in Procs, Lock(p) PROVE IInv'
    BY <1>1 DEF Lock, IInv, Types, Labels, NoTemp, Owner, Sound, Ready, Latest,
       AckedStays, KeptStays
  <1>2. ASSUME NEW p \in Procs, Load(p) PROVE IInv'
    BY <1>2, Alone DEF Load, IInv, Types, Labels, File, NoTemp, Owner, Sound, Ready, Latest,
       AckedStays, KeptStays
  <1>3. ASSUME NEW p \in Procs, Create(p) PROVE IInv'
    <2>1. CASE \E c \in Changes :
                 /\ c \notin entry.val \cup disk.val \cup acked
                 /\ view' = [view EXCEPT ![p] = @ \cup {c}]
                 /\ Temp(p, view[p] \cup {c}, FALSE, FALSE)
                 /\ Goto(p, "write")
      <3>1. PICK c \in Changes :
                 /\ c \notin entry.val \cup disk.val \cup acked
                 /\ view' = [view EXCEPT ![p] = @ \cup {c}]
                 /\ Temp(p, view[p] \cup {c}, FALSE, FALSE)
                 /\ Goto(p, "write")
        BY <2>1
      <3>2. view[p] \cup {c} \in SUBSET Changes /\ view[p] = entry.val
        BY <1>3 DEF Create, IInv, Types, Latest
      <3>3. [val |-> view[p] \cup {c}, whole |-> FALSE, flushed |-> FALSE] \in File
        BY <3>2, FileFacts
      <3>4. Types'
        BY <1>3, <3>1, <3>2, <3>3 DEF Create, Temp, IInv, Types, Labels
      <3>5. QED
        BY <1>3, <3>1, <3>2, <3>4, Alone DEF Create, Temp, IInv, Types, NoTemp, Owner, Sound,
           Ready, Latest, AckedStays, KeptStays
    <2>2. CASE UNCHANGED <<tmp, view>> /\ Goto(p, "close")
      BY <1>3, <2>2, Alone DEF Create, IInv, Types, Labels, NoTemp, Owner, Sound, Ready, Latest,
         AckedStays, KeptStays
    <2>3. QED
      BY <1>3, <2>1, <2>2 DEF Create
  <1>4. ASSUME NEW p \in Procs, pc[p] # "idle", Fail(p),
               UNCHANGED <<holder, entry, disk, view, acked, kept>>
        PROVE  IInv'
    BY <1>4, NoFileFacts, Alone DEF Fail, IInv, Types, Labels, NoTemp, Owner, Sound, Ready,
       Latest, AckedStays, KeptStays
  <1>5. ASSUME NEW p \in Procs, NEW flushed \in BOOLEAN, NEW label \in {"sync", "rename"},
               pc[p] \in {"write", "sync"}, label = "rename" => flushed,
               Temp(p, view[p], TRUE, flushed), Goto(p, label),
               UNCHANGED <<holder, entry, disk, view, acked, kept>>
        PROVE  IInv'
    <2> DEFINE f == [val |-> view[p], whole |-> TRUE, flushed |-> flushed]
    <2>1. f \in File /\ f.val = view[p] /\ f.whole /\ f.flushed = flushed
      BY FileFacts DEF IInv, Types
    <2>2. tmp' = [tmp EXCEPT ![p] = f]
      BY <1>5 DEF Temp
    <2> HIDE DEF f
    <2>3. QED
      BY <1>5, <2>1, <2>2, Alone DEF IInv, Types, Labels, NoTemp, Owner, Sound, Ready, Latest,
         AckedStays, KeptStays
  <1>6. ASSUME NEW p \in Procs, Write(p) PROVE IInv'
    BY <1>4, <1>5, <1>6 DEF Write
  <1>7. ASSUME NEW p \in Procs, Sync(p) PROVE IInv'
    BY <1>4, <1>5, <1>7 DEF Sync
  <1>8. ASSUME NEW p \in Procs, Rename(p) PROVE IInv'
    <2>1. CASE entry' = tmp[p] /\ tmp' = [tmp EXCEPT ![p] = NoFile] /\ Goto(p, "dirsync")
      BY <1>8, <2>1, NoFileFacts, Alone DEF Rename, IInv, Types, Labels, NoTemp, Owner, Sound,
         Ready, Latest, AckedStays, KeptStays
    <2>2. CASE UNCHANGED entry /\ Fail(p)
      BY <1>4, <1>8, <2>2 DEF Rename
    <2>3. QED
      BY <1>8, <2>1, <2>2 DEF Rename
  <1>9. ASSUME NEW p \in Procs, DirSync(p) PROVE IInv'
    BY <1>9, Alone DEF DirSync, IInv, Types, Labels, File, NoTemp, Owner, Sound, Ready, Latest,
       AckedStays, KeptStays
  <1>10. ASSUME NEW p \in Procs, Close(p) PROVE IInv'
    BY <1>10, Alone DEF Close, Unlock, IInv, Types, Labels, NoTemp, Owner, Sound, Ready, Latest,
       AckedStays, KeptStays
  <1>11. ASSUME NEW p \in Procs, Die(p) PROVE IInv'
    BY <1>11, NoFileFacts, Alone DEF Die, Unlock, IInv, Types, Labels, NoTemp, Owner, Sound,
       Ready, Latest, AckedStays, KeptStays
  <1>12. ASSUME PowerLoss PROVE IInv'
    <2>1. PICK f \in {entry, disk}, whole \in BOOLEAN :
            /\ f.flushed => whole = f.whole
            /\ entry' = [val |-> f.val, whole |-> whole, flushed |-> TRUE] /\ disk' = entry'
            /\ acked' = kept
      BY <1>12 DEF PowerLoss
    <2>2. f.val \in SUBSET Changes /\ whole /\ kept \subseteq f.val
      BY <2>1 DEF IInv, Types, File, Sound, KeptStays
    <2>3. entry' \in File /\ entry'.val = f.val /\ entry'.whole /\ entry'.flushed
      BY <2>1, <2>2, FileFacts
    <2>4. QED
      BY <1>12, <2>1, <2>2, <2>3, NoFileFacts DEF PowerLoss, IInv, Types, Labels, NoTemp, Owner,
         Sound, Ready, Latest, AckedStays, KeptStays
  <1>13. CASE UNCHANGED vars
    BY <1>13 DEF vars, IInv, Types, NoTemp, Owner, Sound, Ready, Latest, AckedStays, KeptStays
  <1>14. QED
    BY <1>1, <1>2, <1>3, <1>6, <1>7, <1>8, <1>9, <1>10, <1>11, <1>12, <1>13 DEF Next

\* The invariant that carries the theorems below.
THEOREM Inductive == Spec => []IInv
  BY InitIInv, StepIInv, PTL DEF Spec

\* The variables keep their types, and Save (store.go) leaves no temporary file
\* behind when it returns.
THEOREM TypeCorrect == Spec => []TypeOK
  <1>1. IInv => TypeOK
    BY DEF IInv, Types, Labels, NoTemp, TypeOK
  <1>2. QED
    BY <1>1, Inductive, PTL

\* The registry file is whole after any failure, death or power loss.
THEOREM FileNeverTorn == Spec => []NeverTorn
  <1>1. IInv => NeverTorn
    BY DEF IInv, Sound, NeverTorn
  <1>2. QED
    BY <1>1, Inductive, PTL

\* What Save acknowledged no later transaction, failure or death loses.
THEOREM NothingLost == Spec => []AckedStays
  <1>1. IInv => AckedStays
    BY DEF IInv
  <1>2. QED
    BY <1>1, Inductive, PTL

\* What was acknowledged after a directory sync no power loss loses either.
THEOREM SyncedIsKept == Spec => []KeptStays
  <1>1. IInv => KeptStays
    BY DEF IInv
  <1>2. QED
    BY <1>1, Inductive, PTL
-----------------------------------------------------------------------------
(* The store implements the register.                                      *)

\* The initial registry file is the initial register.
LEMMA RegisterInit == Init => Reg!Init
  BY NoFileFacts DEF Init, Reg!Init

\* Every step of a process, and a power loss, is a step of the register or
\* leaves it as it is.
LEMMA RegisterStep == IInv /\ [Next]_vars => [Reg!Next]_(Reg!vars)
  <1> SUFFICES ASSUME IInv, [Next]_vars PROVE [Reg!Next]_(Reg!vars)
    OBVIOUS
  <1>1. ASSUME NEW p \in Procs, Lock(p) PROVE Reg!Acquire(p)
    BY <1>1 DEF Lock, Reg!Acquire
  <1>2. ASSUME NEW p \in Procs, Close(p) \/ Die(p) PROVE Reg!Release(p)
    BY <1>2 DEF Close, Die, Unlock, Reg!Release, IInv, Owner
  <1>3. ASSUME NEW p \in Procs, Load(p) \/ Create(p) \/ Write(p) \/ Sync(p)
        PROVE  UNCHANGED Reg!vars
    BY <1>3 DEF Load, Create, Write, Sync, Reg!vars
  <1>4. ASSUME NEW p \in Procs, Rename(p) PROVE Reg!Update(p) \/ UNCHANGED Reg!vars
    BY <1>4 DEF Rename, Reg!Update, Reg!vars, IInv, Owner, Latest
  <1>5. ASSUME NEW p \in Procs, DirSync(p) PROVE Reg!Settle \/ UNCHANGED Reg!vars
    BY <1>5 DEF DirSync, Reg!Settle, Reg!vars
  <1>6. ASSUME PowerLoss PROVE Reg!PowerLoss
    BY <1>6 DEF PowerLoss, Reg!PowerLoss
  <1>7. CASE UNCHANGED vars
    BY <1>7 DEF vars, Reg!vars
  <1>8. QED
    BY <1>1, <1>2, <1>3, <1>4, <1>5, <1>6, <1>7 DEF Next, Reg!Next

\* Store and Locked (store.go) give the commands an atomic register under a
\* lock: every change is one change added to the latest value by the holder.
THEOREM StoreIsRegister == Spec => IsRegister
  BY RegisterInit, RegisterStep, Inductive, PTL DEF Spec, IsRegister, Reg!Spec
=============================================================================
