----------------------------- MODULE StateStore -----------------------------
(***************************************************************************)
(* The registry on disk (internal/state/store.go): the file lock, Load,    *)
(* and the write, sync, rename and directory sync of Save, with processes  *)
(* that die at any point and machines that lose power.                     *)
(*                                                                         *)
(* A registry is the set of the changes made to it: every transaction      *)
(* loads one and saves it with one change of its own.  A file is its       *)
(* content, whether it is whole, and whether it was flushed to disk.       *)
(***************************************************************************)
CONSTANTS
  Procs,    \* tailpreview processes
  Changes,  \* the changes they make, each once
  NoProc,
  FaultKinds

\* die: a process is killed; power: the machine loses power; nosync: the
\* directory sync, whose error is ignored, fails.
AllFaults == {"die", "power", "nosync"}

ASSUME StoreAssumption == NoProc \notin Procs /\ FaultKinds \subseteq AllFaults

VARIABLES
  holder,  \* who has the lock on registry.lock
  entry,   \* the file registry.json names
  disk,    \* the file it surely names after a power loss
  tmp,     \* per process, its .registry-*.tmp
  pc,      \* per process, the next step of its transaction
  view,    \* per process, the registry it works on
  acked,   \* changes whose Save returned nil
  kept     \* those whose directory sync succeeded

vars == <<holder, entry, disk, tmp, pc, view, acked, kept>>

File == [val : SUBSET Changes, whole : BOOLEAN, flushed : BOOLEAN]
NoFile == [val |-> {}, whole |-> TRUE, flushed |-> TRUE]
-----------------------------------------------------------------------------
Init ==
  /\ holder = NoProc
  /\ entry = NoFile /\ disk = NoFile   \* a missing file loads as NewRegistry
  /\ tmp = [p \in Procs |-> NoFile]
  /\ pc = [p \in Procs |-> "idle"]
  /\ view = [p \in Procs |-> {}]
  /\ acked = {} /\ kept = {}

Goto(p, label) == pc' = [pc EXCEPT ![p] = label]

Temp(p, val, whole, flushed) ==
  tmp' = [tmp EXCEPT ![p] = [val |-> val, whole |-> whole, flushed |-> flushed]]

LockUnchecked(p) ==
  /\ pc[p] = "idle"
  /\ holder' = p /\ Goto(p, "load")
  /\ UNCHANGED <<entry, disk, tmp, view, acked, kept>>
Lock(p) ==
  /\ pc[p] = "idle" /\ holder = NoProc
  /\ holder' = p /\ Goto(p, "load")
  /\ UNCHANGED <<entry, disk, tmp, view, acked, kept>>

\* Closing the descriptor, or dying, gives the lock back.
Unlock(p) ==
  /\ pc' = [pc EXCEPT ![p] = "idle"]
  /\ view' = [view EXCEPT ![p] = {}]
  /\ holder' = IF holder = p THEN NoProc ELSE holder

Close(p) ==
  /\ pc[p] = "close" /\ Unlock(p)
  /\ UNCHANGED <<entry, disk, tmp, acked, kept>>

LoadOrNew(p) ==
  /\ pc[p] = "load" /\ Goto(p, "create")
  /\ \E found \in {entry.val, {}} : view' = [view EXCEPT ![p] = found]
  /\ UNCHANGED <<holder, entry, disk, tmp, acked, kept>>
Load(p) ==
  /\ pc[p] = "load"
  /\ \/ entry.whole /\ view' = [view EXCEPT ![p] = entry.val] /\ Goto(p, "create")
     \/ UNCHANGED view /\ Goto(p, "close")
  /\ UNCHANGED <<holder, entry, disk, tmp, acked, kept>>

\* The command makes its change, or returns without saving.
Create(p) ==
  /\ pc[p] = "create"
  /\ \/ \E c \in Changes :
          /\ c \notin entry.val \cup disk.val \cup acked
          /\ \A q \in Procs : c \notin view[q]
          /\ view' = [view EXCEPT ![p] = @ \cup {c}]
          /\ Temp(p, view[p] \cup {c}, FALSE, FALSE)
          /\ Goto(p, "write")
     \/ UNCHANGED <<tmp, view>> /\ Goto(p, "close")
  /\ UNCHANGED <<holder, entry, disk, acked, kept>>

FailKeepsTemp(p) == Goto(p, "close") /\ UNCHANGED tmp
\* A failed call leaves through the deferred Remove of the temporary file.
Fail(p) == tmp' = [tmp EXCEPT ![p] = NoFile] /\ Goto(p, "close")

Write(p) ==
  /\ pc[p] = "write"
  /\ \/ Temp(p, view[p], TRUE, FALSE) /\ Goto(p, "sync")
     \/ Fail(p)
  /\ UNCHANGED <<holder, entry, disk, view, acked, kept>>

SyncSkipped(p) ==
  /\ pc[p] = "sync" /\ Goto(p, "rename")
  /\ UNCHANGED <<holder, entry, disk, tmp, view, acked, kept>>
Sync(p) ==
  /\ pc[p] = "sync"
  /\ \/ Temp(p, view[p], TRUE, TRUE) /\ Goto(p, "rename")
     \/ Fail(p)
  /\ UNCHANGED <<holder, entry, disk, view, acked, kept>>

Rename(p) ==
  /\ pc[p] = "rename"
  /\ \/ /\ entry' = tmp[p] /\ tmp' = [tmp EXCEPT ![p] = NoFile]
        /\ Goto(p, "dirsync")
     \/ UNCHANGED entry /\ Fail(p)
  /\ UNCHANGED <<holder, disk, view, acked, kept>>

\* The error of the directory sync is ignored: Save returns nil either way.
DirSyncNever(p) ==
  /\ pc[p] = "dirsync" /\ Goto(p, "close")
  /\ acked' = entry.val /\ kept' = entry.val
  /\ UNCHANGED <<holder, entry, disk, tmp, view>>
DirSync(p) ==
  /\ pc[p] = "dirsync" /\ Goto(p, "close")
  /\ acked' = entry.val
  /\ \/ disk' = entry /\ kept' = entry.val
     \/ "nosync" \in FaultKinds /\ UNCHANGED <<disk, kept>>
  /\ UNCHANGED <<holder, entry, tmp, view>>

\* The temporary file of a dead process stays on disk under a name that no
\* other process looks at or takes.
Die(p) ==
  /\ "die" \in FaultKinds /\ pc[p] # "idle"
  /\ Unlock(p) /\ tmp' = [tmp EXCEPT ![p] = NoFile]
  /\ UNCHANGED <<entry, disk, acked, kept>>

\* Either name may be on disk; a file that was not flushed may come back torn.
PowerLoss ==
  /\ "power" \in FaultKinds
  /\ \E f \in {entry, disk}, whole \in BOOLEAN :
       /\ f.flushed => whole = f.whole
       /\ entry' = [val |-> f.val, whole |-> whole, flushed |-> TRUE] /\ disk' = entry'
       /\ acked' = kept
  /\ holder' = NoProc
  /\ pc' = [p \in Procs |-> "idle"]
  /\ tmp' = [p \in Procs |-> NoFile]
  /\ view' = [p \in Procs |-> {}]
  /\ UNCHANGED kept

Next ==
  \/ \E p \in Procs :
       \/ Lock(p) \/ Load(p) \/ Create(p) \/ Write(p) \/ Sync(p) \/ Rename(p)
       \/ DirSync(p) \/ Close(p) \/ Die(p)
  \/ PowerLoss

Spec == Init /\ [][Next]_vars
-----------------------------------------------------------------------------
(* Properties.                                                             *)

TypeOK ==
  /\ holder \in Procs \cup {NoProc}
  /\ {entry, disk} \subseteq File /\ tmp \in [Procs -> File]
  /\ pc \in [Procs -> {"idle", "load", "create", "write", "sync", "rename", "dirsync", "close"}]
  /\ view \in [Procs -> SUBSET Changes]
  /\ acked \subseteq Changes /\ kept \subseteq Changes
  \* Save, when it returns, leaves no temporary file behind
  /\ \A p \in Procs : tmp[p] # NoFile => pc[p] \in {"write", "sync", "rename"}

\* A process never finds half a registry: not after a crash of another one at
\* any point of Save, not after a power loss.
NeverTorn == entry.whole /\ disk.whole

\* What Save reported as saved is not lost by any later transaction, failure or
\* crash; and not by a power loss either if the directory was synced.
AckedStays == acked \subseteq entry.val
KeptStays == kept \subseteq entry.val /\ kept \subseteq disk.val

\* The registry is an atomic register under a lock: every change of it is one
\* change added to the latest value by the holder of the lock.
Reg == INSTANCE Register WITH value <- entry.val, safe <- disk.val
IsRegister == Reg!Spec
=============================================================================
