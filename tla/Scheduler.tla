----------------------------- MODULE Scheduler -----------------------------
(***************************************************************************)
(* The garbage collection timer (internal/scheduler): `service install'    *)
(* writes unit files and makes launchd or the systemd of the user run      *)
(* them, `service uninstall' takes that back.  A command is a sequence of  *)
(* steps without any lock: another one may run between any two of them,    *)
(* every step may fail, the process may be killed, the machine rebooted.   *)
(* Some errors are ignored.  The binary that runs the command is the one   *)
(* its unit file names.                                                    *)
(*                                                                         *)
(* What launchctl and systemctl do is external.  A file is written         *)
(* atomically (a temporary one that is left over is not modelled).         *)
(***************************************************************************)
EXTENDS Naturals, Sequences

CONSTANTS Processes, Binaries, None

\* A command that runs: the steps left to it, and the binary that it installs.
StepNames == {"writeJob", "writeTimer", "removeJob", "removeTimer", "reload", "forget", "stop", "start"}
Command == [binary : Binaries \cup {None}, steps : Seq(StepNames)]

ASSUME SchedulerAssumption == None \notin Binaries /\ None \notin Command

VARIABLES
  platform,  \* "launchd" or "systemd"
  job,       \* the binary of the property list, or of the service unit
  timer,     \* the timer unit is there (the property list is its own timer)
  loaded,    \* the job as the manager knows it
  active,    \* the manager's timer runs
  enabled,   \* systemd starts it at boot, as long as the file is there
  running,   \* the command of each process, or None
  trouble,   \* since nothing ran: something failed, or somebody was killed
  asked,     \* and these commands were given
  orphaned   \* and when the first of them began, a timer ran without its file

files == <<job, timer>>
manager == <<loaded, active, enabled>>
ghosts == <<trouble, asked, orphaned>>
vars == <<platform, files, manager, running, ghosts>>

\* The timer's own file.
TimerFile == IF platform = "launchd" THEN job # None ELSE timer

\* The binary that collects garbage every five minutes, now and after a reboot.
\* At login launchd loads every property list of the directory.
Collects == IF active THEN loaded ELSE None
AfterReboot ==
  IF platform = "launchd" \/ (enabled /\ timer) THEN job ELSE None

Idle == \A p \in Processes : running[p] = None

Init ==
  /\ platform \in {"launchd", "systemd"}
  /\ job = None /\ timer = FALSE
  /\ loaded = None /\ active = FALSE /\ enabled = FALSE
  /\ running = [p \in Processes |-> None]
  /\ trouble = FALSE /\ asked = {} /\ orphaned = FALSE
-----------------------------------------------------------------------------
(* The commands.                                                           *)

InstallLaunchd == <<"writeJob", "stop", "start">>
InstallSystemd == <<"writeJob", "writeTimer", "reload", "start">>
InstallAsOnLinux == InstallSystemd
Install == IF platform = "launchd" THEN InstallLaunchd ELSE InstallSystemd

UninstallRemovingFirst ==
  IF platform = "launchd" THEN <<"removeJob", "stop">>
  ELSE <<"removeJob", "removeTimer", "stop", "forget">>
\* The manager is told while the files it is told about are still there.
Uninstall ==
  IF platform = "launchd" THEN <<"stop", "removeJob">>
  ELSE <<"stop", "removeJob", "removeTimer", "forget">>

Begin(p, name, binary) ==
  /\ running[p] = None
  /\ running' = [running EXCEPT ![p] =
       [binary |-> binary, steps |-> IF name = "install" THEN Install ELSE Uninstall]]
  /\ IF Idle THEN trouble' = FALSE /\ asked' = {name} /\ orphaned' = (active /\ ~TimerFile)
     ELSE asked' = asked \cup {name} /\ UNCHANGED <<trouble, orphaned>>
  /\ UNCHANGED <<platform, files, manager>>

At(p, step) == running[p] # None /\ Head(running[p].steps) = step

\* The step is done, or its error does not matter; after the last one the
\* command reports success.
Proceed(p) ==
  /\ running' = [running EXCEPT ![p] =
       IF Len(@.steps) = 1 THEN None ELSE [binary |-> @.binary, steps |-> Tail(@.steps)]]
  /\ UNCHANGED <<asked, orphaned>>

\* The command reports an error, or its process is killed.
Abort(p) ==
  /\ running' = [running EXCEPT ![p] = None] /\ trouble' = TRUE
  /\ UNCHANGED <<asked, orphaned>>
Killed(p) == running[p] # None /\ Abort(p) /\ UNCHANGED <<platform, files, manager>>

\* An error of os calls: the file is as it was.
WriteJob(p) ==
  /\ At(p, "writeJob")
  /\ \/ job' = running[p].binary /\ Proceed(p) /\ UNCHANGED trouble
     \/ job' = job /\ Abort(p)
  /\ UNCHANGED <<platform, timer, manager>>
WriteTimer(p) ==
  /\ At(p, "writeTimer")
  /\ \/ timer' = TRUE /\ Proceed(p) /\ UNCHANGED trouble
     \/ timer' = timer /\ Abort(p)
  /\ UNCHANGED <<platform, job, manager>>
RemoveJob(p) ==
  /\ At(p, "removeJob")
  /\ \/ job' = None /\ Proceed(p) /\ UNCHANGED trouble
     \/ job' = job /\ Abort(p)
  /\ UNCHANGED <<platform, timer, manager>>
RemoveTimer(p) ==
  /\ At(p, "removeTimer")
  /\ \/ timer' = FALSE /\ Proceed(p) /\ UNCHANGED trouble
     \/ timer' = timer /\ Abort(p)
  /\ UNCHANGED <<platform, job, manager>>

\* systemctl daemon-reload: what runs goes on running.
Reload(p) ==
  /\ At(p, "reload")
  /\ \/ loaded' = job /\ Proceed(p) /\ UNCHANGED trouble
     \/ loaded' = loaded /\ Abort(p)
  /\ UNCHANGED <<platform, files, active, enabled>>
Forget(p) ==
  /\ At(p, "forget")
  /\ loaded' \in {job, loaded} /\ Proceed(p)
  /\ UNCHANGED <<platform, files, active, enabled, trouble>>

\* launchctl bootout, systemctl disable --now, both ignored when they fail: they
\* do when the file they name is missing, and may at any time, half done.
Stop(p) ==
  /\ At(p, "stop") /\ Proceed(p)
  /\ \/ /\ TimerFile
        /\ active' = FALSE /\ enabled' = FALSE
        /\ loaded' = IF platform = "launchd" THEN None ELSE loaded
        /\ UNCHANGED trouble
     \/ /\ ~TimerFile /\ UNCHANGED <<manager, trouble>>
     \/ /\ TimerFile /\ (active \/ enabled)
        /\ enabled' \in {enabled, FALSE} /\ UNCHANGED <<loaded, active>>
        /\ trouble' = TRUE
  /\ UNCHANGED <<platform, files>>

\* launchctl bootstrap, which refuses a job it already has, and systemctl enable
\* --now, which reloads by itself and may enable what it cannot start.
Started ==
  /\ TimerFile /\ job # None /\ (platform = "launchd" => loaded = None)
  /\ loaded' = job /\ active' = TRUE /\ enabled' = (platform = "systemd")
NotStarted ==
  /\ enabled' \in {enabled, platform = "systemd" /\ (enabled \/ TimerFile)}
  /\ loaded' \in IF platform = "systemd" THEN {loaded, job} ELSE {loaded}
  /\ active' = active

StartIgnored(p) ==
  /\ At(p, "start") /\ (Started \/ NotStarted) /\ Proceed(p)
  /\ UNCHANGED <<platform, files, trouble>>
Start(p) ==
  /\ At(p, "start")
  /\ \/ Started /\ Proceed(p) /\ UNCHANGED trouble
     \/ NotStarted /\ Abort(p)
  /\ UNCHANGED <<platform, files>>

Reboot ==
  /\ running' = [p \in Processes |-> None]
  /\ trouble' = (trouble \/ ~Idle)
  /\ active' = (AfterReboot # None)
  /\ loaded' = IF platform = "launchd" THEN AfterReboot ELSE job
  /\ UNCHANGED <<platform, files, enabled, asked, orphaned>>

Step(p) ==
  \/ \E binary \in Binaries : Begin(p, "install", binary)
  \/ Begin(p, "uninstall", None)
  \/ WriteJob(p) \/ WriteTimer(p) \/ RemoveJob(p) \/ RemoveTimer(p)
  \/ Reload(p) \/ Forget(p) \/ Stop(p) \/ Start(p)
  \/ Killed(p)

Next == Reboot \/ \E p \in Processes : Step(p)

Spec == Init /\ [][Next]_vars
-----------------------------------------------------------------------------
(* Properties.                                                             *)

\* Each platform is driven with its own commands and files only.
TypeOK ==
  /\ platform \in {"launchd", "systemd"}
  /\ job \in Binaries \cup {None} /\ loaded \in Binaries \cup {None}
  /\ timer \in BOOLEAN /\ active \in BOOLEAN /\ enabled \in BOOLEAN
  /\ platform = "launchd" => ~timer /\ ~enabled /\ (active <=> loaded # None)
  /\ running \in [Processes -> Command \cup {None}]
  /\ \A p \in Processes : running[p] # None => running[p].steps # <<>>

\* When installs only were given, in whatever way they overlapped, and all of
\* them reported success, then garbage is collected by the binary the unit
\* file names, and goes on to be after a reboot: whatever an earlier install or
\* uninstall that failed or was killed had left behind.
InstalledRuns ==
  Idle /\ ~trouble /\ asked = {"install"} =>
    job # None /\ Collects = job /\ AfterReboot = job

\* When uninstalls only were given and reported success, no file is left and
\* nothing is collected any more, unless the ignored command to stop it failed,
\* or could not work because the file was gone before.
UninstalledStops ==
  Idle /\ ~trouble /\ ~orphaned /\ asked = {"uninstall"} =>
    job = None /\ ~timer /\ Collects = None /\ AfterReboot = None
=============================================================================
