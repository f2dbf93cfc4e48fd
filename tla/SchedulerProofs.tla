--------------------------- MODULE SchedulerProofs ---------------------------
(***************************************************************************)
(* Theorems about Scheduler, for any number of commands that overlap in    *)
(* any way and any binaries: what installs alone, and uninstalls alone,    *)
(* leave behind when all of them report success.                           *)
(***************************************************************************)
EXTENDS Scheduler, TLAPS

USE SchedulerAssumption
-----------------------------------------------------------------------------
(* The inductive invariant.                                                *)

\* The steps that an install, or an uninstall, may still have to make.
InstallRest ==
  IF platform = "launchd"
  THEN {<<"writeJob", "stop", "start">>, <<"stop", "start">>, <<"start">>}
  ELSE {<<"writeJob", "writeTimer", "reload", "start">>, <<"writeTimer", "reload", "start">>,
        <<"reload", "start">>, <<"start">>}
UninstallRest ==
  IF platform = "launchd"
  THEN {<<"stop", "removeJob">>, <<"removeJob">>}
  ELSE {<<"stop", "removeJob", "removeTimer", "forget">>, <<"removeJob", "removeTimer", "forget">>,
        <<"removeTimer", "forget">>, <<"forget">>}

Installs(p) == running[p].steps \in InstallRest /\ running[p].binary \in Binaries
Uninstalls(p) == running[p].steps \in UninstallRest /\ running[p].binary = None

\* What runs is one of the commands given.
Commands ==
  /\ running \in [Processes -> Command \cup {None}]
  /\ asked \subseteq {"install", "uninstall"} /\ (Idle \/ asked # {})
  /\ \A p \in Processes : running[p] # None =>
       \/ "install" \in asked /\ Installs(p)
       \/ "uninstall" \in asked /\ Uninstalls(p)

\* The manager runs the job of the file, now and after a reboot.
Served ==
  /\ job # None /\ loaded = job /\ active
  /\ platform = "systemd" => enabled /\ timer

\* Every install ends with a start, whatever another one did in between.
LastOneStarts == asked = {"install"} /\ ~trouble => ~Idle \/ Served

\* The timer stops before its files go, and they stay gone.
Winding ==
  asked = {"uninstall"} /\ ~trouble /\ ~orphaned =>
    /\ active => TimerFile
    /\ \A p \in Processes : running[p] # None =>
         /\ Head(running[p].steps) # "stop" => ~active
         /\ Head(running[p].steps) \in {"removeTimer", "forget"} => job = None
         /\ Head(running[p].steps) = "forget" => ~timer
    /\ Idle => ~active /\ job = None /\ ~timer

\* What TypeOK says of the files and the manager.
Machine ==
  /\ platform \in {"launchd", "systemd"}
  /\ job \in Binaries \cup {None} /\ loaded \in Binaries \cup {None}
  /\ timer \in BOOLEAN /\ active \in BOOLEAN /\ enabled \in BOOLEAN
  /\ platform = "launchd" => ~timer /\ ~enabled /\ (active <=> loaded # None)
  /\ trouble \in BOOLEAN /\ orphaned \in BOOLEAN

IInv == Machine /\ Commands /\ LastOneStarts /\ Winding
-----------------------------------------------------------------------------
(* The steps of a command.                                                 *)

\* An install goes on as an install and ends with its start.
LEMMA InstallSteps ==
  ASSUME Machine, NEW s \in InstallRest
  PROVE  /\ s \in Seq(StepNames) /\ s # <<>>
         /\ Len(s) # 1 => Tail(s) \in InstallRest
         /\ Head(s) = "start" <=> Len(s) = 1
         /\ Head(s) \in {"writeJob", "writeTimer", "reload", "stop", "start"}
         /\ platform = "launchd" => Head(s) \notin {"writeTimer", "reload"}
  <1>1. CASE platform = "launchd"
    <2>1. InstallRest = {<<"writeJob", "stop", "start">>,
                          <<"stop", "start">>,
                          <<"start">>}
      BY <1>1 DEF InstallRest
    <2>2. CASE s = <<"writeJob", "stop", "start">>
      BY <1>1, <2>1, <2>2 DEF StepNames
    <2>3. CASE s = <<"stop", "start">>
      BY <1>1, <2>1, <2>3 DEF StepNames
    <2>4. CASE s = <<"start">>
      BY <1>1, <2>1, <2>4 DEF StepNames
    <2>5. QED
      BY <2>1, <2>2, <2>3, <2>4
  <1>2. CASE platform = "systemd"
    <2>1. InstallRest = {<<"writeJob", "writeTimer", "reload", "start">>,
                          <<"writeTimer", "reload", "start">>,
                          <<"reload", "start">>,
                          <<"start">>}
      BY <1>2 DEF InstallRest
    <2>2. CASE s = <<"writeJob", "writeTimer", "reload", "start">>
      BY <1>2, <2>1, <2>2 DEF StepNames
    <2>3. CASE s = <<"writeTimer", "reload", "start">>
      BY <1>2, <2>1, <2>3 DEF StepNames
    <2>4. CASE s = <<"reload", "start">>
      BY <1>2, <2>1, <2>4 DEF StepNames
    <2>5. CASE s = <<"start">>
      BY <1>2, <2>1, <2>5 DEF StepNames
    <2>6. QED
      BY <2>1, <2>2, <2>3, <2>4, <2>5
  <1>3. QED
    BY <1>1, <1>2 DEF Machine

\* An uninstall begins with the stop and goes through the others in order.
LEMMA UninstallSteps ==
  ASSUME Machine, NEW s \in UninstallRest
  PROVE  /\ s \in Seq(StepNames) /\ s # <<>>
         /\ Head(s) \in {"stop", "removeJob", "removeTimer", "forget"}
         /\ Head(s) = "stop" => Len(s) # 1 /\ Head(Tail(s)) = "removeJob"
         /\ Head(s) = "removeJob" => IF platform = "launchd" THEN Len(s) = 1
                                      ELSE Len(s) # 1 /\ Head(Tail(s)) = "removeTimer"
         /\ Head(s) = "removeTimer" => platform = "systemd" /\ Len(s) # 1 /\ Head(Tail(s)) = "forget"
         /\ Head(s) = "forget" => platform = "systemd" /\ Len(s) = 1
         /\ Len(s) # 1 => Tail(s) \in UninstallRest
  <1>1. CASE platform = "launchd"
    <2>1. UninstallRest = {<<"stop", "removeJob">>,
                            <<"removeJob">>}
      BY <1>1 DEF UninstallRest
    <2>2. CASE s = <<"stop", "removeJob">>
      BY <1>1, <2>1, <2>2 DEF StepNames
    <2>3. CASE s = <<"removeJob">>
      BY <1>1, <2>1, <2>3 DEF StepNames
    <2>4. QED
      BY <2>1, <2>2, <2>3
  <1>2. CASE platform = "systemd"
    <2>1. UninstallRest = {<<"stop", "removeJob", "removeTimer", "forget">>,
                            <<"removeJob", "removeTimer", "forget">>,
                            <<"removeTimer", "forget">>,
                            <<"forget">>}
      BY <1>2 DEF UninstallRest
    <2>2. CASE s = <<"stop", "removeJob", "removeTimer", "forget">>
      BY <1>2, <2>1, <2>2 DEF StepNames
    <2>3. CASE s = <<"removeJob", "removeTimer", "forget">>
      BY <1>2, <2>1, <2>3 DEF StepNames
    <2>4. CASE s = <<"removeTimer", "forget">>
      BY <1>2, <2>1, <2>4 DEF StepNames
    <2>5. CASE s = <<"forget">>
      BY <1>2, <2>1, <2>5 DEF StepNames
    <2>6. QED
      BY <2>1, <2>2, <2>3, <2>4, <2>5
  <1>3. QED
    BY <1>1, <1>2 DEF Machine

\* A command that runs, by what was asked.
LEMMA Running ==
  ASSUME Machine, Commands, NEW p \in Processes, running[p] # None
  PROVE  /\ running[p] \in Command
         /\ asked = {"install"} => Installs(p)
         /\ asked = {"uninstall"} => Uninstalls(p)
         /\ Installs(p) \/ Uninstalls(p)
         /\ ~Idle
  BY DEF Commands, Idle

\* The type invariant follows.
LEMMA InvTypeOK == Machine /\ Commands => TypeOK
  <1> SUFFICES ASSUME Machine, Commands PROVE TypeOK
    OBVIOUS
  <1>1. ASSUME NEW p \in Processes, running[p] # None
        PROVE  running[p].steps # <<>>
    BY <1>1, Running, InstallSteps, UninstallSteps DEF Installs, Uninstalls, Command
  <1>2. QED
    BY <1>1 DEF Machine, Commands, TypeOK

\* Doing a step leaves a shorter command of the same kind, or none.
LEMMA ProceedCommands ==
  ASSUME Machine, Commands, NEW p \in Processes, running[p] # None, Proceed(p), platform' = platform
  PROVE  /\ Commands' /\ asked' = asked /\ orphaned' = orphaned
         /\ \A q \in Processes \ {p} : running'[q] = running[q]
         /\ IF Len(running[p].steps) = 1 THEN running'[p] = None
            ELSE running'[p] # None /\ running'[p].steps = Tail(running[p].steps) /\ ~Idle'
  <1> DEFINE r == running[p]
             left == [binary |-> r.binary, steps |-> Tail(r.steps)]
  <1>1. r \in Command /\ (Installs(p) \/ Uninstalls(p)) /\ ~Idle
    BY Running
  <1>2. running \in [Processes -> Command \cup {None}]
    BY DEF Commands
  <1>3. running' = [running EXCEPT ![p] = IF Len(r.steps) = 1 THEN None ELSE left]
    BY DEF Proceed
  <1>4. running'[p] = (IF Len(r.steps) = 1 THEN None ELSE left) /\ \A q \in Processes \ {p} : running'[q] = running[q]
    BY <1>2, <1>3
  <1>5. InstallRest' = InstallRest /\ UninstallRest' = UninstallRest
    BY DEF InstallRest, UninstallRest
  <1>6. left.steps = Tail(r.steps) /\ left.binary = r.binary
    BY <1>1 DEF Command
  <1>7. ASSUME Len(r.steps) # 1
        PROVE  left \in Command /\ left # None
    <2>1. Tail(r.steps) \in Seq(StepNames)
      BY <1>1, <1>7, InstallSteps, UninstallSteps DEF Installs, Uninstalls
    <2>2. left \in Command
      BY <1>1, <2>1 DEF Command
    <2>3. QED
      BY <2>2
  <1>8. running' \in [Processes -> Command \cup {None}]
    BY <1>2, <1>3, <1>7
  <1>9. ASSUME Len(r.steps) # 1
        PROVE  (Installs(p) => Installs(p)') /\ (Uninstalls(p) => Uninstalls(p)')
    <2>1. running'[p].steps = Tail(r.steps) /\ running'[p].binary = r.binary
      BY <1>4, <1>6, <1>9
    <2>2. QED
      BY <1>5, <1>9, <2>1, InstallSteps, UninstallSteps DEF Installs, Uninstalls
  <1>10. \A q \in Processes \ {p} : (Installs(q) <=> Installs(q)') /\ (Uninstalls(q) <=> Uninstalls(q)')
    BY <1>4, <1>5 DEF Installs, Uninstalls
  <1>11. asked # {} /\ asked \subseteq {"install", "uninstall"}
    BY <1>1 DEF Commands
  <1>12. ASSUME NEW q \in Processes, running'[q] # None
         PROVE  ("install" \in asked /\ Installs(q)') \/ ("uninstall" \in asked /\ Uninstalls(q)')
    <2>1. running[q] # None
      BY <1>4, <1>12
    <2>2. ("install" \in asked /\ Installs(q)) \/ ("uninstall" \in asked /\ Uninstalls(q))
      BY <2>1 DEF Commands
    <2>3. CASE q = p
      BY <1>4, <1>9, <1>12, <2>2, <2>3
    <2>4. CASE q # p
      BY <1>10, <2>2, <2>4
    <2>5. QED
      BY <2>3, <2>4
  <1>13. asked' = asked /\ orphaned' = orphaned
    BY DEF Proceed
  <1>14. Commands'
    BY <1>8, <1>11, <1>12, <1>13 DEF Commands
  <1>15. QED
    BY <1>4, <1>6, <1>7, <1>13, <1>14 DEF Idle

\* A command that fails or is killed is gone, and that is remembered.
LEMMA AbortIInv ==
  ASSUME IInv, NEW p \in Processes, running[p] # None, Abort(p), Machine', platform' = platform
  PROVE  IInv'
  <1>1. running' = [running EXCEPT ![p] = None] /\ trouble' /\ asked' = asked
    BY DEF Abort
  <1>2. Commands'
    <2>1. running' \in [Processes -> Command \cup {None}]
      BY <1>1 DEF IInv, Commands
    <2>2. asked # {} /\ asked \subseteq {"install", "uninstall"}
      BY Running DEF IInv, Commands
    <2>3. ASSUME NEW q \in Processes, running'[q] # None
          PROVE  ("install" \in asked /\ Installs(q)') \/ ("uninstall" \in asked /\ Uninstalls(q)')
      <3>1. running'[q] = running[q]
        BY <1>1, <2>3 DEF IInv, Commands
      <3>2. QED
        BY <2>3, <3>1 DEF IInv, Commands, Installs, Uninstalls, InstallRest, UninstallRest
    <2>4. QED
      BY <1>1, <2>1, <2>2, <2>3 DEF Commands
  <1>3. LastOneStarts' /\ Winding'
    BY <1>1 DEF LastOneStarts, Winding
  <1>4. QED
    BY <1>2, <1>3 DEF IInv

\* What the steps of an install do to the invariant: only a start ends it.
LEMMA InstallStepIInv ==
  ASSUME IInv, NEW p \in Processes, running[p] # None, Proceed(p), Machine', platform' = platform,
         Head(running[p].steps) \in {"writeJob", "writeTimer", "reload", "start"},
         Head(running[p].steps) = "start" => Served'
  PROVE  IInv'
  <1>1. Machine /\ Commands
    BY DEF IInv
  <1>2. Commands' /\ asked' = asked
    BY <1>1, ProceedCommands
  <1>3. Installs(p)
    BY <1>1, Running, UninstallSteps DEF Uninstalls
  <1>4. Winding'
    <2>1. asked # {"uninstall"}
      BY <1>1, Running, UninstallSteps DEF Uninstalls
    <2>2. QED
      BY <1>2, <2>1 DEF Winding
  <1>5. ~Idle' \/ Served'
    BY <1>1, <1>3, InstallSteps, ProceedCommands DEF Installs
  <1>6. QED
    BY <1>2, <1>4, <1>5 DEF IInv, LastOneStarts

\* And those of an uninstall, or a stop: an install that stops starts again.
LEMMA UninstallStepIInv ==
  ASSUME IInv, NEW p \in Processes, running[p] # None, Proceed(p), Machine', platform' = platform,
         Head(running[p].steps) # "start", Winding'
  PROVE  IInv'
  <1>1. Machine /\ Commands
    BY DEF IInv
  <1>2. Commands' /\ asked' = asked
    BY <1>1, ProceedCommands
  <1>3. asked = {"install"} => ~Idle'
    BY <1>1, Running, InstallSteps, ProceedCommands DEF Installs
  <1>4. QED
    BY <1>2, <1>3 DEF IInv, LastOneStarts
-----------------------------------------------------------------------------
(* The actions.                                                            *)

\* A process that is about to do something is in a command, and that is its next step.
LEMMA AtIs ==
  ASSUME NEW p, NEW step, At(p, step)
  PROVE  running[p] # None /\ Head(running[p].steps) = step
  BY DEF At

\* A command begins.
LEMMA BeginIInv ==
  ASSUME IInv, NEW p \in Processes, NEW name \in {"install", "uninstall"},
         NEW binary \in IF name = "install" THEN Binaries ELSE {None}, Begin(p, name, binary)
  PROVE  IInv'
  <1> DEFINE new == [binary |-> binary, steps |-> IF name = "install" THEN Install ELSE Uninstall]
  <1>1. Machine /\ Commands /\ running[p] = None
    BY DEF IInv, Begin
  <1>2. running' = [running EXCEPT ![p] = new] /\ UNCHANGED <<platform, files, manager>>
    BY DEF Begin
  <1>3. IF name = "install" THEN new.steps \in InstallRest /\ binary \in Binaries
        ELSE new.steps \in UninstallRest /\ binary = None /\ Head(new.steps) = "stop"
    BY <1>1 DEF Install, InstallLaunchd, InstallSystemd, Uninstall, InstallRest, UninstallRest, Machine
  <1>4. new \in Command /\ new # None
    <2>1. new.steps \in Seq(StepNames)
      BY <1>1, <1>3, InstallSteps, UninstallSteps
    <2>2. new \in Command
      BY <1>3, <2>1 DEF Command
    <2>3. QED
      BY <2>2
  <1>5. running' \in [Processes -> Command \cup {None}] /\ running'[p] = new
        /\ \A q \in Processes \ {p} : running'[q] = running[q]
    BY <1>1, <1>2, <1>4 DEF Commands
  <1> HIDE DEF new
  <1>6. ~Idle'
    BY <1>4, <1>5 DEF Idle
  <1>7. asked' \subseteq {"install", "uninstall"} /\ name \in asked' /\ (~Idle => asked' = asked \cup {name})
    BY <1>1 DEF Begin, Commands
  <1>8. Machine'
    <2>1. trouble' \in BOOLEAN
      BY <1>1 DEF Machine, Begin
    <2>2. orphaned' \in BOOLEAN
      <3>1. CASE Idle
        BY <3>1 DEF Begin
      <3>2. CASE ~Idle
        BY <1>1, <3>2 DEF Begin, Machine
      <3>3. QED
        BY <3>1, <3>2
    <2>3. QED
      BY <1>1, <1>2, <2>1, <2>2 DEF Machine, files, manager
  <1>9. Commands'
    <2>1. ASSUME NEW q \in Processes, running'[q] # None
          PROVE  ("install" \in asked' /\ Installs(q)') \/ ("uninstall" \in asked' /\ Uninstalls(q)')
      <3>1. InstallRest' = InstallRest /\ UninstallRest' = UninstallRest
        BY <1>2 DEF InstallRest, UninstallRest
      <3>2. CASE q = p
        <4>1. running'[q].steps = new.steps /\ running'[q].binary = binary
          BY <1>5, <3>2 DEF new
        <4>2. QED
          BY <1>3, <1>7, <3>1, <4>1 DEF Installs, Uninstalls
      <3>3. CASE q # p
        <4>1. running'[q] = running[q]
          BY <1>5, <3>3
        <4>2. asked \subseteq asked'
          BY <1>7, <2>1, <4>1 DEF Idle
        <4>3. QED
          BY <1>1, <2>1, <3>1, <4>1, <4>2 DEF Commands, Installs, Uninstalls
      <3>4. QED
        BY <3>2, <3>3
    <2>2. QED
      BY <1>5, <1>7, <2>1 DEF Commands
  <1>10. LastOneStarts'
    BY <1>6 DEF LastOneStarts
  <1>11. Winding'
    <2> SUFFICES ASSUME asked' = {"uninstall"}, ~trouble', ~orphaned' PROVE Winding'
      BY DEF Winding
    <2>1. name = "uninstall" /\ Head(running'[p].steps) = "stop"
      BY <1>3, <1>5, <1>7
    <2>2. CASE Idle
      <3>1. (active => TimerFile) /\ \A q \in Processes \ {p} : running'[q] = None
        BY <1>5, <2>2 DEF Begin, Idle
      <3>2. (active => TimerFile)'
        BY <1>2, <3>1 DEF TimerFile, files, manager
      <3>3. QED
        BY <1>6, <2>1, <3>1, <3>2 DEF Winding
    <2>3. CASE ~Idle
      <3>1. asked = {"uninstall"} /\ ~trouble /\ ~orphaned
        BY <1>1, <1>7, <2>1, <2>3 DEF Commands, Begin
      <3>2. active' = active /\ job' = job /\ timer' = timer /\ platform' = platform
        BY <1>2 DEF files, manager
      <3>3. (active => TimerFile)'
        BY <3>1, <3>2 DEF IInv, Winding, TimerFile
      <3>4. ASSUME NEW q \in Processes, running'[q] # None
            PROVE  /\ Head(running'[q].steps) # "stop" => ~active'
                   /\ Head(running'[q].steps) \in {"removeTimer", "forget"} => job' = None
                   /\ Head(running'[q].steps) = "forget" => ~timer'
        <4>1. CASE q = p
          BY <2>1, <4>1
        <4>2. CASE q # p
          BY <1>5, <3>1, <3>2, <3>4, <4>2 DEF IInv, Winding
        <4>3. QED
          BY <4>1, <4>2
      <3>5. QED
        BY <1>6, <3>3, <3>4 DEF Winding
    <2>4. QED
      BY <2>2, <2>3
  <1>12. QED
    BY <1>8, <1>9, <1>10, <1>11 DEF IInv

\* The steps that only an install has, and that set nothing going.
LEMMA WriteIInv ==
  ASSUME IInv, NEW p \in Processes, WriteJob(p) \/ WriteTimer(p) \/ Reload(p)
  PROVE  IInv'
  <1>1. running[p] # None /\ Head(running[p].steps) \in {"writeJob", "writeTimer", "reload"} /\ platform' = platform
    BY AtIs DEF WriteJob, WriteTimer, Reload
  <1>2. Machine /\ Commands
    BY DEF IInv
  <1>3. Installs(p)
    BY <1>1, <1>2, Running, UninstallSteps DEF Uninstalls
  <1>4. orphaned' = orphaned /\ trouble' \in BOOLEAN
    BY <1>2 DEF WriteJob, WriteTimer, Reload, Proceed, Abort, Machine
  <1>5. Machine'
    <2>1. CASE WriteJob(p)
      BY <1>2, <1>3, <1>4, <2>1 DEF WriteJob, Machine, manager, Installs
    <2>2. CASE WriteTimer(p)
      <3>1. platform # "launchd"
        BY <1>2, <1>3, <2>2, AtIs, InstallSteps DEF WriteTimer, Installs
      <3>2. QED
        BY <1>2, <1>4, <2>2, <3>1 DEF WriteTimer, Machine, manager
    <2>3. CASE Reload(p)
      <3>1. platform # "launchd"
        BY <1>2, <1>3, <2>3, AtIs, InstallSteps DEF Reload, Installs
      <3>2. QED
        BY <1>2, <1>4, <2>3, <3>1 DEF Reload, Machine, files
    <2>4. QED
      BY <2>1, <2>2, <2>3
  <1>6. Proceed(p) \/ Abort(p)
    BY DEF WriteJob, WriteTimer, Reload
  <1>7. QED
    BY <1>1, <1>5, <1>6, AbortIInv, InstallStepIInv

\* A start that succeeds leaves everything in place.
LEMMA StartIInv ==
  ASSUME IInv, NEW p \in Processes, Start(p)
  PROVE  IInv'
  <1>1. running[p] # None /\ Head(running[p].steps) = "start" /\ UNCHANGED <<platform, files>>
    BY AtIs DEF Start
  <1>2. Machine
    BY DEF IInv
  <1>3. CASE Started /\ Proceed(p) /\ UNCHANGED trouble
    <2>1. Machine'
      <3>1. platform = "launchd" => active' /\ loaded' # None /\ ~enabled'
        BY <1>3 DEF Started
      <3>2. loaded' = job /\ active' = TRUE /\ enabled' \in BOOLEAN /\ orphaned' = orphaned /\ trouble' = trouble
        BY <1>3 DEF Started, Proceed
      <3>3. QED
        BY <1>1, <1>2, <3>1, <3>2 DEF Machine, files
    <2>2. Served'
      BY <1>1, <1>3 DEF Started, Served, TimerFile, files
    <2>3. QED
      BY <1>1, <1>3, <2>1, <2>2, InstallStepIInv
  <1>4. CASE NotStarted /\ Abort(p)
    <2>1. Machine'
      <3>1. orphaned' = orphaned /\ trouble' = TRUE /\ active' = active
        BY <1>4 DEF NotStarted, Abort
      <3>2. enabled' \in BOOLEAN /\ (platform = "launchd" => ~enabled')
        BY <1>2, <1>4 DEF NotStarted, Machine
      <3>3. loaded' \in Binaries \cup {None} /\ (platform = "launchd" => loaded' = loaded)
        BY <1>2, <1>4 DEF NotStarted, Machine
      <3>4. QED
        BY <1>1, <1>2, <3>1, <3>2, <3>3 DEF Machine, files
    <2>2. QED
      BY <1>1, <1>4, <2>1, AbortIInv
  <1>5. QED
    BY <1>3, <1>4 DEF Start

\* What Winding asks of the command after it did a step.
LEMMA WindingNext ==
  ASSUME IInv, NEW p \in Processes, running[p] # None, Proceed(p), platform' = platform,
         trouble' = FALSE => trouble = FALSE, asked = {"uninstall"}, ~trouble', ~orphaned,
         (active => TimerFile)', active' => active, job' \in {job, None}, timer' => timer,
         Len(running[p].steps) # 1 =>
           /\ Head(Tail(running[p].steps)) # "stop" => ~active'
           /\ Head(Tail(running[p].steps)) \in {"removeTimer", "forget"} => job' = None
           /\ Head(Tail(running[p].steps)) = "forget" => ~timer',
         Len(running[p].steps) = 1 => ~active' /\ job' = None /\ ~timer'
  PROVE  Winding'
  <1>1. Machine /\ Commands /\ Winding /\ ~trouble
    BY DEF IInv, Machine
  <1>2. Commands' /\ asked' = asked /\ orphaned' = orphaned
    BY <1>1, ProceedCommands
  <1>3. /\ \A q \in Processes \ {p} : running'[q] = running[q]
        /\ IF Len(running[p].steps) = 1 THEN running'[p] = None
           ELSE running'[p] # None /\ running'[p].steps = Tail(running[p].steps) /\ ~Idle'
    BY <1>1, ProceedCommands
  <1>4. ASSUME NEW q \in Processes, running'[q] # None
        PROVE  /\ Head(running'[q].steps) # "stop" => ~active'
               /\ Head(running'[q].steps) \in {"removeTimer", "forget"} => job' = None
               /\ Head(running'[q].steps) = "forget" => ~timer'
    <2>1. CASE q = p
      BY <1>3, <1>4, <2>1
    <2>2. CASE q # p
      BY <1>1, <1>3, <1>4, <2>2 DEF Winding
    <2>3. QED
      BY <2>1, <2>2
  <1>5. Idle' => ~active' /\ job' = None /\ ~timer'
    BY <1>3
  <1>6. QED
    BY <1>4, <1>5 DEF Winding

\* A stop, of either command, stops what has a file.
LEMMA StopIInv ==
  ASSUME IInv, NEW p \in Processes, Stop(p)
  PROVE  IInv'
  <1>1. running[p] # None /\ Head(running[p].steps) = "stop" /\ UNCHANGED <<platform, files>> /\ Proceed(p)
    BY AtIs DEF Stop
  <1>2. Machine /\ Commands
    BY DEF IInv
  <1>3. CASE /\ TimerFile
             /\ active' = FALSE /\ enabled' = FALSE
             /\ loaded' = IF platform = "launchd" THEN None ELSE loaded
             /\ UNCHANGED trouble
    <2>1. Machine'
      BY <1>1, <1>2, <1>3 DEF Machine, files, Proceed
    <2>2. Winding'
      <3> SUFFICES ASSUME asked' = {"uninstall"}, ~trouble', ~orphaned' PROVE Winding'
        BY DEF Winding
      <3>1. asked = {"uninstall"} /\ ~orphaned
        BY <1>1 DEF Proceed
      <3>2. Len(running[p].steps) # 1 /\ Head(Tail(running[p].steps)) = "removeJob"
        BY <1>1, <1>2, <3>1, Running, UninstallSteps DEF Uninstalls
      <3>3. QED
        BY <1>1, <1>3, <3>1, <3>2, WindingNext DEF files, TimerFile
    <2>3. QED
      BY <1>1, <2>1, <2>2, UninstallStepIInv
  <1>4. CASE ~TimerFile /\ UNCHANGED <<manager, trouble>>
    <2>1. Machine'
      BY <1>1, <1>2, <1>4 DEF Machine, files, manager, Proceed
    <2>2. Winding'
      <3> SUFFICES ASSUME asked' = {"uninstall"}, ~trouble', ~orphaned' PROVE Winding'
        BY DEF Winding
      <3>1. asked = {"uninstall"} /\ ~orphaned /\ ~trouble
        BY <1>1, <1>4 DEF Proceed
      <3>2. Len(running[p].steps) # 1 /\ Head(Tail(running[p].steps)) = "removeJob"
        BY <1>1, <1>2, <3>1, Running, UninstallSteps DEF Uninstalls
      <3>3. ~active /\ active' = active
        BY <1>4, <3>1 DEF IInv, Winding, manager
      <3>4. QED
        BY <1>1, <1>4, <3>1, <3>2, <3>3, WindingNext DEF files
    <2>3. QED
      BY <1>1, <2>1, <2>2, UninstallStepIInv
  <1>5. CASE /\ TimerFile /\ (active \/ enabled)
             /\ enabled' \in {enabled, FALSE} /\ UNCHANGED <<loaded, active>>
             /\ trouble' = TRUE
    <2>1. Machine'
      <3>1. enabled' \in BOOLEAN /\ (platform = "launchd" => ~enabled') /\ trouble' \in BOOLEAN
        <4>1. enabled \in BOOLEAN /\ (platform = "launchd" => ~enabled)
          BY <1>2 DEF Machine
        <4>2. enabled' = enabled \/ enabled' = FALSE
          BY <1>5
        <4>3. CASE enabled' = enabled
          BY <1>5, <4>1, <4>3
        <4>4. CASE enabled' = FALSE
          BY <1>5, <4>4
        <4>5. QED
          BY <4>2, <4>3, <4>4
      <3>2. orphaned' = orphaned
        BY <1>1 DEF Proceed
      <3>3. QED
        BY <1>1, <1>2, <1>5, <3>1, <3>2 DEF Machine, files
    <2>2. Winding'
      BY <1>5 DEF Winding
    <2>3. QED
      BY <1>1, <2>1, <2>2, UninstallStepIInv
  <1>6. QED
    BY <1>3, <1>4, <1>5 DEF Stop

\* The steps that only an uninstall has.
LEMMA RemoveIInv ==
  ASSUME IInv, NEW p \in Processes, RemoveJob(p) \/ RemoveTimer(p) \/ Forget(p)
  PROVE  IInv'
  <1>1. running[p] # None /\ Head(running[p].steps) \in {"removeJob", "removeTimer", "forget"}
        /\ platform' = platform /\ active' = active /\ enabled' = enabled
    BY AtIs DEF RemoveJob, RemoveTimer, Forget, manager
  <1>2. Machine /\ Commands
    BY DEF IInv
  <1>3. Uninstalls(p)
    BY <1>1, <1>2, Running, InstallSteps DEF Installs
  <1>4. orphaned' = orphaned /\ trouble' \in BOOLEAN
    BY <1>2 DEF RemoveJob, RemoveTimer, Forget, Proceed, Abort, Machine
  <1>5. Machine'
    <2>1. CASE RemoveJob(p)
      <3>1. job' \in Binaries \cup {None} /\ loaded' = loaded /\ timer' = timer
        BY <1>2, <2>1 DEF RemoveJob, Machine, manager
      <3>2. QED
        BY <1>1, <1>2, <1>4, <3>1 DEF Machine
    <2>2. CASE RemoveTimer(p)
      <3>1. timer' \in BOOLEAN /\ (~timer => ~timer') /\ loaded' = loaded /\ job' = job
        <4>1. timer \in BOOLEAN
          BY <1>2 DEF Machine
        <4>2. (timer' = FALSE \/ timer' = timer) /\ loaded' = loaded /\ job' = job
          BY <2>2 DEF RemoveTimer, manager
        <4>3. CASE timer' = timer
          BY <4>1, <4>2, <4>3
        <4>4. CASE timer' = FALSE
          BY <4>2, <4>4
        <4>5. QED
          BY <4>2, <4>3, <4>4
      <3>2. QED
        BY <1>1, <1>2, <1>4, <3>1 DEF Machine
    <2>3. CASE Forget(p)
      <3>1. platform # "launchd"
        BY <1>2, <1>3, <2>3, AtIs, UninstallSteps DEF Forget, Uninstalls
      <3>2. loaded' \in Binaries \cup {None} /\ job' = job /\ timer' = timer
        BY <1>2, <2>3 DEF Forget, Machine, files
      <3>3. QED
        BY <1>1, <1>2, <1>4, <3>1, <3>2 DEF Machine
    <2>4. QED
      BY <2>1, <2>2, <2>3
  <1>6. ASSUME Proceed(p), trouble' = trouble,
               \/ job' = None /\ timer' = timer /\ Head(running[p].steps) = "removeJob"
               \/ timer' = FALSE /\ job' = job /\ Head(running[p].steps) = "removeTimer"
               \/ timer' = timer /\ job' = job /\ Head(running[p].steps) = "forget"
        PROVE  Winding'
    <2> SUFFICES ASSUME asked' = {"uninstall"}, ~trouble', ~orphaned' PROVE Winding'
      BY DEF Winding
    <2>1. asked = {"uninstall"} /\ ~orphaned /\ ~trouble
      BY <1>4, <1>6 DEF Proceed
    <2>2. /\ ~active
          /\ Head(running[p].steps) \in {"removeTimer", "forget"} => job = None
          /\ Head(running[p].steps) = "forget" => ~timer
      BY <1>1, <2>1 DEF IInv, Winding
    <2>3. /\ Head(running[p].steps) = "removeJob" => IF platform = "launchd" THEN Len(running[p].steps) = 1
                ELSE Len(running[p].steps) # 1 /\ Head(Tail(running[p].steps)) = "removeTimer"
          /\ Head(running[p].steps) = "removeTimer" =>
                Len(running[p].steps) # 1 /\ Head(Tail(running[p].steps)) = "forget"
          /\ Head(running[p].steps) = "forget" => Len(running[p].steps) = 1
      BY <1>2, <1>3, UninstallSteps DEF Uninstalls
    <2>4. platform = "launchd" => ~timer
      BY <1>2 DEF Machine
    <2>5. QED
      <3>1. ~active' /\ (active => TimerFile)'
        BY <1>1, <2>2
      <3>2. job' \in {job, None} /\ (timer' => timer) /\ trouble' = trouble
        BY <1>6
      <3>3. Len(running[p].steps) # 1 =>
              /\ Head(Tail(running[p].steps)) # "stop" => ~active'
              /\ Head(Tail(running[p].steps)) \in {"removeTimer", "forget"} => job' = None
              /\ Head(Tail(running[p].steps)) = "forget" => ~timer'
        BY <1>1, <1>6, <2>2, <2>3, <3>1
      <3>4. Len(running[p].steps) = 1 => ~active' /\ job' = None /\ ~timer'
        BY <1>1, <1>2, <1>6, <2>2, <2>3, <2>4, <3>1 DEF Machine
      <3>5. QED
        BY <1>1, <1>6, <2>1, <3>1, <3>2, <3>3, <3>4, WindingNext
  <1>7. CASE Abort(p)
    BY <1>1, <1>5, <1>7, AbortIInv
  <1>8. CASE Proceed(p) /\ trouble' = trouble /\
               (\/ job' = None /\ timer' = timer /\ Head(running[p].steps) = "removeJob"
                \/ timer' = FALSE /\ job' = job /\ Head(running[p].steps) = "removeTimer"
                \/ timer' = timer /\ job' = job /\ Head(running[p].steps) = "forget")
    BY <1>1, <1>5, <1>6, <1>8, UninstallStepIInv
  <1>9. QED
    BY <1>7, <1>8, AtIs DEF RemoveJob, RemoveTimer, Forget, files

\* The machine reboots: commands are gone, the manager loads the files it finds.
LEMMA RebootIInv ==
  ASSUME IInv, Reboot
  PROVE  IInv'
  <1>1. Machine /\ Commands
    BY DEF IInv
  <1>2. running' = [p \in Processes |-> None] /\ Idle' /\ UNCHANGED <<platform, files, enabled, asked, orphaned>>
    BY DEF Reboot, Idle
  <1>3. Machine'
    <2>1. trouble' \in BOOLEAN /\ active' \in BOOLEAN
      BY DEF Reboot
    <2>2. loaded' \in Binaries \cup {None} /\ (platform = "launchd" => (active' <=> loaded' # None))
      BY <1>1 DEF Reboot, AfterReboot, Machine
    <2>3. QED
      BY <1>1, <1>2, <2>1, <2>2 DEF Machine, files
  <1>4. Commands'
    BY <1>1, <1>2 DEF Commands
  <1>5. LastOneStarts'
    <2> SUFFICES ASSUME asked' = {"install"}, ~trouble' PROVE Served'
      BY DEF LastOneStarts
    <2>1. Idle /\ ~trouble /\ asked = {"install"}
      BY <1>2 DEF Reboot
    <2>2. Served
      BY <2>1 DEF IInv, LastOneStarts
    <2>3. AfterReboot = job /\ job # None
      BY <1>1, <2>2 DEF AfterReboot, Served, Machine
    <2>4. active' = TRUE /\ loaded' = job
      BY <2>3 DEF Reboot
    <2>5. QED
      BY <1>2, <2>2, <2>4 DEF Served, files
  <1>6. Winding'
    <2> SUFFICES ASSUME asked' = {"uninstall"}, ~trouble', ~orphaned' PROVE Winding'
      BY DEF Winding
    <2>1. Idle /\ ~trouble /\ asked = {"uninstall"} /\ ~orphaned
      <3>1. asked = {"uninstall"} /\ ~orphaned
        BY <1>2
      <3>2. trouble' = (trouble \/ ~Idle)
        BY DEF Reboot
      <3>3. QED
        BY <3>1, <3>2
    <2>2. job = None /\ ~timer
      BY <2>1 DEF IInv, Winding
    <2>3. ~active'
      BY <2>2 DEF Reboot, AfterReboot
    <2>4. QED
      BY <1>2, <2>2, <2>3 DEF Winding, files
  <1>7. QED
    BY <1>3, <1>4, <1>5, <1>6 DEF IInv

\* A command is killed, or ends in an error no rule of its own covers.
LEMMA KilledIInv ==
  ASSUME IInv, NEW p \in Processes, Killed(p)
  PROVE  IInv'
  <1>1. Machine'
    BY DEF IInv, Machine, Killed, Abort, files, manager
  <1>2. QED
    BY <1>1, AbortIInv DEF Killed

\* Nothing is installed and nobody is at work.
LEMMA InitIInv == Init => IInv
  <1> SUFFICES ASSUME Init PROVE IInv
    OBVIOUS
  <1>1. Machine /\ Idle /\ asked = {}
    BY DEF Init, Machine, Idle
  <1>2. Commands
    BY <1>1 DEF Init, Commands
  <1>3. QED
    BY <1>1, <1>2 DEF IInv, LastOneStarts, Winding

\* Nothing happens.
LEMMA StutterIInv == IInv /\ UNCHANGED vars => IInv'
  BY DEF IInv, Machine, Commands, LastOneStarts, Winding, Served, Idle, TimerFile, Installs, Uninstalls,
         InstallRest, UninstallRest, vars, files, manager, ghosts

\* The invariant is inductive: one lemma above per step of a command.
LEMMA NextIInv == IInv /\ [Next]_vars => IInv'
  <1> SUFFICES ASSUME IInv, [Next]_vars PROVE IInv'
    OBVIOUS
  <1>1. ASSUME NEW p \in Processes, Step(p)
        PROVE  IInv'
    <2>1. CASE \E binary \in Binaries : Begin(p, "install", binary)
      BY <2>1, BeginIInv
    <2>2. CASE Begin(p, "uninstall", None)
      BY <2>2, BeginIInv
    <2>3. QED
      BY <1>1, <2>1, <2>2, WriteIInv, RemoveIInv, StopIInv, StartIInv, KilledIInv DEF Step
  <1>2. QED
    BY <1>1, RebootIInv, StutterIInv DEF Next
-----------------------------------------------------------------------------
(* The theorems.                                                           *)

\* Every install that runs still has its start to make, and an uninstall stops
\* the timer before it removes what the stop needs: the inductive invariant.
THEOREM Inductive == Spec => []IInv
  BY InitIInv, NextIInv, PTL DEF Spec

\* The type invariant: each platform is driven with its own commands and files.
THEOREM TypeCorrect == Spec => []TypeOK
  <1>1. IInv => TypeOK
    BY InvTypeOK DEF IInv
  <1>2. QED
    BY <1>1, Inductive, PTL

\* Installs that reported success leave a timer that runs the binary of the unit
\* file, now and after a reboot: however they overlapped, and whatever earlier
\* commands left behind.
THEOREM SuccessfulInstallsRun == Spec => []InstalledRuns
  <1>1. IInv => InstalledRuns
    BY DEF IInv, LastOneStarts, Served, InstalledRuns, Collects, AfterReboot, Machine
  <1>2. QED
    BY <1>1, Inductive, PTL

\* Uninstalls that reported success leave no file and nothing that runs, unless
\* the stop failed or the file of a running timer had been lost before.
THEOREM SuccessfulUninstallsStop == Spec => []UninstalledStops
  <1>1. IInv => UninstalledStops
    BY DEF IInv, Winding, UninstalledStops, Collects, AfterReboot
  <1>2. QED
    BY <1>1, Inductive, PTL
=============================================================================
