---------------------------- MODULE CaddyManager ----------------------------
(***************************************************************************)
(* The dedicated Caddy of tailpreview (internal/caddy/manager.go): Apply   *)
(* and Stop call by call, with the processes `caddy run' starts, the admin *)
(* socket they listen on, caddy.json and caddy.json.candidate.             *)
(*                                                                         *)
(* One caller at a time: every Apply runs under the registry lock.  A      *)
(* configuration is a model value; Nothing is the empty set of previews.   *)
(* A Caddy process reads its configuration file while it boots, and        *)
(* replaces whatever is at the socket path when it binds.                  *)
(***************************************************************************)

CONSTANTS
  Configs,     \* the configurations Generate can produce
  Nothing,
  Partial,     \* a candidate of which only a part was written
  Procs,       \* slots for Caddy processes
  NoProc,
  FaultKinds

\* lost: an answer lost after Caddy acted; disk: caddy.json not written, or
\* its candidate in part;
\* crash: the caller dies; late: a start given up while Caddy still boots;
\* slow: the socket does not accept within the 200 ms of running().
AllFaults == {"lost", "disk", "crash", "late", "slow"}

ASSUME CaddyAssumption ==
  /\ Nothing \notin Configs /\ Partial \notin Configs \cup {Nothing}
  /\ NoProc \notin Procs
  /\ FaultKinds \subseteq AllFaults

VARIABLES
  caddy,      \* per slot, the state of the process and its configuration
  sock,       \* the process that bound the socket path, dead or alive
  file,       \* the content of caddy.json
  candidate,  \* the content of caddy.json.candidate
  pc,         \* the next step of the call in progress
  want,       \* its configuration
  answer,     \* the result of the last call
  died,       \* a Caddy process died since the call began
  struck      \* the kinds of fault injected so far

vars == <<caddy, sock, file, candidate, pc, want, answer, died, struck>>
MaybeConfigs == Configs \cup {Nothing}
Off == [st |-> "off", cfg |-> Nothing]
-----------------------------------------------------------------------------
Init ==
  /\ caddy = [p \in Procs |-> Off]
  /\ sock = NoProc
  /\ file = Nothing /\ candidate = Nothing
  /\ pc = "idle" /\ want = Nothing /\ answer = "none"
  /\ died = FALSE /\ struck = {}

Strike(kind) == kind \in FaultKinds /\ struck' = struck \cup {kind}

\* A second Caddy may be alive: one was given up while it booted, or a running
\* one was taken for dead.
Strayed == struck \cap {"late", "slow"} # {}

Reachable == sock # NoProc /\ caddy[sock].st = "up"
Serving == IF Reachable THEN caddy[sock].cfg ELSE Nothing
Booting == \E p \in Procs : caddy[p].st \in {"boot", "read"}

\* running(): whether a connection to the socket is accepted in time.
Dial(accepted) ==
  \/ accepted = Reachable /\ UNCHANGED struck
  \/ ~accepted /\ Reachable /\ Strike("slow")

Goto(label) == pc' = label /\ UNCHANGED <<want, answer>>

\* The call returns; once deferred, Remove deletes the candidate.
Answer(result) == pc' = "idle" /\ answer' = result /\ want' = Nothing
ReturnKeepsCandidate(result) == Answer(result) /\ UNCHANGED candidate
Return(result) == Answer(result) /\ candidate' = Nothing
-----------------------------------------------------------------------------
(* Apply                                                                   *)

Call(c) ==
  /\ pc = "idle"
  /\ pc' = IF c = Nothing THEN "stop" ELSE "write"
  /\ want' = c /\ answer' = "none" /\ died' = FALSE
  /\ UNCHANGED <<caddy, sock, file, candidate, struck>>

\* os.WriteFile empties the file before it writes; when it fails, the Remove
\* is not deferred yet.
WriteCandidate ==
  /\ pc = "write"
  /\ \/ candidate' = want /\ Goto("validate") /\ UNCHANGED struck
     \/ ReturnKeepsCandidate("err") /\ UNCHANGED struck
     \/ candidate' = Partial /\ Answer("err") /\ Strike("disk")
  /\ UNCHANGED <<caddy, sock, file, died>>

Validate ==
  /\ pc = "validate"
  /\ (Goto("compare") /\ UNCHANGED candidate) \/ Return("err")
  /\ UNCHANGED <<caddy, sock, file, died, struck>>

\* Identical Caddy state is not reloaded.
CompareOnlyFile ==
  /\ pc = "compare"
  /\ IF file = want THEN Return("ok") ELSE Goto("probe") /\ UNCHANGED candidate
  /\ UNCHANGED <<caddy, sock, file, died, struck>>
Compare ==
  /\ pc = "compare"
  /\ \/ file # want /\ Goto("probe") /\ UNCHANGED <<candidate, struck>>
     \/ file = want /\ Dial(FALSE) /\ Goto("probe") /\ UNCHANGED candidate
     \/ file = want /\ Dial(TRUE) /\ Return("ok")
  /\ UNCHANGED <<caddy, sock, file, died>>

ProbeAlwaysStarts ==
  /\ pc = "probe" /\ Goto("start")
  /\ UNCHANGED <<caddy, sock, file, candidate, died, struck>>
Probe ==
  /\ pc = "probe"
  /\ \E accepted \in BOOLEAN :
       Dial(accepted) /\ Goto(IF accepted THEN "load" ELSE "start")
  /\ UNCHANGED <<caddy, sock, file, candidate, died>>

\* caddy.json written ahead of the answer to /load.
LoadRecordsFirst ==
  /\ pc = "load" /\ file' = want
  /\ \/ /\ Reachable /\ caddy' = [caddy EXCEPT ![sock].cfg = want]
        /\ Goto("loaded") /\ UNCHANGED candidate
     \/ Return("err") /\ UNCHANGED caddy
  /\ UNCHANGED <<sock, died, struck>>
\* POST /load, which Caddy rejects or takes as a whole.
Load ==
  /\ pc = "load"
  /\ \/ /\ Reachable /\ caddy' = [caddy EXCEPT ![sock].cfg = want]
        /\ Goto("loaded") /\ UNCHANGED candidate
     \/ Return("err") /\ UNCHANGED caddy
  /\ UNCHANGED <<sock, file, died, struck>>

LoadAnswered ==
  /\ pc = "loaded"
  /\ \/ Goto("record") /\ UNCHANGED <<candidate, struck>>
     \/ Strike("lost") /\ Return("err")
  /\ UNCHANGED <<caddy, sock, file, died>>

\* The socket path is removed whether or not the new process can be started.
Start ==
  /\ pc = "start" /\ sock' = NoProc
  /\ \/ \E p \in Procs :
          /\ caddy[p].st = "off"
          /\ caddy' = [caddy EXCEPT ![p] = [st |-> "boot", cfg |-> Nothing]]
          /\ Goto("poll") /\ UNCHANGED candidate
     \/ UNCHANGED caddy /\ Return("err")
  /\ UNCHANGED <<file, died, struck>>

\* Up to 5 s of running(), unless the process is gone or the call cancelled.
Poll ==
  /\ pc = "poll"
  /\ \/ Reachable /\ Goto("record") /\ UNCHANGED <<candidate, struck>>
     \/ ~Reachable /\ ~Booting /\ Return("err") /\ UNCHANGED struck
     \/ ~Reachable /\ Booting /\ Strike("late") /\ Return("err")
  /\ UNCHANGED <<caddy, sock, file, died>>

\* atomicWrite of caddy.json.
Record ==
  /\ pc = "record"
  /\ \/ file' = want /\ Return("ok") /\ UNCHANGED struck
     \/ UNCHANGED file /\ Strike("disk") /\ Return("err")
  /\ UNCHANGED <<caddy, sock, died>>
-----------------------------------------------------------------------------
(* Stop                                                                    *)

Stop ==
  /\ pc = "stop"
  /\ \/ Dial(FALSE) /\ pc' = "idle" /\ answer' = "ok" /\ UNCHANGED want
     \/ Dial(TRUE) /\ Goto("quit")
  /\ UNCHANGED <<caddy, sock, file, candidate, died>>

\* POST /stop.
Quit ==
  /\ pc = "quit"
  /\ \/ Reachable /\ caddy' = [caddy EXCEPT ![sock] = Off] /\ Goto("unlink")
     \/ pc' = "idle" /\ answer' = "err" /\ UNCHANGED <<caddy, want>>
  /\ UNCHANGED <<sock, file, candidate, died, struck>>

Unlink ==
  /\ pc = "unlink" /\ pc' = "idle"
  /\ \/ sock' = NoProc /\ answer' = "ok" /\ UNCHANGED struck
     \/ Strike("lost") /\ answer' = "err" /\ UNCHANGED sock
  /\ UNCHANGED <<caddy, file, candidate, want, died>>
-----------------------------------------------------------------------------
(* The processes.                                                          *)

\* A booting Caddy reads the candidate; it exits when there is no whole one.
ReadConfig(p) ==
  /\ caddy[p].st = "boot"
  /\ caddy' = [caddy EXCEPT ![p] = IF candidate \in Configs
                                   THEN [st |-> "read", cfg |-> candidate] ELSE Off]
  /\ UNCHANGED <<sock, file, candidate, pc, want, answer, died, struck>>

Bind(p) ==
  /\ caddy[p].st = "read"
  /\ caddy' = [caddy EXCEPT ![p].st = "up"]
  /\ sock' = p
  /\ UNCHANGED <<file, candidate, pc, want, answer, died, struck>>

\* A Caddy process exits by itself, is killed, or goes with a reboot.
Dies(p) ==
  /\ caddy[p].st # "off"
  /\ caddy' = [caddy EXCEPT ![p] = Off] /\ died' = TRUE
  /\ UNCHANGED <<sock, file, candidate, pc, want, answer, struck>>

\* The calling tailpreview process dies, as it writes the candidate or at any
\* other point: no deferred call runs.
Crash ==
  /\ pc # "idle"
  /\ \/ ~Booting /\ Strike("crash")
     \/ Booting /\ "crash" \in FaultKinds /\ Strike("late")
  /\ Answer("none")
  /\ \/ UNCHANGED candidate
     \/ pc = "write" /\ candidate' = Partial
  /\ UNCHANGED <<caddy, sock, file, died>>

Next ==
  \/ \E c \in MaybeConfigs : Call(c)
  \/ WriteCandidate \/ Validate \/ Compare \/ Probe \/ Load \/ LoadAnswered
  \/ Start \/ Poll \/ Record
  \/ Stop \/ Quit \/ Unlink
  \/ \E p \in Procs : ReadConfig(p) \/ Bind(p) \/ Dies(p)
  \/ Crash

Spec == Init /\ [][Next]_vars
-----------------------------------------------------------------------------
(* Properties.                                                             *)

TypeOK ==
  /\ caddy \in [Procs -> [st : {"off", "boot", "read", "up"}, cfg : MaybeConfigs]]
  /\ \A p \in Procs : caddy[p].cfg = Nothing <=> caddy[p].st \in {"off", "boot"}
  /\ sock \in Procs \cup {NoProc}
  /\ {file, want} \subseteq MaybeConfigs /\ candidate \in MaybeConfigs \cup {Partial}
  /\ pc \in {"idle", "write", "validate", "compare", "probe", "load", "loaded", "start",
             "poll", "record", "stop", "quit", "unlink"}
  /\ pc \in {"idle", "stop", "quit", "unlink"} <=> want = Nothing
  /\ answer \in {"none", "ok", "err"}
  /\ died \in BOOLEAN /\ struck \subseteq FaultKinds
  \* only a call that crashed, or failed to write it, leaves a candidate behind,
  \* and no later call takes that one for its own
  /\ IF pc \in {"idle", "write", "stop", "quit", "unlink"}
     THEN candidate = Nothing \/ struck \cap {"crash", "late", "disk"} # {}
     ELSE candidate = want

\* An Apply that reports success leaves Caddy serving its configuration, and
\* a Stop leaves no Caddy: unless Caddy died meanwhile, or the answer rests on
\* the comparison with a caddy.json that an earlier fault put out of step, or
\* a second Caddy may be alive.
OkIsServed ==
  [][pc # "idle" /\ pc' = "idle" /\ answer' = "ok" =>
       \/ died \/ Strayed' \/ Serving' = want
       \/ struck # {} /\ file = want]_vars

\* As long as every start is waited for and every probe answered, there is
\* never a Caddy process that the admin socket does not lead to,
\* still listening on the gateway ports, beside another one.
OneCaddy ==
  ~Strayed =>
    /\ \A p, q \in Procs : caddy[p].st # "off" /\ caddy[q].st # "off" => p = q
    /\ \A p \in Procs : caddy[p].st = "up" => sock = p

\* Apply keeps the promise the commands rely on (Gateway): Caddy only ever
\* runs what a pending call asked for, caddy.json changes only when a call
\* succeeds, and a skipped load rests on a Caddy that runs.
Promise == INSTANCE Gateway WITH
  loaded <- Serving, strayed <- Strayed,
  answer <- IF pc = "idle" THEN answer ELSE "pending"
KeepsPromise == Promise!Spec
=============================================================================
