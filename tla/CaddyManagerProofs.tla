------------------------- MODULE CaddyManagerProofs -------------------------
(***************************************************************************)
(* Theorems about CaddyManager, for any configurations, process slots and  *)
(* fault kinds.                                                            *)
(*                                                                         *)
(* The argument: until a Caddy is given up while it boots or taken for     *)
(* dead (Strayed), the call in progress knows every Caddy process: one     *)
(* that boots is the one it polls for, and when it starts another one or   *)
(* has stopped the last one, there is none (Watched).  What is loaded is   *)
(* then what the call asked for, or what caddy.json says (InHand, Told).   *)
(***************************************************************************)
EXTENDS CaddyManager, TLAPS

USE CaddyAssumption
-----------------------------------------------------------------------------
(* The inductive invariant.                                                *)

States == [st : {"off", "boot", "read", "up"}, cfg : MaybeConfigs]
Labels == {"idle", "write", "validate", "compare", "probe", "load", "loaded", "start",
           "poll", "record", "stop", "quit", "unlink"}

\* TypeOK without what it says of the candidate, in the provers' terms.
Types ==
  /\ caddy \in [Procs -> States]
  /\ \A p \in Procs : caddy[p].cfg = Nothing <=> caddy[p].st \in {"off", "boot"}
  /\ sock \in Procs \cup {NoProc}
  /\ file \in MaybeConfigs /\ want \in MaybeConfigs
  /\ candidate \in MaybeConfigs \cup {Partial}
  /\ pc \in Labels
  /\ pc \in {"idle", "stop", "quit", "unlink"} <=> want = Nothing
  /\ answer \in {"none", "ok", "err"}
  /\ died \in BOOLEAN /\ struck \in SUBSET FaultKinds

CandidateKept ==
  pc \in {"idle", "write", "stop", "quit", "unlink"} =>
    candidate = Nothing \/ struck \cap {"crash", "late", "disk"} # {}

\* The candidate of a call that wrote one is its own.
CandidateIsWanted ==
  pc \notin {"idle", "write", "stop", "quit", "unlink"} => candidate = want

AllOff == \A p \in Procs : caddy[p].st = "off"
OneOn == \A p, q \in Procs : caddy[p].st # "off" /\ caddy[q].st # "off" => p = q

\* Every process is known to the call, or to the socket.
Watched ==
  ~Strayed =>
    /\ OneOn
    /\ \A p \in Procs : caddy[p].st = "up" => sock = p
    /\ \A p \in Procs : caddy[p].st \in {"boot", "read"} => pc = "poll"
    /\ pc \in {"start", "unlink"} => AllOff

\* What the processes run while a call is at the point of changing it.
InHand ==
  ~Strayed =>
    /\ pc = "probe" /\ file = want => ~Reachable
    /\ pc = "load" => file # want
    /\ pc = "poll" => \A p \in Procs : caddy[p].st \in {"read", "up"} => caddy[p].cfg = want
    /\ pc \in {"loaded", "record"} => \/ Serving = want
                                      \/ died /\ Serving = Nothing

\* Without a fault, what is loaded is what caddy.json says, or is about to.
Told ==
  struck = {} => pc \in {"loaded", "poll", "record"} \/ Serving \in {file, Nothing}

IInv == Types /\ CandidateKept /\ CandidateIsWanted /\ Watched /\ InHand /\ Told
-----------------------------------------------------------------------------
\* The state of one process may change without disturbing the others.
LEMMA ProcessType ==
  ASSUME Types, NEW p \in Procs, NEW s \in States,
         s.cfg = Nothing <=> s.st \in {"off", "boot"},
         caddy' = [caddy EXCEPT ![p] = s]
  PROVE  /\ caddy' \in [Procs -> States]
         /\ \A q \in Procs : caddy'[q].cfg = Nothing <=> caddy'[q].st \in {"off", "boot"}
         /\ caddy'[p] = s /\ \A q \in Procs : q # p => caddy'[q] = caddy[q]
  BY DEF Types

\* A process that is off or boots has no configuration.
LEMMA StateFacts ==
  /\ Off \in States /\ Off.st = "off" /\ Off.cfg = Nothing
  /\ LET boot == [st |-> "boot", cfg |-> Nothing]
     IN  boot \in States /\ boot.st = "boot" /\ boot.cfg = Nothing
  /\ \A c \in Configs : LET read == [st |-> "read", cfg |-> c]
                         IN  read \in States /\ read.st = "read" /\ read.cfg = c
  BY DEF Off, States, MaybeConfigs

\* Init starts the invariant.
LEMMA InitIInv == Init => IInv
  <1> SUFFICES ASSUME Init PROVE IInv
    OBVIOUS
  <1>1. Types /\ CandidateKept /\ CandidateIsWanted
    BY StateFacts DEF Init, Types, Labels, MaybeConfigs, CandidateKept, CandidateIsWanted
  <1>2. AllOff /\ ~Reachable
    BY StateFacts DEF Init, AllOff, Reachable
  <1>3. QED
    BY <1>1, <1>2 DEF Init, IInv, Watched, AllOff, OneOn, InHand, Told, Serving

\* POST /load and /stop act on the process behind the socket.
LEMMA LoadFacts ==
  ASSUME Types, Reachable, NEW c \in Configs, caddy' = [caddy EXCEPT ![sock].cfg = c]
  PROVE  /\ sock \in Procs
         /\ caddy' \in [Procs -> States]
         /\ \A q \in Procs : caddy'[q].cfg = Nothing <=> caddy'[q].st \in {"off", "boot"}
         /\ caddy'[sock].cfg = c
         /\ \A q \in Procs : caddy'[q].st = caddy[q].st /\ (q # sock => caddy'[q] = caddy[q])
  <1>1. sock \in Procs
    BY DEF Reachable, Types
  <1> DEFINE s == [caddy[sock] EXCEPT !.cfg = c]
  <1>2. s \in States /\ s.st = "up" /\ s.cfg = c /\ caddy[sock].st = "up"
    BY <1>1 DEF Types, States, MaybeConfigs, Reachable
  <1>3. caddy' = [caddy EXCEPT ![sock] = s]
    OBVIOUS
  <1> HIDE DEF s
  <1>4. QED
    BY <1>1, <1>2, <1>3, ProcessType
-----------------------------------------------------------------------------
(* The types, and the candidate.                                           *)

Files == Types /\ CandidateKept /\ CandidateIsWanted

\* Types, and what caddy.json and the candidate hold, survive every step.
LEMMA FilesNext == Files /\ [Next]_vars => Files'
  <1> SUFFICES ASSUME Files, [Next]_vars PROVE Files'
    OBVIOUS
  <1> USE DEF Files, Goto, Answer, Return, ReturnKeepsCandidate, Strike, Dial
  <1>1. ASSUME NEW c \in MaybeConfigs, Call(c) PROVE Files'
    BY <1>1 DEF Call, Types, Labels, MaybeConfigs, CandidateKept, CandidateIsWanted
  <1>2. ASSUME WriteCandidate \/ Validate PROVE Files'
    BY <1>2 DEF WriteCandidate, Validate, Types, Labels, MaybeConfigs, CandidateKept, CandidateIsWanted
  <1>3. ASSUME Compare \/ Probe PROVE Files'
    BY <1>3 DEF Compare, Probe, Types, Labels, MaybeConfigs, CandidateKept, CandidateIsWanted
  <1>4. ASSUME Load PROVE Files'
    <2>1. CASE /\ Reachable /\ caddy' = [caddy EXCEPT ![sock].cfg = want]
               /\ Goto("loaded") /\ UNCHANGED candidate
      <3>1. want \in Configs
        BY <1>4 DEF Load, Types, MaybeConfigs
      <3>2. caddy' \in [Procs -> States]
              /\ \A q \in Procs : caddy'[q].cfg = Nothing <=> caddy'[q].st \in {"off", "boot"}
        BY <2>1, <3>1, LoadFacts
      <3>3. QED
        BY <1>4, <2>1, <3>2 DEF Load, Types, Labels, CandidateKept, CandidateIsWanted
    <2>2. CASE Return("err") /\ UNCHANGED caddy
      BY <1>4, <2>2 DEF Load, Types, Labels, MaybeConfigs, CandidateKept, CandidateIsWanted
    <2>3. QED
      BY <1>4, <2>1, <2>2 DEF Load
  <1>5. ASSUME LoadAnswered PROVE Files'
    BY <1>5 DEF LoadAnswered, Types, Labels, MaybeConfigs, CandidateKept, CandidateIsWanted
  <1>6. ASSUME Start PROVE Files'
    <2>1. ASSUME NEW p \in Procs, caddy' = [caddy EXCEPT ![p] = [st |-> "boot", cfg |-> Nothing]],
                 Goto("poll"), UNCHANGED candidate
          PROVE  Files'
      <3>1. caddy' \in [Procs -> States]
              /\ \A q \in Procs : caddy'[q].cfg = Nothing <=> caddy'[q].st \in {"off", "boot"}
        BY <2>1, StateFacts, ProcessType
      <3>2. QED
        BY <1>6, <2>1, <3>1 DEF Start, Types, Labels, CandidateKept, CandidateIsWanted
    <2>2. CASE UNCHANGED caddy /\ Return("err")
      BY <1>6, <2>2 DEF Start, Types, Labels, MaybeConfigs, CandidateKept, CandidateIsWanted
    <2>3. QED
      BY <1>6, <2>1, <2>2 DEF Start
  <1>7. ASSUME Poll \/ Record PROVE Files'
    BY <1>7 DEF Poll, Record, Types, Labels, MaybeConfigs, CandidateKept, CandidateIsWanted
  <1>8. ASSUME Stop \/ Unlink PROVE Files'
    BY <1>8 DEF Stop, Unlink, Types, Labels, MaybeConfigs, CandidateKept, CandidateIsWanted
  <1>9. ASSUME NEW p \in Procs, NEW s \in States, s.cfg = Nothing <=> s.st \in {"off", "boot"},
               caddy' = [caddy EXCEPT ![p] = s], sock' \in Procs \cup {NoProc}, died' \in BOOLEAN,
               UNCHANGED <<file, candidate, pc, want, answer, struck>>
        PROVE  Files'
    BY <1>9, ProcessType DEF Types, CandidateKept, CandidateIsWanted
  <1>10. ASSUME Quit PROVE Files'
    <2>1. CASE Reachable /\ caddy' = [caddy EXCEPT ![sock] = Off] /\ Goto("unlink")
      <3>1. sock \in Procs
        BY <2>1 DEF Reachable, Types
      <3>2. caddy' \in [Procs -> States]
              /\ \A q \in Procs : caddy'[q].cfg = Nothing <=> caddy'[q].st \in {"off", "boot"}
        BY <2>1, <3>1, StateFacts, ProcessType
      <3>3. QED
        BY <1>10, <2>1, <3>2 DEF Quit, Types, Labels, CandidateKept, CandidateIsWanted
    <2>2. CASE pc' = "idle" /\ answer' = "err" /\ UNCHANGED <<caddy, want>>
      BY <1>10, <2>2 DEF Quit, Types, Labels, CandidateKept, CandidateIsWanted
    <2>3. QED
      BY <1>10, <2>1, <2>2 DEF Quit
  <1>11. ASSUME NEW p \in Procs, ReadConfig(p) PROVE Files'
    <2>1. Off \in States \/ candidate \in Configs
      BY StateFacts
    <2>2. QED
      BY <1>9, <1>11, <2>1, StateFacts DEF ReadConfig, Types
  <1>12. ASSUME NEW p \in Procs, Bind(p) PROVE Files'
    <2> DEFINE s == [caddy[p] EXCEPT !.st = "up"]
    <2>1. s \in States /\ s.st = "up" /\ s.cfg = caddy[p].cfg
      BY DEF Types, States
    <2>2. s.cfg # Nothing
      BY <1>12, <2>1 DEF Bind, Types
    <2>3. caddy' = [caddy EXCEPT ![p] = s]
      BY <1>12 DEF Bind
    <2> HIDE DEF s
    <2>4. QED
      BY <1>9, <1>12, <2>1, <2>2, <2>3 DEF Bind, Types
  <1>13. ASSUME NEW p \in Procs, Dies(p) PROVE Files'
    BY <1>9, <1>13, StateFacts DEF Dies, Types
  <1>14. ASSUME Crash PROVE Files'
    BY <1>14 DEF Crash, Types, Labels, MaybeConfigs, CandidateKept, CandidateIsWanted
  <1>15. CASE UNCHANGED vars
    BY <1>15 DEF vars, Types, CandidateKept, CandidateIsWanted
  <1>16. QED
    BY <1>1, <1>2, <1>3, <1>4, <1>5, <1>6, <1>7, <1>8, <1>10, <1>11, <1>12, <1>13, <1>14, <1>15
       DEF Next
-----------------------------------------------------------------------------
(* What the call knows of the processes.                                   *)

Known == Watched /\ InHand /\ Told

\* What is loaded is a matter of the processes and the socket.
LEMMA ServingFacts ==
  /\ UNCHANGED <<caddy, sock>> => Serving' = Serving /\ (Reachable' <=> Reachable)
  /\ ~Reachable => Serving = Nothing
  /\ Reachable => Serving = caddy[sock].cfg
  /\ Types /\ Reachable => sock \in Procs /\ caddy[sock].st = "up" /\ Serving # Nothing
  /\ Reachable \in BOOLEAN
  BY DEF Serving, Reachable, Types

\* When nobody answers, and the call polls for nobody, there is no process.
LEMMA Quiet ==
  ASSUME Types, Watched, ~Strayed, ~Reachable, pc # "poll"
  PROVE  AllOff
  BY DEF Types, States, Watched, Reachable, AllOff

\* A call that goes on, or answers, without touching a process.
LEMMA CallKnown ==
  ASSUME IInv, UNCHANGED <<caddy, sock>>,
         \/ \E c \in MaybeConfigs : Call(c)
         \/ WriteCandidate \/ Validate \/ Compare \/ Probe \/ LoadAnswered
         \/ Poll \/ Record \/ Stop \/ Crash
  PROVE  Known'
  <1> USE ServingFacts DEF Known, IInv, Watched, InHand, Told, Strayed, AllOff, OneOn,
          Goto, Answer, Return, ReturnKeepsCandidate, Strike, Dial
  <1>1. CASE \E c \in MaybeConfigs : Call(c)
    BY <1>1 DEF Call
  <1>2. CASE WriteCandidate \/ Validate
    BY <1>2 DEF WriteCandidate, Validate
  <1>3. CASE Compare
    BY <1>3 DEF Compare
  <1>4. CASE Probe
    <2>1. \/ Goto("load") /\ Reachable /\ UNCHANGED struck
          \/ Goto("start") /\ ~Reachable /\ UNCHANGED struck
          \/ Goto("start") /\ Strike("slow")
      BY <1>4 DEF Probe
    <2>2. ~Reachable /\ ~Strayed => AllOff
      BY <1>4, Quiet DEF Probe
    <2>3. QED
      BY <1>4, <2>1, <2>2 DEF Probe
  <1>5. CASE LoadAnswered
    BY <1>5 DEF LoadAnswered
  <1>6. CASE Poll
    BY <1>6 DEF Poll, Booting
  <1>7. CASE Record
    BY <1>7 DEF Record
  <1>8. CASE Stop
    BY <1>8 DEF Stop
  <1>9. CASE Crash
    BY <1>9 DEF Crash, Booting
  <1>10. QED
    BY <1>1, <1>2, <1>3, <1>4, <1>5, <1>6, <1>7, <1>8, <1>9

\* A process that is not the one behind the socket, or not up, may change.
LEMMA HiddenChange ==
  ASSUME Types, NEW p \in Procs, NEW s \in States, caddy' = [caddy EXCEPT ![p] = s],
         caddy[p].st # "up", s.st # "up", sock' = sock
  PROVE  Serving' = Serving /\ (Reachable' <=> Reachable)
  BY DEF Types, Serving, Reachable

\* The processes, and the calls that start, load or stop one.
LEMMA ProcessKnown ==
  ASSUME IInv, Types',
         Load \/ Start \/ Quit \/ Unlink \/ \E p \in Procs : ReadConfig(p) \/ Bind(p) \/ Dies(p)
  PROVE  Known'
  <1> USE DEF Known, Goto, Answer, Return, ReturnKeepsCandidate, Strike, Strayed
  <1>0. Types /\ Watched /\ InHand /\ Told /\ CandidateIsWanted
    BY DEF IInv
  <1>1. ASSUME Load PROVE Known'
    <2>1. CASE /\ Reachable /\ caddy' = [caddy EXCEPT ![sock].cfg = want]
               /\ Goto("loaded") /\ UNCHANGED candidate
      <3>1. want \in Configs
        BY <1>0, <1>1 DEF Load, Types, MaybeConfigs
      <3>2. /\ sock \in Procs /\ caddy'[sock].cfg = want
            /\ \A q \in Procs : caddy'[q].st = caddy[q].st
        BY <1>0, <2>1, <3>1, LoadFacts
      <3>3. Serving' = want
        BY <1>1, <2>1, <3>2 DEF Load, Serving, Reachable
      <3>4. QED
        BY <1>0, <1>1, <2>1, <3>2, <3>3 DEF Load, Watched, OneOn, AllOff, InHand, Told
    <2>2. CASE Return("err") /\ UNCHANGED caddy
      BY <1>0, <1>1, <2>2, ServingFacts DEF Load, Watched, OneOn, AllOff, InHand, Told
    <2>3. QED
      BY <1>1, <2>1, <2>2 DEF Load
  <1>2. ASSUME Start PROVE Known'
    <2>1. ~Reachable' /\ Serving' = Nothing
      BY <1>2 DEF Start, Reachable, Serving
    <2>2. ASSUME NEW p \in Procs, caddy' = [caddy EXCEPT ![p] = [st |-> "boot", cfg |-> Nothing]],
                 Goto("poll")
          PROVE  Known'
      <3> DEFINE s == [st |-> "boot", cfg |-> Nothing]
      <3>1. s \in States /\ s.st = "boot" /\ s.cfg = Nothing /\ caddy' = [caddy EXCEPT ![p] = s]
        BY <2>2, StateFacts
      <3> HIDE DEF s
      <3>2. caddy'[p].st = "boot" /\ \A q \in Procs : q # p => caddy'[q] = caddy[q]
        BY <1>0, <3>1, ProcessType
      <3>3. QED
        BY <1>0, <1>2, <2>1, <2>2, <3>2 DEF Start, Watched, OneOn, AllOff, InHand, Told
    <2>3. CASE UNCHANGED caddy /\ Return("err")
      BY <1>0, <1>2, <2>1, <2>3 DEF Start, Watched, OneOn, AllOff, InHand, Told
    <2>4. QED
      BY <1>2, <2>2, <2>3 DEF Start
  <1>3. ASSUME Quit PROVE Known'
    <2>1. CASE Reachable /\ caddy' = [caddy EXCEPT ![sock] = Off] /\ Goto("unlink")
      <3>1. sock \in Procs
        BY <1>0, <2>1, ServingFacts
      <3>2. caddy'[sock].st = "off" /\ \A q \in Procs : q # sock => caddy'[q] = caddy[q]
        BY <1>0, <2>1, <3>1, StateFacts, ProcessType
      <3>3. ~Reachable' /\ Serving' = Nothing
        BY <1>3, <3>2 DEF Quit, Reachable, Serving
      <3>4. QED
        BY <1>0, <1>3, <2>1, <3>1, <3>2, <3>3, ServingFacts
        DEF Quit, Watched, OneOn, AllOff, InHand, Told
    <2>2. CASE pc' = "idle" /\ answer' = "err" /\ UNCHANGED <<caddy, want>>
      BY <1>0, <1>3, <2>2, ServingFacts DEF Quit, Watched, OneOn, AllOff, InHand, Told
    <2>3. QED
      BY <1>3, <2>1, <2>2 DEF Quit
  <1>4. ASSUME Unlink PROVE Known'
    <2>1. CASE sock' = NoProc
      <3>1. ~Reachable' /\ Serving' = Nothing
        BY <2>1 DEF Reachable, Serving
      <3>2. QED
        BY <1>0, <1>4, <2>1, <3>1 DEF Unlink, Watched, OneOn, AllOff, InHand, Told
    <2>2. CASE UNCHANGED sock
      BY <1>0, <1>4, <2>2, ServingFacts DEF Unlink, Watched, OneOn, AllOff, InHand, Told
    <2>3. QED
      BY <1>4, <2>1, <2>2 DEF Unlink
  <1>5. ASSUME NEW p \in Procs, ReadConfig(p) PROVE Known'
    <2> DEFINE s == IF candidate \in Configs THEN [st |-> "read", cfg |-> candidate] ELSE Off
    <2>1. /\ s \in States /\ s.st \in {"off", "read"}
          /\ s.st = "read" => s.cfg = candidate
          /\ s.cfg = Nothing <=> s.st \in {"off", "boot"}
      BY <1>0, StateFacts DEF Types, MaybeConfigs
    <2>2. caddy' = [caddy EXCEPT ![p] = s]
      BY <1>5 DEF ReadConfig
    <2> HIDE DEF s
    <2>3. caddy'[p] = s /\ \A q \in Procs : q # p => caddy'[q] = caddy[q]
      BY <1>0, <2>1, <2>2, ProcessType
    <2>4. Serving' = Serving /\ (Reachable' <=> Reachable)
      BY <1>0, <1>5, <2>1, <2>2, HiddenChange DEF ReadConfig
    <2>5. QED
      BY <1>0, <1>5, <2>1, <2>3, <2>4
      DEF ReadConfig, Watched, OneOn, AllOff, InHand, Told, CandidateIsWanted
  <1>6. ASSUME NEW p \in Procs, Bind(p) PROVE Known'
    <2> DEFINE s == [caddy[p] EXCEPT !.st = "up"]
    <2>1. /\ s \in States /\ s.st = "up" /\ s.cfg = caddy[p].cfg
          /\ s.cfg = Nothing <=> s.st \in {"off", "boot"}
      BY <1>0, <1>6 DEF Types, States, Bind
    <2>2. caddy' = [caddy EXCEPT ![p] = s]
      BY <1>6 DEF Bind
    <2> HIDE DEF s
    <2>3. caddy'[p] = s /\ \A q \in Procs : q # p => caddy'[q] = caddy[q]
      BY <1>0, <2>1, <2>2, ProcessType
    <2>4. QED
      BY <1>0, <1>6, <2>1, <2>3 DEF Bind, Watched, OneOn, AllOff, InHand, Told
  <1>7. ASSUME NEW p \in Procs, Dies(p) PROVE Known'
    <2>1. caddy'[p].st = "off" /\ \A q \in Procs : q # p => caddy'[q] = caddy[q]
      <3> DEFINE s == Off
      <3>1. s \in States /\ s.st = "off" /\ s.cfg = Nothing /\ caddy' = [caddy EXCEPT ![p] = s]
        BY <1>7, StateFacts DEF Dies
      <3> HIDE DEF s
      <3>2. QED
        BY <1>0, <3>1, ProcessType
    <2>2. (Reachable' => Reachable) /\ Serving' \in {Serving, Nothing}
      BY <1>0, <1>7, <2>1 DEF Dies, Reachable, Serving, Types
    <2>3. Watched'
      BY <1>0, <1>7, <2>1 DEF Dies, Watched, OneOn, AllOff, Strayed
    <2>4. InHand'
      BY <1>0, <1>7, <2>1, <2>2 DEF Dies, InHand, Strayed
    <2>5. Told'
      BY <1>0, <1>7, <2>2 DEF Dies, Told
    <2>6. QED
      BY <2>3, <2>4, <2>5
  <1>8. QED
    BY <1>1, <1>2, <1>3, <1>4, <1>5, <1>6, <1>7

\* Every step keeps the invariant.
LEMMA StepIInv == IInv /\ [Next]_vars => IInv'
  <1> SUFFICES ASSUME IInv, [Next]_vars PROVE IInv'
    OBVIOUS
  <1>1. Types' /\ CandidateKept' /\ CandidateIsWanted'
    BY FilesNext DEF Files, IInv
  <1>2. CASE UNCHANGED vars
    BY <1>1, <1>2, ServingFacts DEF IInv, vars, Watched, OneOn, AllOff, InHand, Told, Strayed
  <1>3. CASE Next
    <2>1. CASE UNCHANGED <<caddy, sock>>
      BY <1>1, <1>3, <2>1, CallKnown, ProcessKnown DEF Next, Known, IInv
    <2>2. CASE ~UNCHANGED <<caddy, sock>>
      <3>1. \/ Load \/ Start \/ Quit \/ Unlink
            \/ \E p \in Procs : ReadConfig(p) \/ Bind(p) \/ Dies(p)
        BY <1>3, <2>2 DEF Next, Call, WriteCandidate, Validate, Compare, Probe, LoadAnswered,
           Poll, Record, Stop, Crash
      <3>2. QED
        BY <1>1, <3>1, ProcessKnown DEF Known, IInv
    <2>3. QED
      BY <2>1, <2>2
  <1>4. QED
    BY <1>2, <1>3

\* The invariant that carries the theorems below.
THEOREM Inductive == Spec => []IInv
  BY InitIInv, StepIInv, PTL DEF Spec

\* Apply and Stop keep the types; a call validates and starts its own candidate,
\* and one left behind between calls is of a call that crashed or could not
\* write it (WriteFile and the deferred Remove in manager.go).
THEOREM TypeCorrect == Spec => []TypeOK
  <1>1. IInv => TypeOK
    BY DEF IInv, Types, States, Labels, CandidateKept, CandidateIsWanted, TypeOK
  <1>2. QED
    BY <1>1, Inductive, PTL

\* As long as every start is waited for and every probe of running()
\* answered, Apply and Stop never leave a second Caddy, nor one that the
\* admin socket does not lead to.
THEOREM NoSecondCaddy == Spec => []OneCaddy
  <1>1. IInv => OneCaddy
    BY DEF IInv, Watched, OneOn, OneCaddy
  <1>2. QED
    BY <1>1, Inductive, PTL
-----------------------------------------------------------------------------
(* What an answer means.                                                   *)

\* An Apply that reports success leaves Caddy serving its configuration, and
\* a Stop that does leaves none, with the exceptions OkIsServed names.
THEOREM SuccessIsServed == Spec => OkIsServed
  <1> DEFINE Answered == pc # "idle" /\ pc' = "idle" /\ answer' = "ok"
             Served == \/ died \/ Strayed' \/ Serving' = want
                       \/ struck # {} /\ file = want
  <1>1. IInv /\ [Next]_vars => (Answered => Served)
    <2> SUFFICES ASSUME IInv, [Next]_vars, Answered PROVE Served
      OBVIOUS
    <2> USE DEF Goto, Answer, Return, ReturnKeepsCandidate, Strike, Dial
    <2>1. Types /\ Watched /\ InHand /\ Told
      BY DEF IInv
    <2>2. \/ Compare /\ file = want /\ Dial(TRUE)
          \/ Record
          \/ Stop /\ Dial(FALSE)
          \/ Unlink /\ sock' = NoProc
      BY DEF Next, vars, Call, WriteCandidate, Validate, Compare, Probe, Load, LoadAnswered,
         Start, Poll, Record, Stop, Quit, Unlink, ReadConfig, Bind, Dies, Crash
    <2>3. CASE Compare /\ file = want /\ Dial(TRUE)
      BY <2>1, <2>3, ServingFacts DEF Compare, Told
    <2>4. CASE Record
      BY <2>1, <2>4, ServingFacts DEF Record, InHand, Strayed
    <2>5. CASE Stop /\ Dial(FALSE)
      BY <2>1, <2>5, ServingFacts DEF Stop, Types, Strayed
    <2>6. CASE Unlink /\ sock' = NoProc
      BY <2>1, <2>6 DEF Unlink, Types, Serving, Reachable
    <2>7. QED
      BY <2>2, <2>3, <2>4, <2>5, <2>6
  <1>2. IInv /\ [Next]_vars => [Answered => Served]_vars
    BY <1>1
  <1>3. QED
    BY <1>2, Inductive, PTL DEF Spec, OkIsServed
-----------------------------------------------------------------------------
(* The manager implements Gateway.                                         *)

\* Init is the initial state of Gateway.
LEMMA PromiseInit == Init => Promise!Init
  BY StateFacts DEF Init, Promise!Init, Serving, Reachable, Strayed

\* Every step is one of Gateway, or leaves it as it is.
LEMMA PromiseStep == IInv /\ IInv' /\ [Next]_vars => [Promise!Next]_(Promise!vars)
  <1> SUFFICES ASSUME IInv, IInv', [Next]_vars, ~Strayed' PROVE [Promise!Next]_(Promise!vars)
    BY DEF Promise!Next
  <1> USE DEF Goto, Answer, Return, ReturnKeepsCandidate, Strike, Dial
  <1>0. Types /\ Watched /\ InHand /\ CandidateIsWanted /\ Types' /\ InHand'
    BY DEF IInv
  <1>1. ~Strayed /\ (Strayed' <=> Strayed)
    BY DEF Next, vars, Strayed, Call, WriteCandidate, Validate, Compare, Probe, Load, LoadAnswered,
       Start, Poll, Record, Stop, Quit, Unlink, ReadConfig, Bind, Dies, Crash
  <1>2. Strayed' = Strayed
    BY <1>1 DEF Strayed
  <1> DEFINE Matched == Promise!Step \/ UNCHANGED Promise!vars
  <1> SUFFICES Matched
    BY <1>2 DEF Promise!Next, Promise!vars
  <1> USE DEF Promise!Step, Promise!vars
  <1>3. ASSUME NEW c \in MaybeConfigs, Call(c) PROVE Matched
    BY <1>0, <1>2, <1>3, ServingFacts DEF Call, Types, Promise!Ask, Promise!MaybeConfigs, MaybeConfigs
  <1>4. CASE WriteCandidate \/ Validate \/ LoadAnswered \/ Poll \/ Crash
    BY <1>0, <1>2, <1>4, ServingFacts
    DEF WriteCandidate, Validate, LoadAnswered, Poll, Crash, Promise!Fail
  <1>5. CASE Compare
    BY <1>0, <1>2, <1>5, ServingFacts DEF Compare, Types, Promise!Succeed, Promise!Current
  <1>6. CASE Probe
    BY <1>0, <1>2, <1>6, ServingFacts DEF Probe
  <1>7. CASE Load
    <2>1. CASE /\ Reachable /\ caddy' = [caddy EXCEPT ![sock].cfg = want]
               /\ Goto("loaded") /\ UNCHANGED candidate
      <3>1. want \in Configs
        BY <1>0, <1>7 DEF Load, Types, MaybeConfigs
      <3>2. Serving' = want
        BY <1>0, <1>7, <2>1, <3>1, LoadFacts DEF Load, Serving, Reachable
      <3>3. QED
        BY <1>0, <1>1, <1>7, <2>1, <3>2 DEF Load, InHand, Promise!Take, Promise!Current
    <2>2. CASE Return("err") /\ UNCHANGED caddy
      BY <1>7, <2>2, ServingFacts DEF Load, Promise!Fail
    <2>3. QED
      BY <1>7, <2>1, <2>2 DEF Load
  <1>8. CASE Start
    <2>1. Serving = Nothing /\ Serving' = Nothing
      BY <1>0, <1>1, <1>8 DEF Start, Watched, AllOff, Serving, Reachable, Types
    <2>2. QED
      BY <1>2, <1>8, <2>1 DEF Start, Promise!Fail
  <1>9. CASE Record
    BY <1>0, <1>1, <1>2, <1>9, ServingFacts DEF Record, Types, InHand, Promise!Succeed, Promise!Fail
  <1>10. CASE Stop
    BY <1>0, <1>1, <1>2, <1>10, ServingFacts DEF Stop, Types, Strayed, Promise!Succeed
  <1>11. CASE Quit
    <2>1. CASE Reachable /\ caddy' = [caddy EXCEPT ![sock] = Off] /\ Goto("unlink")
      <3>1. Serving' = Nothing
        BY <1>0, <1>11, <2>1, StateFacts DEF Quit, Serving, Reachable, Types
      <3>2. QED
        BY <1>11, <2>1, <3>1 DEF Quit, Promise!Dies
    <2>2. CASE pc' = "idle" /\ answer' = "err" /\ UNCHANGED <<caddy, want>>
      BY <1>0, <1>11, <2>2, ServingFacts DEF Quit, Types, Promise!Fail
    <2>3. QED
      BY <1>11, <2>1, <2>2 DEF Quit
  <1>12. CASE Unlink
    <2>1. Serving = Nothing /\ Serving' = Nothing /\ want = Nothing
      BY <1>0, <1>1, <1>12 DEF Unlink, Watched, AllOff, Serving, Reachable, Types
    <2>2. QED
      BY <1>12, <2>1 DEF Unlink, Promise!Succeed, Promise!Fail
  <1>13. ASSUME NEW p \in Procs, ReadConfig(p) PROVE Matched
    <2>1. Serving' = Serving
      BY <1>0, <1>13, StateFacts DEF ReadConfig, Types, Serving, Reachable
    <2>2. QED
      BY <1>2, <1>13, <2>1 DEF ReadConfig
  <1>14. ASSUME NEW p \in Procs, Bind(p) PROVE Matched
    <2> DEFINE s == [caddy[p] EXCEPT !.st = "up"]
    <2>1. s.st = "up" /\ s.cfg = caddy[p].cfg /\ caddy'[p] = s /\ sock' = p
      BY <1>0, <1>14 DEF Bind, Types, States
    <2> HIDE DEF s
    <2>2. pc = "poll" /\ caddy[p].cfg = want /\ ~Reachable
      BY <1>0, <1>1, <1>14 DEF Bind, Watched, OneOn, InHand, Reachable, Types
    <2>3. Serving' = want /\ Serving = Nothing
      BY <2>1, <2>2 DEF Serving, Reachable
    <2>4. QED
      BY <1>14, <2>2, <2>3 DEF Bind, Promise!Take, Promise!Current
  <1>15. ASSUME NEW p \in Procs, Dies(p) PROVE Matched
    <2>1. Serving' \in {Serving, Nothing}
      BY <1>0, <1>15, StateFacts DEF Dies, Serving, Reachable, Types
    <2>2. QED
      BY <1>2, <1>15, <2>1 DEF Dies, Promise!Dies
  <1>16. CASE UNCHANGED vars
    BY <1>2, <1>16, ServingFacts DEF vars
  <1>17. QED
    BY <1>2, <1>3, <1>4, <1>5, <1>6, <1>7, <1>8, <1>9, <1>10, <1>11, <1>12, <1>13, <1>14, <1>15,
       <1>16
    DEF Next

\* Apply and Stop (manager.go), call by call and with the processes they start,
\* keep the promise the commands rely on.
THEOREM ManagerKeepsPromise == Spec => KeepsPromise
  BY PromiseInit, PromiseStep, Inductive, PTL DEF Spec, KeepsPromise, Promise!Spec
=============================================================================
