------------------------------ MODULE Handoff ------------------------------
(***************************************************************************)
(* The gates of a handoff: the local health checks (internal/health), for  *)
(* check what Tailscale says of the registered URL (Check in service.go),  *)
(* and the verification of every declared public path over the final       *)
(* origin (internal/app/verification.go).  What up does to Caddy, Serve    *)
(* and the registry in between is Lifecycle.  Which health checks there    *)
(* are, and which must pass, follows from the request (Configuration).     *)
(*                                                                         *)
(* One step is one HTTP exchange or one tailscale command.  A status is    *)
(* the class the code distinguishes; a redirect target is what the policy  *)
(* looks at; the deadline of a wait has passed or not.                     *)
(***************************************************************************)
EXTENDS Configuration, ServeStatus

CONSTANTS
  Requests,      \* the file and the flags of the up that made the preview
  Port,          \* its external port
  Configs,       \* what Serve may be configured to do
  Paths,         \* how many public paths to verify
  MaxRedirects   \* maxVerificationRedirects

ASSUME HandoffAssumption ==
  /\ \A r \in Requests : r.file \in File /\ r.flags \in Flags /\ Accepts(r.file, r.flags)
  /\ \A c \in Configs : c.listeners \subseteq Listener /\ c.hostSaysFunnel \in BOOLEAN
  /\ Port \in Nat \ {0} /\ Paths \in Nat \ {0} /\ MaxRedirects \in Nat \ {0}

VARIABLES
  request,  \* what the user asked for
  once,     \* the caller is check: one pass and no waiting
  gate,     \* "health", for check "status", "listener", "funnel", then "verify", "done"
  check,    \* the number of the check being made
  results,  \* whether each health check of this pass passed
  healthy,  \* no required one failed: allHealthy
  seen,     \* the Serve configuration as last read, until it is judged
  late,     \* the deadline of this wait has passed
  trail,    \* redirects followed in this attempt
  last,     \* the last status seen for this path, or "none"
  passed,   \* per verified path, the trail of its last attempt
  verdict   \* the result

vars == <<request, once, gate, check, results, healthy, seen, late, trail, last, passed, verdict>>
pass == <<check, results, healthy>>       \* the locals of the health checker
attempt == <<late, trail, last, passed>>  \* and of the verifier

checks == Health(request.file, request.flags)

\* Not a configuration: nothing was read, or it was judged already.
Unread == [listeners |-> {}, hostSaysFunnel |-> FALSE, read |-> FALSE]
Read(c) == [listeners |-> c.listeners, hostSaysFunnel |-> c.hostSaysFunnel, read |-> TRUE]

\* inRange: within the configured range, not a redirect; missed: another 2xx;
\* stuck: a redirect status without a usable destination.
Statuses == {"inRange", "missed", "stuck", "forbidden", "client", "server"}

\* The origin verified is https and not loopback.
Targets == {t \in [creds : BOOLEAN, home : BOOLEAN, loopback : BOOLEAN, secure : BOOLEAN] :
              t.home => t.secure /\ ~t.loopback}
-----------------------------------------------------------------------------
\* up may skip the health checks.
Init ==
  /\ request \in Requests /\ once \in BOOLEAN
  /\ gate \in IF once THEN {"health"} ELSE {"health", "verify"}
  /\ check = 1 /\ results = <<>> /\ healthy = TRUE
  /\ seen = Unread
  /\ late = FALSE /\ trail = <<>> /\ last = "none" /\ passed = <<>>
  /\ verdict = "none"

Finish(result) ==
  gate' = "done" /\ verdict' = result /\ UNCHANGED <<late, trail, passed>>

DeadlinePasses ==
  /\ gate # "done" /\ ~late /\ late' = TRUE
  /\ UNCHANGED <<request, once, gate, pass, seen, trail, last, passed, verdict>>
-----------------------------------------------------------------------------
(* Checker.Wait: every check of a pass is made before the pass is judged.  *)

ProbeHealthLastWins(ok) ==
  /\ gate = "health" /\ check <= Len(checks)
  /\ check' = check + 1 /\ results' = Append(results, ok)
  /\ healthy' = (ok \/ ~checks[check].required)
  /\ UNCHANGED <<request, once, gate, seen, attempt, verdict>>
ProbeHealth(ok) ==
  /\ gate = "health" /\ check <= Len(checks)
  /\ ok => Passable(checks[check])
  /\ check' = check + 1 /\ results' = Append(results, ok)
  /\ healthy' = (healthy /\ (ok \/ ~checks[check].required))
  /\ UNCHANGED <<request, once, gate, seen, attempt, verdict>>

\* The deadline and the locals of the wait end with it.
EndPass ==
  /\ gate = "health" /\ check > Len(checks)
  /\ check' = 1 /\ results' = <<>> /\ healthy' = TRUE
  /\ \/ /\ healthy /\ gate' = IF once THEN "status" ELSE "verify"
        /\ late' = FALSE /\ UNCHANGED <<trail, passed, verdict>>
     \/ ~healthy /\ (late \/ once) /\ Finish("health_failed")
     \/ ~healthy /\ ~late /\ ~once /\ UNCHANGED <<gate, late, trail, passed, verdict>>
  /\ UNCHANGED <<request, once, seen, last>>
-----------------------------------------------------------------------------
(* What check asks Tailscale, twice for the Serve configuration: another   *)
(* program may change it in between.                                       *)

\* Not running, no name, another name than the registered URL has, or an error.
Status ==
  /\ gate = "status"
  /\ \/ gate' = "listener" /\ UNCHANGED <<late, trail, passed, verdict>>
     \/ \E why \in {"tailscale_unavailable", "tailnet_hostname_changed", "error"} : Finish(why)
  /\ UNCHANGED <<request, once, pass, seen, last>>

serveStatus ==
  /\ gate \in {"listener", "funnel"} /\ ~seen.read
  /\ \/ /\ \E c \in Configs : seen' = Read(c)
        /\ UNCHANGED <<gate, late, trail, passed, verdict>>
     \/ seen' = seen /\ Finish("error")
  /\ UNCHANGED <<request, once, pass, last>>

PortAvailable ==
  /\ gate = "listener" /\ seen.read
  /\ \/ /\ containsPort(Document(seen), Port) /\ gate' = "funnel"
        /\ UNCHANGED <<late, trail, passed, verdict>>
     \/ ~containsPort(Document(seen), Port) /\ Finish("serve_listener_missing")
  /\ seen' = Unread
  /\ UNCHANGED <<request, once, pass, last>>

FunnelEnabledOnPort ==
  /\ gate = "funnel" /\ seen.read
  /\ \/ /\ ~containsEnabledFunnelPort(Document(seen), Port) /\ gate' = "verify" /\ late' = FALSE
        /\ UNCHANGED <<trail, passed, verdict>>
     \/ containsEnabledFunnelPort(Document(seen), Port) /\ Finish("public_endpoint_detected")
  /\ seen' = Unread
  /\ UNCHANGED <<request, once, pass, last>>
-----------------------------------------------------------------------------
(* HTTPVerifier.verifyOne                                                  *)

\* CheckRedirect for the redirect after those of the trail: why it is refused.
RefusalHomeFirst(t) ==
  IF t.home THEN "none"
  ELSE IF t.creds THEN "credentialed_redirect"
  ELSE "cross_origin_redirect"
RefusalOffByOne(t) ==
  IF Len(trail) + 1 > MaxRedirects THEN "redirect_limit_exceeded"
  ELSE IF t.creds THEN "credentialed_redirect"
  ELSE IF t.home THEN "none"
  ELSE "cross_origin_redirect"
Refusal(t) ==
  IF Len(trail) + 1 >= MaxRedirects THEN "redirect_limit_exceeded"
  ELSE IF t.creds THEN "credentialed_redirect"
  ELSE IF t.home THEN "none"
  ELSE IF t.loopback THEN "loopback_redirect"
  ELSE IF ~t.secure THEN "https_downgrade_redirect"
  ELSE "cross_origin_redirect"

Redirected(t) ==
  /\ gate = "verify"
  /\ \/ Refusal(t) = "none" /\ trail' = Append(trail, t) /\ UNCHANGED <<gate, late, passed, verdict>>
     \/ Refusal(t) # "none" /\ Finish(Refusal(t))
  /\ UNCHANGED last

PassFirst ==
  /\ passed' = Append(passed, trail)
  /\ gate' = "done" /\ verdict' = "ok" /\ last' = "none"
  /\ UNCHANGED <<late, trail>>
\* The path is verified: the next one has a deadline of its own.
Pass ==
  /\ passed' = Append(passed, trail)
  /\ late' = FALSE /\ trail' = <<>> /\ last' = "none"
  /\ IF Len(passed) + 1 = Paths THEN gate' = "done" /\ verdict' = "ok" ELSE UNCHANGED <<gate, verdict>>

\* The attempt gave no verdict: a 5xx, another 2xx, or no answer at all.
Again == trail' = <<>> /\ UNCHANGED <<gate, late, passed, verdict>>
RetryWhileAnswered(status) ==
  /\ last' = status
  /\ IF late /\ status = "none" THEN Finish("external_unreachable") ELSE Again
Retry(status) ==
  /\ last' = status
  /\ \/ late /\ Finish(IF status = "none" THEN "external_unreachable" ELSE "unexpected_http_status")
     \/ ~late /\ Again

AnsweredRetriesClient(status) ==
  /\ gate = "verify"
  /\ \/ status = "inRange" /\ Pass
     \/ status \in {"missed", "server", "client"} /\ Retry(status)
Answered(status) ==
  /\ gate = "verify"
  /\ \/ status = "inRange" /\ Pass
     \/ status \in {"missed", "server"} /\ Retry(status)
     \/ status = "forbidden" /\ last' = status /\ Finish("external_forbidden")
     \/ status = "client" /\ last' = status /\ Finish("unexpected_http_status")
     \/ status = "stuck" /\ last' = status /\ Finish("invalid_redirect")

\* Refused, timed out, or not a usable answer.
Unreachable == gate = "verify" /\ Retry(last)

Verification ==
  /\ \/ \E t \in Targets : Redirected(t)
     \/ \E status \in Statuses : Answered(status)
     \/ Unreachable
  /\ UNCHANGED <<request, once, pass, seen>>

Exchange ==
  \/ \E ok \in BOOLEAN : ProbeHealth(ok)
  \/ EndPass
  \/ Status \/ serveStatus \/ PortAvailable \/ FunnelEnabledOnPort
  \/ Verification

\* The caller takes the result.
Done == gate = "done" /\ UNCHANGED vars

Next == Exchange \/ DeadlinePasses \/ Done

Spec == Init /\ [][Next]_vars

\* Time passes, and every request ends: it has a timeout of its own.
FairSpec == Spec /\ WF_vars(DeadlinePasses) /\ WF_vars(Exchange)
-----------------------------------------------------------------------------
(* Properties.                                                             *)

TypeOK ==
  /\ request \in Requests /\ once \in BOOLEAN /\ healthy \in BOOLEAN /\ late \in BOOLEAN
  /\ gate \in {"health", "status", "listener", "funnel", "verify", "done"}
  /\ check \in 1..(Len(checks) + 1) /\ results \in Seq(BOOLEAN) /\ Len(results) = check - 1
  /\ seen = Unread \/ seen \in {Read(c) : c \in Configs}
  /\ trail \in Seq(Targets) /\ passed \in Seq(Seq(Targets))
  /\ last \in Statuses \cup {"none"}
  /\ Len(passed) <= Paths /\ (verdict = "ok" <=> Len(passed) = Paths)

\* The health gate opens after one pass in which every required check passed,
\* however they came and went during the wait, and stays shut only if one of
\* them failed: an optional check never decides.
GateOpensHealthy ==
  [][gate = "health" /\ gate' # "health" =>
       /\ Len(results) = Len(checks)
       /\ verdict' = "health_failed" <=> \E i \in DOMAIN results : checks[i].required /\ ~results[i]]_vars

\* A check that the project's file or a flag declares, and does not call
\* optional, is part of that pass ("checks are required unless ...",
\* internal/config/config.go).
DeclaredOptional(i) ==
  IF request.flags.health # <<>> THEN ~request.flags.health[i].required
  ELSE request.file.health # <<>> /\ request.file.health[i].required = "no"
DeclaredChecksDecide ==
  [][gate = "health" /\ gate' \in {"status", "verify"} =>
       \A i \in 1..Len(results) : results[i] \/ DeclaredOptional(i)]_vars

\* check reports a listener missing only when Serve, as read then, has none,
\* and passes over a missing one only when another listener forwards to a local
\* port of that number (the search of client.go does not tell the two apart);
\* it goes on to verification only when the port was not public as read last,
\* and calls it public only if it is, or if the name of a host misleads the search.
Misleading(c) == c.hostSaysFunnel
ForwardedTo(c, port) == \E l \in c.listeners : l.proxy = port
PrivateListener ==
  [][/\ verdict' = "serve_listener_missing" => verdict = verdict' \/ ~Listens(seen, Port)
     /\ gate = "listener" /\ gate' = "funnel" => Listens(seen, Port) \/ ForwardedTo(seen, Port)
     /\ gate \in {"listener", "funnel"} /\ gate' = "verify" => seen.read /\ ~Public(seen, Port)
     /\ verdict' = "public_endpoint_detected" =>
          \/ verdict = verdict'
          \/ containsEnabledFunnel(Document(seen)) /\ (Public(seen, Port) \/ Misleading(seen))]_vars

\* No request ever leaves the verified origin, carries credentials, or is the
\* result of more redirects than the limit.
StaysHome ==
  Len(trail) < MaxRedirects /\ \A k \in 1..Len(trail) : trail[k].home /\ ~trail[k].creds

\* A client error or a broken redirect ends the verification: it is neither
\* retried until something else comes back nor forgotten by a later path.
FatalIsFinal ==
  last \in {"forbidden", "client", "stuck"} => gate = "done" /\ verdict # "ok"

\* Whatever the local services, Tailscale and the final origin do, the gates
\* give a verdict: neither flapping checks, nor redirects, nor 5xx go on for ever.
Terminates == <>(gate = "done")

\* check confirms "the exact Serve listener" (docs/agent-contract.md); the code
\* takes another listener's target for it.
ExactListener ==
  [][gate = "listener" /\ gate' = "funnel" => Listens(seen, Port)]_vars

\* "Redirects are followed up to five hops" (docs/configuration.md); the code
\* follows one less.
FollowsUpToLimit ==
  verdict = "redirect_limit_exceeded" => Len(trail) = MaxRedirects
=============================================================================
