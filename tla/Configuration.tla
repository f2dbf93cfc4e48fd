--------------------------- MODULE Configuration ---------------------------
(***************************************************************************)
(* What an up asks of the service: the project's file (internal/config),   *)
(* the flags that override it (cmd/tailpreview/main.go), the defaults and  *)
(* the validation of the result.  Nothing here has state; a request is     *)
(* accepted or not, and if it is, these are its routes and health checks.  *)
(*                                                                         *)
(* A URL is a value of which two things matter: whether it is an HTTP(S)   *)
(* URL of this machine without credentials, and whether it is HTTPS.  A    *)
(* path is the sequence of its segments.  Names, times to live and the     *)
(* paths to verify are left out.                                           *)
(***************************************************************************)
EXTENDS Naturals, Sequences, SequencesExt

CONSTANTS
  URLs,
  Loopback,  \* those ValidateUpstream takes
  Https

ASSUME ConfigurationAssumption == Loopback \subseteq URLs /\ Https \subseteq URLs

\* What a route is for: a path alone (/api), or with what is below it (/api/*).
Path == [at : Seq(STRING), below : BOOLEAN]
Route == [path : Path, upstream : URLs, insecure : BOOLEAN, strip : BOOLEAN]
HealthCheck == [url : URLs, required : BOOLEAN, min : Nat, max : Nat, insecure : BOOLEAN]

\* A health entry of the file is a URL, or a mapping whose fields may be unset.
Entry == [url : URLs, scalar : BOOLEAN, required : {"unset", "yes", "no"}, min : Nat, max : Nat,
          insecure : BOOLEAN]

\* exists: the file was found; loads: its variables are known, it is YAML of version 1.
File == [exists : BOOLEAN, loads : BOOLEAN, routes : Seq(Route), health : Seq(Entry)]

\* routes: --route, or the positional URL as the catch-all.  insecure, strip: the
\* paths of --insecure-upstream and --strip-prefix.  (--insecure-health is applied
\* like a range.)
Flags == [routes : Seq(Route), insecure : SUBSET Path, strip : SUBSET Path, health : Seq(HealthCheck),
          ranges : Seq([url : URLs, min : Nat, max : Nat])]
-----------------------------------------------------------------------------
(* Validation.                                                             *)

ValidateUpstream(url, insecure) == url \in Loopback /\ (insecure => url \in Https)

normalizeHealth(c) ==
  [c EXCEPT !.min = IF @ = 0 THEN 200 ELSE @, !.max = IF @ = 0 THEN 399 ELSE @]

\* A check of which no status is in range cannot pass.
Codes == 100..599
Passable(c) == \E code \in Codes : c.min <= code /\ code <= c.max

ValidHealth(c) ==
  ValidateUpstream(c.url, c.insecure) /\ 100 <= c.min /\ c.min <= c.max /\ c.max <= 599

\* The last route, and no other, is the catch-all: /* or /.
CatchAll(path) == path.at = <<>>
Validate(routes, health) ==
  /\ routes # <<>>
  /\ \A i \in DOMAIN routes :
       (CatchAll(routes[i].path) <=> i = Len(routes)) /\ ValidateUpstream(routes[i].upstream, routes[i].insecure)
  /\ \A i \in DOMAIN health : ValidHealth(normalizeHealth(health[i]))
-----------------------------------------------------------------------------
(* The file, the flags over it, and the defaults.                          *)

UnmarshalYAML(e) ==
  IF e.scalar
  THEN [url |-> e.url, required |-> TRUE, min |-> 200, max |-> 399, insecure |-> FALSE]
  ELSE [url |-> e.url, required |-> e.required = "yes", min |-> e.min, max |-> e.max,
        insecure |-> e.insecure]

FileHealth(file) == [i \in DOMAIN file.health |-> UnmarshalYAML(file.health[i])]

\* Without a file there is nothing to validate yet.
Loads(file) == file.exists => file.loads /\ Validate(file.routes, FileHealth(file))

Mark(routes, insecure, strip) ==
  [i \in DOMAIN routes |->
     [routes[i] EXCEPT !.insecure = @ \/ routes[i].path \in insecure,
                       !.strip    = @ \/ routes[i].path \in strip]]

GivenRoutes(file, flags) == IF flags.routes # <<>> THEN flags.routes ELSE file.routes
Routes(file, flags) == Mark(GivenRoutes(file, flags), flags.insecure, flags.strip)

BaseHealth(file, flags) == IF flags.health # <<>> THEN flags.health ELSE FileHealth(file)

\* The i-th check is the first of its URL.
findHealth(health, i) == \A j \in 1..(i - 1) : health[j].url # health[i].url

\* The last --health-range of a URL, on the first check of that URL.
WithRanges(health, ranges) ==
  LET For(i) == {k \in DOMAIN ranges : ranges[k].url = health[i].url /\ findHealth(health, i)}
      Set(c, range) == [c EXCEPT !.min = range.min, !.max = range.max]
  IN  [i \in DOMAIN health |->
         IF For(i) = {} THEN health[i] ELSE Set(health[i], ranges[Max(For(i))])]

\* One lenient check per upstream, on the terms of its first route.
defaultHealthChecks(routes) ==
  LET firsts == {i \in DOMAIN routes : \A j \in 1..(i - 1) : routes[j].upstream # routes[i].upstream}
  IN  SetToSeq({[url |-> routes[i].upstream, required |-> TRUE, min |-> 100, max |-> 499,
                 insecure |-> routes[i].insecure] : i \in firsts})

Health(file, flags) ==
  LET health == WithRanges(BaseHealth(file, flags), flags.ranges)
  IN  IF health = <<>> THEN defaultHealthChecks(Routes(file, flags)) ELSE health

\* Every path or URL a flag refers to must be there.
FlagsMatch(file, flags) ==
  /\ \A path \in flags.insecure \cup flags.strip :
       \E i \in DOMAIN GivenRoutes(file, flags) : GivenRoutes(file, flags)[i].path = path
  /\ \A k \in DOMAIN flags.ranges :
       \E i \in DOMAIN BaseHealth(file, flags) : BaseHealth(file, flags)[i].url = flags.ranges[k].url

\* The file is validated when it is loaded, the request again when it is complete.
Accepts(file, flags) ==
  /\ Loads(file) /\ FlagsMatch(file, flags)
  /\ Validate(Routes(file, flags), Health(file, flags))
=============================================================================
