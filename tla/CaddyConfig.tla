---------------------------- MODULE CaddyConfig ----------------------------
(***************************************************************************)
(* The configuration generated for Caddy (internal/caddy/config.go) and    *)
(* where it sends a request.  A preview is a server on its gateway port    *)
(* (see Lifecycle); here are the routes of one server.  Logging, filters   *)
(* and timeouts are left out.                                              *)
(*                                                                         *)
(* The path of a request is the sequence of its segments, the last of      *)
(* which is empty after a trailing slash; / has none.                      *)
(***************************************************************************)
EXTENDS Configuration

CONSTANT Host  \* of a URL: its host and port, which is all that Caddy dials

Exact(at) == [at |-> at, below |-> FALSE]

Server(match, route) ==
  [match |-> match, dial |-> Host[route.upstream],
   tls |-> route.upstream \in Https, verified |-> ~route.insecure,
   stripped |-> IF route.strip THEN route.path.at ELSE <<>>]
buildRouteBelowOnly(route) == Server({route.path}, route)
\* Caddy's /api/* is what starts with /api/, so the path itself is added.
buildRoute(route) ==
  Server(IF route.path.below /\ ~CatchAll(route.path) THEN {Exact(route.path.at), route.path}
         ELSE {route.path}, route)

Generate(routes) == [i \in DOMAIN routes |-> buildRoute(routes[i])]
-----------------------------------------------------------------------------
(* What Caddy does with it.                                                *)

Matches(pattern, request) ==
  IF pattern.below
  THEN pattern.at = <<>> \/ (IsPrefix(pattern.at, request) /\ pattern.at # request)
  ELSE pattern.at = request

Nowhere == [dial |-> "nowhere", path |-> <<>>]

\* The hosts that ValidateUpstream takes.
Here == {Host[u] : u \in Loopback}

ASSUME CaddyConfigAssumption == DOMAIN Host = URLs /\ Nowhere.dial \notin {Host[u] : u \in URLs}

\* The first route with a match is terminal.
Proxied(servers, request) ==
  LET matching == {i \in DOMAIN servers : \E m \in servers[i].match : Matches(m, request)}
      first    == servers[CHOOSE i \in matching : \A j \in matching : i <= j]
      rest     == SubSeq(request, Len(first.stripped) + 1, Len(request))
  IN  IF matching = {} THEN Nowhere ELSE [dial |-> first.dial, path |-> rest]
-----------------------------------------------------------------------------
(* What the user asked for: the host of the first route, in declaration    *)
(* order, whose path it is or is below.                                    *)

Covers(path, request) == IF path.below THEN IsPrefix(path.at, request) ELSE path.at = request

Declared(routes, request) ==
  LET i == SelectInSeq(routes, LAMBDA r : Covers(r.path, request))
  IN  IF i = 0 THEN Nowhere
      ELSE [dial |-> Host[routes[i].upstream],
            path |-> IF routes[i].strip THEN SubSeq(request, Len(routes[i].path.at) + 1, Len(request)) ELSE request]
=============================================================================
