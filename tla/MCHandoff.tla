----------------------------- MODULE MCHandoff -----------------------------
(* Bounded instances of Handoff for TLC. *)
EXTENDS Handoff

Local(u) == [url |-> u, required |-> TRUE, min |-> 200, max |-> 399, insecure |-> FALSE]
Scalar(u) == [url |-> u, scalar |-> TRUE, required |-> "unset", min |-> 0, max |-> 0, insecure |-> FALSE]
Mapping(u, required, min, max) ==
  [url |-> u, scalar |-> FALSE, required |-> required, min |-> min, max |-> max, insecure |-> FALSE]

Subtree(at) == [at |-> at, below |-> TRUE]
TwoRoutes ==
  <<[path |-> Subtree(<<"api">>), upstream |-> "apiTLS", insecure |-> TRUE, strip |-> FALSE],
    [path |-> Subtree(<<>>), upstream |-> "web", insecure |-> FALSE, strip |-> FALSE]>>
ProjectFile(health) == [exists |-> TRUE, loads |-> TRUE, routes |-> TwoRoutes, health |-> health]
NoFlags == [routes |-> <<>>, insecure |-> {}, strip |-> {}, health |-> <<>>, ranges |-> <<>>]
Ask(health, flags) == [file |-> ProjectFile(health), flags |-> flags]

\* Required and optional checks, from the file, the flags and the defaults; one
\* that can never pass.
Asked ==
  {Ask(<<Scalar("web"), Mapping("api", "no", 200, 399), Mapping("apiTLS", "yes", 200, 299)>>, NoFlags),
   Ask(<<Scalar("web"), Mapping("api", "yes", 0, 0)>>, NoFlags),
   Ask(<<>>, NoFlags),
   Ask(<<Scalar("api")>>,
       [NoFlags EXCEPT !.health = <<Local("web"), [Local("api") EXCEPT !.required = FALSE]>>,
                       !.ranges = <<[url |-> "api", min |-> 200, max |-> 499]>>])}

\* The mapping form as docs/configuration.md shows it.
Documented == {Ask(<<Scalar("web"), Mapping("api", "unset", 200, 399)>>, NoFlags)}

\* The preview's listener forwards to its gateway; another one may be public,
\* or forward to a port of the same number.
Own(funnel, foreground) ==
  [port |-> 8443, proxy |-> 18080, foreground |-> foreground, funnel |-> funnel]
Other(proxy, funnel) == [port |-> 9443, proxy |-> proxy, foreground |-> FALSE, funnel |-> funnel]
Found ==
  {[listeners |-> own \cup other, hostSaysFunnel |-> says] :
     own \in {{}, {Own("absent", FALSE)}, {Own("off", FALSE)}, {Own("on", FALSE)}, {Own("on", TRUE)}},
     other \in {{}, {Other(3000, "on")}, {Other(8443, "absent")}, {Other(8443, "on")}},
     says \in BOOLEAN}
=============================================================================
