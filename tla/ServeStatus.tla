---------------------------- MODULE ServeStatus ----------------------------
(***************************************************************************)
(* How internal/tailscale/client.go reads `tailscale serve status --json': *)
(* it does not know the schema but searches the whole document for a port, *)
(* and for a port under a key that mentions funnel.                        *)
(*                                                                         *)
(* A document is the set of its leaves, each with the keys on its way down *)
(* and its value.  Of a key or a value remains what the search asks: the   *)
(* port it names (0: none), whether it mentions funnel, and whether it is  *)
(* neither false, zero nor empty.  The document has no arrays.             *)
(***************************************************************************)
EXTENDS Naturals, Sequences, SequencesExt

\* The leaves below the k-th key on the way to leaf l, that key included.
Below(tree, l, k) == {m \in tree : IsPrefix(SubSeq(l.path, 1, k), m.path)}

truthy(leaves) == \E l \in leaves : l.truthy

containsPort(tree, port) ==
  \E l \in tree : l.port = port \/ \E k \in DOMAIN l.path : l.path[k].port = port

containsEnabledFunnel(tree) ==
  \E l \in tree : \E k \in DOMAIN l.path : l.path[k].funnel /\ truthy(Below(tree, l, k))

containsEnabledFunnelPortSameKey(tree, port) ==
  \E l \in tree : \E k \in DOMAIN l.path :
    l.path[k].funnel /\ (l.port = port \/ (l.path[k].port = port /\ truthy(Below(tree, l, k))))
\* insideFunnel: a key up to and including this one mentions funnel.
containsEnabledFunnelPort(tree, port) ==
  \E l \in tree : \E k \in DOMAIN l.path :
    /\ \E j \in 1..k : l.path[j].funnel
    /\ l.port = port \/ (l.path[k].port = port /\ truthy(Below(tree, l, k)))
-----------------------------------------------------------------------------
(* What Serve is configured to do, and the document tailscale prints.      *)

\* An HTTPS listener that forwards to a local port, of a foreground session or
\* of the daemon, with an entry in AllowFunnel or without.
Listener == [port : Nat \ {0}, proxy : Nat \ {0}, foreground : BOOLEAN,
             funnel : {"absent", "off", "on"}]

Word == [port |-> 0, funnel |-> FALSE]
FunnelWord == [port |-> 0, funnel |-> TRUE]
Names(p) == [port |-> p, funnel |-> FALSE]
Leaf(path, port, yes) == [path |-> path, port |-> port, truthy |-> yes]

\* TCP.<port>.HTTPS, Web.<host:port>.Handlers.<path>.Proxy and
\* AllowFunnel.<host:port>, below Foreground.<session> for a session.  The name
\* of the host may itself mention funnel.
Entries(l, hostSaysFunnel) ==
  LET host == [port |-> l.port, funnel |-> hostSaysFunnel]
      Under(path) == (IF l.foreground THEN <<Word, Word>> ELSE <<>>) \o path
  IN
  {Leaf(Under(<<Word, Names(l.port), Word>>), 0, TRUE),
   Leaf(Under(<<Word, host, Word, Word, Word>>), l.proxy, TRUE)}
  \cup {Leaf(Under(<<FunnelWord, host>>), 0, l.funnel = "on") : x \in {l.funnel} \ {"absent"}}

Document(c) == UNION {Entries(l, c.hostSaysFunnel) : l \in c.listeners}

\* What the search is meant to find out.
Listens(c, port) == \E l \in c.listeners : l.port = port
Public(c, port)  == \E l \in c.listeners : l.port = port /\ l.funnel = "on"
=============================================================================
