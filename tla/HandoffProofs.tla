---------------------------- MODULE HandoffProofs ----------------------------
(***************************************************************************)
(* Theorems about Handoff, for any requests that up accepts, any Serve     *)
(* configurations, any number of paths and any limit of redirects: when    *)
(* the gates open, and that nothing leaves the verified origin.            *)
(***************************************************************************)
EXTENDS Handoff, ConfigurationProofs

USE HandoffAssumption
-----------------------------------------------------------------------------
(* The health checks of an accepted request.                               *)

\* An accepted request has at least one health check.
LEMMA ChecksType ==
  ASSUME NEW r \in Requests
  PROVE  Len(Health(r.file, r.flags)) \in Nat \ {0}
  BY HealthType, EmptySeq
-----------------------------------------------------------------------------
(* What the search through the serve-status document is worth.             *)

Key == [port : Nat, funnel : BOOLEAN]
IsConfig(c) == c.listeners \subseteq Listener /\ c.hostSaysFunnel \in BOOLEAN

\* A session's entries are two keys further down.
Offset(l) == IF l.foreground THEN 2 ELSE 0
Host(c, l) == [port |-> l.port, funnel |-> c.hostSaysFunnel]

\* The three leaves that a listener may have in a document, by their keys.
TCPLeaf(l, m) ==
  /\ m.path \in Seq(Key) /\ Len(m.path) = Offset(l) + 3 /\ m.port = 0 /\ m.truthy = TRUE
  /\ \A i \in 1..Len(m.path) : m.path[i] = IF i = Offset(l) + 2 THEN Names(l.port) ELSE Word
WebLeaf(c, l, m) ==
  /\ m.path \in Seq(Key) /\ Len(m.path) = Offset(l) + 5 /\ m.port = l.proxy /\ m.truthy = TRUE
  /\ \A i \in 1..Len(m.path) : m.path[i] = IF i = Offset(l) + 2 THEN Host(c, l) ELSE Word
FunnelLeaf(c, l, m) ==
  /\ m.path \in Seq(Key) /\ Len(m.path) = Offset(l) + 2 /\ m.port = 0 /\ (m.truthy <=> l.funnel = "on")
  /\ \A i \in 1..Len(m.path) : m.path[i] = IF i = Offset(l) + 2 THEN Host(c, l)
                                            ELSE IF i = Offset(l) + 1 THEN FunnelWord ELSE Word

\* The same keys, alone or below a session.
LEMMA UnderKeys ==
  ASSUME NEW path \in Seq(Key), NEW l \in Listener
  PROVE  LET q == (IF l.foreground THEN <<Word, Word>> ELSE <<>>) \o path
         IN  /\ q \in Seq(Key) /\ Len(q) = Offset(l) + Len(path)
             /\ \A i \in 1..Len(q) : q[i] = IF i <= Offset(l) THEN Word ELSE path[i - Offset(l)]
  <1> DEFINE up == IF l.foreground THEN <<Word, Word>> ELSE <<>>
  <1>1. Word \in Key
    BY DEF Word, Key
  <1>2. l.foreground \in BOOLEAN
    BY DEF Listener
  <1>3. up \in Seq(Key) /\ Len(up) = Offset(l) /\ Offset(l) \in Nat /\ \A i \in 1..Len(up) : up[i] = Word
    BY <1>1, <1>2 DEF Offset
  <1> HIDE DEF up
  <1>4. /\ up \o path \in Seq(Key) /\ Len(up \o path) = Len(up) + Len(path)
        /\ \A i \in 1..(Len(up) + Len(path)) : (up \o path)[i] = IF i <= Len(up) THEN up[i] ELSE path[i - Len(up)]
    BY <1>3, ConcatProperties
  <1>5. QED
    <2>1. Len(path) \in Nat
      OBVIOUS
    <2>2. \A i \in 1..(Len(up) + Len(path)) : i <= Len(up) => i \in 1..Len(up)
      BY <1>3, <2>1
    <2>3. QED
      BY <1>3, <1>4, <2>2 DEF up

\* The paths of a TCP entry in the document, level by level.
LEMMA TCPKeys ==
  ASSUME NEW l \in Listener
  PROVE  TCPLeaf(l, Leaf((IF l.foreground THEN <<Word, Word>> ELSE <<>>) \o <<Word, Names(l.port), Word>>, 0, TRUE))
  <1> DEFINE path == <<Word, Names(l.port), Word>>
             q == (IF l.foreground THEN <<Word, Word>> ELSE <<>>) \o path
  <1>1. path \in Seq(Key) /\ Len(path) = 3 /\ path[1] = Word /\ path[2] = Names(l.port) /\ path[3] = Word
    BY DEF Word, Names, Key, Listener
  <1> HIDE DEF path
  <1>2. /\ q \in Seq(Key) /\ Len(q) = Offset(l) + 3 /\ Offset(l) \in Nat
        /\ \A i \in 1..Len(q) : q[i] = IF i <= Offset(l) THEN Word ELSE path[i - Offset(l)]
    BY <1>1, UnderKeys DEF Offset
  <1> HIDE DEF q
  <1>3. \A i \in 1..Len(q) : q[i] = IF i = Offset(l) + 2 THEN Names(l.port) ELSE Word
    <2> TAKE i \in 1..Len(q)
    <2>1. CASE i <= Offset(l)
      BY <1>2, <2>1
    <2>2. CASE ~(i <= Offset(l))
      <3>1. i - Offset(l) \in {1, 2, 3} /\ q[i] = path[i - Offset(l)]
        BY <1>2, <2>2
      <3>2. QED
        BY <1>1, <1>2, <2>2, <3>1
    <2>3. QED
      BY <2>1, <2>2
  <1>4. TCPLeaf(l, Leaf(q, 0, TRUE))
    BY <1>2, <1>3 DEF TCPLeaf, Leaf
  <1>5. QED
    BY <1>4 DEF q, path

\* The paths of a Web entry in the document, level by level.
LEMMA WebKeys ==
  ASSUME NEW c, IsConfig(c), NEW l \in Listener
  PROVE  WebLeaf(c, l, Leaf((IF l.foreground THEN <<Word, Word>> ELSE <<>>)
                              \o <<Word, Host(c, l), Word, Word, Word>>, l.proxy, TRUE))
  <1> DEFINE path == <<Word, Host(c, l), Word, Word, Word>>
             q == (IF l.foreground THEN <<Word, Word>> ELSE <<>>) \o path
  <1>1. Word \in Key /\ Host(c, l) \in Key
    BY DEF Word, Host, Key, Listener, IsConfig
  <1>2. /\ path \in Seq(Key) /\ Len(path) = 5 /\ path[1] = Word /\ path[2] = Host(c, l) /\ path[3] = Word
        /\ path[4] = Word /\ path[5] = Word
    BY <1>1
  <1> HIDE DEF path
  <1>3. /\ q \in Seq(Key) /\ Len(q) = Offset(l) + 5 /\ Offset(l) \in Nat
        /\ \A i \in 1..Len(q) : q[i] = IF i <= Offset(l) THEN Word ELSE path[i - Offset(l)]
    BY <1>2, UnderKeys DEF Offset
  <1> HIDE DEF q
  <1>4. \A i \in 1..Len(q) : q[i] = IF i = Offset(l) + 2 THEN Host(c, l) ELSE Word
    BY <1>2, <1>3
  <1>5. WebLeaf(c, l, Leaf(q, l.proxy, TRUE))
    BY <1>3, <1>4 DEF WebLeaf, Leaf
  <1>6. QED
    BY <1>5 DEF q, path

\* The paths of an AllowFunnel entry in the document, level by level.
LEMMA FunnelKeys ==
  ASSUME NEW c, IsConfig(c), NEW l \in Listener
  PROVE  FunnelLeaf(c, l, Leaf((IF l.foreground THEN <<Word, Word>> ELSE <<>>) \o <<FunnelWord, Host(c, l)>>, 0,
                               l.funnel = "on"))
  <1> DEFINE path == <<FunnelWord, Host(c, l)>>
             q == (IF l.foreground THEN <<Word, Word>> ELSE <<>>) \o path
  <1>1. FunnelWord \in Key /\ Host(c, l) \in Key
    BY DEF FunnelWord, Host, Key, Listener, IsConfig
  <1>2. path \in Seq(Key) /\ Len(path) = 2 /\ path[1] = FunnelWord /\ path[2] = Host(c, l)
    BY <1>1
  <1> HIDE DEF path
  <1>3. /\ q \in Seq(Key) /\ Len(q) = Offset(l) + 2 /\ Offset(l) \in Nat
        /\ \A i \in 1..Len(q) : q[i] = IF i <= Offset(l) THEN Word ELSE path[i - Offset(l)]
    BY <1>2, UnderKeys DEF Offset
  <1> HIDE DEF q
  <1>4. \A i \in 1..Len(q) : q[i] = IF i = Offset(l) + 2 THEN Host(c, l)
                                    ELSE IF i = Offset(l) + 1 THEN FunnelWord ELSE Word
    BY <1>2, <1>3
  <1>5. FunnelLeaf(c, l, Leaf(q, 0, l.funnel = "on"))
    BY <1>3, <1>4 DEF FunnelLeaf, Leaf
  <1>6. QED
    BY <1>5 DEF q, path

\* The leaves of a document are these, and no others.
LEMMA DocumentLeaves ==
  ASSUME NEW c, IsConfig(c)
  PROVE  /\ \A m \in Document(c) : \E l \in c.listeners : TCPLeaf(l, m) \/ WebLeaf(c, l, m) \/ FunnelLeaf(c, l, m)
         /\ \A l \in c.listeners : \E m \in Document(c) : TCPLeaf(l, m)
         /\ \A l \in c.listeners : l.funnel = "on" => \E m \in Document(c) : FunnelLeaf(c, l, m)
  <1> DEFINE U(l, path) == (IF l.foreground THEN <<Word, Word>> ELSE <<>>) \o path
             T(l) == Leaf(U(l, <<Word, Names(l.port), Word>>), 0, TRUE)
             W(l) == Leaf(U(l, <<Word, Host(c, l), Word, Word, Word>>), l.proxy, TRUE)
             F(l) == Leaf(U(l, <<FunnelWord, Host(c, l)>>), 0, l.funnel = "on")
  <1>1. \A l : Entries(l, c.hostSaysFunnel) = {T(l), W(l)} \cup {F(l) : x \in {l.funnel} \ {"absent"}}
    BY DEF Entries, Host
  <1>2. \A l \in c.listeners : TCPLeaf(l, T(l)) /\ WebLeaf(c, l, W(l)) /\ FunnelLeaf(c, l, F(l))
    BY TCPKeys, WebKeys, FunnelKeys DEF IsConfig
  <1> HIDE DEF T, W, F
  <1>3. \A m \in Document(c) : \E l \in c.listeners : m \in Entries(l, c.hostSaysFunnel)
    BY DEF Document
  <1>4. \A l \in c.listeners : Entries(l, c.hostSaysFunnel) \subseteq Document(c)
    BY DEF Document
  <1>5. \A l : l.funnel = "on" => F(l) \in {F(l) : x \in {l.funnel} \ {"absent"}}
    OBVIOUS
  <1>6. QED
    BY <1>1, <1>2, <1>3, <1>4, <1>5

\* A leaf is below its k-th key on the way to another if the keys agree that far.
LEMMA BelowKeys ==
  ASSUME NEW tree, NEW l \in tree, NEW m \in tree, l.path \in Seq(Key), m.path \in Seq(Key),
         NEW k \in 1..Len(l.path)
  PROVE  m \in Below(tree, l, k) <=> k <= Len(m.path) /\ \A i \in 1..k : m.path[i] = l.path[i]
  <1> DEFINE s == l.path
             t == m.path
             p == SubSeq(s, 1, k)
  <1>1. s \in Seq(Key) /\ t \in Seq(Key) /\ Len(s) \in Nat /\ Len(t) \in Nat /\ k \in Int /\ k >= 1
    BY LenProperties
  <1>2. m \in Below(tree, l, k) <=> IsPrefix(p, t)
    BY DEF Below
  <1> HIDE DEF s, t
  <1>3. p \in Seq(Key) /\ Len(p) = k /\ \A i \in 1..k : p[i] = s[i]
    <2>1. \A i \in 1..k : s[i] \in Key
      BY <1>1, ElementOfSeq DEF s
    <2>2. /\ p \in Seq(Key) /\ Len(p) = IF 1 <= k THEN k - 1 + 1 ELSE 0
          /\ \A i \in 1..(k - 1 + 1) : p[i] = s[1 + i - 1]
      BY <1>1, <2>1, SubSeqProperties
    <2>3. QED
      BY <1>1, <2>2
  <1> HIDE DEF p
  <1>4. IsPrefix(p, t) <=> k <= Len(t) /\ \A i \in 1..k : p[i] = t[i]
    <2>1. p \in Seq(Key) /\ t \in Seq(Key)
      BY <1>1, <1>3
    <2>2. IsPrefix(p, t) <=> Len(p) <= Len(t) /\ \A i \in 1..Len(p) : p[i] = t[i]
      BY <2>1, PrefixIs
    <2>3. QED
      BY <1>3, <2>2
  <1>5. QED
    BY <1>2, <1>3, <1>4 DEF s, t

\* A listener on the port is found, whatever else the document says.
LEMMA ListenerIsFound ==
  ASSUME NEW c, IsConfig(c), NEW port \in Nat \ {0}, Listens(c, port)
  PROVE  containsPort(Document(c), port)
  <1>1. PICK l \in c.listeners : l.port = port
    BY DEF Listens
  <1>2. PICK m \in Document(c) : TCPLeaf(l, m)
    BY DocumentLeaves
  <1>3. Offset(l) + 2 \in DOMAIN m.path /\ m.path[Offset(l) + 2].port = port
    BY <1>1, <1>2 DEF TCPLeaf, Offset, Names
  <1>4. QED
    BY <1>2, <1>3 DEF containsPort

\* What is found is the listener, or the target of one.
LEMMA FoundListens ==
  ASSUME NEW c, IsConfig(c), NEW port \in Nat \ {0}, containsPort(Document(c), port)
  PROVE  Listens(c, port) \/ ForwardedTo(c, port)
  <1>1. PICK m \in Document(c) : m.port = port \/ \E k \in DOMAIN m.path : m.path[k].port = port
    BY DEF containsPort
  <1>2. PICK l \in c.listeners : TCPLeaf(l, m) \/ WebLeaf(c, l, m) \/ FunnelLeaf(c, l, m)
    BY DocumentLeaves
  <1>3. DOMAIN m.path = 1..Len(m.path)
    BY <1>2, LenProperties DEF TCPLeaf, WebLeaf, FunnelLeaf
  <1>4. CASE m.port = port
    <2>1. l.proxy = port
      BY <1>2, <1>4 DEF TCPLeaf, WebLeaf, FunnelLeaf
    <2>2. QED
      BY <2>1 DEF ForwardedTo
  <1>5. CASE \E k \in DOMAIN m.path : m.path[k].port = port
    <2>1. PICK k \in 1..Len(m.path) : m.path[k].port = port
      BY <1>3, <1>5
    <2>2. m.path[k] \in {Names(l.port), Host(c, l), Word, FunnelWord}
      BY <1>2, <2>1 DEF TCPLeaf, WebLeaf, FunnelLeaf
    <2>3. /\ Names(l.port).port = l.port /\ Host(c, l).port = l.port
          /\ Word.port = 0 /\ FunnelWord.port = 0
      BY DEF Names, Host, Word, FunnelWord
    <2>4. l.port = port
      BY <2>1, <2>2, <2>3
    <2>5. QED
      BY <2>4 DEF Listens
  <1>6. QED
    BY <1>1, <1>4, <1>5

\* A public listener on the port is found to be public.
LEMMA PublicIsFound ==
  ASSUME NEW c, IsConfig(c), NEW port \in Nat \ {0}, Public(c, port)
  PROVE  containsEnabledFunnelPort(Document(c), port)
  <1>1. PICK l \in c.listeners : l.port = port /\ l.funnel = "on"
    BY DEF Public
  <1>2. PICK m \in Document(c) : FunnelLeaf(c, l, m)
    BY <1>1, DocumentLeaves
  <1> DEFINE k == Offset(l) + 2
  <1>3. /\ Offset(l) \in Nat /\ Len(m.path) = k /\ m.path \in Seq(Key) /\ m.truthy
        /\ k \in DOMAIN m.path /\ m.path[k].port = port
    BY <1>1, <1>2 DEF FunnelLeaf, Offset, Host
  <1>4. Offset(l) + 1 \in 1..k /\ m.path[Offset(l) + 1].funnel
    BY <1>2, <1>3 DEF FunnelLeaf, FunnelWord
  <1>5. k \in 1..Len(m.path)
    BY <1>3
  <1> HIDE DEF k
  <1>6. m \in Below(Document(c), m, k)
    BY <1>3, <1>5, BelowKeys
  <1>7. QED
    BY <1>3, <1>4, <1>6 DEF containsEnabledFunnelPort, truthy

\* A key that mentions funnel, when no host does, is AllowFunnel.
LEMMA FunnelKey ==
  ASSUME NEW c, IsConfig(c), ~c.hostSaysFunnel, NEW m \in Document(c), NEW j \in 1..Len(m.path),
         m.path[j].funnel
  PROVE  \E l \in c.listeners : FunnelLeaf(c, l, m) /\ j = Offset(l) + 1
  <1>1. PICK l \in c.listeners : TCPLeaf(l, m) \/ WebLeaf(c, l, m) \/ FunnelLeaf(c, l, m)
    BY DocumentLeaves
  <1>2. ~Word.funnel /\ ~Names(l.port).funnel /\ ~Host(c, l).funnel
    BY DEF Word, Names, Host
  <1>3. ~TCPLeaf(l, m)
    BY <1>2 DEF TCPLeaf
  <1>4. ~WebLeaf(c, l, m)
    BY <1>2 DEF WebLeaf
  <1>5. FunnelLeaf(c, l, m) => j = Offset(l) + 1
    BY <1>2 DEF FunnelLeaf
  <1>6. QED
    BY <1>1, <1>3, <1>4, <1>5

\* What is found to be public is enabled somewhere below a key that mentions
\* funnel, and is public, unless the name of a host mentions funnel.
LEMMA FoundIsPublic ==
  ASSUME NEW c, IsConfig(c), NEW port \in Nat \ {0}, containsEnabledFunnelPort(Document(c), port)
  PROVE  containsEnabledFunnel(Document(c)) /\ (Public(c, port) \/ c.hostSaysFunnel)
  <1> DEFINE tree == Document(c)
  <1>1. PICK m \in tree : \E k \in DOMAIN m.path :
          /\ \E j \in 1..k : m.path[j].funnel
          /\ m.port = port \/ (m.path[k].port = port /\ truthy(Below(tree, m, k)))
    BY DEF containsEnabledFunnelPort
  <1>2. \A n \in tree : n.path \in Seq(Key)
    BY DocumentLeaves DEF TCPLeaf, WebLeaf, FunnelLeaf
  <1>3. Len(m.path) \in Nat /\ DOMAIN m.path = 1..Len(m.path)
    BY <1>2, LenProperties
  <1>4. PICK k \in 1..Len(m.path) :
          /\ \E j \in 1..k : m.path[j].funnel
          /\ m.port = port \/ (m.path[k].port = port /\ truthy(Below(tree, m, k)))
    BY <1>1, <1>3
  <1>5. PICK j \in 1..k : m.path[j].funnel
    BY <1>4
  <1>6. j \in 1..Len(m.path)
    BY <1>3
  <1>7. \E n \in tree : n.truthy /\ n \in Below(tree, m, j)
    <2>1. CASE m.port = port
      <3>1. m.truthy
        BY <2>1, DocumentLeaves DEF TCPLeaf, WebLeaf, FunnelLeaf
      <3>2. m \in Below(tree, m, j)
        BY <1>2, <1>3, <1>6, BelowKeys
      <3>3. QED
        BY <3>1, <3>2
    <2>2. CASE truthy(Below(tree, m, k))
      <3>1. PICK n \in tree : n.truthy /\ n \in Below(tree, m, k)
        BY <2>2 DEF truthy, Below
      <3>2. k <= Len(n.path) /\ \A i \in 1..k : n.path[i] = m.path[i]
        BY <1>2, <3>1, BelowKeys
      <3>3. Len(n.path) \in Nat
        BY <1>2, LenProperties
      <3>4. j <= Len(n.path) /\ \A i \in 1..j : n.path[i] = m.path[i]
        BY <1>3, <3>2, <3>3
      <3>5. n \in Below(tree, m, j)
        BY <1>2, <1>6, <3>4, BelowKeys
      <3>6. QED
        BY <3>1, <3>5
    <2>3. QED
      BY <1>4, <2>1, <2>2
  <1>8. containsEnabledFunnel(tree)
    BY <1>3, <1>5, <1>6, <1>7 DEF containsEnabledFunnel, truthy
  <1>9. ASSUME ~c.hostSaysFunnel
        PROVE  Public(c, port)
    <2>1. PICK l \in c.listeners : FunnelLeaf(c, l, m) /\ j = Offset(l) + 1
      BY <1>5, <1>6, <1>9, FunnelKey
    <2>2. Offset(l) \in Nat /\ Word.port = 0 /\ FunnelWord.port = 0 /\ Host(c, l).port = l.port
      BY DEF Offset, Word, FunnelWord, Host
    <2>3. m.path[k].port = port /\ truthy(Below(tree, m, k))
      BY <1>4, <2>1 DEF FunnelLeaf
    <2>4. k = Offset(l) + 2 /\ l.port = port
      BY <2>1, <2>2, <2>3 DEF FunnelLeaf
    <2>5. PICK n \in tree : n.truthy /\ n \in Below(tree, m, k)
      BY <2>3 DEF truthy, Below
    <2>6. Len(n.path) \in Nat /\ k <= Len(n.path) /\ \A i \in 1..k : n.path[i] = m.path[i]
      BY <1>2, <2>5, BelowKeys, LenProperties
    <2>7. j \in 1..Len(n.path) /\ n.path[j].funnel
      BY <1>3, <1>5, <2>6
    <2>8. PICK x \in c.listeners : FunnelLeaf(c, x, n) /\ j = Offset(x) + 1
      BY <1>9, <2>7, FunnelKey
    <2>9. k = Offset(x) + 2 /\ Host(c, x).port = x.port
      BY <2>1, <2>4, <2>8 DEF Offset, Host
    <2>10. x.port = port
      BY <2>3, <2>6, <2>8, <2>9 DEF FunnelLeaf
    <2>11. x.funnel = "on"
      BY <2>5, <2>8 DEF FunnelLeaf
    <2>12. QED
      BY <2>10, <2>11 DEF Public
  <1>10. QED
    BY <1>8, <1>9 DEF IsConfig
-----------------------------------------------------------------------------
(* The inductive invariant.                                                *)

\* A gate still to be passed has given no verdict, and not every path passed.
Open == gate # "done" => verdict = "none" /\ Len(passed) < Paths

\* healthy is about all the checks of this pass, not only the last one.
Judged ==
  gate = "health" => (healthy <=> \A i \in DOMAIN results : results[i] \/ ~checks[i].required)

\* TypeOK in two parts: the health checker and what was read, the verifier.
PassTypes ==
  /\ check \in 1..(Len(checks) + 1) /\ results \in Seq(BOOLEAN) /\ Len(results) = check - 1
  /\ healthy \in BOOLEAN
  /\ seen = Unread \/ seen \in {Read(c) : c \in Configs}
AttemptTypes ==
  /\ gate \in {"health", "status", "listener", "funnel", "verify", "done"} /\ late \in BOOLEAN
  /\ trail \in Seq(Targets) /\ passed \in Seq(Seq(Targets)) /\ last \in Statuses \cup {"none"}
  /\ Len(passed) <= Paths /\ (verdict = "ok" <=> Len(passed) = Paths)

IInv == TypeOK /\ Open /\ Judged /\ StaysHome /\ FatalIsFinal

\* The types of the variables in their two parts, and how a step that leaves one part alone keeps them.
LEMMA TypesOf ==
  ASSUME TypeOK
  PROVE  /\ request \in Requests /\ once \in BOOLEAN /\ PassTypes /\ AttemptTypes
         /\ UNCHANGED <<request, once>> /\ PassTypes' /\ AttemptTypes' => TypeOK'
         /\ UNCHANGED <<request, once, pass, seen>> => PassTypes'
  <1>1. request \in Requests /\ once \in BOOLEAN /\ PassTypes /\ AttemptTypes
    BY DEF TypeOK, PassTypes, AttemptTypes
  <1>2. UNCHANGED <<request, once>> /\ PassTypes' /\ AttemptTypes' => TypeOK'
    BY <1>1 DEF TypeOK, PassTypes, AttemptTypes
  <1>3. UNCHANGED <<request, once, pass, seen>> => PassTypes'
    BY <1>1 DEF PassTypes, pass, checks
  <1>4. QED
    BY <1>1, <1>2, <1>3

\* Counting the checks of a pass gives a number.
LEMMA CountType ==
  ASSUME request \in Requests
  PROVE  Len(checks) \in Nat \ {0}
  BY ChecksType DEF checks

\* Every request starts with nothing decided.
LEMMA InitIInv == Init => IInv
  <1> SUFFICES ASSUME Init PROVE IInv
    OBVIOUS
  <1>1. Len(checks) \in Nat \ {0}
    BY CountType DEF Init
  <1>2. TypeOK
    <2>1. results = <<>> /\ trail = <<>> /\ passed = <<>>
      BY DEF Init
    <2>2. results \in Seq(BOOLEAN) /\ Len(results) = 0
      BY <2>1
    <2>3. trail \in Seq(Targets) /\ passed \in Seq(Seq(Targets)) /\ Len(passed) = 0
      BY <2>1
    <2>4. healthy \in BOOLEAN /\ late \in BOOLEAN /\ once \in BOOLEAN
      BY DEF Init
    <2>5. gate \in {"health", "status", "listener", "funnel", "verify", "done"}
      BY DEF Init
    <2>6. check = 1 /\ seen = Unread /\ last = "none" /\ verdict = "none" /\ request \in Requests
      BY DEF Init
    <2>7. QED
      BY <1>1, <2>2, <2>3, <2>4, <2>5, <2>6 DEF TypeOK
  <1>3. Open /\ FatalIsFinal
    BY DEF Init, Open, FatalIsFinal
  <1>4. Judged
    BY DEF Init, Judged
  <1>5. StaysHome
    BY DEF Init, StaysHome
  <1>6. QED
    BY <1>2, <1>3, <1>4, <1>5 DEF IInv

\* Ending with a verdict that is not "ok" keeps the invariant.
LEMMA FinishIInv ==
  ASSUME IInv, NEW result, Finish(result), result # "ok", gate # "done",
         UNCHANGED <<request, once>>, PassTypes', last' \in Statuses \cup {"none"}
  PROVE  IInv'
  <1>1. TypeOK
    BY DEF IInv
  <1>2. verdict = "none" /\ Len(passed) < Paths /\ Len(passed) # Paths
    BY <1>1, TypesOf DEF IInv, Open, AttemptTypes
  <1>3. gate' = "done" /\ verdict' # "ok" /\ late' = late /\ trail' = trail /\ passed' = passed
    BY DEF Finish
  <1>4. AttemptTypes'
    BY <1>1, <1>2, <1>3, TypesOf DEF AttemptTypes
  <1>5. (Open /\ Judged /\ StaysHome /\ FatalIsFinal)'
    BY <1>3 DEF IInv, Open, Judged, StaysHome, FatalIsFinal
  <1>6. QED
    BY <1>1, <1>4, <1>5, TypesOf DEF IInv

\* So does a step that gives no verdict and verifies no path.
LEMMA OpenIInv ==
  ASSUME IInv, gate # "done", UNCHANGED <<request, once, passed, verdict>>,
         gate' \in {"health", "status", "listener", "funnel", "verify"}, late' \in BOOLEAN,
         PassTypes', Judged', trail' \in Seq(Targets), StaysHome',
         last' \in (Statuses \ {"forbidden", "client", "stuck"}) \cup {"none"}
  PROVE  IInv'
  <1>1. TypeOK
    BY DEF IInv
  <1>2. AttemptTypes'
    BY <1>1, TypesOf DEF AttemptTypes
  <1>3. Open' /\ FatalIsFinal'
    BY DEF IInv, Open, FatalIsFinal
  <1>4. QED
    BY <1>1, <1>2, <1>3, TypesOf DEF IInv

\* Until the gates are passed, nothing fatal was seen.
LEMMA NotFatal ==
  ASSUME IInv, gate # "done"
  PROVE  /\ last \in (Statuses \ {"forbidden", "client", "stuck"}) \cup {"none"}
         /\ trail \in Seq(Targets) /\ StaysHome /\ (UNCHANGED trail => StaysHome')
         /\ late \in BOOLEAN /\ passed \in Seq(Seq(Targets)) /\ Len(passed) < Paths /\ verdict = "none"
  <1>1. AttemptTypes
    BY TypesOf DEF IInv
  <1>2. QED
    BY <1>1 DEF IInv, AttemptTypes, FatalIsFinal, StaysHome, Open

\* One probe of the health checks (CheckOnce) adds one result to the pass.
LEMMA ProbeIInv ==
  ASSUME IInv, NEW ok \in BOOLEAN, ProbeHealth(ok)
  PROVE  IInv'
  <1>1. Len(checks) \in Nat /\ check \in 1..Len(checks) /\ results \in Seq(BOOLEAN)
        /\ Len(results) = check - 1
    BY CountType DEF IInv, TypeOK, ProbeHealth
  <1>2. results' = Append(results, ok)
    BY DEF ProbeHealth
  <1>3. results' \in Seq(BOOLEAN) /\ Len(results') = check' - 1 /\ check' \in 1..(Len(checks) + 1)
    BY <1>1, <1>2 DEF ProbeHealth
  <1>4. DOMAIN results = 1..(check - 1) /\ DOMAIN results' = 1..check
        /\ results'[check] = ok /\ \A i \in 1..(check - 1) : results'[i] = results[i]
    BY <1>1, <1>2
  <1>5. checks' = checks
    BY DEF ProbeHealth, checks
  <1>6. PassTypes'
    BY <1>3, <1>5 DEF ProbeHealth, IInv, TypeOK, PassTypes
  <1>7. Judged'
    <2>1. healthy' <=> healthy /\ (ok \/ ~checks[check].required)
      BY DEF ProbeHealth
    <2>2. healthy <=> \A i \in 1..(check - 1) : results[i] \/ ~checks[i].required
      BY <1>4 DEF IInv, Judged, ProbeHealth
    <2>3. 1..check = (1..(check - 1)) \cup {check}
      BY <1>1
    <2>4. healthy' <=> \A i \in 1..check : results'[i] \/ ~checks[i].required
      BY <1>4, <2>1, <2>2, <2>3
    <2>5. QED
      BY <1>4, <1>5, <2>4 DEF Judged
  <1>8. QED
    BY <1>6, <1>7, NotFatal, OpenIInv DEF ProbeHealth, attempt

\* The end of a pass: it opens the gate, fails, or starts the next one.
LEMMA EndPassIInv ==
  ASSUME IInv, EndPass
  PROVE  IInv'
  <1>1. PassTypes' /\ Judged'
    <2>1. Len(checks) \in Nat /\ Len(checks') \in Nat
      BY CountType DEF IInv, TypeOK, EndPass, checks
    <2>2. check' = 1 /\ results' = <<>> /\ healthy' = TRUE /\ seen' = seen
      BY DEF EndPass
    <2>3. QED
      BY <2>1, <2>2 DEF PassTypes, Judged, IInv, TypeOK
  <1>2. gate # "done" /\ UNCHANGED <<request, once, last>> /\ gate = "health"
    BY DEF EndPass
  <1>3. \/ gate' \in {"health", "status", "verify"} /\ late' \in BOOLEAN /\ UNCHANGED <<trail, passed, verdict>>
        \/ Finish("health_failed")
    BY <1>2, NotFatal DEF EndPass
  <1>4. QED
    BY <1>1, <1>2, <1>3, NotFatal, OpenIInv, FinishIInv

\* One of the calls check makes to Tailscale (service.go:291).
LEMMA TailscaleIInv ==
  ASSUME IInv, Status \/ serveStatus \/ PortAvailable \/ FunnelEnabledOnPort
  PROVE  IInv'
  <1>1. gate \in {"status", "listener", "funnel"} /\ gate # "done" /\ UNCHANGED <<request, once, pass, last>>
    BY DEF Status, serveStatus, PortAvailable, FunnelEnabledOnPort
  <1>2. seen' = Unread \/ seen' \in {Read(c) : c \in Configs}
    BY DEF IInv, TypeOK, Status, serveStatus, PortAvailable, FunnelEnabledOnPort
  <1>3. PassTypes'
    BY <1>1, <1>2 DEF IInv, TypeOK, PassTypes, pass, checks
  <1>4. \/ gate' \in {"status", "listener", "funnel", "verify"} /\ late' \in BOOLEAN
           /\ UNCHANGED <<trail, passed, verdict>>
        \/ \E why \in {"tailscale_unavailable", "tailnet_hostname_changed", "error",
                        "serve_listener_missing", "public_endpoint_detected"} : Finish(why)
    BY DEF IInv, TypeOK, Status, serveStatus, PortAvailable, FunnelEnabledOnPort
  <1>5. Judged' \/ gate' = "health"
    BY DEF Judged
  <1>6. gate' # "health"
    BY <1>4 DEF Finish
  <1>7. QED
    BY <1>1, <1>3, <1>4, <1>5, <1>6, NotFatal, OpenIInv, FinishIInv

\* A redirect is followed home, without credentials and below the limit only.
LEMMA RedirectedIInv ==
  ASSUME IInv, NEW t \in Targets, Redirected(t), UNCHANGED <<request, once, pass, seen>>
  PROVE  IInv'
  <1>1. PassTypes' /\ gate = "verify" /\ gate # "done" /\ last' = last
    BY TypesOf DEF IInv, Redirected
  <1>2. CASE Refusal(t) = "none" /\ trail' = Append(trail, t) /\ UNCHANGED <<gate, late, passed, verdict>>
    <2>1. trail \in Seq(Targets) /\ Len(trail) \in Nat /\ StaysHome
      BY <1>1, NotFatal
    <2>2. ~(Len(trail) + 1 >= MaxRedirects) /\ t.home /\ ~t.creds
      BY <1>2 DEF Refusal
    <2>3. trail' \in Seq(Targets) /\ Len(trail') = Len(trail) + 1
          /\ \A k \in 1..Len(trail') : trail'[k] = IF k = Len(trail) + 1 THEN t ELSE trail[k]
      BY <1>2, <2>1
    <2>4. StaysHome'
      BY <2>1, <2>2, <2>3 DEF StaysHome
    <2>5. Judged'
      BY <1>1, <1>2 DEF Judged
    <2>6. QED
      BY <1>1, <1>2, <2>3, <2>4, <2>5, NotFatal, OpenIInv
  <1>3. CASE Refusal(t) # "none" /\ Finish(Refusal(t))
    <2>1. Refusal(t) # "ok"
      BY DEF Refusal
    <2>2. last' \in Statuses \cup {"none"}
      BY <1>1, NotFatal
    <2>3. QED
      BY <1>1, <1>3, <2>1, <2>2, FinishIInv
  <1>4. QED
    BY <1>2, <1>3 DEF Redirected

\* A path of the verification is answered, and passed.
LEMMA PassIInv ==
  ASSUME IInv, Pass, gate = "verify", UNCHANGED <<request, once, pass, seen>>
  PROVE  IInv'
  <1>1. passed \in Seq(Seq(Targets)) /\ trail \in Seq(Targets) /\ Len(passed) < Paths /\ Paths \in Nat
        /\ verdict = "none"
    BY NotFatal
  <1>2. passed' \in Seq(Seq(Targets)) /\ Len(passed') = Len(passed) + 1
        /\ trail' \in Seq(Targets) /\ Len(trail') = 0 /\ late' = FALSE /\ last' = "none"
    BY <1>1 DEF Pass
  <1>3. \/ Len(passed') = Paths /\ gate' = "done" /\ verdict' = "ok"
        \/ Len(passed') < Paths /\ gate' = "verify" /\ verdict' = "none"
    BY <1>1, <1>2 DEF Pass
  <1>4. TypeOK'
    <2>1. Len(passed') \in Nat /\ Len(passed') <= Paths /\ (verdict' = "ok" <=> Len(passed') = Paths)
      BY <1>1, <1>2, <1>3
    <2>2. gate' \in {"health", "status", "listener", "funnel", "verify", "done"}
      BY <1>3
    <2>3. AttemptTypes'
      BY <1>2, <2>1, <2>2 DEF AttemptTypes
    <2>4. QED
      BY <2>3, TypesOf DEF IInv
  <1>5. (Open /\ Judged /\ FatalIsFinal)'
    BY <1>2, <1>3 DEF Open, Judged, FatalIsFinal
  <1>6. StaysHome'
    BY <1>2 DEF StaysHome
  <1>7. QED
    BY <1>4, <1>5, <1>6 DEF IInv

\* An exchange that is tried again, the deadline permitting.
LEMMA RetryIInv ==
  ASSUME IInv, NEW status \in {"missed", "server", "none"} \cup {last}, Retry(status), gate = "verify",
         UNCHANGED <<request, once, pass, seen>>
  PROVE  IInv'
  <1>1. PassTypes' /\ gate # "done"
    BY TypesOf DEF IInv
  <1>2. last' \in (Statuses \ {"forbidden", "client", "stuck"}) \cup {"none"}
    BY <1>1, NotFatal DEF Retry, Statuses
  <1>3. CASE late /\ Finish(IF status = "none" THEN "external_unreachable" ELSE "unexpected_http_status")
    <2>1. Finish("external_unreachable") \/ Finish("unexpected_http_status")
      BY <1>3
    <2>2. QED
      BY <1>1, <1>2, <2>1, FinishIInv
  <1>4. CASE ~late /\ Again
    <2>1. trail' \in Seq(Targets) /\ Len(trail') = 0
      BY <1>4 DEF Again
    <2>2. StaysHome' /\ Judged'
      BY <1>4, <2>1 DEF StaysHome, Judged, Again
    <2>3. QED
      BY <1>1, <1>2, <1>4, <2>1, <2>2, NotFatal, OpenIInv DEF Again
  <1>5. QED
    BY <1>3, <1>4 DEF Retry

\* An exchange of the verification, whatever its answer.
LEMMA VerificationIInv ==
  ASSUME IInv, Verification
  PROVE  IInv'
  <1>1. UNCHANGED <<request, once, pass, seen>>
    BY DEF Verification
  <1>2. CASE \E t \in Targets : Redirected(t)
    BY <1>1, <1>2, RedirectedIInv
  <1>3. ASSUME NEW status \in Statuses, Answered(status)
        PROVE  IInv'
    <2>1. gate = "verify"
      BY <1>3 DEF Answered
    <2>2. CASE status = "inRange" /\ Pass
      BY <1>1, <2>1, <2>2, PassIInv
    <2>3. CASE status \in {"missed", "server"} /\ Retry(status)
      BY <1>1, <2>1, <2>3, RetryIInv
    <2>4. CASE last' = status /\ \E why \in {"external_forbidden", "unexpected_http_status", "invalid_redirect"} :
                                   Finish(why)
      <3>1. PassTypes' /\ last' \in Statuses \cup {"none"}
        BY <1>1, <1>3, <2>4, TypesOf DEF IInv
      <3>2. QED
        BY <1>1, <2>1, <2>4, <3>1, FinishIInv
    <2>5. QED
      BY <1>3, <2>2, <2>3, <2>4 DEF Answered
  <1>4. CASE Unreachable
    BY <1>1, <1>4, RetryIInv DEF Unreachable
  <1>5. QED
    BY <1>2, <1>3, <1>4 DEF Verification

\* Time passes: the deadline of the step in hand is over.
LEMMA DeadlineIInv ==
  ASSUME IInv, DeadlinePasses
  PROVE  IInv'
  <1>1. PassTypes'
    BY TypesOf DEF IInv, DeadlinePasses
  <1>2. Judged'
    BY DEF IInv, Judged, DeadlinePasses, pass, checks
  <1>3. QED
    BY <1>1, <1>2, NotFatal, OpenIInv DEF DeadlinePasses, IInv, TypeOK

\* Nothing happens.
LEMMA StutterIInv ==
  ASSUME IInv, UNCHANGED vars
  PROVE  IInv'
  <1>1. TypeOK' /\ Judged'
    BY DEF IInv, TypeOK, Judged, vars, checks
  <1>2. Open' /\ StaysHome' /\ FatalIsFinal'
    BY DEF IInv, Open, StaysHome, FatalIsFinal, vars
  <1>3. QED
    BY <1>1, <1>2 DEF IInv

\* The invariant is inductive: one lemma above per kind of step.
LEMMA NextIInv == IInv /\ [Next]_vars => IInv'
  <1> SUFFICES ASSUME IInv, [Next]_vars PROVE IInv'
    OBVIOUS
  <1>1. CASE \E ok \in BOOLEAN : ProbeHealth(ok)
    BY <1>1, ProbeIInv
  <1>2. CASE EndPass
    BY <1>2, EndPassIInv
  <1>3. CASE Status \/ serveStatus \/ PortAvailable \/ FunnelEnabledOnPort
    BY <1>3, TailscaleIInv
  <1>4. CASE Verification
    BY <1>4, VerificationIInv
  <1>5. CASE DeadlinePasses
    BY <1>5, DeadlineIInv
  <1>6. CASE Done \/ UNCHANGED vars
    BY <1>6, StutterIInv DEF Done
  <1>7. QED
    BY <1>1, <1>2, <1>3, <1>4, <1>5, <1>6 DEF Next, Exchange
-----------------------------------------------------------------------------
(* The theorems.                                                           *)

\* The gates are passed in order, every check of a pass has one result, and the
\* verdict is "ok" exactly when every path has passed: the inductive invariant.
THEOREM Inductive == Spec => []IInv
  BY InitIInv, NextIInv, PTL DEF Spec

\* The type invariant, with what it says of the results and the verdict.
THEOREM TypeCorrect == Spec => []TypeOK
  BY Inductive, PTL DEF IInv

\* The redirect policy of the verifier: whatever the application answers, no
\* request leaves the verified origin, carries credentials or exceeds the limit.
THEOREM RequestsStayHome == Spec => []StaysHome
  BY Inductive, PTL DEF IInv

\* A client error or a broken redirect is never retried or forgotten.
THEOREM FatalErrorsEnd == Spec => []FatalIsFinal
  BY Inductive, PTL DEF IInv

\* The health gate opens after one pass over all the checks in which every
\* required one passed, and stays shut only if one of them failed.
THEOREM OnlyHealthyOpens == Spec => GateOpensHealthy
  <1> DEFINE Opens ==
        gate = "health" /\ gate' # "health" =>
          /\ Len(results) = Len(checks)
          /\ verdict' = "health_failed" <=> \E i \in DOMAIN results : checks[i].required /\ ~results[i]
  <1>1. IInv /\ [Next]_vars => [Opens]_vars
    <2> SUFFICES ASSUME IInv, Next, gate = "health", gate' # "health" PROVE Opens
      OBVIOUS
    <2>1. EndPass
      BY DEF Next, Exchange, ProbeHealth, Status, serveStatus, PortAvailable, FunnelEnabledOnPort,
             Verification, Redirected, Answered, Unreachable, DeadlinePasses, Done, vars
    <2>2. Len(results) = Len(checks)
      BY <2>1, CountType DEF EndPass, IInv, TypeOK
    <2>3. healthy <=> \A i \in DOMAIN results : results[i] \/ ~checks[i].required
      BY DEF IInv, Judged
    <2>4. verdict' = "health_failed" <=> ~healthy
      BY <2>1 DEF EndPass, Finish, IInv, Open
    <2>5. QED
      BY <2>2, <2>3, <2>4
  <1>2. QED
    BY <1>1, Inductive, PTL DEF Spec, GateOpensHealthy

\* check calls a listener missing only if Serve has none on the port, finds one
\* only if there is, or if another listener forwards to that port number,
\* verifies a port only if it was not public when last read, and calls it public
\* only if it is, or if the name of a host misleads the search.
THEOREM ListenersArePrivate == Spec => PrivateListener
  <1> DEFINE Truthful ==
        /\ verdict' = "serve_listener_missing" => verdict = verdict' \/ ~Listens(seen, Port)
        /\ gate = "listener" /\ gate' = "funnel" => Listens(seen, Port) \/ ForwardedTo(seen, Port)
        /\ gate \in {"listener", "funnel"} /\ gate' = "verify" => seen.read /\ ~Public(seen, Port)
        /\ verdict' = "public_endpoint_detected" =>
             \/ verdict = verdict'
             \/ containsEnabledFunnel(Document(seen)) /\ (Public(seen, Port) \/ Misleading(seen))
  <1>1. IInv /\ [Next]_vars => [Truthful]_vars
    <2> SUFFICES ASSUME IInv, Next PROVE Truthful
      OBVIOUS
    <2>1. seen.read => IsConfig(seen)
      BY DEF IInv, TypeOK, Unread, Read, IsConfig
    <2>2. CASE PortAvailable
      <3>1. IsConfig(seen) /\ (~containsPort(Document(seen), Port) => ~Listens(seen, Port))
        BY <2>1, <2>2, ListenerIsFound DEF PortAvailable
      <3>2. containsPort(Document(seen), Port) => Listens(seen, Port) \/ ForwardedTo(seen, Port)
        BY <3>1, FoundListens, HandoffAssumption
      <3>3. QED
        BY <2>2, <3>1, <3>2 DEF PortAvailable, Finish, IInv, Open
    <2>3. CASE FunnelEnabledOnPort
      <3>1. seen.read /\ IsConfig(seen)
        BY <2>1, <2>3 DEF FunnelEnabledOnPort
      <3>2. CASE containsEnabledFunnelPort(Document(seen), Port)
        BY <2>3, <3>1, <3>2, FoundIsPublic DEF FunnelEnabledOnPort, Finish, Misleading
      <3>3. CASE ~containsEnabledFunnelPort(Document(seen), Port)
        BY <2>3, <3>1, <3>3, PublicIsFound DEF FunnelEnabledOnPort, IInv, Open
      <3>4. QED
        BY <3>2, <3>3
    <2>4. CASE Status \/ serveStatus \/ EndPass \/ DeadlinePasses \/ Done \/ \E ok \in BOOLEAN : ProbeHealth(ok)
      BY <2>4 DEF Status, serveStatus, EndPass, DeadlinePasses, Done, ProbeHealth, Finish, vars
    <2>5. CASE Verification
      <3>1. gate = "verify"
        BY <2>5 DEF Verification, Redirected, Answered, Unreachable
      <3>2. verdict' \notin {"serve_listener_missing", "public_endpoint_detected"} \/ verdict' = verdict
        <4>1. CASE \E t \in Targets : Redirected(t)
          BY <4>1 DEF Redirected, Refusal, Finish
        <4>2. CASE Unreachable \/ \E status \in Statuses : Answered(status)
          BY <4>2 DEF Unreachable, Answered, Pass, Retry, Again, Finish
        <4>3. QED
          BY <2>5, <4>1, <4>2 DEF Verification
      <3>3. QED
        BY <3>1, <3>2
    <2>6. QED
      BY <2>2, <2>3, <2>4, <2>5 DEF Next, Exchange
  <1>2. QED
    BY <1>1, Inductive, PTL DEF Spec, PrivateListener
=============================================================================
