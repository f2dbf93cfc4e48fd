--------------------------- MODULE ProjectsProofs ---------------------------
(***************************************************************************)
(* Theorems about Projects, for any directories, marks, configuration      *)
(* files, flags and names: one project per worktree, whatever is marked;   *)
(* what a selector may mistake for another preview; where the routes of a  *)
(* registered preview lead.                                                *)
(***************************************************************************)
EXTENDS Projects, ConfigurationProofs

-----------------------------------------------------------------------------
(* Directories.                                                            *)

\* Being at or above a directory is a partial order, and those above one are a chain.
LEMMA PrefixOrder ==
  ASSUME NEW S, NEW d \in Seq(S), NEW e \in Seq(S), NEW f \in Seq(S)
  PROVE  /\ IsPrefix(d, d)
         /\ IsPrefix(d, e) /\ IsPrefix(e, f) => IsPrefix(d, f)
         /\ IsPrefix(d, e) /\ IsPrefix(e, d) => d = e
         /\ IsPrefix(d, f) /\ IsPrefix(e, f) /\ Len(d) <= Len(e) => IsPrefix(d, e)
  <1>1. Len(d) \in Nat /\ Len(e) \in Nat /\ Len(f) \in Nat
    BY LenProperties
  <1>2. /\ IsPrefix(d, e) <=> Len(d) <= Len(e) /\ \A i \in 1..Len(d) : d[i] = e[i]
        /\ IsPrefix(e, d) <=> Len(e) <= Len(d) /\ \A i \in 1..Len(e) : e[i] = d[i]
        /\ IsPrefix(d, f) <=> Len(d) <= Len(f) /\ \A i \in 1..Len(d) : d[i] = f[i]
        /\ IsPrefix(e, f) <=> Len(e) <= Len(f) /\ \A i \in 1..Len(e) : e[i] = f[i]
        /\ IsPrefix(d, d) <=> Len(d) <= Len(d) /\ \A i \in 1..Len(d) : d[i] = d[i]
    BY PrefixIs
  <1>3. Len(d) <= Len(e) => 1..Len(d) \subseteq 1..Len(e)
    BY <1>1
  <1>4. IsPrefix(d, d)
    BY <1>1, <1>2
  <1>5. ASSUME IsPrefix(d, e), IsPrefix(e, f) PROVE IsPrefix(d, f)
    BY <1>1, <1>2, <1>3, <1>5
  <1>6. ASSUME IsPrefix(d, e), IsPrefix(e, d) PROVE d = e
    BY <1>1, <1>2, <1>6, SeqEqual
  <1>7. ASSUME IsPrefix(d, f), IsPrefix(e, f), Len(d) <= Len(e) PROVE IsPrefix(d, e)
    BY <1>1, <1>2, <1>3, <1>7
  <1>8. QED
    BY <1>4, <1>5, <1>6, <1>7

\* The nearest mark is a mark, and below every other one above the directory.
LEMMA NearestIs ==
  ASSUME NEW d \in Dirs, NEW marked \in SUBSET Dirs, Above(d, marked) # {}
  PROVE  LET n == Nearest(Above(d, marked))
         IN  /\ n \in marked /\ n \in Dirs /\ IsPrefix(n, d)
             /\ \A e \in marked : IsPrefix(e, d) => IsPrefix(e, n)
  <1> DEFINE A == Above(d, marked)
             n == Nearest(A)
             L == {Len(e) : e \in A}
  <1>1. Dirs \subseteq Seq(STRING)
    BY ProjectsAssumption
  <1>2. A \subseteq Seq(STRING) /\ \A e : e \in A <=> e \in marked /\ IsPrefix(e, d)
    BY <1>1 DEF Above
  <1>3. ASSUME NEW e \in A PROVE Len(e) \in Nat /\ Len(e) <= Len(d)
    <2>1. e \in Seq(STRING) /\ d \in Seq(STRING) /\ IsPrefix(e, d)
      BY <1>1, <1>2
    <2>2. Len(e) \in Nat /\ Len(d) \in Nat
      BY <2>1, LenProperties
    <2>3. Len(e) <= Len(d)
      BY <2>1 DEF IsPrefix
    <2>4. QED
      BY <2>1, <2>2, <2>3
  <1>4. L \subseteq 0..Len(d) /\ L # {} /\ Len(d) \in Nat
    <2>1. Len(d) \in Nat /\ d \in Seq(STRING)
      BY <1>1, LenProperties
    <2> HIDE DEF A
    <2>2. A # {} /\ \A e \in A : Len(e) \in 0..Len(d)
      BY <1>3, <2>1 DEF A
    <2>3. QED
      BY <2>1, <2>2
  <1>5. \E l \in L : \A k \in L : k <= l
    BY <1>4, GreatestExists
  <1>6. \E e \in A : \A f \in A : Len(f) <= Len(e)
    BY <1>5
  <1>7. n \in A /\ \A f \in A : Len(f) <= Len(n)
    BY <1>6 DEF Nearest
  <1> HIDE DEF A, n
  <1>8. ASSUME NEW e \in marked, IsPrefix(e, d) PROVE IsPrefix(e, n)
    <2>1. e \in A /\ Len(e) <= Len(n) /\ IsPrefix(n, d)
      BY <1>2, <1>7, <1>8
    <2>2. e \in Seq(STRING) /\ n \in Seq(STRING) /\ d \in Seq(STRING)
      BY <1>1, <1>2, <1>7
    <2>3. QED
      BY <1>8, <2>1, <2>2, PrefixOrder
  <1>9. n \in marked /\ n \in Dirs /\ IsPrefix(n, d)
    BY <1>2, <1>7
  <1>10. QED
    BY <1>8, <1>9 DEF n, A

\* Discovery finds the innermost worktree a directory is in, and no file outside of it.
LEMMA WorktreeFound ==
  ASSUME git \in SUBSET Dirs, DOMAIN conf \in SUBSET Dirs
  PROVE  WorktreeIdentity
  <1> SUFFICES ASSUME NEW d \in Dirs, Above(d, git) # {}
               PROVE  LET worktree == CHOOSE g \in Above(d, git) : \A h \in Above(d, git) : IsPrefix(h, g)
                      IN  /\ Discover(d).root = worktree
                          /\ Discover(d).config # NoDir => IsPrefix(worktree, Discover(d).config)
    BY DEF WorktreeIdentity
  <1> DEFINE worktree == CHOOSE g \in Above(d, git) : \A h \in Above(d, git) : IsPrefix(h, g)
             g == Nearest(Above(d, git))
             marked == git \cup DOMAIN conf
             n == Nearest(Above(d, marked))
             m == Nearest(Above(n, git))
  <1>1. Dirs \subseteq Seq(STRING)
    BY ProjectsAssumption
  <1>2. g \in git /\ g \in Dirs /\ IsPrefix(g, d) /\ \A e \in git : IsPrefix(e, d) => IsPrefix(e, g)
    BY NearestIs
  <1>3. worktree = g
    <2>1. g \in Above(d, git) /\ \A h \in Above(d, git) : IsPrefix(h, g)
      BY <1>2 DEF Above
    <2>2. worktree \in Above(d, git) /\ \A h \in Above(d, git) : IsPrefix(h, worktree)
      BY <2>1
    <2>3. worktree \in Dirs /\ IsPrefix(g, worktree) /\ IsPrefix(worktree, g)
      BY <2>1, <2>2 DEF Above
    <2>4. QED
      BY <1>1, <1>2, <2>3, PrefixOrder
  <1> HIDE DEF worktree, g
  <1>4. Above(d, marked) # {} /\ marked \in SUBSET Dirs
    BY <1>2 DEF Above
  <1>5. n \in marked /\ n \in Dirs /\ IsPrefix(n, d) /\ IsPrefix(g, n)
    <2>1. n \in marked /\ n \in Dirs /\ IsPrefix(n, d) /\ \A e \in marked : IsPrefix(e, d) => IsPrefix(e, n)
      BY <1>4, NearestIs
    <2>2. QED
      BY <1>2, <2>1
  <1>6. CASE n \in DOMAIN conf
    <2>1. Discover(d).config = n /\ Discover(d).root = findGitRoot(n)
      BY <1>4, <1>6 DEF Discover
    <2> HIDE DEF n
    <2>2. Above(n, git) # {}
      BY <1>2, <1>5 DEF Above
    <2>3. m \in git /\ m \in Dirs /\ IsPrefix(m, n) /\ IsPrefix(g, m)
      <3>1. m \in git /\ m \in Dirs /\ IsPrefix(m, n) /\ \A e \in git : IsPrefix(e, n) => IsPrefix(e, m)
        BY <1>5, <2>2, NearestIs
      <3>2. QED
        BY <1>2, <1>5, <3>1
    <2>4. findGitRoot(n) = m
      BY <2>2 DEF findGitRoot
    <2> HIDE DEF m
    <2>5. IsPrefix(m, g)
      <3>1. IsPrefix(m, d)
        BY <1>1, <1>5, <2>3, PrefixOrder
      <3>2. QED
        BY <1>2, <2>3, <3>1
    <2>6. m = g
      BY <1>1, <1>2, <2>3, <2>5, PrefixOrder
    <2>7. QED
      BY <1>3, <1>5, <2>1, <2>4, <2>6 DEF worktree
  <1>7. CASE n \notin DOMAIN conf
    <2>1. Discover(d).config = NoDir /\ Discover(d).root = n
      BY <1>4, <1>7 DEF Discover
    <2> HIDE DEF n
    <2>2. n = g
      <3>1. n \in git /\ IsPrefix(n, g)
        BY <1>2, <1>5, <1>7
      <3>2. QED
        BY <1>1, <1>2, <1>5, <3>1, PrefixOrder
    <2>3. QED
      BY <1>3, <2>1, <2>2 DEF worktree
  <1>8. QED
    BY <1>6, <1>7
-----------------------------------------------------------------------------
(* Routes.                                                                 *)

\* A route's matchers take what its path covers: /api/* is also /api.
LEMMA MatchersCover ==
  ASSUME NEW r \in Route, NEW request \in Seq(STRING)
  PROVE  (\E m \in buildRoute(r).match : Matches(m, request)) <=> Covers(r.path, request)
  <1> DEFINE at == r.path.at
  <1>1. at \in Seq(STRING) /\ r.path.below \in BOOLEAN
    BY DEF Route, Path
  <1>2. IsPrefix(request, request) /\ IsPrefix(<<>>, request)
    BY PrefixOrder DEF IsPrefix
  <1>3. CASE r.path.below /\ at # <<>>
    <2>1. buildRoute(r).match = {Exact(at), r.path}
      BY <1>3 DEF buildRoute, Server, CatchAll
    <2>2. Matches(Exact(at), request) <=> at = request
      BY DEF Matches, Exact
    <2>3. Matches(r.path, request) <=> IsPrefix(at, request) /\ at # request
      BY <1>3 DEF Matches
    <2>4. Covers(r.path, request) <=> IsPrefix(at, request)
      BY <1>3 DEF Covers
    <2>5. QED
      BY <1>2, <2>1, <2>2, <2>3, <2>4
  <1>4. CASE r.path.below /\ at = <<>>
    <2>1. buildRoute(r).match = {r.path}
      BY <1>4 DEF buildRoute, Server, CatchAll
    <2>2. QED
      BY <1>2, <1>4, <2>1 DEF Matches, Covers
  <1>5. CASE ~r.path.below
    <2>1. buildRoute(r).match = {r.path}
      BY <1>5 DEF buildRoute, Server
    <2>2. QED
      BY <1>5, <2>1 DEF Matches, Covers
  <1>6. QED
    BY <1>3, <1>4, <1>5

\* The least of some indices is one of them.
LEMMA MinIs ==
  ASSUME NEW n, NEW I, I \subseteq 1..n, I # {}
  PROVE  Min(I) \in I
  <1>1. I \subseteq Nat
    OBVIOUS
  <1>2. \E x \in I : \A y \in I : x <= y
    BY <1>1, LeastExists
  <1>3. QED
    BY <1>2 DEF Min

\* The first route with a match is the first declared for the request.
LEMMA DeclaredIs ==
  ASSUME NEW routes \in Seq(Route), NEW request \in Seq(STRING)
  PROVE  LET I == {i \in 1..Len(routes) : Covers(routes[i].path, request)}
         IN  Declared(routes, request) =
               IF I = {} THEN Nowhere
               ELSE [dial |-> Host[routes[Min(I)].upstream],
                     path |-> IF routes[Min(I)].strip
                              THEN SubSeq(request, Len(routes[Min(I)].path.at) + 1, Len(request)) ELSE request]
  <1> DEFINE I == {i \in 1..Len(routes) : Covers(routes[i].path, request)}
             k == SelectInSeq(routes, LAMBDA r : Covers(r.path, request))
  <1>1. k = IF I # {} THEN Min(I) ELSE 0
    BY DEF SelectInSeq
  <1>2. I # {} => Min(I) \in I
    BY MinIs
  <1>3. k = 0 <=> I = {}
    BY <1>1, <1>2
  <1>4. Declared(routes, request) = IF k = 0 THEN Nowhere
      ELSE [dial |-> Host[routes[k].upstream],
            path |-> IF routes[k].strip THEN SubSeq(request, Len(routes[k].path.at) + 1, Len(request)) ELSE request]
    BY DEF Declared
  <1> HIDE DEF k, I
  <1>5. QED
    BY <1>1, <1>3, <1>4 DEF I

\* Caddy sends a request where the user declared, whatever the routes.
LEMMA ProxiedIsDeclared ==
  ASSUME NEW routes \in Seq(Route), NEW request \in Seq(STRING)
  PROVE  Proxied(Generate(routes), request) = Declared(routes, request)
  <1> DEFINE I == {i \in 1..Len(routes) : Covers(routes[i].path, request)}
             servers == Generate(routes)
             matching == {i \in DOMAIN servers : \E m \in servers[i].match : Matches(m, request)}
             first == servers[Min(matching)]
             rest == SubSeq(request, Len(first.stripped) + 1, Len(request))
  <1>1. DOMAIN servers = 1..Len(routes) /\ \A i \in 1..Len(routes) : routes[i] \in Route /\ servers[i] = buildRoute(routes[i])
    BY LenProperties, ElementOfSeq DEF Generate
  <1>2. matching = I
    <2>1. ASSUME NEW i \in 1..Len(routes)
          PROVE  (\E m \in servers[i].match : Matches(m, request)) <=> Covers(routes[i].path, request)
      BY <1>1, MatchersCover
    <2> HIDE DEF servers
    <2>2. QED
      BY <1>1, <2>1
  <1>3. Proxied(servers, request) = IF matching = {} THEN Nowhere ELSE [dial |-> first.dial, path |-> rest]
    BY DEF Proxied, Min
  <1>4. ASSUME I # {}
        PROVE  /\ first.dial = Host[routes[Min(I)].upstream]
               /\ rest = IF routes[Min(I)].strip
                         THEN SubSeq(request, Len(routes[Min(I)].path.at) + 1, Len(request)) ELSE request
    <2>1. Min(I) \in 1..Len(routes)
      BY <1>4, MinIs
    <2> DEFINE r == routes[Min(I)]
    <2>2. r \in Route /\ first = buildRoute(r)
      BY <1>1, <1>2, <2>1
    <2> HIDE DEF r, first, I, matching, servers
    <2>3. first.dial = Host[r.upstream] /\ first.stripped = IF r.strip THEN r.path.at ELSE <<>>
      BY <2>2 DEF buildRoute, Server
    <2>4. Len(<<>>) + 1 = 1 /\ SubSeq(request, 1, Len(request)) = request
      BY SubSeqFull
    <2>5. QED
      BY <2>3, <2>4 DEF r
  <1> HIDE DEF I, matching, first, rest
  <1>5. QED
    BY <1>2, <1>3, <1>4, DeclaredIs DEF servers, I

\* What RoutesAsDeclared says of a preview whose request was accepted.
LEMMA AcceptedLead ==
  ASSUME NEW routes \in Seq(Route), NEW health, Validate(routes, health), NEW request \in Seq(STRING)
  PROVE  /\ Declared(routes, request) = Nowhere => ~Last(routes).path.below
         /\ \A i \in DOMAIN routes :
              LET server == Generate(routes)[i]
              IN  server.dial \in Here /\ (server.tls \/ server.verified)
  <1>1. Len(routes) \in Nat \ {0} /\ DOMAIN routes = 1..Len(routes)
    BY LenProperties, EmptySeq DEF Validate
  <1>2. \A i \in 1..Len(routes) : routes[i] \in Route
    BY ElementOfSeq
  <1>3. ASSUME Last(routes).path.below PROVE Declared(routes, request) # Nowhere
    <2> DEFINE I == {i \in 1..Len(routes) : Covers(routes[i].path, request)}
               n == Len(routes)
    <2>1. n \in 1..Len(routes) /\ routes[n].path.at = <<>> /\ routes[n].path.below
      BY <1>1, <1>3 DEF Validate, CatchAll, Last
    <2>2. IsPrefix(<<>>, request)
      BY DEF IsPrefix
    <2>3. Covers(routes[n].path, request)
      BY <2>1, <2>2 DEF Covers
    <2>4. I # {} /\ Min(I) \in I
      BY <2>1, <2>3, MinIs
    <2>5. routes[Min(I)].upstream \in URLs
      BY <1>2, <2>4 DEF Route
    <2>6. Declared(routes, request).dial = Host[routes[Min(I)].upstream]
      <3>1. Declared(routes, request) =
              IF I = {} THEN Nowhere
              ELSE [dial |-> Host[routes[Min(I)].upstream],
                    path |-> IF routes[Min(I)].strip
                             THEN SubSeq(request, Len(routes[Min(I)].path.at) + 1, Len(request)) ELSE request]
        BY DeclaredIs
      <3> HIDE DEF I
      <3>2. QED
        BY <2>4, <3>1
    <2>7. QED
      BY <2>5, <2>6, CaddyConfigAssumption
  <1>4. ASSUME NEW i \in DOMAIN routes
        PROVE  LET server == Generate(routes)[i]
               IN  server.dial \in Here /\ (server.tls \/ server.verified)
    <2>1. /\ Generate(routes)[i].dial = Host[routes[i].upstream]
          /\ Generate(routes)[i].tls = (routes[i].upstream \in Https)
          /\ Generate(routes)[i].verified = ~routes[i].insecure
      BY DEF Generate, buildRoute, Server
    <2>2. ValidateUpstream(routes[i].upstream, routes[i].insecure)
      BY DEF Validate
    <2>3. QED
      BY <2>1, <2>2 DEF ValidateUpstream, Here
  <1>5. QED
    BY <1>3, <1>4
-----------------------------------------------------------------------------
(* What up is for.                                                         *)

Marks == git \in SUBSET Repos /\ DOMAIN conf \in SUBSET Homes /\ \A d \in DOMAIN conf : conf[d] \in Configs

\* The project an up is asked for, in any of the ways there are, is a directory.
LEMMA AskedType ==
  ASSUME Marks, NEW asked \in Asking
  PROVE  asked.config \in DOMAIN conf \cup {NoDir} /\ asked.root \in Dirs
  <1>1. git \in SUBSET Dirs /\ DOMAIN conf \in SUBSET Dirs /\ NoDir \notin Dirs
    BY ProjectsAssumption DEF Marks
  <1>2. ASSUME NEW d \in Dirs PROVE findGitRoot(d) \in Dirs
    BY <1>1, NearestIs DEF findGitRoot
  <1>3. ASSUME NEW d \in Dirs
        PROVE  Discover(d) \in [config : DOMAIN conf \cup {NoDir}, root : Dirs]
    <2> DEFINE marked == git \cup DOMAIN conf
               n == Nearest(Above(d, marked))
    <2>1. CASE Above(d, marked) = {}
      BY <2>1 DEF Discover
    <2>2. CASE Above(d, marked) # {}
      <3>1. n \in Dirs
        BY <1>1, <2>2, NearestIs
      <3>2. Discover(d) = IF n \in DOMAIN conf THEN [config |-> n, root |-> findGitRoot(n)]
                          ELSE [config |-> NoDir, root |-> n]
        BY <2>2 DEF Discover
      <3> HIDE DEF n
      <3>3. QED
        BY <1>2, <3>1, <3>2
    <2>3. QED
      BY <2>1, <2>2
  <1>4. ASSUME NEW found \in [config : DOMAIN conf \cup {NoDir}, root : Dirs], NEW root \in Dirs \cup {NoDir}
        PROVE  [found EXCEPT !.root = IF root = NoDir THEN @ ELSE root] \in [config : DOMAIN conf \cup {NoDir}, root : Dirs]
    OBVIOUS
  <1>5. CASE \E cwd \in Dirs, root \in Dirs \cup {NoDir} : asked = Asked(cwd, NoDir, root)
    BY <1>3, <1>4, <1>5 DEF Asked
  <1>6. CASE \E config \in DOMAIN conf, root \in Dirs \cup {NoDir} : asked = Asked(NoDir, config, root)
    <2>1. PICK config \in DOMAIN conf, root \in Dirs \cup {NoDir} : asked = Asked(NoDir, config, root)
      BY <1>6
    <2>2. [config |-> config, root |-> config] \in [config : DOMAIN conf \cup {NoDir}, root : Dirs] /\ config # NoDir
      BY <1>1
    <2>3. QED
      BY <1>4, <2>1, <2>2 DEF Asked
  <1>7. QED
    BY <1>5, <1>6 DEF Asking

\* What a file says, or nothing, is typed.
LEMMA ReadType ==
  ASSUME Marks, NEW config \in DOMAIN conf \cup {NoDir}
  PROVE  Read(config).name \in Seq(STRING) /\ Read(config).file \in File
  <1>1. <<>> \in Seq(STRING) /\ Discovered \in File
    BY DEF Discovered, File
  <1>2. NoConfig.name \in Seq(STRING) /\ NoConfig.file \in File
    BY <1>1 DEF NoConfig, NoName
  <1>3. config # NoDir => conf[config] \in Configs
    BY DEF Marks
  <1>4. QED
    BY <1>2, <1>3, ProjectsAssumption DEF Read

\* Names given, configured or derived are names.
LEMMA NamesType ==
  ASSUME NEW given \in Given \cup {NoName}, NEW configured \in Seq(STRING), NEW root \in Dirs
  PROVE  Names(given, configured, root) \subseteq Seq(STRING)
  <1>1. ASSUME NEW S, NEW x \in S PROVE <<x>> \in Seq(S) /\ <<>> \in Seq(S)
    OBVIOUS
  <1>2. Base(root) \in Seq(STRING)
    <2>1. root \in Seq(STRING)
      BY ProjectsAssumption
    <2>2. root # <<>> => Len(root) \in 1..Len(root)
      BY <2>1, EmptySeq
    <2>3. root # <<>> => root[Len(root)] \in STRING
      BY <2>1, <2>2, ElementOfSeq
    <2>4. CASE root = <<>>
      BY <2>1, <2>4 DEF Base
    <2>5. CASE root # <<>>
      BY <2>3, <2>5, <1>1 DEF Base
    <2>6. QED
      BY <2>4, <2>5
  <1>3. \A b \in Branches : Append(Base(root), b) \in Seq(STRING)
    BY <1>2, AppendProperties, ProjectsAssumption
  <1>4. deriveProjectName(root) \subseteq Seq(STRING)
    BY <1>2, <1>3 DEF deriveProjectName
  <1>5. given # NoName => given \in Seq(STRING)
    BY ProjectsAssumption
  <1>6. QED
    BY <1>4, <1>5 DEF Names

\* The name up registers: that of another preview only if it ends in the suffix.
LEMMA SuffixedIs ==
  ASSUME NEW name \in Seq(STRING) \ {NoName}, NEW root \in Dirs
  PROVE  LET s == Suffixed(name, root)
         IN  /\ s \in Seq(STRING) /\ s # NoName
             /\ \A q \in previews : q.root # root /\ q.name = s => Len(s) > 1 /\ Last(s) = Tag[root]
  <1>1. name \in Seq(STRING) /\ Len(name) \in Nat \ {0} /\ Tag[root] \in STRING
    BY EmptySeq, ProjectsAssumption DEF NoName
  <1> DEFINE s == Append(name, Tag[root])
  <1>2. s \in Seq(STRING) /\ s # <<>> /\ Len(s) = Len(name) + 1 /\ s[Len(name) + 1] = Tag[root]
    BY <1>1, AppendProperties
  <1>3. Len(s) > 1 /\ Last(s) = Tag[root]
    BY <1>1, <1>2 DEF Last
  <1>4. CASE \E other \in previews : other.root # root /\ other.name = name
    BY <1>2, <1>3, <1>4 DEF Suffixed, NoName
  <1>5. CASE ~\E other \in previews : other.root # root /\ other.name = name
    BY <1>5 DEF Suffixed
  <1>6. QED
    BY <1>4, <1>5
-----------------------------------------------------------------------------
(* The invariant.  Names and warnings are decided when a preview is made,  *)
(* so what holds of two previews (Apart) has to hold from then on,         *)
(* whichever of them came first.                                           *)

\* A preview is what up accepted.
Sound(p) == p \in Preview /\ p.name # NoName /\ Validate(p.routes, p.health)

\* The name of p is that of another one with the suffix of q.
Ends(p, q) == Len(p.name) > 1 /\ Last(p.name) = Tag[q.root]

Apart(p, q) ==
  /\ p.root = q.root => p = q
  /\ p # q /\ p.name = q.name => Ends(p, q) \/ Ends(q, p)
  /\ p # q /\ Base(p.root) = Base(q.root) => p.warned \/ q.warned

Registry ==
  /\ IsFiniteSet(previews) /\ Cardinality(previews) <= Ports
  /\ \A p \in previews : Sound(p)
  /\ \A p \in previews, q \in previews : Apart(p, q)

IInv == Marks /\ Registry

\* Fewer previews are as sound.
LEMMA FewerIInv ==
  ASSUME Registry, previews' \in SUBSET previews
  PROVE  Registry'
  <1>1. IsFiniteSet(previews) /\ Cardinality(previews) <= Ports /\ Cardinality(previews) \in Nat
    BY FS_CardinalityType DEF Registry
  <1>2. IsFiniteSet(previews') /\ Cardinality(previews') <= Cardinality(previews) /\ Cardinality(previews') \in Nat
    BY <1>1, FS_Subset, FS_CardinalityType
  <1>3. Ports \in Nat
    BY ProjectsAssumption
  <1>4. Cardinality(previews') <= Ports
    BY <1>1, <1>2, <1>3
  <1>5. QED
    BY <1>2, <1>4 DEF Registry, Sound, Apart, Ends

\* A preview made by up stays apart from those that stay.
LEMMA RegisterIInv ==
  ASSUME Registry, NEW p, Register(p), Sound(p),
         \A q \in previews : q.root # p.root /\ q.name = p.name => Ends(p, p),
         \A q \in previews : q.root # p.root /\ Base(q.root) = Base(p.root) => p.warned
  PROVE  Registry'
  <1>1. PICK evicted \in SUBSET withoutID(p.root) :
          /\ Cardinality(withoutID(p.root) \ evicted) < Ports
          /\ previews' = (withoutID(p.root) \ evicted) \cup {p}
    BY DEF Register
  <1> DEFINE S == withoutID(p.root) \ evicted
  <1>2. S \subseteq previews /\ \A q \in S : q.root # p.root
    BY DEF withoutID
  <1>3. previews' = S \cup {p} /\ Cardinality(S) < Ports /\ p \notin S
    BY <1>1, <1>2
  <1> HIDE DEF S
  <1>4. IsFiniteSet(previews') /\ Cardinality(previews') <= Ports
    <2>1. IsFiniteSet(S)
      BY <1>2, FS_Subset DEF Registry
    <2>2. IsFiniteSet(S \cup {p}) /\ Cardinality(S \cup {p}) = Cardinality(S) + 1 /\ Cardinality(S) \in Nat
      BY <1>3, <2>1, FS_AddElement, FS_CardinalityType
    <2>3. Ports \in Nat
      BY ProjectsAssumption
    <2>4. QED
      BY <1>3, <2>2, <2>3
  <1>5. ASSUME NEW q \in S PROVE Apart(p, q) /\ Apart(q, p)
    BY <1>2, <1>5 DEF Apart, Ends
  <1>6. Apart(p, p)
    BY DEF Apart
  <1>7. \A q \in S, r \in S : Apart(q, r)
    BY <1>2 DEF Registry
  <1>8. \A q \in previews', r \in previews' : Apart(q, r)
    BY <1>3, <1>5, <1>6, <1>7
  <1>9. \A q \in previews' : Sound(q)
    BY <1>2, <1>3 DEF Registry
  <1>10. QED
    BY <1>4, <1>8, <1>9 DEF Registry, Sound, Apart, Ends

\* up registers a preview of the project it was asked for.
LEMMA UpIInv ==
  ASSUME IInv, NEW asked \in Asking, NEW given \in Given \cup {NoName}, NEW flags \in Flagged, Up(asked, given, flags)
  PROVE  IInv'
  <1> DEFINE read == Read(asked.config)
             root == asked.root
             routes == Routes(read.file, flags)
             health == Health(read.file, flags)
  <1>1. asked.config \in DOMAIN conf \cup {NoDir} /\ root \in Dirs
    BY AskedType DEF IInv
  <1>2. read.name \in Seq(STRING) /\ read.file \in File /\ flags \in Flags
    BY <1>1, ReadType, ProjectsAssumption DEF IInv
  <1>3. routes \in Seq(Route) /\ health \in Seq(HealthCheck)
    BY <1>2, RoutesType, HealthType
  <1>4. Validate(routes, health) /\ UNCHANGED <<git, conf>>
    BY DEF Up, Accepts
  <1> DEFINE Made(name, warned) ==
               [root |-> root, name |-> Suffixed(name, root), warned |-> warned, routes |-> routes, health |-> health]
  <1>5. PICK name \in Names(given, read.name, root) \ {NoName} :
          Register([Made(name, FALSE) EXCEPT !.warned = hasSameProject(Made(name, FALSE))])
    BY DEF Up
  <1>6. name \in Seq(STRING) \ {NoName}
    BY <1>1, <1>2, <1>5, NamesType
  <1> DEFINE warned == \E other \in previews : other.root # root /\ Base(other.root) = Base(root)
             made == Made(name, warned)
  <1> HIDE DEF read, root, routes, health
  <1>7. [Made(name, FALSE) EXCEPT !.warned = hasSameProject(Made(name, FALSE))] = made
    <2>1. hasSameProject(Made(name, FALSE)) = warned
      <3>1. Made(name, FALSE).root = root
        OBVIOUS
      <3> HIDE DEF Made
      <3>2. QED
        BY <3>1, Zenon DEF hasSameProject
    <2> HIDE DEF warned
    <2>2. [Made(name, FALSE) EXCEPT !.warned = warned] = made
      OBVIOUS
    <2>3. QED
      BY <2>1, <2>2, Zenon
  <1>8. warned \in BOOLEAN
    OBVIOUS
  <1>9. Register(made)
    BY <1>5, <1>7
  <1>10. /\ made.root = root /\ made.name = Suffixed(name, root) /\ made.warned = warned
         /\ made.routes = routes /\ made.health = health
    OBVIOUS
  <1>11. /\ made.name \in Seq(STRING) /\ made.name # NoName
         /\ \A q \in previews : q.root # root /\ q.name = made.name => Ends(made, made)
    BY <1>1, <1>6, <1>10, SuffixedIs DEF Ends
  <1>12. \A q \in previews : q.root # root /\ Base(q.root) = Base(root) => warned
    OBVIOUS
  <1>13. made \in Preview
    <2> DEFINE n == Suffixed(name, root)
    <2>1. n \in Seq(STRING)
      BY <1>10, <1>11
    <2> HIDE DEF warned, n
    <2>2. [root |-> root, name |-> n, warned |-> warned, routes |-> routes, health |-> health] \in Preview
      BY <1>1, <1>3, <1>8, <2>1 DEF Preview
    <2>3. QED
      BY <2>2 DEF n
  <1> HIDE DEF made, Made, warned
  <1>14. Sound(made)
    BY <1>4, <1>10, <1>11, <1>13 DEF Sound, routes, health, read
  <1>15. Registry'
    BY <1>9, <1>10, <1>11, <1>12, <1>14, RegisterIInv DEF IInv
  <1>16. QED
    BY <1>4, <1>15 DEF IInv, Marks

\* The invariant is inductive.
LEMMA NextIInv == IInv /\ [Next]_vars => IInv'
  <1> SUFFICES ASSUME IInv, [Next]_vars PROVE IInv'
    OBVIOUS
  <1>1. CASE \E asked \in Asking, given \in Given \cup {NoName}, flags \in Flagged : Up(asked, given, flags)
    BY <1>1, UpIInv
  <1>2. ASSUME UNCHANGED <<git, conf>>, previews' \in SUBSET previews PROVE IInv'
    BY <1>2, FewerIInv DEF IInv, Marks
  <1>3. ASSUME NEW selector, Down(selector) PROVE IInv'
    BY <1>2, <1>3 DEF Down
  <1>4. CASE Expire
    BY <1>2, <1>4 DEF Expire
  <1>5. ASSUME previews' = previews, Marks' PROVE IInv'
    BY <1>5, FewerIInv DEF IInv
  <1>6. ASSUME NEW d \in Repos, GitInit(d) \/ GitRemove(d) PROVE IInv'
    BY <1>5, <1>6 DEF GitInit, GitRemove, IInv, Marks
  <1>7. ASSUME NEW d \in Homes, Delete(d) PROVE IInv'
    BY <1>5, <1>7 DEF Delete, IInv, Marks
  <1>8. ASSUME NEW d \in Homes, NEW c \in Configs, Edit(d, c) PROVE IInv'
    BY <1>5, <1>8 DEF Edit, IInv, Marks
  <1>9. CASE UNCHANGED vars
    BY <1>5, <1>9 DEF vars, IInv, Marks
  <1>10. QED
    BY <1>1, <1>3, <1>4, <1>6, <1>7, <1>8, <1>9 DEF Next
-----------------------------------------------------------------------------
(* Theorems.                                                               *)

\* The invariant holds, whatever commands are run from wherever.
THEOREM Inductive == Spec => []IInv
  <1>1. Init => IInv
    <2> SUFFICES ASSUME Init PROVE IInv
      OBVIOUS
    <2>1. Marks
      BY DEF Init, Marks
    <2>2. Registry
      BY FS_EmptySet, ProjectsAssumption DEF Init, Registry
    <2>3. QED
      BY <2>1, <2>2 DEF IInv
  <1>2. QED
    BY <1>1, NextIInv, PTL DEF Spec

\* Every value is well-typed, and a project root has one preview at most,
\* however often and from wherever up is run (service.go:105).
THEOREM TypeCorrect == Spec => []TypeOK
  <1>1. IInv => TypeOK
    BY DEF IInv, Marks, Registry, Sound, Apart, TypeOK
  <1>2. QED
    BY <1>1, Inductive, PTL

\* From anywhere in a worktree, whatever is marked, the project is that worktree.
THEOREM OneProjectPerWorktree == Spec => []WorktreeIdentity
  <1>1. IInv => WorktreeIdentity
    BY WorktreeFound, ProjectsAssumption DEF IInv, Marks
  <1>2. QED
    BY <1>1, Inductive, PTL

\* Two previews answer to one selector only when one of them was named after
\* the suffixed name, or the identity, of the other.
THEOREM SelectorsTell == Spec => []NamesTell
  <1>1. ASSUME IInv, NEW p \in previews, NEW q \in previews, p # q, Answers(p) \cap Answers(q) # {}
        PROVE  NamedAfter(p, q) \/ NamedAfter(q, p)
    <2>1. p.root \in Dirs /\ q.root \in Dirs /\ p.root # q.root /\ Id[p.root] # Id[q.root]
      BY <1>1, ProjectsAssumption DEF IInv, Registry, Sound, Preview, Apart
    <2>2. p.name # <<>> /\ q.name # <<>> /\ Apart(p, q)
      BY <1>1 DEF IInv, Registry, Sound, NoName
    <2>3. \A s, t : Place(s) # Word(t)
      BY DEF Place, Word
    <2>4. \/ <<Id[p.root]>> = <<Id[q.root]>> \/ <<Id[p.root]>> = q.name
          \/ p.name = <<Id[q.root]>> \/ p.name = q.name \/ p.root = q.root
      BY <1>1, <2>3 DEF Answers, Place, Word
    <2>5. <<Id[p.root]>> # <<Id[q.root]>>
      BY <2>1
    <2>6. QED
      BY <1>1, <2>1, <2>2, <2>4, <2>5 DEF NamedAfter, Apart, Ends
  <1>2. IInv => NamesTell
    BY <1>1 DEF NamesTell
  <1>3. QED
    BY <1>2, Inductive, PTL

\* Of two live previews whose roots have the same name one carries the warning,
\* in whatever order they come, are replaced and go.  Nothing is said of others,
\* which share the host name and its cookies just as well.
THEOREM NamesakesAreWarned == Spec => []CookiesWarned
  <1>1. IInv => CookiesWarned
    BY DEF IInv, Registry, Apart, CookiesWarned, ThoughtUnrelated
  <1>2. QED
    BY <1>1, Inductive, PTL

\* A registered preview sends every request to the route declared for it
\* first, on this machine, for any file and flags that up accepts.
THEOREM RoutesLead == Spec => []RoutesAsDeclared
  <1>1. ASSUME IInv, NEW p \in previews, NEW request \in Requests
        PROVE  LET target == Proxied(Generate(p.routes), request)
               IN  /\ target = Declared(p.routes, request)
                   /\ target = Nowhere => ~Last(p.routes).path.below
                   /\ \A i \in DOMAIN p.routes :
                        LET server == Generate(p.routes)[i]
                        IN  server.dial \in Here /\ (server.tls \/ server.verified)
    <2>1. p.routes \in Seq(Route) /\ Validate(p.routes, p.health) /\ request \in Seq(STRING)
      BY <1>1, ProjectsAssumption DEF IInv, Registry, Sound, Preview
    <2>2. Proxied(Generate(p.routes), request) = Declared(p.routes, request)
      BY <2>1, ProxiedIsDeclared
    <2>3. /\ Declared(p.routes, request) = Nowhere => ~Last(p.routes).path.below
          /\ \A i \in DOMAIN p.routes :
               LET server == Generate(p.routes)[i]
               IN  server.dial \in Here /\ (server.tls \/ server.verified)
      BY <2>1, AcceptedLead
    <2>4. QED
      BY <2>2, <2>3
  <1>2. IInv => RoutesAsDeclared
    BY <1>1 DEF RoutesAsDeclared
  <1>3. QED
    BY <1>2, Inductive, PTL
=============================================================================
