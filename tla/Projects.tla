----------------------------- MODULE Projects -----------------------------
(***************************************************************************)
(* Which preview a command is about.  A preview belongs to a project root: *)
(* up finds it from the directory it runs in (config.Discover), or is told *)
(* (--config, --project-root); its identity is the hash of that root, its  *)
(* name is given, configured or derived (cmd/tailpreview/main.go, the      *)
(* first part of Up in internal/app/service.go), and later commands find   *)
(* it by identity, name or root (findPreview).  Markers come and go: a git *)
(* repository is created or removed, a configuration file is edited.       *)
(*                                                                         *)
(* A directory is the sequence of the names on its path.  A name is the    *)
(* sequence of its words, normalized (slug); the empty one is no name.     *)
(* What up does once it knows the preview, and which port it takes, is     *)
(* Lifecycle: here an up that succeeds registers its preview, at the cost  *)
(* of at most one other, and one that fails leaves the registry alone.     *)
(***************************************************************************)
EXTENDS CaddyConfig, FiniteSets

CONSTANTS
  Dirs,      \* directories commands run in, with those above them
  NoDir,
  Repos,     \* those that may become git worktrees
  Homes,     \* those that may have a configuration file
  Configs,   \* what such a file may say: [name, file]
  Flagged,   \* the flags an up may carry
  Given,     \* the names an up may be given
  Branches,  \* branch names, and abbreviated commits of a detached head
  Requests,  \* paths that clients ask for
  Ports,     \* how many previews there may be: the size of the pool
  Id, Tag,   \* of a directory: the hash of its path, and the first six digits
  Repository \* of a directory: what it is a worktree, or a part of a worktree, of

NoName == <<>>
Discovered == [exists |-> FALSE, loads |-> FALSE, routes |-> <<>>, health |-> <<>>]
NoConfig == [name |-> NoName, file |-> Discovered]

Base(d) == IF d = <<>> THEN <<>> ELSE <<d[Len(d)]>>

ASSUME ProjectsAssumption ==
  /\ Dirs \subseteq Seq(STRING) /\ \A d \in Dirs : \A e \in {SubSeq(d, 1, n) : n \in 0..Len(d)} : e \in Dirs
  /\ NoDir \notin Dirs
  /\ Repos \subseteq Dirs /\ Homes \subseteq Dirs
  /\ \A c \in Configs : c.name \in Seq(STRING) /\ c.file \in File /\ c.file.exists
  /\ Flagged \subseteq Flags
  /\ Given \subseteq Seq(STRING) /\ Branches \subseteq STRING /\ Requests \subseteq Seq(STRING)
  /\ Id \in [Dirs -> STRING] /\ Tag \in [Dirs -> STRING]
  /\ \A d \in Dirs, e \in Dirs : d # e => Id[d] # Id[e] /\ Tag[d] # Tag[e]
  /\ \A d \in Dirs, e \in Dirs : Id[d] # Tag[e]
  /\ Repository \in [Dirs -> STRING]
  /\ Ports \in Nat \ {0}

VARIABLES
  git,      \* the directories with a .git
  conf,     \* the directories with a configuration file, and what it says
  previews  \* the registry, without what Lifecycle has of it

vars == <<git, conf, previews>>

Preview ==
  [root : Dirs, name : Seq(STRING), warned : BOOLEAN, routes : Seq(Route), health : Seq(HealthCheck)]

Init == git \in SUBSET Repos /\ conf = <<>> /\ previews = {}
-----------------------------------------------------------------------------
(* internal/config: the file and the root of a directory.                  *)

Above(d, marked) == {e \in marked : IsPrefix(e, d)}
Nearest(marks) == CHOOSE e \in marks : \A f \in marks : Len(f) <= Len(e)

findGitRoot(d) == IF Above(d, git) = {} THEN d ELSE Nearest(Above(d, git))

DiscoverAsFound(d) ==
  LET marks == Above(d, git \cup DOMAIN conf)
  IN  IF marks = {} THEN [config |-> NoDir, root |-> d]
      ELSE IF Nearest(marks) \in DOMAIN conf
           THEN [config |-> Nearest(marks), root |-> Nearest(marks)]
           ELSE [config |-> NoDir, root |-> Nearest(marks)]
\* A configuration file is looked for before the marker, up to the marker.
Discover(d) ==
  LET marks == Above(d, git \cup DOMAIN conf)
  IN  IF marks = {} THEN [config |-> NoDir, root |-> d]
      ELSE IF Nearest(marks) \in DOMAIN conf
           THEN [config |-> Nearest(marks), root |-> findGitRoot(Nearest(marks))]
           ELSE [config |-> NoDir, root |-> Nearest(marks)]

\* --config brings its own directory as the root, --project-root is the root.
Asked(cwd, config, root) ==
  LET found == IF config = NoDir THEN Discover(cwd) ELSE [config |-> config, root |-> config]
  IN  [found EXCEPT !.root = IF root = NoDir THEN @ ELSE root]
Asking ==
  {Asked(cwd, NoDir, root) : cwd \in Dirs, root \in Dirs \cup {NoDir}}
  \cup {Asked(NoDir, config, root) : config \in DOMAIN conf, root \in Dirs \cup {NoDir}}

Read(config) == IF config = NoDir THEN NoConfig ELSE conf[config]
-----------------------------------------------------------------------------
(* Names and selectors.                                                    *)

\* git answers for any directory in a worktree, and may fail.
deriveProjectName(root) ==
  {Base(root)} \cup {Append(Base(root), b) : b \in {c \in Branches : Above(root, git) # {}}}

Names(given, configured, root) ==
  IF given # NoName THEN {given}
  ELSE IF configured # NoName THEN {configured}
  ELSE deriveProjectName(root)

Unsuffixed(name, root) == name
\* The name of another preview gets the suffix, once, whatever has that name then.
Suffixed(name, root) ==
  IF \E other \in previews : other.root # root /\ other.name = name THEN Append(name, Tag[root]) ELSE name

hasSameProjectByName(p) == \E other \in previews : other.root # p.root /\ other.name = p.name
hasSameProject(p) == \E other \in previews : other.root # p.root /\ Base(other.root) = Base(p.root)

\* A selector is one text, compared with the identity, the name and the root.
Place(d) == [kind |-> "path", text |-> d]
Word(name) == [kind |-> "word", text |-> name]
Answers(p) == {Word(<<Id[p.root]>>), Word(p.name), Place(p.root)}
findPreview(selector) == {p \in previews : selector \in Answers(p)}

\* Nothing on the command line is the project of the directory.
selectorFromArgs(cwd) == Place(Discover(cwd).root)
-----------------------------------------------------------------------------
(* The commands, and what happens to the directories.                      *)

withoutID(root) == {p \in previews : p.root # root}

RegisterBeside(p) == Cardinality(previews) < Ports /\ previews' = previews \cup {p}
\* One other preview may have been evicted for the port.
Register(p) ==
  \E evicted \in SUBSET withoutID(p.root) :
    /\ Cardinality(evicted) <= 1 /\ Cardinality(withoutID(p.root) \ evicted) < Ports
    /\ previews' = (withoutID(p.root) \ evicted) \cup {p}

Up(asked, given, flags) ==
  LET read == Read(asked.config)
  IN /\ Accepts(read.file, flags)
     /\ \E name \in Names(given, read.name, asked.root) \ {NoName} :
          LET p == [root |-> asked.root, name |-> Suffixed(name, asked.root), warned |-> FALSE,
                    routes |-> Routes(read.file, flags), health |-> Health(read.file, flags)]
          IN  Register([p EXCEPT !.warned = hasSameProject(p)])
     /\ UNCHANGED <<git, conf>>

\* The first in the order of the ports: any of them.
Down(selector) ==
  /\ \E p \in findPreview(selector) : previews' = previews \ {p}
  /\ UNCHANGED <<git, conf>>

\* gc removes what is overdue; which that is, see Retention.
Expire == \E gone \in SUBSET previews : previews' = previews \ gone /\ UNCHANGED <<git, conf>>

GitInit(d)   == git' = git \cup {d} /\ UNCHANGED <<conf, previews>>
GitRemove(d) == git' = git \ {d} /\ UNCHANGED <<conf, previews>>
Edit(d, c)   == conf' = [e \in DOMAIN conf \cup {d} |-> IF e = d THEN c ELSE conf[e]] /\ UNCHANGED <<git, previews>>
Delete(d)    == conf' = [e \in DOMAIN conf \ {d} |-> conf[e]] /\ UNCHANGED <<git, previews>>

Next ==
  \/ \E asked \in Asking, given \in Given \cup {NoName}, flags \in Flagged : Up(asked, given, flags)
  \/ \E selector \in {selectorFromArgs(cwd) : cwd \in Dirs} : Down(selector)
  \/ \E p \in previews : Down(Word(p.name)) \/ Down(Word(<<Id[p.root]>>))
  \/ Expire
  \/ \E d \in Repos : GitInit(d) \/ GitRemove(d)
  \/ \E d \in Homes : Delete(d) \/ \E c \in Configs : Edit(d, c)

Spec == Init /\ [][Next]_vars
-----------------------------------------------------------------------------
(* Properties.                                                             *)

\* A preview is what it is, and a project root has one at most, however often
\* and from wherever up was run.
TypeOK ==
  /\ git \subseteq Repos /\ DOMAIN conf \subseteq Homes /\ \A d \in DOMAIN conf : conf[d] \in Configs
  /\ previews \subseteq Preview /\ Cardinality(previews) <= Ports
  /\ \A p \in previews, q \in previews : p.root = q.root => p = q

\* From anywhere in a git worktree, wherever configuration files are put, the
\* project is that worktree (not one it is nested in, not a directory in it),
\* and no file from outside it is used.
WorktreeIdentity ==
  \A d \in Dirs : Above(d, git) # {} =>
    LET worktree == CHOOSE g \in Above(d, git) : \A h \in Above(d, git) : IsPrefix(h, g)
    IN  /\ Discover(d).root = worktree
        /\ Discover(d).config # NoDir => IsPrefix(worktree, Discover(d).config)

\* Two previews answer to the same selector only when one of them was named
\* after the suffixed name, or the identity, of the other: the suffix need not
\* be unique, but nothing else goes wrong, in whatever order previews come, are
\* renamed and go.
NamedAfter(p, q) ==
  \/ p.name = <<Id[q.root]>>
  \/ p.name = q.name /\ p.name # <<>> /\ Last(p.name) = Tag[q.root] /\ Len(p.name) > 1
NamesTell ==
  \A p \in previews, q \in previews :
    p # q /\ Answers(p) \cap Answers(q) # {} => NamedAfter(p, q) \/ NamedAfter(q, p)

\* All previews have one host name, and browsers keep cookies by host name: of
\* any two live previews one at least carries the warning, unless their roots
\* have different names (hasSameProject does not see more of a project).
ThoughtUnrelated(p, q) == Base(p.root) # Base(q.root)
CookiesWarned ==
  \A p \in previews, q \in previews :
    p # q => p.warned \/ q.warned \/ ThoughtUnrelated(p, q)

\* Whatever the file and the flags say together, a registered preview sends
\* every request to the route the user declared for it first, on this machine,
\* without verifying the certificate only where there is one.  Nothing goes
\* nowhere, unless the catch-all is declared as / alone, which is accepted but
\* serves just that path.
RoutesAsDeclared ==
  \A p \in previews : \A request \in Requests :
    LET target == Proxied(Generate(p.routes), request)
    IN  /\ target = Declared(p.routes, request)
        /\ target = Nowhere => ~Last(p.routes).path.below
        /\ \A i \in DOMAIN p.routes :
             LET server == Generate(p.routes)[i]
             IN  server.dial \in Here /\ (server.tls \/ server.verified)

\* The warning comes with "multiple previews from the same project" (README.md,
\* "Cookies and multiple worktrees"); the code misses worktrees whose
\* directories have names of their own.
WorktreesWarned ==
  \A p \in previews, q \in previews :
    p # q /\ Repository[p.root] = Repository[q.root] => p.warned \/ q.warned
=============================================================================
