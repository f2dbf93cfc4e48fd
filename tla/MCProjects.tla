----------------------------- MODULE MCProjects -----------------------------
(* Bounded instances of Projects for TLC. *)
EXTENDS Projects, TLC

\* A worktree, another one of the same repository inside it, and a copy of the
\* first elsewhere, without git.
App == <<"app">>
Web == <<"app", "web">>
Copy == <<"copies", "app">>
Tree == {<<>>, App, Web, <<"copies">>, Copy}
Hash == <<>> :> "id0" @@ App :> "id1" @@ Web :> "id2" @@ <<"copies">> :> "id3" @@ Copy :> "id4"
Digits == <<>> :> "0" @@ App :> "1" @@ Web :> "2" @@ <<"copies">> :> "3" @@ Copy :> "4"
Origin == <<>> :> "none" @@ App :> "app" @@ Web :> "app" @@ <<"copies">> :> "none" @@ Copy :> "copy"
Worktrees == {App, Web}
Configured == {Web, <<"copies">>}

Below(at) == [at |-> at, below |-> TRUE]
To(path, u) == [path |-> path, upstream |-> u, insecure |-> FALSE, strip |-> FALSE]
Both == <<To(Below(<<"api">>), "api"), To(Below(<<>>), "web")>>
Valid == [exists |-> TRUE, loads |-> TRUE, routes |-> Both, health |-> <<>>]
Contents == {[name |-> <<"app">>, file |-> Valid],
             [name |-> NoName, file |-> [Valid EXCEPT !.loads = FALSE]]}

Hosts == "web" :> "localhost:3000" @@ "api" :> "localhost:4000" @@ "elsewhere" :> "example.com"

\* Nothing; other routes, one stripped and with an unverified certificate; --insecure-upstream of a path whose upstream has no
\* TLS; a route to another machine.
None == [routes |-> <<>>, insecure |-> {}, strip |-> {}, health |-> <<>>, ranges |-> <<>>]
FlagSets == {None,
             [None EXCEPT !.routes = <<To(Below(<<"api">>), "api"), To(Exact(<<"up">>), "web"), To(Exact(<<>>), "web")>>,
                          !.strip = {Below(<<"api">>)}, !.insecure = {Below(<<"api">>)}],
             [None EXCEPT !.insecure = {Below(<<>>)}],
             [None EXCEPT !.routes = <<To(Below(<<>>), "elsewhere")>>]}

\* /, /api, /api/, /api/users, /up, /apix
Paths == {<<>>, <<"api">>, <<"api", "">>, <<"api", "users">>, <<"up">>, <<"apix">>}

\* A name, and the identity of a directory.  A branch may be named like the
\* suffix of one.
Wanted == {<<"app">>, <<"id1">>}
=============================================================================
