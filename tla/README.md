# Tailpreview in TLA+

Tailpreview gives local development servers private HTTPS URLs on a tailnet. Every
command of the `tailpreview` binary is a short-lived process. It reads a JSON registry
under a file lock, rewrites the configuration of one dedicated Caddy, switches
`tailscale serve` listeners on and off, checks the result over HTTPS, and saves the
registry. No transaction spans the three stores (registry, Caddy, Serve); the program
keeps them together by the order of its calls and by compensating when one fails. That
order, the compensations and what survives crashes and lost answers are what these
modules are about. Around it: which project a command is for, what its request means, which health
checks and routes follow, and the timer that collects garbage.

Run a check with `tlc -workers 2 -config Lifecycle_commands.cfg MCLifecycle`, a proof with
`tlapm LifecycleProofs.tla`.

## 1. Inventory

| Component (source) | State | Operations | Hard behaviours | Correct when |
|---|---|---|---|---|
| Lifecycle service (`internal/app/service.go`) | locals of one command | `Up Check Down List SetPinned GC`, `choosePort` | several processes; a failure or a death after any external call; ignored errors of rollbacks | stores agree after every command; bystanders are never interrupted; pins, reservations and updates are not lost |
| Retention (`service.go`: `refreshUsage`, `GC`, `choosePort`; access logs) | `created_at last_used_at unhealthy_since pinned`, log times | expiry, eviction | log read after the clock; requests that open after the counting, or cannot be counted; grace kept across recoveries | nothing counted as in use, or recently used, is removed, what is overdue goes |
| Caddy manager (`internal/caddy/manager.go`) | Caddy processes, admin socket, `caddy.json`, `.candidate` | `Apply Stop ActiveRequests` | lost `/load` answers, slow starts, 200 ms probes, crash with the candidate in place | success means served; one Caddy; `caddy.json` tells the truth |
| Caddy configuration (`internal/caddy/config.go`) | none | `Generate` | paths with a star become two matchers | one server per preview on its gateway port; a request goes to the route declared for it |
| State store (`internal/state/store.go`) | `registry.lock`, `registry.json`, temporary files | `Lock Load Save Close` | death and power loss inside `Save` | an atomic register under a lock |
| Health checker (`internal/health/health.go`) | one pass | `Wait CheckOnce` | flapping services | the gate opens only on a pass in which every required check passed |
| Verifier (`internal/app/verification.go`) | one attempt | `Verify` | redirects, 5xx, deadline | never leaves the origin, always ends |
| Tailscale client (`internal/tailscale/client.go`) | none; the daemon's Serve configuration | `Status PortAvailable FunnelEnabled(OnPort) Expose Remove` | 15 s timeouts, "available on the internet" | the port is configured iff the call says so (it may not) |
| Configuration (`internal/config`) | none | `Discover Load Validate` | two validations with flags in between; zero values in YAML; two markers looked for at once | what is registered is valid and what was declared; one project per worktree |
| Command line (`cmd/tailpreview/main.go`), identity (`service.go`: names, `findPreview`, `hasSameProject`) | the user's directories; names in the registry | `up` flags, selectors | names from four places, suffix, markers that change | a selector tells previews apart; shared cookies are warned of |
| Scheduler (`internal/scheduler`) | unit files; the manager's jobs | `service install`, `uninstall` | no lock, ignored errors, kill and reboot between the steps | success means that the timer runs, or does not, now and after a reboot |
| Doctor, paths, runner, build information | none | | none | pure I/O |

How they interact: the command line calls one service operation per process. `Up` waits for
`health.Wait` *before* it takes the lock; everything else runs under it. The service calls
`Caddy.Apply` (which may start, reload or stop Caddy), `Tailscale.Expose/Remove`,
`Verifier.Verify` (which goes out to the tailnet URL and comes back through Serve and Caddy)
and `Locked.Save`, one after the other, and picks a branch on each result. The scheduler's
`gc` and commands typed by users or agents are concurrent processes; the only thing between
them is the `flock`. Caddy writes one access log per preview, whose modification time the
next command takes as the preview's last use.

`PROJECT.json` lists each hazard at the line where it bites, with the properties that
would catch it, or the reason why none can.

## 2. Modules

| Module | Models | Checked by |
|---|---|---|
| `Lifecycle` | all commands as sequences of external calls over the three stores | `MCLifecycle`, 5 configurations; `LifecycleProofs` |
| `CaddyManager` | `Apply` and `Stop` call by call, Caddy processes | `MCCaddyManager`; `CaddyManagerProofs` |
| `Gateway` | abstract: what a command relies on when it calls `Apply` | refined by `CaddyManager` (proved) |
| `StateStore` | lock, load, save, file by file | `MCStateStore`; `StateStoreProofs` |
| `Register` | abstract: an atomic register under a lock | refined by `StateStore` (proved) |
| `Catalog` | abstract: the list of previews, changed by each command in one step | refined by `Lifecycle` (proved) |
| `Configuration` | file, flags, defaults, validation: the routes and health checks of an `up` | `MCHandoff`, `MCProjects`; `ConfigurationProofs` |
| `ServeStatus` | the search of `client.go` through Tailscale's serve status | `MCHandoff`; `HandoffProofs` |
| `Handoff` | health gate, what `check` asks Tailscale, final verification, exchange by exchange; uses the two above | `MCHandoff`, 2 configurations; `HandoffProofs` |
| `CaddyConfig` | the routes generated for Caddy, and where they send a request; uses `Configuration` | `MCProjects`; `ProjectsProofs` |
| `Projects` | discovery, identity, names, selectors, cookie warnings; uses `CaddyConfig` | `MCProjects`; `ProjectsProofs` |
| `Scheduler` | installing and uninstalling the timer on both platforms | `MCScheduler`; `SchedulerProofs` |
| `Retention` | clock, access logs, request counts, expiry, eviction | `MCRetention`; `RetentionProofs` |

The composition is by refinement: `Lifecycle` uses the store as one atomic `Save` and Caddy as
one `Apply` step with the outcomes *taken*, *refused* and *taken but reported as failed*.
`StateStore => Register` and `CaddyManager => Gateway` are the arguments that this is what
those components provide, and `Lifecycle => Catalog` that the whole is, for whoever looks at the
registry, a list changed by atomic commands. `Projects` takes `Catalog`'s view of a successful `up`
(registered, at most one other evicted) and adds what `Catalog` leaves out. `Handoff` refines
the single `Verify` step informally (its verdict is `Verify`'s branch), and `Retention` supplies the
reasons behind the sets (`expired`, victim) that `Lifecycle` leaves open.

### Lifecycle

`pc[a]` is the next external call of process `a`, `tx[a]` its locals: the registry it loaded
(`old`), the one it is going to save (`new`), the port of `up`, and the ports still to be
removed or re-exposed (`todo`). One action is one call plus the branch taken on its result, so
another process, a crash or the environment can act between any two calls:

| Action | Code |
|---|---|
| `LockRegistry`, `Abort` | `lockRegistry`; early returns |
| `UpPlan` | lines 105-174: prune, `choosePort`, build `desired` (eviction included) |
| `DownPlan`, `GCPlan`, `SetPinned`, `Refresh` | the same part of `Down`, `GC`, `SetPinned`, and `List`/`Check` |
| `Apply`, `Expose`, `Verify`, `Remove`, `Save` | the calls, with their error branches |
| `UndoExpose`, `UndoApply`, `UndoRemove` | the compensations, whose errors the code ignores |
| `Crash`, `CaddyDies`, `ForeignServe` | process death (the kernel drops the lock), Caddy's death or a reboot, another user of `tailscale serve` |

Faults are named (`FaultKinds`) and a configuration says which may strike:
`crash`; `torn` (Apply took effect and reported an error); `ambiguous` (Expose or Remove did);
`public` (the public-endpoint branch of Expose); `rollback` (a compensating call fails);
`caddyDies`; `foreign`. Plain failures, where a call fails without effect, are always possible.
Several plain failures may hit one command except in its rollback, where a failure is the
fault `rollback`.

Data: a project root is an id, a configuration is a revision (what tells two Caddy
configurations of one project apart), a gateway port is the external port it is derived from.
Which previews expire, and which reservations are stale, is any set.

### CaddyManager and Gateway

One caller at a time, as the registry lock guarantees. Caddy processes boot, read the
candidate, bind the socket (replacing what is there) and die on their own. Faults: `lost`
answers, `disk` (`caddy.json` not written, or its candidate in part: `os.WriteFile` truncates first, and its
removal is not deferred yet), `crash` of the caller, `late` (a start given up after
5 s while Caddy still boots), `slow` (a probe that times out although Caddy lives). After
`late` or `slow` two Caddy processes may be alive: `Gateway` calls that `strayed` and promises
nothing from there on; the run shows that before, everything holds. A `/stop` or `/load` takes
effect when it is answered; Caddy's own shutdown and reload are not modelled.

### StateStore and Register

A registry is the set of changes in it, a file is its content, whether it is whole, and whether
it was flushed. Power loss may take either name from before an unsynced rename, and tears what
was not flushed. `acked` and `kept` are history: what `Save` acknowledged, and what was also
synced to the directory.

### Catalog

`registry` alone: an up updates a preview in place, adds one on a free port, or takes the port of
one unpinned preview; down, gc and pin change what they are asked to. The refinement is the
identity on `registry`. It fails as soon as a command saves a registry that does not follow from
the one on disk by exactly one command.

### Handoff, Configuration, ServeStatus

Statuses are the classes the code distinguishes, redirect targets what its policy asks of them
(credentials, same origin, loopback, https). `once` tells `check` (one pass) from `up`
(`Wait`). `late` says that the deadline has passed. The health checks are computed by
`Configuration` from a file and flags, as `up` does. `check` reads the Serve configuration twice
(`serveStatus`, then `PortAvailable`, again `serveStatus`, then `FunnelEnabledOnPort`), and it may
change in between. `ServeStatus` evaluates the code's search over the whole JSON document, of which
a port, the word *funnel* and truth remain; `Listens` and `Public` say what it is meant to find.
`PrivateListener` states that what it finds is what is meant, but for two errors of the search that it
names: a host whose name contains *funnel* (`Misleading`) may count as public, never the other way
round, and a listener that is missing is passed over when another one forwards to a local port of its
number (`ForwardedTo`). The second is a disagreement, see below.

### CaddyConfig and Projects

A path, a directory and a name are sequences of segments or words. Of an upstream URL Caddy gets the
host and port (`Host`); a path in it is dropped. `Projects` lets `up` run from any
directory, with and without `--config`, `--project-root` and `--name`, while git repositories and
configuration files come and go. The identity is an injective function of the root (a hash of 64
bits) and so is the six-digit suffix, and no identity is a suffix; that is an assumption (`ProjectsAssumption`). `Repository` says what a
directory is a worktree of; the code never asks, and only `WorktreesWarned` uses it. Which preview
is evicted, and what port comes first in a search, is left to `Lifecycle`.

### Scheduler

A command is the sequence of its steps (`steps`), each of which may be the last before an error, a
kill or a reboot; two processes run them without a lock. `Stop` models `launchctl bootout` and
`systemctl disable --now`: they need the file they name, and their failure is ignored. History:
`trouble` (something failed since nothing ran), `asked` (the commands given since), `orphaned`
(a timer ran without its file when the first of them began).

### Retention

Ages instead of times: `Tick` makes everything one unit older, up to `Cap`, so the state space
is finite and no age is cut before the thresholds it is compared with. `racing` are the previews
whose access log gets younger than the command's clock while it runs (`refreshUsage` does not
believe those). A `gc`, and an `up` that finds the pool full, are two steps: `GCCounts` or `ChooseVictim`
reads the logs and counts the open requests (none, when `Caddy.ActiveRequests` fails: the error is dropped),
`GC` or `UpEvicting` probes and removes. `seen`, `counted` and `swap` are the command's locals in
between, while requests open and complete and other commands wait for the lock; they do so within one unit
of time. A preview counted as in use is spared, whatever its requests do since; one whose request opens after the
counting may be removed, and its open requests end with it. The other commands are one step, and the
partial failures inside a command are in `Lifecycle`.

## 3. Runs

| Run | Question | Bounds |
|---|---|---|
| `commands` | Do the stores stay in step and bystanders served, is what `up` verified what it records, and what is struck off the registry gone, whatever two processes do and whatever call fails? | 2 processes, 3 projects, 3 ports (one gateway busy), 2 revisions, faults `crash ambiguous public rollback` |
| `faults` | What holds under *every* fault: is the registry sound and changed by whole commands only (`Catalog`), are other programs' ports left alone? | 2 processes, 2 projects, 2 ports, 2 revisions |
| `heals` | Does the scheduler's gc bring Caddy back? (liveness) | one user and one timer process, 2 projects, 2 ports, faults `crash rollback caddyDies` |
| `caddy` | Is a successful Apply served, is there one Caddy, does the manager keep the promise of `Gateway`? | 3 configurations, 2 Caddy processes, all faults |
| `store` | Is the registry an atomic register, never torn, nothing acknowledged lost? | 3 processes, 4 changes, all faults |
| `handoff` | Does the gate open only on a pass of the required checks, is a public listener told from another port's and a missing one from all but another's target, does verification stay home and end? | 4 requests (file, flags and defaults; required, optional and impossible checks), 40 Serve configurations, 2 paths, limit 5 |
| `projects` | What does a directory, a name, a selector refer to, who is warned, where do registered routes lead? | 5 directories (a worktree nested in another, a copy of it elsewhere; 2 places for a file), 2 previews at a time, 4 sets of flags, 6 request paths |
| `scheduler` | What does a success of install and uninstall mean? | 2 processes, 2 binaries, both platforms, every failure |
| `retention` | Is nothing removed too early, out of order, or although its open request was counted, and what is overdue in the end? | 3 projects, 2 upstreams, 2 slots, ages 0 to 2 |

Why these bounds: two processes are enough for every race on one lock, since a third could only
wait. Three projects and ports give an updated preview, an evicted or expired one and a bystander
at the same time, and a gc with two removals one of which fails; one busy gateway makes the pool
run full. Two revisions are what a stale configuration needs. With two Caddy processes the second
is the stray one. In `retention` the thresholds 1 and 2 separate idle from old, and three
projects on two slots force evictions with a choice. In `projects` two previews at a time are
enough for every pair, and evictions bring the third name that a suffix may collide with; three
slots (91,008 states of a smaller instance) showed nothing else.
Symmetry is used over interchangeable model values and only in safety runs.

Every passing property has a mutant in `PROJECT.json`: a plausible mistake in one definition that
TLC finds with the same configuration. The operators beside the real ones (`FreeServeUnchecked`,
`LoadRecordsFirst`, ...) are those mistakes; no specification uses them.

### Disagreements with the documentation

A run of its own, in which TLC finds the behaviour:

- `torn` (`manager.go:50`): Apply compares with `caddy.json`, not with what Caddy runs. After an
  Apply that took effect but failed to report, `up` of the configuration still in `caddy.json` is
  skipped as current and succeeds while Caddy serves another one.
- `timeout` (`service.go:183`): an Expose that takes effect and times out leaves a listener that
  belongs to no registered preview.
- `mapping` (`health_yaml.go:29`): a health check in the mapping form is optional unless it says
  `required: true`. The default is set on a copy that validation drops (`config.go:158`, `245`).
  For the same reason a required mapping without codes has the range 0-0 and never passes
  (one of the requests of `handoff`).

Found while modelling, and left as an exemption in a property or as a change to a configuration:

- A Serve port taken by another program after the check is overwritten (`service.go:183`, `501`;
  `README.md:336` says never): in `ForeignKept` drop `p \notin Claimed` and the conjunct
  `p \notin Claimed'`, and the run `faults` shows it.
- `via` includes the first request, so four redirects are followed, not the five of
  `docs/configuration.md:101` (`verification.go:70`): check `FollowsUpToLimit` with `Handoff.cfg`.
- Open requests are counted once (`service.go:397`, `512`), before the health probes, the Apply and the
  Remove of a gc (402, 434, 438) or the Apply of an up (180); and an error of the counting is dropped. A
  preview whose request or WebSocket opens after the counting, or could not be counted, is collected or
  evicted, which `README.md:263` excludes: write `busy` for `counted` in `SparesActive`.
- `check` looks for its port number anywhere in the Serve status (`client.go:132-161`, `service.go:278`), so
  that a missing listener is passed over when another one forwards to a local port of that number, where
  `docs/agent-contract.md:164`, `docs/security-model.md:79` and `CHANGELOG.md:13-15` promise the exact
  listener; the final verification then fails, with another code than `serve_listener_missing`: check
  `ExactListener` with `Handoff.cfg`.
- The cookie warning compares the names of the root directories (`service.go:665`). Worktrees of one project
  whose directories have names of their own share the hostname and get none, where `README.md:312-318` and
  `docs/security-model.md:95-97` promise it: check `WorktreesWarned` with `Projects.cfg`.
- `unhealthy_since` is changed by gc only (`service.go:405`, `310`): a service that every gc of a grace
  period finds failing is collected although it, and a `check`, succeeded between them. `NoEarlyExpiry` takes it as gc left it.
- A route's upstream may have a path, which validation accepts (`internal/config/config.go:199-222`) and Caddy
  never gets (it dials `u.Host`, `internal/caddy/config.go:68`). `RoutesAsDeclared` is about hosts.
- A final route `/` is accepted as the catch-all (`config.go:145`) and becomes a matcher of that one
  path (`caddy/config.go:60`): other paths go nowhere. Drop the exemption in `RoutesAsDeclared`.
- A second `service uninstall` after one whose ignored `bootout` failed reports success while the job
  runs (`scheduler.go:36`): drop `orphaned` from `UninstalledStops`.
- Commands without a selector look for the preview of the worktree, but `up --config sub/tailpreview.yml`
  registers the directory of the file as its root (`main.go:167-170`): such a preview is found by name only.

### Fairness

- `CaddyHeals` (run `heals`): once faults are over, processes in a command go on (weak fairness of
  their steps; every call has a result), and the timer's process gets the lock again and again
  (strong fairness: the scheduler starts a gc every five minutes and `flock` waiters are served).
  It assumes that `tailscale status` and `caddy validate`, which have no timeout in the code, return.
- `Terminates` (run `handoff`): time passes, and every HTTP exchange ends because its client has a
  timeout of 2 or 3 seconds.
- `OverdueGoes` (run `retention`): the scheduler's gc gets the lock again and again, whether or not it can
  read the request counts (strong fairness of `PeriodicGC`, which other commands disable while they hold the
  lock), and a command that began ends, as its calls have timeouts (weak fairness of `Removal`).

## 4. Proofs

Every invariant, action property and refinement that a passing run checks is also a theorem, for
every value of the constants that satisfies the named assumption of its module (two of `Lifecycle` only without
some faults, see below). Each proof goes
through an inductive invariant (`IInv`, or the named parts below) that TLC checked before. The
assumptions only type the constants, keep the model values for *nothing* apart from real ones, and
say what the directories' hashes are taken to be (injective, `ProjectsAssumption`).

`LifecycleProofs`, under `LifecycleAssumption` (ports are positive numbers, `NoAgent` is no agent,
timers are agents):

- `TypeCorrect`: types, one lemma per kind of step.
- `RegistryIsSound`, `ReservationsAgree`, `NoUpdateLost`, `PinnedPreviewsSurvive`: these hold under
  *all* faults. Neither soundness nor pinning is inductive: a command saves a registry it computed
  several calls earlier. The strengthening is `LockInv` (whoever is inside a command holds the lock,
  and the registry it loaded is still the one on disk) with `PlanInv` (what it is going to save is
  sound, agrees with its reservations and keeps pinned previews). The proof has one lemma per plan
  (`UpPlanned`, `DownPlanned`, ...) and a frame lemma for all other calls.
- `StoresInStep`, `BystandersAreServed`: while only plain failures happened. The invariant `StepInv`
  says for every value of `pc` where Caddy and Serve stand relative to `old`, `new` and `todo`;
  one lemma per call (`ApplySettles`, `RemoveSettles`, ...) shows that it leads there, the
  compensations included. `InStep` is its value at `idle`, `BystandersServed` its consequence at
  every other point.
- `StruckOffIsGone` and `RecordedIsServed` have a set of fault kinds as hypothesis: the first excludes
  `torn`, the second also the death of Caddy and other users of Serve; every other fault, crashes and failed
  rollbacks included, may strike. Without the hypothesis they are false: a torn Apply leaves `caddy.json`
  behind (run `torn`), and a later Apply then skips the load; Caddy may die after the load that `up` waits
  for; another program may take the port between check and Expose. Both rest on `FileShowsLoaded`
  (`caddy.json` is what a running Caddy runs, a lemma), the one with `GoneInv` (from the first Remove on,
  what is struck off is out of Caddy, and exposed only where a Remove is still to come), the other with
  `UpServed` (from the call of Expose on, what Caddy runs is what up will record).
- `ForeignIsKept` holds under every fault. Its parts are `ClaimsGrowFree` (only a free port is claimed, even
  when a command that died left its plan behind) and `CallsSpare` (no call of a command, compensations
  included, changes a port that is not claimed), for which the ports still to be removed or exposed again must
  be those of the old registry (`TodoOwned`). What it does not cover is a port taken after it was claimed.
- `CommandsAreAtomic`: the refinement of `Catalog`. `EffectInv` says that the registry a command is
  going to save is an effect of the catalog on the one it loaded; by `LockInv` that is the one on
  disk, so `Save` is a step of the catalog and everything else stutters.

`StateStoreProofs`, under `StoreAssumption`: `FileNeverTorn`, `NothingLost`, `SyncedIsKept`,
`TypeCorrect`, `StoreIsRegister` (refinement) from one invariant: only the lock holder is at work,
its view is the file's content plus at most its own change, and a temporary file about to be renamed
is whole and flushed.

`CaddyManagerProofs`, for any configurations, processes and fault kinds: `TypeCorrect`, `NoSecondCaddy`,
`SuccessIsServed`, `ManagerKeepsPromise` (refinement of `Gateway`). What a call does is right only
because of what Caddy was before it: `Watched` (until `Strayed`, one process at most is alive, a
booting one is being waited for, and an `up` one is behind the socket), `InHand` (at each call, what
the processes run relative to what is wanted), `CandidateIsWanted`, and `Told` (without a fault,
`caddy.json` says what is served). `OneCaddy` is a part of `Watched`.

`ConfigurationProofs` has no theorem of its own but the lemmas that `HandoffProofs` and `ProjectsProofs` need: routes and
health checks that `up` computes are well-typed, an accepted request has at least one check, a
greatest and a least element exist, prefixes are what they should be.

`HandoffProofs`, under `HandoffAssumption` (typed requests that `up` accepts, typed Serve configurations),
for any number of checks, paths and redirects: `TypeCorrect`, `RequestsStayHome`, `FatalErrorsEnd` and
`OnlyHealthyOpens` from `Open` (a gate still to be passed has given no verdict) and `Judged`
(`healthy` is about every check of this pass). `ListenersArePrivate` is about the search: lemmas say what
leaves a document has (`DocumentLeaves`), that the code's search finds a listener that is there
(`ListenerIsFound`, `PublicIsFound`), and what else it may take for one (`FoundListens`: the target of
another) or for a public one (`FoundIsPublic`).

`SchedulerProofs`, for any processes and binaries: `SuccessfulInstallsRun` and `SuccessfulUninstallsStop`
from `Commands` (what runs is a rest of one of the commands given), `LastOneStarts` (after installs
only, a command is still at work or the job runs) and `Winding` (at each step of an uninstall the timer is
stopped before its files go).

`RetentionProofs`, for any projects, upstreams, slots and thresholds: `ActiveAreSpared`,
`LeastRecentIsEvicted` and `NothingExpiresEarly` are action properties over the second step of a command. The
invariant carries to it what the first step read: the records seen are those of the registry but for the
logs' refreshes, the victim was the least recently used then and everything counted is still live,
and requests that open and complete in between make nothing older. Records are
`Consistent` (not used before they were created, unless that is too long ago to count), and the
pool is never exceeded.

`ProjectsProofs`, under `ProjectsAssumption` and `CaddyConfigAssumption` (the place of a request without a
route is no URL):

- `OneProjectPerWorktree`: the marks above a directory are a chain (`PrefixOrder`), so there is a nearest
  one (`NearestIs`), and the two markers that `Discover` looks for lead to the innermost worktree.
- `SelectorsTell`, `NamesakesAreWarned` (of directories with the same name only), `TypeCorrect`: names and warnings are decided when a preview is
  made and never again. The invariant is what then has to hold of any two previews, whichever came
  first (`Apart`): `RegisterIInv` for the new one beside those that stay, `FewerIInv` when some go.
- `RoutesLead`: that every registered request is valid is invariant (`Sound`); that Caddy's matchers take
  what a path covers, and so its first match is the first declaration, are lemmas about any routes and
  any request path (`MatchersCover`, `ProxiedIsDeclared`).

Only model-checked: liveness (`CaddyHeals`, `Terminates`, `OverdueGoes`), which is out of the proof
system's reach (`ENABLED`, fairness). Not theorems at all: the three properties in which a run finds a
disagreement with the documentation. Nothing is proved of what abstracted data is (parsing, hashing).

## 5. Not modelled

The syntax of YAML, variables, durations, flags and URLs, output, doctor and paths are pure functions
or plain I/O. Times to live and the paths to verify are accepted as given. Error texts and
remediation are wording. A name collision by two hashes with equal prefixes is assumed away.
Caddy's and Tailscale's insides are what the code
can observe of them. Serve listeners orphaned by a crash are in the model, but no property forbids
them: no command looks for them.

## 6. Plan

In order of importance; 1 to 9 exist.

1. `Lifecycle` with its faults and runs, proved, with the refinement of `Catalog`.
2. `CaddyManager` and `Gateway`, proved.
3. `StateStore` and `Register`, proved.
4. `Handoff` with `ServeStatus` and `Configuration`, proved.
5. `Retention`, proved.
6. `CaddyConfig` and `Projects`, proved.
7. `Scheduler`, proved.
8. The lemmas that several of these share, in `ConfigurationProofs`.
9. A mutant for every property.
10. `RecordedIsServed` with the death of Caddy allowed: what `up` records is then served unless Caddy died
    after the load, which needs that death in the state.
11. Theorems about each command on its own (what a failed `up` leaves behind under a single named
    fault), from `StepInv` with the fault in it.
