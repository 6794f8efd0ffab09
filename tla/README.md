# A TLA+ model of capo-shell-mcp

capo-shell-mcp is an MCP daemon that lets a client list the workload clusters of
several Cluster API management clusters, fetch their kubeconfigs and run commands
against many of them at once. It opens `sshuttle` tunnels to API servers that are
closed to its network. This directory models the parts of the daemon where
goroutines, timers, API requests and child processes meet: TLA+ modules translated
from the Go source, TLC configurations that check them on small instances, and
TLAPS proofs of the properties that matter most. File names without a directory
are relative to `src/internal/`.

## 1. The system

| Part | State it keeps | Operations | Who uses it |
|---|---|---|---|
| Tunnel manager, process mode (`proxy/manager.go`, `proxy/clock.go`) | `processEntries` (target to process and TTL timer), the singleflight group, one exit watcher per entry | `EnsureProxy`, the TTL callback `killProcessEntry`, the exit watcher, `KillAllProcessProxies` | `cachedKubeconfig`, the embedded provider; `main` at shutdown |
| Tunnel manager, systemd mode (same file) | none but the singleflight group: the transient unit is the state | `systemctl is-active`, `set-property`, `systemd-run` | as above |
| Cluster patterns (`capi/target.go`, `target_pattern.go`, `resolve_patterns.go`) | none; the locals of a call | parse, match, expand, deduplicate | every tool with a `clusters` argument |
| TTL cache (`cache/cache.go`) | a map with an expiry per entry, under a mutex | `Get` (lazy eviction), `Set` | the store of kubeconfigs and of cluster lists |
| Kubeconfig pipeline (`server/kubeconfig.go`, `capi/kubeconfig_fetch.go`, `capi/store.go`) | the kubeconfig cache | `cachedKubeconfig`: cache, secret, transform, API server info, tunnel, cache | every tool that touches a cluster |
| Read-only access (`capi/readonly.go`) | three objects of the workload cluster | `EnsureReadOnlyRBAC`, `CreateReadOnlyKubeconfig` | the `_readonly` tools |
| Fan-out (`server/tools.go`, `exec/exec.go`, `embed/fanout.go`) | a WaitGroup, a result per target, a temporary kubeconfig per target | `execInClusterFanOut`, `execOneTarget`, `WithKubeconfig`, `getClusterKubeconfigFanOut`, `runFanOut` | every tool that takes several clusters |
| Command execution (`shell/shell.go`) | two buffers and one byte counter they share | `OSExecer.ExecFile` | the fan-out, the systemd mode |
| Cluster discovery and selection (`server/resolve.go`, `server/target.go`, `server/tools.go`, `capi/clusters.go`, `embed/fanout.go`) | the cluster-list cache | list each context of each kubeconfig entry; from a tool's `clusters` to its targets | every tool |
| Embedded kubernetes-mcp-server (`embed/provider.go`, `embed/mount.go`) | a manager per target, cached for good | look a manager up, build one | the mounted Kubernetes tools |
| Configuration, clients, OpenStack credentials, HTTP server, `main` | built once | load, serve, shut down | everything |

How they interact. A tool call resolves its patterns (listing clusters if one is
partial), starts a goroutine per target, and each goroutine asks the kubeconfig
pipeline, which shares one cache between all calls and asks the tunnel manager for
a tunnel before it caches a kubeconfig and at every hit on one that needs it. The
tunnel manager shares one attempt between concurrent callers of a target; a TTL
timer, an exit watcher and the shutdown sweep remove entries behind their backs.
A read-only call then brings three objects up to date in the workload cluster,
where it may meet another call doing the same. Finally a command runs with a
temporary kubeconfig, its output copied by two goroutines of `os/exec`.

What is hard here, and what makes each part correct:

- *Tunnel manager.* Lookup, spawn and insert are not one critical section; an
  entry's timer is replaced without the lock; a timer that has fired cannot be
  stopped; removal precedes the signal. Correct: no sshuttle is lost track of, no
  target has two, each entry has an expiry, dead tunnels are forgotten, callers
  return, shutdown signals what it owns.
- *Systemd mode.* The daemon decides on what a command said of a unit that changes by
  itself, that an earlier daemon may have left behind, under the context of a client
  that may go away. Correct: success means a tunnel, failure has a cause, callers
  return, and a target never has two tunnels.
- *Patterns.* Overlapping patterns, duplicates and strict mode. Correct: exactly
  the denoted targets, once, in first-seen order; strict mode widens nothing.
- *Command execution.* An unsynchronised counter decides what is kept. Correct:
  truncated output is never a success; the cap holds.
- *Read-only access.* Check and act are separate API requests, and a failed step
  leaves the cluster half done. Correct: a token is backed by its objects, and
  callers that interfere still leave the objects in place.
- *Kubeconfig pipeline.* Requests race on one cache while the world changes.
  Correct: nobody gets another cluster's kubeconfig, staleness is bounded, the
  tunnel lives as long as the kubeconfig that needs it.
- *Discovery and selection.* Omitted, empty, partial and exact arguments take
  different paths in each tool; listings are cached per context and filled by several
  requests. Correct: a listing is complete and of the recent past, a tool that writes
  reaches only what its caller wrote out, an embedded tool gets usable targets.
- *Embedded tools.* Managers live longer than what they were built from, and two first
  calls build two. Correct: each target's manager is its own and was born fresh.
- *Fan-out.* Counting goroutines, isolating failures, cleaning up files. Correct:
  the answer is complete, tells failure, comes at all, no kubeconfig file stays behind
  a command, and no admin kubeconfig leaves a read-only call.

## 2. The modules

| Module | Models | Composes |
|---|---|---|
| `TunnelLifecycle` | what either mode of the tunnel manager promises of one tunnel: at most one per target is started or in use, and each is let go of | |
| `ProxyManager` | `EnsureProxy` in process mode and everything that races with it | refines `TunnelLifecycle` |
| `SystemdProxy` | `EnsureProxy` in systemd mode, the unit, restarts of the daemon | refines `TunnelLifecycle` |
| `TTLCache` | `Get` and `Set` as operators on a map | |
| `TargetPatterns` | `ResolveClusterPatterns` | |
| `ClusterSelection` | from a tool's `clusters` argument to its targets, with the walk that lists clusters | `TargetPatterns`, `TTLCache` |
| `KubeconfigCache` | `cachedKubeconfig` | `TTLCache` |
| `EmbedProvider` | `capiProvider` and its managers, next to the daemon's own tools | `KubeconfigCache` |
| `FanOut` | the three fan-outs, down to `WithKubeconfig` | |
| `CommandOutput` | `OSExecer.ExecFile` | |
| `ReadOnlyRBAC` | `CreateReadOnlyKubeconfig` | |
| `MC*` | the instances TLC checks | |
| `*Proofs` | theorems about the module they are named after; `KubeconfigCacheProofs` also about `EmbedProvider`; `ClusterSelectionProofs` builds on `TargetPatternsProofs` | |

### ProxyManager

A step is what another goroutine can observe: a critical section, a call of a timer
function, a channel receive. `pc` is the position of an `EnsureProxy` call. A call
makes at most one process, entry and timer, so all three bear the call's name.
`entries` is `processEntries`, `timerOf` the `timer` field of an entry, `leader` the
singleflight group, `existing` the pointer a refresh holds after the unlock, `victim`
the pointer `killProcessEntry` holds after the unlock, `watched` the exit watchers,
`doomed` the keys of the shutdown sweep.

| Action | Code |
|---|---|
| `Begin`, `Finish` | `group.Do`, for the leader and those who share its attempt |
| `Lookup`, `Refresh`, `Assign` | the read under `mu`; `Stop` and `AfterFunc`; the assignment outside `mu` |
| `Spawn`, `SelectExited`, `SelectElapsed`, `Arm`, `Insert` | the start of an sshuttle; the `select` (either branch if both are ready); the TTL timer; the insertion and the watcher |
| `Fire`, `Callback`, `KillFinish` | a TTL timer goes off; its callback gets the lock; it stops the timer and signals |
| `WatchExit`, `ProcExit` | the watcher goroutine; sshuttle ends |
| `BeginKillAll`, `SweepKill`, `Exit` | `httpSrv.Close`, `KillAllProcessProxies`, the end of `run` |

The startup window is not a timer of its own: `SelectElapsed` may come at any time.
Signals to a process that has exited do nothing; an sshuttle outlives the daemon.
`targetKey` is the identity of a `Target`, the sshuttle host is left out as the key
leaves it out.

### SystemdProxy

One action is one command: `Probe` (`is-active`), `Extend` (`set-property`), `Run`
(`systemd-run`). `unit` is what systemd says of a target's unit; `Die` and `Restart`
change it by themselves, as `Restart=on-failure`, `StartLimitBurst` and `--collect`
have it. `Cancel` is a client that goes away: under the leader's context every
command fails from then on. `RestartDaemon` loses the calls and the singleflight group
and leaves the units; a `systemd-run` of the old daemon may still be on its way
(`Orphan`). `tunnel` names, for the refinement, the call whose `systemd-run` started a
unit. `up` and `upset` are history: whether the unit was active at some moment of the
attempt, and whether anything interfered with it.

### TargetPatterns and ClusterSelection

A string is the sequence of its slash-separated segments, so `strings.Split` is the
sequence and `strings.Join` is concatenation; a field of a cluster is a string of its
own, so that a name holding a slash is expressible. One action is one iteration of a
loop of `ResolveClusterPatterns`; the inner loop covers `ExpandTargetPattern` and the
deduplication of its result.

`ClusterSelection` puts the handlers around it. `stage` is where the handler is, `step`
where its walk over `Sources` is. The key of a cached listing is the pair of the names
the code joins with a colon: a kubeconfig's name is taken to hold none. The loops that
filter (`parseContexts`, the ones of `list_clusters` and `listKnownClusters`) are one operator,
`Chosen`: the members of a sequence that are in a set, in their order.

| Action | Code |
|---|---|
| `Begin` | what the handler of each tool does first with its argument: refuse, answer, list or resolve (`WhenOmitted`, `WhenGiven`) |
| `StartWalk`, `ResolveContexts`, `NextSource`, `EndWalk` | `allResolvedClusters`, `resolveContexts`, the contexts `parseContexts` leaves |
| `Get`, `List`, `Set` | `listClustersCached`: the cache, the List request, the cache again; one that fails fails the walk |
| `Resolve`, `Known` | `ResolveClusterPatterns`, with `listKnown` answered by the walk; the embedded tools parse the targets back and leave out what does not parse |
| `AfterWalk`, `Resolved` | what the handler makes of it; `list_clusters` keeps the order of its listing |
| `OtherLists`, `OtherSets`, `ComeOrGo`, `Tick` | another request that fills the same cache, clusters that come and go, the clock |

### CommandOutput

`written` is `sharedLimit.written`. `limitedWriter.Write` is three steps (`Load`,
`Store`, `Check`), because `w.limit.written += len(p)` is a data race between the two
copiers; `Check` may see the field or the value just stored. Reads of a pipe, the
child's exit and the end of a pipe are `os/exec`'s and the child's.

### ReadOnlyRBAC

One action is one API request; each may also be rejected or lost. The objects are
`absent`, `stale` (can be updated), `foreign` (a roleRef that cannot be changed) or
`current`, in any combination at the start. An update of a foreign binding is refused;
the refusal is a choice over what `isImmutableRoleRefError` looks for in it (`Refusal`),
because its reason and wording are the API server's and no code in the repository fixes
them. `pc` tells the endings apart: `refused` (the request was answered, with a
conflict), `unrecognised` (a foreign binding's refusal that does not read as expected: the
early return of `UpdateBinding`), `faulted` (the server's own reasons),
`unrecreated` (a fault between delete and create), `malformed` (the admin kubeconfig
names no cluster), `kubeconfig`.

### KubeconfigCache and EmbedProvider

The steps of `cachedKubeconfig` between which time may pass or another request may
run. Outside, a cluster's API server is `open` to the daemon, or `allowedCIDRs` closes it;
a closed one is `bare` while its `controlPlaneEndpoint` has no host or no port. Only a
closed one that is not bare needs a tunnel to the code (`HasInfo`, which is
`FetchAPIServerInfo`'s `ok`): a bare one's kubeconfig is cached and returned as an open
one's. `Restrict` closes a server, with an endpoint or without, `Address` fills the endpoint in,
`Rotate` replaces a secret. `replaced` and `lastDirect` are the history of that: when each
revision of a secret was replaced, when a server was last open or bare. Upstream changes
are cut off for a cluster whose requests have all ended (`Wanted`): they only make later
times, and the bounds on what was returned weaker. `leased` is until when
`EnsureProxy` has kept the tunnel; the tunnel's early death and its removal are
`ProxyManager`'s. A cache key is the names joined by `:`, as sequences of the pieces
between colons.

`EmbedProvider` adds `managers` (the kubeconfig each was built from), and for each
request whether it is a tool's own (`"own"`) or a provider's. A provider's request looks its target up
(`Lookup`), goes through the same pipeline if there is no manager (`Pipeline`), and
puts the manager it has built into the map, over any that got there first (`Install`).

### FanOut

The loop (`Launch`), the waiting caller (`Answer`) and the goroutine of each target:
`Resolve` for all tools, `Equip` for those that need credentials or a read-only
kubeconfig, `Write`, `Run`, `Remove` for commands, `Handle` for embedded tools; each
may fail where the code returns an error. `access` is what the kubeconfig in a
goroutine's hands permits, `files` are the temporary kubeconfigs on disk; `Stop` is
the daemon exiting under a call that outlasts the ten seconds of the shutdown.

## 3. What the runs show

| Run | Question | Bounds |
|---|---|---|
| `ProxySafety` | Is a tunnel ever lost track of, or doubled? | 3 calls, 2 targets; zero TTL and slow requests allowed |
| `ProxyLiveness` | Do entries keep an expiry, callers return, dead tunnels go and live ones come down; does the sweep signal what it owns; is it a `TunnelLifecycle`? | 3 calls, 1 target |
| `ProxyRefreshRace` | (violated) Does a refresh stop the old timer for good? | 2 calls, 1 target |
| `SystemdProxy` | What do success and failure mean, do callers return, is it a `TunnelLifecycle`? | 3 calls, 1 target |
| `ClusterSelection` | Which targets does a call get, in which order, how old is its listing, and what can it not reach? | 5 tools, 17 arguments, 4 clusters in 3 contexts of 2 kubeconfigs, one of which comes and goes; TTL 1, a call takes up to 1 tick, 3 ticks, one listing by another request |
| `OmittedClusters` | (violated) Does every tool that takes partial patterns read an omitted `clusters` as all of them? | the same |
| `OutputLimit` | Is truncated output ever a success; does the cap hold for one stream? | limit 3, reads of 1 or 2 bytes, 4 per stream |
| `OutputRace` | (violated) Does the cap hold for both streams together? | the same |
| `RBACSettles` | What is a token worth, how are the objects left, and does anybody succeed? | 3 callers, every initial state, any request may fail, any refusal of a foreign binding |
| `EmbedProvider` | Whose kubeconfig is returned, how old, is its tunnel there; what is a manager built from? | 2 requests, own or embedded, 2 clusters, TTL 1, a request takes up to 1 tick, 2 revisions, 4 ticks; a server is closed with or without an endpoint |
| `EmbedStale` | (violated) Is the tunnel of a manager there whenever it is looked up? | 1 cluster, 1 revision, 6 ticks |
| `FanOut` | What is the caller told, is it told at all, which files stay, what may a read-only call let out? | up to 3 targets, 5 kinds of tool |

Why the bounds are enough to be worth checking. Three calls for one target are one
that starts a tunnel, one that refreshes it, and one that comes between a removal and
a late timer, which is the longest chain a timer, an entry and its successor form;
the second target of `ProxySafety` lets the sweep have a key left over. Under systemd
three calls are a leader, one that shares its attempt, and one that comes after a
restart of the daemon while a command of the first is still on its way. Two patterns
overlap in every way patterns can, and the triple puts a full path between two partial
ones; the contexts are one shared by two clusters, one of its own, and one whose name
holds a slash, and one of the configured contexts is not a string, which
`parseContexts` drops. One listing by another request is what it takes to overwrite a
newer one. Limit 3 with reads of 1 and 2 is met exactly and passed by one and by two;
four reads let each stream reach it alone. Three callers are one that reads, one that
deletes and one that recreates. Four ticks cover a fetch, a cached life, a hit at the
last instant and a second life; the bounds `TTL + 2 * MaxFlight` and `TTL + MaxFlight`
in the properties are tight: TLC finds both violated with one tick less. With three
targets some goroutines run, one has ended and one is still to be started. Section 4
says which of the properties are proved for every bound.

What the models assume besides: in `ClusterSelection` the local steps of a call take
no time (the clock moves while it waits for an API server, and that is where another
request interferes), and configuration and kubeconfig files do not change while it runs; in `EmbedProvider` a
manager is built within the time a request takes.

`CHECK_DEADLOCK FALSE` is in every configuration: a finite set of calls ends, and with
it everything that was to happen.

The type invariants of `CommandOutput` and `ReadOnlyRBAC` are in no run: they are proved.
Those of `TargetPatterns` and `KubeconfigCache` are conjuncts of `SelectionTypeOK` and
`ProviderTypeOK`.

### Fairness

- `Prompt` (`ProxyManager`): Go's scheduler lets every runnable goroutine go on, the
  callback of a fired timer gets its lock, and SIGTERM ends an sshuttle. A spontaneous
  exit, a new call and a shutdown are never owed.
- `TimePasses` (`ProxyManager`): an armed timer fires. It is a hypothesis of
  `TunnelsExpire` and of the progress part of `ImplementsLifecycle`, not of the others.
- `FairSpec` (`SystemdProxy`): goroutines go on, and `systemctl` and `systemd-run` end.
  Nothing is owed by the unit, by clients, or by a restarted daemon: `EveryCallReturns`
  lets a restart end a call.
- `FairSpec` (`FanOut`): goroutines run, requests are answered or time out, and
  commands end. The last is an assumption about the caller's commands: nothing in the
  code bounds them (`cmd.WaitDelay` is not set), and `CallIsAnswered` says no more.

The other modules state no liveness.

### What the code does not do as it says

1. `ProxyRefreshRace`: a TTL timer that has fired and waits for the lock is not
   stopped by a refresh; its callback removes the refreshed entry and ends a tunnel
   whose caller has just been told that it is there (`proxy/manager.go:159`,
   against `proxy/manager_test.go:149-151`).
2. `OutputRace`: the byte counter is shared without a lock, so both streams together
   may exceed `MaxOutputBytes` (`shell/shell.go:94`, against `shell/shell.go:20`).
3. `EmbedStale`: a manager, once built, is returned for good without asking the
   resolver, so that the tunnel it needs is gone after a TTL
   (`embed/provider.go:90-95`, against `embed/provider.go:40-42`, "routing every target
   lookup through our own ... pipeline").
4. `OmittedClusters`: `get_cluster_kubeconfig` without `clusters` answers with an empty
   array (`server/tools.go:83`, against `server/build.go:13` and `server/types.go:3-8`,
   "Omit entirely to select every known cluster").

Met while modelling, and not given runs of their own:

- Tunnels, process mode. With `kubeconfig_ttl: 0`, which `config/config.go:126-128`
  accepts, a timer may fire before its entry is inserted, and the entry then has no
  expiry: `ExpiryPending` is about positive TTLs. Requests that outlast the ten seconds
  of the shutdown may insert a tunnel after the sweep, so `ShutdownTerminates` is about
  requests that do not.
- Tunnels, systemd mode. `RuntimeMaxSec` counts from the unit's activation, so that
  setting it to the value it has extends nothing, which "extend the existing unit's
  RuntimeMaxSec" (`proxy/manager.go:106-108`) may be read to promise. Reaching it is a
  failure to systemd, so that `Restart=on-failure` starts the tunnel again instead of
  bounding its lifetime (`proxy/manager.go:226-228`). There is no startup window as in
  process mode. While a unit waits for its restart ("activating") calls for its target
  fail: it is not active, and its name is taken. A leader whose client goes away fails
  the callers that share its attempt.
- Selection. A target is not escaped (`capi/target.go:12`): a cluster known through a
  context with a slash in its name is listed by `list_clusters` and rejected by the
  tools it is listed for (`server/build.go:9`); the embedded tools leave it out, which
  `EmbeddedSelectsUsable` states. `list_clusters` with `[]` lists every cluster,
  where `server/types.go:8` has an empty array select none, and
  `exec_in_cluster` with `[]` is an error, where `server/types.go:15` has it run
  against none. `server/build.go:11` says that kubeconfig entries appear in
  `list_clusters`; only Cluster resources do. Strict mode counts segments only, so
  `a//b/c` passes as an exact path. `contexts` given as a list with no string in it
  means all contexts, as if it were absent (`config/config.go:196-198`). A context
  configured twice has its clusters listed twice (`config/config.go:187-195`,
  `server/resolve.go:23-28`), which `ContextsOnce` excludes. Two clusters can have one
  target, if kubeconfigs are named with slashes; a pattern that names one then shows both,
  which `TargetsApart` excludes.
- Read-only access. A binding with another roleRef is replaced only if the API server's
  refusal of the update is Invalid and says "roleRef" and "immutable"; any other wording
  makes the call fail, and every later one, with the binding in place
  (`capi/readonly.go:38-40` and `72-74`; "recovering from the ClusterRoleBinding's
  immutable roleRef by deleting and recreating it", `capi/readonly.go:42-45`). Nothing in
  the repository fixes the wording: the one refusal that reads so is a test's
  (`capi/readonly_test.go:103`). `SettledInPlace` and `SomeoneSucceeds` hold whatever the
  refusals say, and except this outcome only, where nobody recognised any. Two calls that replace the same foreign binding may make one of them
  fail although every request was answered (`capi/readonly.go:78`; "idempotently
  ensures", `capi/readonly.go:42-45`). `SettledInPlace` shows that the objects are
  right after all have returned, `SomeoneSucceeds` that the callers do not all fail.
- Caches. A cluster whose `allowedCIDRs` is set before its `controlPlaneEndpoint` is filled
  in has its kubeconfig cached without a tunnel (`capi/openstack.go:121-123`), and requests get
  it so for up to a TTL after the endpoint is there; `ClosedIsTunnelled` counts such a
  server with the open ones. Names that hold colons can make two clusters share a cache key
  (`capi/store.go:45`); `OwnKubeconfig` and `ManagersAreOwn` are proved for keys that
  are apart.
- Files. A write that stops short leaves a part of a kubeconfig on disk, which
  `exec/exec.go:1-4` ("always cleans the temp file up") does not say; and a failed
  write is returned as an error, which `exec/exec.go:31-33` rules out.
  `FilesAreOfRunningCommands` states what is left.
- Custom fields. A jq expression that yields no output or several for an item changes
  the number of rows, and the fields of the clusters after it go to others
  (`capi/clusters.go:92`, against "one map of non-empty string values per item",
  `capi/clusters.go:79`).

## 4. What is proved

All proofs hold for every value of the constants; the assumptions are the named
`ASSUME`s of the modules and those the theorem states.

| Theorem | States | Argument |
|---|---|---|
| `ProxyManagerProofs!TypeCorrect`, `NoTunnelIsStray`, `TunnelIsUnique` | `TypeOK`, `NoStrayTunnel`, `OneTunnelPerTarget` | `IInv` adds to `NoStrayTunnel` that the leader of a target is its one call in a leading stage (`LeaderInv`), that a call has no process and no timer before the steps that make them (`FreshInv`), that an entry belongs to a call that has inserted it (`EntryInv`), that a leader which found no entry still finds none until it inserts its own (`StartupInv`), that a refresh holds an entry of its own target (`RefreshInv`), and that a callback in the middle of a kill has spent its timer, so that its victim is not overwritten (`VictimInv`). Without `StartupInv` `NoStrayTunnel` is not inductive: an insertion could overwrite the entry of a running tunnel. `OneTunnelPerTarget` follows from `IInv`. |
| `ProxyManagerProofs!EntriesExpire` | `ExpiryPending`, if `~ZeroTTL` | `JInv` says whose each timer is: an entry's timer was armed by its creator or its refresher, no two entries share one, a timer still in its call's hands has not fired, and what a kill removed stays removed. |
| `ProxyManagerProofs!SweepLeavesNone` | `ShutdownTerminates`, if `~SlowRequests` | `SweepInv`: once the sweep has begun no call is under way, so that nothing is inserted any more, whatever is still in the map is among the keys left to sweep, and the daemon exits with none left and its last victim signalled. What is not tracked and not being started is then, by `NoStrayTunnel`, in the hands of a timer's callback. |
| `ProxyManagerProofs!ImplementsLifeSafety` | every step of the manager is a step of `TunnelLifecycle` or a stutter | `LifeOf` is the refinement mapping; `IInv` is used where a new tunnel must find its target free and where a release must find its tunnel in use. |
| `SystemdProxyProofs!TypeCorrect`, `NoFalseSuccess`, `NoIdleFailure` | `TypeOK`, `SuccessIsTunnelled`, `FailureHasACause` | `LeaderInv` as above; `SeenInv`: an attempt that goes on to extend or to succeed has had its unit active; `CalmInv`: while nothing has interfered, the unit is what the attempt takes it for, so that neither command can fail. |
| `SystemdProxyProofs!ImplementsLife` | `ImplementsLifecycle` | `TunnelInv`: a unit that was started by a call and is loaded was started by no other, which is what `systemd-run`'s refusal of a taken name comes to, restarts of the daemon included. |
| `TargetPatternsProofs!TypeCorrect`, `ResolutionIsExact`, `ScopeIsNeverWidened` | `TypeOK`, `ResolvesExactly`, `NeverWidens` | the loop invariant: `out` is, without repetition, what the finished patterns and the visited part of the current one denote. |
| `TargetPatternsProofs!OrderIsFirstSeen` | `FirstSeenOrder` | `OrderInv`: of two targets in `out`, the first is named before every place where the second is. A target appended is one the part already visited does not name; so whatever is in `out` was named before it, and every place that names it is still to come. |
| `ClusterSelectionProofs!HandlersResolveExactly`, `HandlersKeepOrder`, `NothingUnnamedIsChanged`, `EmbeddedTargetsParse` | `ResolvesExactly` and `FirstSeenOrder` for `SelectionSpec`; `ChangesOnlyWhatIsNamed`, `EmbeddedSelectsUsable` | a step of a handler begins a resolution in its initial state or is a step of `TargetPatterns` or leaves it alone, so `IInv` and `OrderInv` carry over; `HandlerInv` adds that a strict tool resolves strictly and never answers from a walk, and that an embedded one knows only what it has parsed back. |
| `ClusterSelectionProofs!SelectionTypeCorrect` | `SelectionTypeOK` | what is left to walk is a suffix of `Sources`, and the contexts left are some of its head's; a cached entry holds clusters of `Universe`. The lemmas about `Chosen` are by induction. |
| `ClusterSelectionProofs!ListingsAreRecent` | `ListingIsRecent`, if `ContextsOnce` | `RecentInv`, below. |
| `ClusterSelectionProofs!ShownIsWhatMatches` | `ListAgrees`, if `TargetsApart` | `AgreeInv`: with patterns, `list_clusters` resolves against the very listing it then filters. By `ResolvesExactly` the targets resolved are those of the matching clusters and the exact patterns, taken as they are; one of the latter is the target of a cluster only if it matches that cluster. So the filter keeps the clusters that match, if no two clusters share a target. |
| `ClusterSelectionProofs!PlainNamesSuffice` | both, if `PlainNames` and `ContextsOnce` | names without slashes make targets unequal: the context may hold any number of them, the fields around it are one segment each. |
| `CommandOutputProofs!TypeCorrect`, `NothingIsLostSilently`, `CapHoldsForOneStream` | `TypeOK`, `SuccessIsComplete`, `OneStreamCapped` | a copier that has not failed has captured all but the chunk in its hands; while one stream writes, the counter is exact. |
| `ReadOnlyRBACProofs!TypeCorrect`, `TokensAreBacked`, `EnsureSettles` | `TypeOK`, `KubeconfigIsBacked`, `SettledInPlace` | what each caller's progress says of the objects: an account once created stays, a role once current stays, and a caller past its binding leaves it current unless another has deleted it and is to recreate it. A foreign binding is never made, so that one which is still there has been there all along, and nobody has got past it: whoever has ended was given a refusal that was not recognised. |
| `ReadOnlyRBACProofs!OneSucceeds` | `SomeoneSucceeds` | `Hope`: as long as nothing has faulted, a caller that was refused leaves another that has neither been refused nor gone unrecognised; and if a binding is current while a caller is about to recreate it, which will be refused, another has got past that binding and cannot be. |
| `KubeconfigCacheProofs!NobodyElsesKubeconfig` | `OwnKubeconfig`, if keys are apart | an entry is filed under the key of the cluster it holds. |
| `KubeconfigCacheProofs!TunnelsOutlast` | `TunnelOutlastsKubeconfig` | a request in flight that has ensured its tunnel did so no earlier than it began, and it began at most `MaxFlight` ago; leases only grow. |
| `KubeconfigCacheProofs!TypeCorrect`, `NothingIsLongStale`, `NoClosedWithoutTunnel` | `TypeOK`, `NeverLongStale`, `ClosedIsTunnelled` | `AgeInv` dates what a request holds and what an entry holds: a revision replaced since was replaced no earlier than its request began or its entry was set less a flight, and likewise for an API server that needs a tunnel since. |
| `KubeconfigCacheProofs!ProviderTypeCorrect`, `NobodyElsesManager`, `ManagersAreBornFresh` | `ProviderTypeOK`, `ManagersAreOwn` (if keys are apart), `BornFresh` | the provider is one more caller of the pipeline (the theorem `ProviderIsCaller`: `ProviderSpec => Spec`), so its invariants carry over; `PInv` adds that a manager is filed under a cluster that has the cache key of its own, and that a call which is building one is no older than `MaxFlight`. |
| `FanOutProofs!TypeCorrect`, `NoTargetIsMissing`, `FailureIsTold`, `FilesOutliveNoCommand`, `NoAdminGetsOut` | `TypeOK`, `AnswerIsComplete`, `AnswerTellsFailure`, `FilesAreOfRunningCommands`, `ReadonlyStaysReadonly` | the counter is the cardinality of the goroutines at work (`Counted`: a step enters, leaves or keeps that finite set), each goroutine's stage fixes its result, its file and its kubeconfig (`Placed`, `Filed`, `Held`), and an answer given was right when it was given, after which nothing moves. |

`RecentInv`. That a finished listing is right says nothing of the steps before it; the
invariant has four parts.

- `StageInv`: a call, and a listing of another request, are at most `MaxFlight` old.
- `CacheInv`: a listing is dated by the moment until which it is of use. `AsOf(listed,
  place, t)` says that it has each cluster of its place at most once, no other, and is
  wrong only of those that changed no earlier than `t - TTL - MaxFlight`. It holds of a
  cached entry with the entry's expiry, and of a listing not yet cached with the
  latest expiry it can get. A change of a cluster keeps it, because the change is dated
  now; caching keeps it, because two places have two keys.
- `AheadInv`: the sources left have different names, the contexts left are different.
- `GatherInv`: what is gathered is of places no longer ahead (`Ahead`), each cluster once,
  and right for every cluster of those, but for changes since the oldest answer an entry
  may hold when the call began.

Without the last two a context could be listed twice, which the code does not rule out:
`contexts: [a, a]` in the configuration lists the clusters of `a` twice. `ContextsOnce` is
that hypothesis, stated of the configuration. `TargetsApart`, that no two clusters have
the same target, is what `PlainNames` gives: the daemon does not check the names of its
kubeconfigs for slashes. The instance that TLC checks satisfies both
(`ASSUME AsARule` in `MCClusterSelection`).

Every safety property that a passing run checks is proved, those that the refinements of
`TunnelLifecycle` state included. Only model-checked is the liveness: `EveryCallReturns`
in both modes, `DeadTunnelForgotten`, `TunnelsExpire`, `CallIsAnswered`, and the progress
part of `ProxyManager`'s `ImplementsLifecycle`, because the prover has no rule for fairness
and ENABLED. The four properties that runs find violated are, of course, not theorems.

Induction. The library's induction rules take an operator and cannot be used;
`ClusterSelectionProofs` proves a rule about sets instead (`SetInduction`, from
`NatLessThanWellFounded` and `WFMin`): a set that has `0` and with each number the next
has them all. What a recursive function computes (`Choosing`) is proved with it.
`SelectSeq` cannot be unfolded by the provers, which is why the model says `Chosen`.

## 5. The plan

Done, in the order of importance: the tunnel manager in both modes with its life cycle,
patterns and selection, command output, read-only access, the kubeconfig cache with the
embedded provider on top, the fan-outs, and the proofs above.

Next:

1. The sshuttle host and a moving endpoint: the key of a tunnel without its host, and
   the secret and the OpenStackCluster read in two requests.
2. `EmbedProvider` over `ProxyManager` in place of `leased`: a manager whose tunnel dies
   early.
3. The bounds as theorems of their own: that `TTL + 2 * MaxFlight` and its like cannot be
   smaller is shown by TLC only.

## 6. What is not modelled

- `FetchOpenStackEnv`, `ApplyKubeconfigTransform`, the jq fields of `list_clusters`:
  data to data; their failures are branches of `Equip`, `Fetch` and `List`.
- `config/` but for `parseContexts`, `server/clients.go`, `server/types.go`: loaded or
  built once, or types only.
- `httpserver/`, the registration in `server/build.go` and `embed/mount.go`: I/O and
  wiring; the shutdown's order is in `ProxyManager` and `FanOut`. The library's managers
  and tools are one step each.
- `Delete` and `Clear` of the cache have no callers.
