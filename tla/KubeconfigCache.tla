---------------------------- MODULE KubeconfigCache ----------------------------
(* cachedKubeconfig of internal/server/kubeconfig.go: concurrent requests for *)
(* admin kubeconfigs, the cache they share, and the tunnels they ask for.     *)
(* Upstream the secrets are rotated and the API servers closed to the         *)
(* daemon's network while the requests run.                                   *)
EXTENDS TTLCache, Naturals, Sequences

CONSTANTS
  Cluster,     \* workload clusters: [kubeconfig, context, namespace, name]
  Request,     \* calls of cachedKubeconfig
  SshuttleHost,\* one is configured
  MaxFlight,   \* ticks a call takes at most
  MaxRevision, \* bound on the revisions of a cluster's secret
  MaxTime      \* bound on the clock

ASSUME BoundsAssumption ==
  /\ SshuttleHost \in BOOLEAN
  /\ MaxFlight \in Nat /\ MaxRevision \in Nat /\ MaxTime \in Nat

VARIABLES
  now,       \* the clock
  replaced,  \* when each revision of a cluster's secret was replaced
  open,      \* the clusters whose API server is open to the daemon
  bare,      \* those closed to it whose controlPlaneEndpoint is not filled in
  lastDirect,\* when a cluster was last open or bare
  store,     \* s.store.Kubeconfig
  leased,    \* until when EnsureProxy has kept a cluster's tunnel
  pc,        \* where each request is
  asked,     \* its cluster
  since,     \* when it began, or returned once it has
  held       \* what it is about to return

upstream == <<replaced, open, bare, lastDirect>>
vars == <<now, upstream, store, leased, pc, asked, since, held>>

(* Names are sequences of the pieces between their colons, so that joining   *)
(* them with ":" is concatenation.                                           *)
WithoutNamespace(c) == c.kubeconfig \o c.context \o c.name
KubeconfigKey(c) == c.kubeconfig \o c.context \o c.namespace \o c.name

Kubeconfig == [cluster : Cluster, revision : Nat, proxied : BOOLEAN]
Stage == {"idle", "fetch", "inspect", "ensure", "refresh", "set", "returned", "failed"}

(* What becomes of a cluster nobody asks for is of no consequence, and none   *)
(* of what is promised to a request depends on what happens upstream once it  *)
(* has ended.                                                                 *)
Ended == {r \in Request : pc[r] \in {"returned", "failed"}}
Wanted == {asked[r] : r \in Request \ Ended}

InFlight(r) == pc[r] \notin {"idle", "returned", "failed"}

Init ==
  /\ now = 0
  /\ replaced = [c \in Cluster |-> <<>>]
  /\ lastDirect = [c \in Cluster |-> 0]
  /\ asked \in [Request -> Cluster]
  /\ store = NoEntries
  /\ leased = [c \in Cluster |-> 0]
  /\ pc = [r \in Request |-> "idle"]
  /\ open \in SUBSET Wanted /\ bare \in SUBSET (Wanted \ open)
  /\ since = [r \in Request |-> 0]
  /\ held = [r \in Request |-> [cluster |-> asked[r], revision |-> 0, proxied |-> FALSE]]

Goto(r, s) ==
  /\ pc' = [pc EXCEPT ![r] = s]
  /\ since' = IF s = "returned" THEN [since EXCEPT ![r] = now] ELSE since

-----------------------------------------------------------------------------
(* The requests.                                                              *)

(* A hit whose cluster needs a tunnel goes on to refresh it.                 *)
NeverRefresh(kubeconfig) == "returned"
AfterHit(kubeconfig) == IF kubeconfig.proxied THEN "refresh" ELSE "returned"

(* s.store.Kubeconfig.Get                                                    *)
Get(r) ==
  LET key == KubeconfigKey(asked[r]) IN
  /\ pc[r] = "idle"
  /\ store' = AfterGet(store, key, now)
  /\ since' = [since EXCEPT ![r] = now]
  /\ IF Hit(store, key, now)
     THEN /\ held' = [held EXCEPT ![r] = store[key].value]
          /\ pc' = [pc EXCEPT ![r] = AfterHit(store[key].value)]
     ELSE /\ pc' = [pc EXCEPT ![r] = "fetch"]
          /\ UNCHANGED held
  /\ UNCHANGED <<now, upstream, leased, asked>>

Fail(r) == Goto(r, "failed") /\ UNCHANGED <<store, leased, held>>

Latest(c) == [cluster |-> c, revision |-> Len(replaced[c]) + 1, proxied |-> FALSE]

NeverInspect == "set"
AfterFetch == IF SshuttleHost THEN "inspect" ELSE "set"

(* FetchWorkloadKubeconfig reads the secret, ApplyKubeconfigTransform        *)
(* rewrites it; both may fail.  Whether the API server is closed is asked    *)
(* only if there is a host to tunnel through.                                *)
Fetch(r) ==
  /\ pc[r] = "fetch"
  /\ \/ /\ held' = [held EXCEPT ![r] = Latest(asked[r])]
        /\ Goto(r, AfterFetch)
        /\ UNCHANGED <<store, leased>>
     \/ Fail(r)
  /\ UNCHANGED <<now, upstream, asked>>

(* FetchAPIServerInfo: there is nothing to tunnel to unless allowedCIDRs is   *)
(* set and controlPlaneEndpoint has a host and a port.  Without, the          *)
(* kubeconfig is cached and returned as if its API server were open.          *)
HasInfo(c) == c \notin open \cup bare

Inspect(r) ==
  /\ pc[r] = "inspect"
  /\ \/ /\ Goto(r, IF HasInfo(asked[r]) THEN "ensure" ELSE "set")
        /\ UNCHANGED <<store, leased, held>>
     \/ Fail(r)
  /\ UNCHANGED <<now, upstream, asked>>

Tunnelled(k) == [cluster |-> k.cluster, revision |-> k.revision, proxied |-> TRUE]

(* EnsureProxy, before the kubeconfig is cached and at every hit.            *)
Ensure(r) ==
  /\ pc[r] \in {"ensure", "refresh"}
  /\ \/ /\ leased' = [leased EXCEPT ![held[r].cluster] = now + TTL]
        /\ held' = [held EXCEPT ![r] = Tunnelled(@)]
        /\ Goto(r, IF pc[r] = "ensure" THEN "set" ELSE "returned")
        /\ UNCHANGED store
     \/ Fail(r)
  /\ UNCHANGED <<now, upstream, asked>>

(* s.store.Kubeconfig.Set                                                    *)
Set(r) ==
  /\ pc[r] = "set"
  /\ store' = AfterSet(store, KubeconfigKey(asked[r]), held[r], now)
  /\ Goto(r, "returned")
  /\ UNCHANGED <<now, upstream, leased, asked, held>>

-----------------------------------------------------------------------------
(* What happens meanwhile.                                                    *)

Rotate(c) ==
  /\ c \in Wanted
  /\ Len(replaced[c]) + 1 < MaxRevision
  /\ replaced' = [replaced EXCEPT ![c] = Append(@, now)]
  /\ UNCHANGED <<now, open, bare, lastDirect, store, leased, pc, asked, since, held>>

(* allowedCIDRs is set, with an endpoint or without one yet.  An API server   *)
(* that has been closed stays so, and so does an endpoint.                    *)
Restrict(c) ==
  /\ c \in open \cap Wanted
  /\ open' = open \ {c}
  /\ bare' \in {bare, bare \cup {c}}
  /\ lastDirect' = [lastDirect EXCEPT ![c] = now]
  /\ UNCHANGED <<now, replaced, store, leased, pc, asked, since, held>>

(* controlPlaneEndpoint is filled in.                                        *)
Address(c) ==
  /\ c \in bare \cap Wanted
  /\ bare' = bare \ {c}
  /\ lastDirect' = [lastDirect EXCEPT ![c] = now]
  /\ UNCHANGED <<now, replaced, open, store, leased, pc, asked, since, held>>

Tick ==
  /\ now < MaxTime
  /\ \A r \in Request : InFlight(r) => now < since[r] + MaxFlight
  /\ now' = now + 1
  /\ lastDirect' = [c \in Cluster |-> IF HasInfo(c) THEN lastDirect[c] ELSE now + 1]
  /\ UNCHANGED <<replaced, open, bare, store, leased, pc, asked, since, held>>

Next ==
  \/ \E r \in Request : Get(r) \/ Fetch(r) \/ Inspect(r) \/ Ensure(r) \/ Set(r)
  \/ \E c \in Cluster : Rotate(c) \/ Restrict(c) \/ Address(c)
  \/ Tick

Spec == Init /\ [][Next]_vars

-----------------------------------------------------------------------------
(* Every variable keeps its type, and no time is further ahead than a TTL     *)
(* (server/kubeconfig.go: cachedKubeconfig).                                  *)
TypeOK ==
  /\ now \in 0..MaxTime
  /\ replaced \in [Cluster -> Seq(Nat)]
  /\ lastDirect \in [Cluster -> 0..now]
  /\ open \subseteq Cluster /\ bare \subseteq Cluster \ open
  /\ DOMAIN store \subseteq {KubeconfigKey(c) : c \in Cluster}
  /\ \A key \in DOMAIN store :
       store[key] \in [value : Kubeconfig, expires : 0..(now + TTL)]
  /\ leased \in [Cluster -> 0..(now + TTL)]
  /\ pc \in [Request -> Stage]
  /\ asked \in [Request -> Cluster]
  /\ since \in [Request -> 0..now]
  /\ held \in [Request -> Kubeconfig]

Returned == {r \in Request : pc[r] = "returned"}

(* A request returns the kubeconfig of the cluster it was asked for, however *)
(* the cache was filled (capi/store.go: KubeconfigKey).                      *)
OwnKubeconfig == \A r \in Returned : held[r].cluster = asked[r]

(* However long a kubeconfig took to fetch, to wait in the cache and to come *)
(* back with its tunnel refreshed, its secret was not replaced earlier than  *)
(* that may last (cache.go: Get).                                            *)
NeverLongStale ==
  \A r \in Returned :
    LET history == replaced[held[r].cluster]
    IN held[r].revision \in DOMAIN history =>
         since[r] <= history[held[r].revision] + TTL + 2 * MaxFlight

(* The tunnel a cached kubeconfig depends on is kept for about as long as    *)
(* the kubeconfig, and for its lifetime from when a request returns it       *)
(* (server/kubeconfig.go: EnsureProxy precedes Set, and every hit).          *)
TunnelOutlastsKubeconfig ==
  /\ \A key \in DOMAIN store :
       store[key].value.proxied =>
         leased[store[key].value.cluster] + MaxFlight >= store[key].expires
  /\ \A r \in Returned :
       held[r].proxied => leased[held[r].cluster] + MaxFlight >= since[r] + TTL

(* A kubeconfig comes without a tunnel only if its API server was still open, *)
(* or had no endpoint to tunnel to, within the time the kubeconfig may have   *)
(* spent being fetched and waiting in the cache: from then on a closed one is *)
(* never returned without its tunnel (server/kubeconfig.go:                   *)
(* FetchAPIServerInfo).                                                       *)
ClosedIsTunnelled ==
  SshuttleHost => \A r \in Returned :
    ~held[r].proxied => since[r] <= lastDirect[held[r].cluster] + TTL + MaxFlight
=============================================================================
