----------------------------- MODULE EmbedProvider -----------------------------
(* capiProvider of internal/embed/provider.go on top of the kubeconfig        *)
(* pipeline: tool calls of the embedded kubernetes-mcp-server look for a      *)
(* manager of their target and build one with ResolveTarget if there is none, *)
(* while the daemon's own tools use the pipeline next to them.                *)
EXTENDS KubeconfigCache

VARIABLES
  via,       \* whose request each is: a tool's own or a provider's
  managers,  \* p.managers: the kubeconfig each was built from
  at         \* where each call of managerForTarget is

provider == <<via, managers, at>>
providerVars == <<vars, provider>>

Embedded(r) == via[r] = "embedded"
Place == {"own", "lookup", "resolve", "found", "built", "error"}
NoManagers == [c \in {} |-> c]

ProviderInit ==
  /\ Init
  /\ via \in [Request -> {"own", "embedded"}]
  /\ \E r \in Request : Embedded(r)
  /\ managers = NoManagers
  /\ at = [r \in Request |-> IF Embedded(r) THEN "lookup" ELSE "own"]

Reach(r, place) == at' = [at EXCEPT ![r] = place]

(* p.managers[target], read under mu.                                        *)
Lookup(r) ==
  /\ at[r] = "lookup"
  /\ Reach(r, IF asked[r] \in DOMAIN managers THEN "found" ELSE "resolve")
  /\ UNCHANGED <<vars, via, managers>>

(* A step of cachedKubeconfig, for one of our tools or in ResolveTarget.     *)
Pipeline(r) ==
  /\ at[r] \in {"own", "resolve"}
  /\ Get(r) \/ Fetch(r) \/ Inspect(r) \/ Ensure(r) \/ Set(r)
  /\ UNCHANGED provider

Installed(r) ==
  [c \in DOMAIN managers \cup {asked[r]} |->
    IF c = asked[r] THEN held[r] ELSE managers[c]]

(* The manager is built, and put into the map although another call may have *)
(* done so since; ResolveTarget, parsing or NewManager fails.                *)
Install(r) ==
  /\ at[r] = "resolve"
  /\ pc[r] \in {"returned", "failed"}
  /\ \/ /\ pc[r] = "returned"
        /\ managers' = Installed(r)
        /\ Reach(r, "built")
     \/ Reach(r, "error") /\ UNCHANGED managers
  /\ UNCHANGED <<vars, via>>

(* A miss goes on to the pipeline at once, and a manager is built within the *)
(* time a call takes.                                                        *)
Unhurried(r) ==
  at[r] = "resolve" => pc[r] # "idle" /\ now < since[r] + MaxFlight

Meanwhile ==
  /\ \/ \E c \in Cluster : Rotate(c) \/ Restrict(c) \/ Address(c)
     \/ Tick /\ \A r \in Request : Unhurried(r)
  /\ UNCHANGED provider

ProviderNext ==
  \/ \E r \in Request : Lookup(r) \/ Pipeline(r) \/ Install(r)
  \/ Meanwhile

ProviderSpec == ProviderInit /\ [][ProviderNext]_providerVars

-----------------------------------------------------------------------------
(* Every variable keeps its type (provider.go: capiProvider).                 *)
ProviderTypeOK ==
  /\ TypeOK
  /\ via \in [Request -> {"own", "embedded"}]
  /\ DOMAIN managers \subseteq Cluster
  /\ \A c \in DOMAIN managers : managers[c] \in Kubeconfig
  /\ at \in [Request -> Place]

(* An embedded tool works on the cluster it was asked to, whichever of       *)
(* several first calls has built the manager it uses, and whatever the       *)
(* pipeline's cache was filled with (provider.go: managerForTarget).         *)
ManagersAreOwn == \A c \in DOMAIN managers : managers[c].cluster = c

(* A manager that needs a tunnel is born with one that lasts for about a TTL,*)
(* and is of the secret as it was not longer ago than the pipeline allows    *)
(* (provider.go: ResolveTarget precedes NewManager).                         *)
BornFresh ==
  [][\A r \in Request : at'[r] = "built" /\ at[r] # "built" =>
       LET k == managers'[asked[r]]
           history == replaced[k.cluster]
       IN  /\ k.proxied => leased[k.cluster] + 2 * MaxFlight >= now + TTL
           /\ k.revision \in DOMAIN history =>
                now <= history[k.revision] + TTL + 3 * MaxFlight]_providerVars

-----------------------------------------------------------------------------
(* What a comment says and the code does not do.                              *)

(* Every lookup of a target goes through the sshuttle pipeline, so that a    *)
(* tool call gets a manager whose tunnel is there (provider.go:40-42).       *)
EmbeddedIsTunnelled ==
  [][\A r \in Request : at'[r] \in {"found", "built"} /\ at'[r] # at[r] =>
       LET k == managers'[asked[r]]
       IN  k.proxied => leased[k.cluster] + 2 * MaxFlight >= now]_providerVars
=============================================================================
