--------------------------- MODULE ClusterSelection ---------------------------
(* From the "clusters" argument of a tool call to the targets it is run       *)
(* against: ListClusters, getClusterKubeconfigFanOut and execInClusterFanOut  *)
(* of internal/server/tools.go, the wrapper of internal/embed/fanout.go, and  *)
(* the walk over every kubeconfig and context that they list clusters with    *)
(* (internal/server/resolve.go).  Clusters come and go meanwhile, and another *)
(* request fills the cache of listings.  Patterns are TargetPatterns'.        *)
EXTENDS TargetPatterns, TTLCache

CONSTANTS
  Sources,    \* the kubeconfig entries by name: [name, contexts, file]
  Universe,   \* the clusters there may be, as the API server orders them
  Fickle,     \* those that come and go
  MaxFlight,  \* ticks a call, or a listing by another request, takes at most
  MaxFills,   \* bound on the listings another request makes
  MaxTime     \* bound on the clock

(* The kubeconfig entries are a map by name, and an API server lists each     *)
(* cluster once.  A configured context that is no string is <<>>.             *)
ASSUME SelectionAssumption ==
  /\ Sources \in Seq([name : Text, contexts : Seq(Seq(Segment)), file : Seq(Text)])
  /\ \A i, k \in DOMAIN Sources : Sources[i].name = Sources[k].name => i = k
  /\ Universe \in Seq(Cluster) /\ IsInjective(Universe)
  /\ Fickle \subseteq ToSet(Universe)
  /\ MaxFlight \in Nat /\ MaxFills \in Nat /\ MaxTime \in Nat
  /\ <<>> \in Requests

VARIABLES
  now,       \* the clock
  alive,     \* the clusters that exist
  changed,   \* when each last came or went
  lists,     \* s.store.ClusterList
  other,     \* what another request has listed and not yet cached
  fills,     \* how many listings it has made
  call,      \* the tool called, whether "clusters" was omitted, when
  stage,     \* where the tool's handler is
  step,      \* where its walk is
  srcs, ctxs,\* the kubeconfigs and contexts left to walk
  fresh,     \* a listing not yet cached
  gathered,  \* the clusters found so far
  selected   \* the targets of the call

world == <<now, alive, changed, fills>>
walk == <<step, srcs, ctxs, fresh, gathered>>
handler == <<call, stage, selected>>
selectionVars == <<vars, world, lists, other, walk, handler>>

Strict == {"exec_in_cluster", "embedded write"}
Lenient == {"list_clusters", "get_cluster_kubeconfig", "embedded read"}
Tool == Strict \cup Lenient
Embedded == {"embedded read", "embedded write"}

Nobody == <<>>

(* A loop that appends what passes a test: the members of s that are in S,    *)
(* in their order.  (SelectSeq takes a test, and a set can be proved about.)  *)
Choosing(s, S) ==
  LET chosen[i \in 0 .. Len(s)] ==
        IF i = 0 THEN <<>>
        ELSE IF s[i] \in S THEN Append(chosen[i - 1], s[i]) ELSE chosen[i - 1]
  IN  chosen
Chosen(s, S) == Choosing(s, S)[Len(s)]

SelectionInit ==
  /\ Init /\ patterns = <<>> /\ strict = FALSE
  /\ now = 0
  /\ \E gone \in SUBSET Fickle : alive = ToSet(Universe) \ gone
  /\ changed = [c \in ToSet(Universe) |-> 0]
  /\ lists = NoEntries
  /\ other = Nobody /\ fills = 0
  /\ call = [tool |-> "list_clusters", omitted |-> TRUE, begun |-> 0]
  /\ stage = "waiting"
  /\ step = "off"
  /\ srcs = <<>> /\ ctxs = <<>> /\ fresh = <<>> /\ gathered = <<>>
  /\ selected = <<>>

-----------------------------------------------------------------------------
(* The handlers up to the point where they resolve patterns.                  *)

OnlyExecNeedsArgument(t) == t = "exec_in_cluster"
NeedsArgument(t) == t \in Strict

(* What a handler does first with an argument that was omitted, and with one *)
(* that was not.                                                             *)
WhenOmitted(t) ==
  CASE NeedsArgument(t) -> "refused"
    [] t = "get_cluster_kubeconfig" -> "resolve"
    [] OTHER -> "walk"

WhenGiven(t, ps) ==
  CASE t = "list_clusters" -> "walk"
    [] t = "exec_in_cluster" /\ ps = <<>> -> "refused"
    [] t \in Embedded /\ ps = <<>> -> "answered"
    [] t \in Embedded /\ <<Empty>> \in ToSet(ps) -> "refused"
    [] OTHER -> "resolve"

Begin ==
  /\ stage = "waiting"
  /\ \E t \in Tool, ps \in Requests, omitted \in BOOLEAN :
       /\ omitted => ps = <<>>
       /\ call' = [tool |-> t, omitted |-> omitted, begun |-> now]
       /\ patterns' = ps
       /\ strict' = (t \in Strict)
       /\ stage' = IF omitted THEN WhenOmitted(t) ELSE WhenGiven(t, ps)
  /\ UNCHANGED <<pc, listings, known, n, j, out, world, lists, other, walk, selected>>

-----------------------------------------------------------------------------
(* allResolvedClusters and listClustersCached.                                *)

WithoutContext(place) == <<place.kubeconfig>>

(* Joined by a colon, of which a kubeconfig's name is taken to hold none.     *)
ClusterListKey(place) == <<place.kubeconfig, place.context>>

At(place) == {c \in ToSet(Universe) : c.kubeconfig = place.kubeconfig
                                      /\ c.context = place.context}
Snapshot(place) == Chosen(Universe, alive \cap At(place))

(* The configured contexts that are strings, or all those of the file.       *)
Named(src) == Chosen(src.contexts, Text)
Contexts(src) == IF Named(src) = <<>> THEN src.file ELSE Named(src)

Listing == stage = "walk" \/ (stage = "resolve" /\ pc = "list")
Here == [kubeconfig |-> Head(srcs).name, context |-> Head(ctxs)]

StartWalk ==
  /\ Listing /\ step = "off"
  /\ step' = "contexts"
  /\ srcs' = Sources
  /\ UNCHANGED <<vars, world, lists, other, ctxs, fresh, gathered, handler>>

(* resolveContexts: a file that is needed may not be readable.               *)
ResolveContexts ==
  /\ step = "contexts" /\ srcs # <<>>
  /\ \/ ctxs' = Contexts(Head(srcs)) /\ step' = "get"
     \/ Named(Head(srcs)) = <<>> /\ step' = "failed" /\ UNCHANGED ctxs
  /\ UNCHANGED <<vars, world, lists, other, srcs, fresh, gathered, handler>>

NextSource ==
  /\ step = "get" /\ ctxs = <<>>
  /\ srcs' = Tail(srcs)
  /\ step' = "contexts"
  /\ UNCHANGED <<vars, world, lists, other, ctxs, fresh, gathered, handler>>

EndWalk ==
  /\ step = "contexts" /\ srcs = <<>>
  /\ step' = "done"
  /\ UNCHANGED <<vars, world, lists, other, srcs, ctxs, fresh, gathered, handler>>

(* s.store.ClusterList.Get                                                   *)
Get ==
  /\ step = "get" /\ ctxs # <<>>
  /\ LET key == ClusterListKey(Here) IN
     /\ lists' = AfterGet(lists, key, now)
     /\ IF Hit(lists, key, now)
          THEN /\ gathered' = gathered \o lists[key].value
               /\ ctxs' = Tail(ctxs)
               /\ UNCHANGED step
          ELSE step' = "list" /\ UNCHANGED <<gathered, ctxs>>
  /\ UNCHANGED <<vars, world, other, srcs, fresh, handler>>

SkipContext == step' = "get" /\ ctxs' = Tail(ctxs) /\ UNCHANGED fresh
FailWalk == step' = "failed" /\ UNCHANGED <<ctxs, fresh>>

(* The clients cannot be built, the API server does not answer, a custom     *)
(* field does not evaluate; or the clusters are listed.                      *)
List ==
  /\ step = "list"
  /\ \/ fresh' = Snapshot(Here) /\ step' = "set" /\ UNCHANGED ctxs
     \/ FailWalk
  /\ UNCHANGED <<vars, world, lists, other, srcs, gathered, handler>>

(* s.store.ClusterList.Set                                                   *)
Set ==
  /\ step = "set"
  /\ lists' = AfterSet(lists, ClusterListKey(Here), fresh, now)
  /\ gathered' = gathered \o fresh
  /\ fresh' = <<>>
  /\ ctxs' = Tail(ctxs)
  /\ step' = "get"
  /\ UNCHANGED <<vars, world, other, srcs, handler>>

-----------------------------------------------------------------------------
(* The handlers once they have what they asked for.                           *)

Targets(clusters) == [i \in DOMAIN clusters |-> FormatTarget(clusters[i])]

Answer(targets) == stage' = "answered" /\ selected' = targets

(* A walk the handler itself asked for: "every known cluster", or what        *)
(* list_clusters filters.                                                     *)
AfterWalk ==
  /\ stage = "walk"
  /\ \/ step = "failed" /\ stage' = "failed" /\ UNCHANGED selected
     \/ step = "done" /\ patterns # <<>> /\ stage' = "resolve" /\ UNCHANGED selected
     \/ step = "done" /\ patterns = <<>> /\ Answer(Targets(gathered))
  /\ UNCHANGED <<vars, world, lists, other, walk, call>>

(* ResolveClusterPatterns, but for listKnown.                                *)
Resolve ==
  /\ stage = "resolve"
  /\ \/ Reject \/ Accept \/ ResolveVerbatim \/ ResolveKnown \/ NextPattern \/ Return
  /\ UNCHANGED <<world, lists, other, walk, handler>>

(* listKnownClusters has targets only, and leaves out those that do not      *)
(* parse.                                                                     *)
Reparsed(t) ==
  [kubeconfig |-> <<t[1]>>, context |-> <<t[2]>>,
   namespace |-> <<t[3]>>, name |-> <<t[4]>>]
AsTheyAre(clusters) == clusters
ParsedBack(clusters) ==
  LET targets == Targets(clusters)
      parsable == Chosen(targets, {t \in ToSet(targets) : ParsesAsTarget(t)})
  IN [i \in DOMAIN parsable |-> Reparsed(parsable[i])]

KnownTo(t) == IF t \in Embedded THEN ParsedBack(gathered) ELSE gathered

Known ==
  /\ stage = "resolve"
  /\ \/ step = "done" /\ known' = KnownTo(call.tool) /\ pc' = "resolve" /\ ListKnown
     \/ step = "failed" /\ pc' = "error" /\ ListKnown
  /\ UNCHANGED <<world, lists, other, walk, handler>>

(* list_clusters keeps its own order, and only what it found.                *)
JustMatched == out
Kept == Chosen(Targets(gathered), ToSet(out))

Resolved ==
  /\ stage = "resolve"
  /\ \/ pc = "error" /\ stage' = "refused" /\ UNCHANGED selected
     \/ pc = "done" /\ Answer(IF call.tool = "list_clusters" THEN Kept ELSE out)
  /\ UNCHANGED <<vars, world, lists, other, walk, call>>

-----------------------------------------------------------------------------
(* What happens before the call and while it waits for an API server.  The    *)
(* rest of the call is local and takes no time, and what happens after the    *)
(* walk is of no consequence to it.                                           *)

Unlisted == stage = "waiting" \/ step \in {"list", "set"}

ComeOrGo(c) ==
  /\ Unlisted
  /\ alive' = IF c \in alive THEN alive \ {c} ELSE alive \cup {c}
  /\ changed' = [changed EXCEPT ![c] = now]
  /\ UNCHANGED <<vars, now, fills, lists, other, walk, handler>>

OtherLists(place) ==
  /\ Unlisted /\ other = Nobody /\ fills < MaxFills
  /\ fills' = fills + 1
  /\ ~Hit(lists, ClusterListKey(place), now)
  /\ lists' = AfterGet(lists, ClusterListKey(place), now)
  /\ other' = [place |-> place, listed |-> Snapshot(place), since |-> now]
  /\ UNCHANGED <<vars, now, alive, changed, walk, handler>>

OtherSets ==
  /\ Unlisted /\ other # Nobody
  /\ lists' = AfterSet(lists, ClusterListKey(other.place), other.listed, now)
  /\ other' = Nobody
  /\ UNCHANGED <<vars, world, walk, handler>>

Tick ==
  /\ Unlisted
  /\ now < MaxTime
  /\ stage # "waiting" => now < call.begun + MaxFlight
  /\ other # Nobody => now < other.since + MaxFlight
  /\ now' = now + 1
  /\ UNCHANGED <<vars, alive, changed, fills, lists, other, walk, handler>>

Places ==
  UNION {{[kubeconfig |-> src.name, context |-> x] : x \in ToSet(Contexts(src))}
           : src \in ToSet(Sources)}

SelectionNext ==
  \/ Begin
  \/ StartWalk \/ ResolveContexts \/ NextSource \/ EndWalk
  \/ Get \/ List \/ Set
  \/ AfterWalk \/ Resolve \/ Known \/ Resolved
  \/ \E c \in Fickle : ComeOrGo(c)
  \/ \E place \in Places : OtherLists(place)
  \/ OtherSets \/ Tick

SelectionSpec == SelectionInit /\ [][SelectionNext]_selectionVars

-----------------------------------------------------------------------------
(* Correctness.                                                               *)

(* Every variable keeps its type (resolve.go: allResolvedClusters).           *)
SelectionTypeOK ==
  /\ TypeOK
  /\ now \in 0 .. MaxTime
  /\ alive \subseteq ToSet(Universe)
  /\ changed \in [ToSet(Universe) -> 0 .. now]
  /\ \A key \in DOMAIN lists :
       /\ lists[key].value \in Seq(ToSet(Universe))
       /\ lists[key].expires \in 0 .. (now + TTL)
  /\ other # Nobody => other.place \in Places /\ other.since \in 0 .. now
  /\ fills \in 0 .. MaxFills
  /\ call \in [tool : Tool, omitted : BOOLEAN, begun : 0 .. now]
  /\ stage \in {"waiting", "walk", "resolve", "answered", "refused", "failed"}
  /\ step \in {"off", "contexts", "get", "list", "set", "done", "failed"}
  /\ \E i \in 0 .. Len(Sources) : srcs = SubSeq(Sources, i + 1, Len(Sources))
  /\ fresh \in Seq(ToSet(Universe)) /\ gathered \in Seq(ToSet(Universe))
  /\ selected \in Seq(Text)

(* What a configuration has as a rule and nothing in the code makes it have:  *)
(* kubeconfigs named without slashes (Kubernetes allows none in the names of  *)
(* a namespace or an object), and no context configured twice.                *)
PlainNames ==
  /\ \A src \in ToSet(Sources) : Len(src.name) = 1
  /\ \A c \in ToSet(Universe) :
       Len(c.kubeconfig) = 1 /\ Len(c.namespace) = 1 /\ Len(c.name) = 1
ContextsOnce == \A src \in ToSet(Sources) : IsInjective(Contexts(src))

(* A listing is complete and of the recent past: however the cache was       *)
(* filled, a cluster is left out or listed wrongly only if it has come or    *)
(* gone since the oldest answer an entry may hold (resolve.go:                *)
(* listClustersCached; one context that fails fails the listing).            *)
Reachable == {c \in ToSet(Universe) :
                [kubeconfig |-> c.kubeconfig, context |-> c.context] \in Places}

ListingIsRecent ==
  step = "done" =>
    /\ \A c \in Reachable :
         (c \in ToSet(gathered)) # (c \in alive) =>
           changed[c] + TTL + MaxFlight >= call.begun
    /\ ToSet(gathered) \subseteq Reachable
    /\ IsInjective(gathered)

(* list_clusters with patterns shows the clusters it found that a pattern    *)
(* names, in the order in which it found them, and nothing it did not find   *)
(* (tools.go: ListClusters).                                                  *)
ListAgrees ==
  stage = "answered" /\ call.tool = "list_clusters" /\ patterns # <<>> =>
    LET wanted == {c \in ToSet(gathered) :
                     \E i \in DOMAIN patterns : Matches(patterns[i], c)}
    IN selected = Targets(Chosen(gathered, wanted))

(* A tool that may change something is run against nothing its caller did    *)
(* not write out, whatever was omitted or left empty (fanout.go: "no          *)
(* implicit all, no wildcard expansion").                                     *)
ChangesOnlyWhatIsNamed ==
  call.tool \in Strict => ToSet(selected) \subseteq ToSet(patterns)

(* Patterns given to an embedded tool select targets that ResolveTarget can  *)
(* parse, whatever the contexts are called (fanout.go: listKnownClusters).   *)
EmbeddedSelectsUsable ==
  call.tool \in Embedded /\ ~call.omitted =>
    \A t \in ToSet(selected) : ParsesAsTarget(t)

-----------------------------------------------------------------------------
(* What the instructions to clients say and the code does not do.            *)

(* The tools that take partial patterns treat an omitted "clusters" as every *)
(* known cluster (build.go:13, types.go:3-8).                                *)
OmittedMeansEveryCluster ==
  stage = "answered" /\ call.omitted =>
    \A c \in Reachable \cap alive :
      changed[c] + TTL + MaxFlight < call.begun => FormatTarget(c) \in ToSet(selected)
=============================================================================
