-------------------------- MODULE KubeconfigCacheProofs --------------------------
(* Proofs about KubeconfigCache and EmbedProvider, for any clusters,          *)
(* requests, TTL and duration of a request.                                   *)
EXTENDS EmbedProvider, TLAPS

Key == {KubeconfigKey(c) : c \in Cluster}

Types ==
  /\ now \in Nat
  /\ leased \in [Cluster -> Nat] /\ \A c \in Cluster : leased[c] <= now + TTL
  /\ replaced \in [Cluster -> Seq(Nat)]
  /\ pc \in [Request -> Stage]
  /\ asked \in [Request -> Cluster]
  /\ since \in [Request -> Nat]
  /\ held \in [Request -> Kubeconfig]
  /\ DOMAIN store \subseteq Key
  /\ \A key \in DOMAIN store : store[key] \in [value : Kubeconfig, expires : Nat]

(* What is under a key belongs to a cluster that has that key, and so does   *)
(* what a request has got so far.                                            *)
Filed ==
  /\ \A key \in DOMAIN store : KubeconfigKey(store[key].value.cluster) = key
  /\ \A r \in Request : KubeconfigKey(held[r].cluster) = KubeconfigKey(asked[r])

(* A request in flight is no older than MaxFlight; it holds nothing that     *)
(* needs a tunnel before it has asked for one, and afterwards the tunnel is  *)
(* kept for a lifetime from its beginning on, at least.                      *)
Covered(r) ==
  /\ InFlight(r) => since[r] <= now /\ now <= since[r] + MaxFlight
  /\ pc[r] \in {"idle", "fetch", "inspect", "ensure"} => ~held[r].proxied
  /\ pc[r] = "set" /\ held[r].proxied => leased[held[r].cluster] >= since[r] + TTL

IInv ==
  /\ Types
  /\ Filed
  /\ \A r \in Request : Covered(r)
  /\ TunnelOutlastsKubeconfig

LEMMA InitIInv == Init => IInv
<1> SUFFICES ASSUME Init PROVE IInv
  OBVIOUS
<1> USE DEF Init, NoEntries
<1>1. Types
  BY TTLAssumption DEF Types, Key, Stage, Kubeconfig
<1>2. Filed
  BY DEF Filed
<1>3. \A r \in Request : Covered(r)
  BY DEF Covered, InFlight
<1>4. TunnelOutlastsKubeconfig
  BY DEF TunnelOutlastsKubeconfig, Returned
<1> QED BY <1>1, <1>2, <1>3, <1>4 DEF IInv

(* Get only ever removes an entry, and Set changes no other than its own.    *)
LEMMA GetKeeps ==
  ASSUME NEW key, NEW k \in DOMAIN AfterGet(store, key, now)
  PROVE  k \in DOMAIN store /\ AfterGet(store, key, now)[k] = store[k]
BY DEF AfterGet

LEMMA SetKeeps ==
  ASSUME NEW key, NEW value, NEW k \in DOMAIN AfterSet(store, key, value, now)
  PROVE  \/ k = key /\ AfterSet(store, key, value, now)[k] = [value |-> value, expires |-> now + TTL]
         \/ k \in DOMAIN store /\ AfterSet(store, key, value, now)[k] = store[k]
BY DEF AfterSet

(* A step that lets time, the cache and the requests be.                     *)
LEMMA Outside ==
  ASSUME IInv, UNCHANGED <<now, store, leased, pc, asked, since, held>>,
         replaced' \in [Cluster -> Seq(Nat)]
  PROVE  IInv'
BY DEF IInv, Types, Filed, Covered, InFlight, TunnelOutlastsKubeconfig, Returned

LEMMA GetIInv == ASSUME IInv, NEW r \in Request, Get(r) PROVE IInv'
<1> DEFINE key == KubeconfigKey(asked[r])
<1> USE DEF IInv, Types
<1>0. /\ store' = AfterGet(store, key, now)
      /\ UNCHANGED <<now, replaced, leased, asked>>
      /\ since' = [since EXCEPT ![r] = now]
      /\ pc[r] = "idle"
  BY DEF Get, upstream
<1>1. \A k \in DOMAIN store' : k \in DOMAIN store /\ store'[k] = store[k]
  BY <1>0, GetKeeps
<1>2. CASE Hit(store, key, now)
  <2> DEFINE kc == store[key].value
  <2>1. /\ kc \in Kubeconfig
        /\ KubeconfigKey(kc.cluster) = key
        /\ held' = [held EXCEPT ![r] = kc]
        /\ pc' = [pc EXCEPT ![r] = AfterHit(kc)]
    BY <1>2 DEF Get, Hit, Filed
  <2>2. AfterHit(kc) \in {"refresh", "returned"} /\ (kc.proxied => AfterHit(kc) = "refresh")
    BY DEF AfterHit
  <2> HIDE DEF key, kc
  <2>3. Types'
    BY <1>0, <1>1, <2>1, <2>2 DEF Stage
  <2>4. Filed'
    BY <1>0, <1>1, <2>1, Zenon DEF Filed, key
  <2>5. \A q \in Request : Covered(q)'
    BY <1>0, <2>1, <2>2, BoundsAssumption DEF Covered, InFlight
  <2>6. TunnelOutlastsKubeconfig'
    BY <1>0, <1>1, <2>1, <2>2 DEF TunnelOutlastsKubeconfig, Returned
  <2> QED BY <2>3, <2>4, <2>5, <2>6
<1>3. CASE ~Hit(store, key, now)
  <2>1. pc' = [pc EXCEPT ![r] = "fetch"] /\ UNCHANGED held
    BY <1>3 DEF Get
  <2>2. Types'
    BY <1>0, <1>1, <2>1 DEF Stage
  <2>3. Filed'
    BY <1>0, <1>1, <2>1 DEF Filed
  <2>4. \A q \in Request : Covered(q)'
    BY <1>0, <2>1, BoundsAssumption DEF Covered, InFlight
  <2>5. TunnelOutlastsKubeconfig'
    BY <1>0, <1>1, <2>1 DEF TunnelOutlastsKubeconfig, Returned
  <2> QED BY <2>2, <2>3, <2>4, <2>5
<1> QED BY <1>2, <1>3

LEMMA FetchIInv == ASSUME IInv, NEW r \in Request, Fetch(r) PROVE IInv'
<1> USE DEF IInv, Types
<1>1. /\ pc[r] = "fetch"
      /\ UNCHANGED <<now, replaced, store, leased, asked, since>>
      /\ \/ held' = held /\ pc' = [pc EXCEPT ![r] = "failed"]
         \/ /\ held' = [held EXCEPT ![r] = Latest(asked[r])]
            /\ pc' = [pc EXCEPT ![r] = AfterFetch]
            /\ AfterFetch \in {"inspect", "set"}
  BY DEF Fetch, Fail, Goto, AfterFetch, upstream
<1>2. Latest(asked[r]) \in Kubeconfig /\ Latest(asked[r]).cluster = asked[r] /\ ~Latest(asked[r]).proxied
  BY DEF Latest, Kubeconfig
<1>3. Types'
  BY <1>1, <1>2 DEF Stage
<1>4. Filed'
  BY <1>1, <1>2 DEF Filed
<1>5. \A q \in Request : Covered(q)'
  BY <1>1, <1>2 DEF Covered, InFlight
<1>6. TunnelOutlastsKubeconfig'
  BY <1>1 DEF TunnelOutlastsKubeconfig, Returned
<1> QED BY <1>3, <1>4, <1>5, <1>6

LEMMA InspectIInv == ASSUME IInv, NEW r \in Request, Inspect(r) PROVE IInv'
<1> USE DEF IInv, Types
<1>1. /\ pc[r] = "inspect"
      /\ UNCHANGED <<now, replaced, store, leased, asked, since, held>>
      /\ \E s \in {"set", "ensure", "failed"} : pc' = [pc EXCEPT ![r] = s]
  BY DEF Inspect, Fail, Goto, upstream
<1> QED BY <1>1 DEF Filed, Covered, InFlight, Stage, TunnelOutlastsKubeconfig, Returned

(* EnsureProxy extends the tunnel of the cluster and no other's is shortened, *)
(* so that what other requests and entries need still holds.                  *)
LEMMA EnsureIInv == ASSUME IInv, NEW r \in Request, Ensure(r) PROVE IInv'
<1> USE DEF IInv, Types
<1>1. CASE Fail(r)
  <2>1. /\ pc[r] \in {"ensure", "refresh"}
        /\ UNCHANGED <<now, replaced, store, leased, asked, since, held>>
        /\ pc' = [pc EXCEPT ![r] = "failed"]
    BY <1>1 DEF Ensure, Fail, Goto, upstream
  <2> QED BY <2>1 DEF Filed, Covered, InFlight, Stage, TunnelOutlastsKubeconfig, Returned
<1>2. CASE ~Fail(r)
  <2> DEFINE c == held[r].cluster
  <2>1. /\ pc[r] \in {"ensure", "refresh"}
        /\ UNCHANGED <<now, replaced, store, asked>>
        /\ leased' = [leased EXCEPT ![c] = now + TTL]
        /\ held' = [held EXCEPT ![r] = Tunnelled(held[r])]
        /\ \/ pc' = [pc EXCEPT ![r] = "set"] /\ since' = since
           \/ pc' = [pc EXCEPT ![r] = "returned"] /\ since' = [since EXCEPT ![r] = now]
    BY <1>2 DEF Ensure, Goto, upstream
  <2>2. /\ c \in Cluster /\ TTL \in Nat /\ MaxFlight \in Nat
        /\ since[r] <= now /\ now <= since[r] + MaxFlight
        /\ Tunnelled(held[r]) \in Kubeconfig
        /\ Tunnelled(held[r]).cluster = c
    BY <2>1, TTLAssumption, BoundsAssumption DEF Kubeconfig, Covered, InFlight, Tunnelled
  <2>3. \A d \in Cluster : leased'[d] \in Nat /\ leased'[d] >= leased[d] /\ leased'[d] <= now + TTL
    BY <2>1, <2>2
  <2>4. Types'
    <3>0. now + TTL \in Nat
      BY <2>2
    <3>1. leased' \in [Cluster -> Nat]
      BY <2>1, <2>2, <3>0
    <3>3. since' \in [Request -> Nat]
      BY <2>1
    <3>4. pc' \in [Request -> Stage]
      BY <2>1 DEF Stage
    <3>2. held' \in [Request -> Kubeconfig]
      BY <2>1, <2>2
    <3> QED BY <2>1, <2>3, <3>1, <3>2, <3>3, <3>4
  <2>5. Filed'
    BY <2>1, <2>2 DEF Filed
  <2>6. \A q \in Request : Covered(q)'
    <3> SUFFICES ASSUME NEW q \in Request PROVE Covered(q)'
      OBVIOUS
    <3>1. held[q].cluster \in Cluster /\ Covered(q)
      BY DEF Kubeconfig
    <3>2. CASE q = r
      BY <2>1, <2>2, <3>2 DEF Covered, InFlight
    <3>3. CASE q # r
      BY <2>1, <2>2, <2>3, <3>1, <3>3, SMTT(30) DEF Covered, InFlight
    <3> QED BY <3>2, <3>3
  <2>7. TunnelOutlastsKubeconfig'
    <3>1. ASSUME NEW k \in DOMAIN store, store[k].value.proxied
          PROVE  leased'[store[k].value.cluster] + MaxFlight >= store[k].expires
      <4>1. store[k].value.cluster \in Cluster /\ store[k].expires \in Nat
        BY DEF Kubeconfig
      <4> QED BY <2>2, <2>3, <3>1, <4>1, SMTT(30) DEF TunnelOutlastsKubeconfig
    <3>2. ASSUME NEW q \in Request, pc'[q] = "returned", held'[q].proxied
          PROVE  leased'[held'[q].cluster] + MaxFlight >= since'[q] + TTL
      <4>1. CASE q = r
        BY <2>1, <2>2, <3>2, <4>1
      <4>2. CASE q # r
        <5>1. pc[q] = "returned" /\ held'[q] = held[q] /\ since'[q] = since[q] /\ held[q].cluster \in Cluster
          BY <2>1, <3>2, <4>2 DEF Kubeconfig
        <5>2. leased[held[q].cluster] + MaxFlight >= since[q] + TTL
          BY <3>2, <5>1 DEF TunnelOutlastsKubeconfig, Returned
        <5>3. leased'[held[q].cluster] >= leased[held[q].cluster] /\ leased'[held[q].cluster] \in Nat
              /\ leased[held[q].cluster] \in Nat /\ since[q] \in Nat
          BY <2>3, <5>1
        <5> QED BY <2>2, <5>1, <5>2, <5>3, SMTT(30)
      <4> QED BY <4>1, <4>2
    <3> QED BY <2>1, <3>1, <3>2 DEF TunnelOutlastsKubeconfig, Returned
  <2> QED BY <2>4, <2>5, <2>6, <2>7
<1> QED BY <1>1, <1>2

(* Set files under the request's own key what the request holds, with a      *)
(* tunnel that was asked for no longer than MaxFlight ago.                   *)
LEMMA SetIInv == ASSUME IInv, NEW r \in Request, Set(r) PROVE IInv'
<1> DEFINE key == KubeconfigKey(asked[r])
<1> USE DEF IInv, Types
<1>1. /\ pc[r] = "set"
      /\ store' = AfterSet(store, key, held[r], now)
      /\ pc' = [pc EXCEPT ![r] = "returned"]
      /\ since' = [since EXCEPT ![r] = now]
      /\ UNCHANGED <<now, replaced, leased, asked, held>>
  BY DEF Set, Goto, upstream
<1>2. \A k \in DOMAIN store' :
        \/ k = key /\ store'[k] = [value |-> held[r], expires |-> now + TTL]
        \/ k \in DOMAIN store /\ store'[k] = store[k]
  BY <1>1, SetKeeps
<1>3. /\ TTL \in Nat /\ MaxFlight \in Nat
      /\ since[r] <= now /\ now <= since[r] + MaxFlight
      /\ held[r] \in Kubeconfig /\ held[r].cluster \in Cluster
      /\ key \in Key /\ KubeconfigKey(held[r].cluster) = key
  BY <1>1, TTLAssumption, BoundsAssumption DEF Covered, InFlight, Kubeconfig, Filed, Key
<1>4. held[r].proxied => leased[held[r].cluster] + MaxFlight >= now + TTL
  <2>1. held[r].proxied => leased[held[r].cluster] >= since[r] + TTL
    BY <1>1 DEF Covered
  <2>2. leased[held[r].cluster] \in Nat /\ since[r] \in Nat
    BY <1>3
  <2> QED BY <1>3, <2>1, <2>2
<1> HIDE DEF key
<1>5. Types'
  <2>1. \A k \in DOMAIN store' : k \in Key /\ store'[k] \in [value : Kubeconfig, expires : Nat]
    BY <1>2, <1>3
  <2> QED BY <1>1, <2>1 DEF Stage
<1>6. Filed'
  BY <1>1, <1>2, <1>3 DEF Filed
<1>7. \A q \in Request : Covered(q)'
  BY <1>1 DEF Covered, InFlight
<1>8. TunnelOutlastsKubeconfig'
  <2>1. ASSUME NEW k \in DOMAIN store', store'[k].value.proxied
        PROVE  leased[store'[k].value.cluster] + MaxFlight >= store'[k].expires
    <3>1. CASE store'[k] = [value |-> held[r], expires |-> now + TTL]
      BY <1>4, <2>1, <3>1
    <3>2. CASE k \in DOMAIN store /\ store'[k] = store[k]
      BY <2>1, <3>2 DEF TunnelOutlastsKubeconfig
    <3> QED BY <1>2, <3>1, <3>2
  <2>2. ASSUME NEW q \in Request, pc'[q] = "returned", held[q].proxied
        PROVE  leased[held[q].cluster] + MaxFlight >= since'[q] + TTL
    <3>1. CASE q = r
      BY <1>1, <1>4, <2>2, <3>1
    <3>2. CASE q # r
      BY <1>1, <2>2, <3>2 DEF TunnelOutlastsKubeconfig, Returned
    <3> QED BY <3>1, <3>2
  <2> QED BY <1>1, <2>1, <2>2 DEF TunnelOutlastsKubeconfig, Returned
<1> QED BY <1>5, <1>6, <1>7, <1>8

LEMMA TickIInv == ASSUME IInv, Tick PROVE IInv'
<1> USE DEF IInv, Types
<1>1. /\ now' = now + 1
      /\ \A r \in Request : InFlight(r) => now < since[r] + MaxFlight
      /\ UNCHANGED <<replaced, store, leased, pc, asked, since, held>>
  BY DEF Tick
<1>2. Types'
  BY <1>1, TTLAssumption
<1>3. \A q \in Request : Covered(q)'
  <2> SUFFICES ASSUME NEW q \in Request PROVE Covered(q)'
    OBVIOUS
  <2>1. since[q] \in Nat /\ MaxFlight \in Nat /\ Covered(q)
    BY BoundsAssumption
  <2>2. InFlight(q) => since[q] <= now + 1 /\ now + 1 <= since[q] + MaxFlight
    BY <1>1, <2>1 DEF Covered
  <2> QED BY <1>1, <2>1, <2>2 DEF Covered, InFlight
<1> QED BY <1>1, <1>2, <1>3 DEF Filed, TunnelOutlastsKubeconfig, Returned

LEMMA NextIInv == IInv /\ [Next]_vars => IInv'
<1> SUFFICES ASSUME IInv, [Next]_vars PROVE IInv'
  OBVIOUS
<1>1. CASE UNCHANGED vars
  BY <1>1, Outside DEF vars, upstream, IInv, Types
<1>2. ASSUME NEW r \in Request, Get(r) \/ Fetch(r) \/ Inspect(r) \/ Ensure(r) \/ Set(r)
      PROVE  IInv'
  BY <1>2, GetIInv, FetchIInv, InspectIInv, EnsureIInv, SetIInv
<1>3. ASSUME NEW c \in Cluster, Rotate(c) PROVE IInv'
  <2>1. replaced' \in [Cluster -> Seq(Nat)]
    BY <1>3 DEF Rotate, IInv, Types
  <2> QED BY <1>3, <2>1, Outside DEF Rotate
<1>4. ASSUME NEW c \in Cluster, Restrict(c) PROVE IInv'
  BY <1>4, Outside DEF Restrict, IInv, Types
<1>5. ASSUME NEW c \in Cluster, Address(c) PROVE IInv'
  BY <1>5, Outside DEF Address, IInv, Types
<1> QED BY <1>1, <1>2, <1>3, <1>4, <1>5, TickIInv DEF Next

LEMMA SpecIInv == Spec => []IInv
BY InitIInv, NextIInv, PTL DEF Spec

(* A cached kubeconfig has its tunnel, and a request returns none without, as *)
(* long as the kubeconfig is cached but for the duration of a request.        *)
THEOREM TunnelsOutlast == Spec => []TunnelOutlastsKubeconfig
<1>1. IInv => TunnelOutlastsKubeconfig
  BY DEF IInv
<1> QED BY <1>1, SpecIInv, PTL

(* If no two clusters share a key, which names without colons see to, nobody  *)
(* gets another cluster's kubeconfig.                                         *)
THEOREM NobodyElsesKubeconfig ==
  ASSUME \A c, d \in Cluster : KubeconfigKey(c) = KubeconfigKey(d) => c = d
  PROVE  Spec => []OwnKubeconfig
<1>1. IInv => OwnKubeconfig
  <2> SUFFICES ASSUME IInv, NEW r \in Request PROVE held[r].cluster = asked[r]
    BY DEF OwnKubeconfig, Returned
  <2>1. held[r].cluster \in Cluster /\ asked[r] \in Cluster
    BY DEF IInv, Types, Kubeconfig
  <2>2. KubeconfigKey(held[r].cluster) = KubeconfigKey(asked[r])
    BY DEF IInv, Filed
  <2> QED BY <2>1, <2>2
<1> QED BY <1>1, SpecIInv, PTL

-----------------------------------------------------------------------------
(* How old what is cached or returned may be.                                 *)

(* What TypeOK says beyond Types.                                            *)
Bounded ==
  /\ now <= MaxTime
  /\ lastDirect \in [Cluster -> Nat] /\ \A c \in Cluster : lastDirect[c] <= now
  /\ open \subseteq Cluster /\ bare \subseteq Cluster \ open
  /\ \A key \in DOMAIN store : store[key].expires <= now + TTL
  /\ \A r \in Request : since[r] <= now

(* If the revision of k has been replaced, then no more than slack before t. *)
Dated(k, t, slack) ==
  k.revision \in DOMAIN replaced[k.cluster] =>
    t <= replaced[k.cluster][k.revision] + slack

Aged ==
  /\ \A key \in DOMAIN store :
       Dated(store[key].value, store[key].expires, TTL + MaxFlight)
  /\ \A r \in Request :
       /\ pc[r] \in {"inspect", "ensure", "set"} => Dated(held[r], since[r], 0)
       /\ pc[r] = "refresh" => Dated(held[r], since[r], TTL + MaxFlight)
       /\ pc[r] = "returned" => Dated(held[r], since[r], TTL + 2 * MaxFlight)

(* If k has no tunnel, its API server was open, or had no endpoint, no more   *)
(* than slack before t.                                                       *)
Direct(k, t, slack) == k.proxied \/ t <= lastDirect[k.cluster] + slack

Opened ==
  /\ \A c \in open \cup bare : lastDirect[c] = now
  /\ \A key \in DOMAIN store :
       Direct(store[key].value, store[key].expires, TTL + MaxFlight)
  /\ \A r \in Request :
       /\ pc[r] \in {"inspect", "ensure", "set"} => held[r].cluster = asked[r]
       /\ pc[r] = "set" => Direct(held[r], since[r], 0)
       /\ pc[r] = "refresh" => held[r].proxied
       /\ pc[r] = "returned" => Direct(held[r], since[r], TTL + MaxFlight)

AgeInv == Bounded /\ Aged /\ (SshuttleHost => Opened)

LEMMA InitAgeInv == Init => AgeInv
BY BoundsAssumption, TTLAssumption
DEF Init, AgeInv, Bounded, Aged, Opened, NoEntries, Wanted

(* What is not older than slack before t is not older than slack + u before  *)
(* any time up to u later.                                                    *)
LEMMA DatedLater ==
  ASSUME replaced \in [Cluster -> Seq(Nat)], NEW k \in Kubeconfig,
         NEW t \in Nat, NEW slack \in Nat, NEW u \in Nat, NEW later \in Nat,
         Dated(k, t, slack), later <= t + u
  PROVE  Dated(k, later, slack + u)
<1>1. k.revision \in DOMAIN replaced[k.cluster] =>
        replaced[k.cluster][k.revision] \in Nat
  BY DEF Kubeconfig
<1> QED BY <1>1 DEF Dated

LEMMA DirectLater ==
  ASSUME lastDirect \in [Cluster -> Nat], NEW k \in Kubeconfig,
         NEW t \in Nat, NEW slack \in Nat, NEW u \in Nat, NEW later \in Nat,
         Direct(k, t, slack), later <= t + u
  PROVE  Direct(k, later, slack + u)
<1>1. lastDirect[k.cluster] \in Nat
  BY DEF Kubeconfig
<1> QED BY <1>1 DEF Direct

LEMMA GetAges == ASSUME IInv, AgeInv, NEW r \in Request, Get(r) PROVE AgeInv'
<1> DEFINE key == KubeconfigKey(asked[r])
<1> USE TTLAssumption, BoundsAssumption DEF IInv, Types, AgeInv
<1>0. /\ store' = AfterGet(store, key, now)
      /\ UNCHANGED <<now, upstream, leased, asked>>
      /\ since' = [since EXCEPT ![r] = now]
      /\ pc[r] = "idle"
  BY DEF Get
<1>1. \A k \in DOMAIN store' : k \in DOMAIN store /\ store'[k] = store[k]
  BY <1>0, GetKeeps
<1>2. Bounded'
  BY <1>0, <1>1 DEF Bounded, upstream
<1>3. CASE Hit(store, key, now)
  <2> DEFINE kc == store[key].value
  <2>1. /\ key \in DOMAIN store
        /\ now <= store[key].expires
        /\ kc \in Kubeconfig
        /\ held' = [held EXCEPT ![r] = kc]
        /\ pc' = [pc EXCEPT ![r] = AfterHit(kc)]
    BY <1>3 DEF Get, Hit, Expired
  <2>2. /\ AfterHit(kc) \in {"refresh", "returned"}
        /\ AfterHit(kc) = "refresh" => kc.proxied
    BY DEF AfterHit
  <2>3. Dated(kc, now, TTL + MaxFlight) /\ Dated(kc, now, TTL + 2 * MaxFlight)
    <3>1. Dated(kc, store[key].expires, TTL + MaxFlight)
      BY <2>1 DEF Aged
    <3>2. kc.revision \in DOMAIN replaced[kc.cluster] =>
            replaced[kc.cluster][kc.revision] \in Nat
      BY <2>1, SMTT(30) DEF Kubeconfig
    <3> QED BY <2>1, <3>1, <3>2, SMTT(30) DEF Dated
  <2>4. SshuttleHost => Direct(kc, now, TTL + MaxFlight)
    <3>1. SshuttleHost => Direct(kc, store[key].expires, TTL + MaxFlight)
      BY <2>1 DEF Opened
    <3>2. lastDirect[kc.cluster] \in Nat
      BY <2>1 DEF Kubeconfig, Bounded
    <3> QED BY <2>1, <3>1, <3>2 DEF Direct
  <2> HIDE DEF key, kc
  <2>5. Aged'
    BY <1>0, <1>1, <2>1, <2>2, <2>3 DEF Aged, Dated, upstream
  <2>6. SshuttleHost => Opened'
    BY <1>0, <1>1, <2>1, <2>2, <2>4 DEF Opened, Direct, upstream
  <2> QED BY <1>2, <2>5, <2>6
<1>4. CASE ~Hit(store, key, now)
  <2>1. pc' = [pc EXCEPT ![r] = "fetch"] /\ UNCHANGED held
    BY <1>4 DEF Get
  <2>2. Aged'
    BY <1>0, <1>1, <2>1 DEF Aged, Dated, upstream
  <2>3. SshuttleHost => Opened'
    BY <1>0, <1>1, <2>1 DEF Opened, Direct, upstream
  <2> QED BY <1>2, <2>2, <2>3
<1> QED BY <1>3, <1>4

LEMMA FetchAges == ASSUME IInv, AgeInv, NEW r \in Request, Fetch(r) PROVE AgeInv'
<1> USE TTLAssumption, BoundsAssumption DEF IInv, Types, AgeInv
<1>1. /\ pc[r] = "fetch"
      /\ UNCHANGED <<now, upstream, store, leased, asked, since>>
      /\ \/ held' = held /\ pc' = [pc EXCEPT ![r] = "failed"]
         \/ /\ held' = [held EXCEPT ![r] = Latest(asked[r])]
            /\ pc' = [pc EXCEPT ![r] = AfterFetch]
            /\ AfterFetch \in {"inspect", "set"}
            /\ SshuttleHost => AfterFetch = "inspect"
  BY DEF Fetch, Fail, Goto, AfterFetch
<1>2. /\ Latest(asked[r]).cluster = asked[r]
      /\ Latest(asked[r]).revision \notin DOMAIN replaced[asked[r]]
  BY DEF Latest
<1>3. Bounded'
  BY <1>1 DEF Bounded, upstream
<1>4. Aged'
  BY <1>1, <1>2 DEF Aged, Dated, upstream
<1>5. SshuttleHost => Opened'
  BY <1>1, <1>2, SMTT(30) DEF Opened, Direct, upstream
<1> QED BY <1>3, <1>4, <1>5

LEMMA InspectAges ==
  ASSUME IInv, AgeInv, NEW r \in Request, Inspect(r) PROVE AgeInv'
<1> USE TTLAssumption, BoundsAssumption DEF IInv, Types, AgeInv
<1>1. /\ pc[r] = "inspect"
      /\ UNCHANGED <<now, upstream, store, leased, asked, since, held>>
      /\ \E s \in {"set", "ensure", "failed"} :
           pc' = [pc EXCEPT ![r] = s] /\ (s = "set" => asked[r] \in open \cup bare)
  BY DEF Inspect, HasInfo, Fail, Goto
<1>2. Bounded'
  BY <1>1 DEF Bounded, upstream
<1>3. Aged'
  BY <1>1 DEF Aged, Dated, upstream
<1>4. SshuttleHost => Opened'
  <2>1. SshuttleHost /\ asked[r] \in open \cup bare => Direct(held[r], since[r], 0)
    BY <1>1 DEF Opened, Direct, Bounded
  <2> QED BY <1>1, <2>1 DEF Opened, Direct, upstream
<1> QED BY <1>2, <1>3, <1>4

LEMMA EnsureAges ==
  ASSUME IInv, AgeInv, NEW r \in Request, Ensure(r) PROVE AgeInv'
<1> USE TTLAssumption, BoundsAssumption DEF IInv, Types, AgeInv
<1>1. CASE Fail(r)
  <2>1. /\ UNCHANGED <<now, upstream, store, asked, since, held>>
        /\ pc' = [pc EXCEPT ![r] = "failed"]
    BY <1>1 DEF Ensure, Fail, Goto
  <2> QED
    BY <2>1 DEF Bounded, Aged, Dated, Opened, Direct, upstream
<1>2. CASE ~Fail(r)
  <2>1. /\ pc[r] \in {"ensure", "refresh"}
        /\ UNCHANGED <<now, upstream, store, asked>>
        /\ held' = [held EXCEPT ![r] = Tunnelled(held[r])]
        /\ \/ /\ pc[r] = "ensure"
              /\ pc' = [pc EXCEPT ![r] = "set"] /\ since' = since
           \/ /\ pc[r] = "refresh"
              /\ pc' = [pc EXCEPT ![r] = "returned"]
              /\ since' = [since EXCEPT ![r] = now]
    BY <1>2 DEF Ensure, Goto
  <2>2. /\ Tunnelled(held[r]).proxied
        /\ Tunnelled(held[r]).cluster = held[r].cluster
        /\ Tunnelled(held[r]).revision = held[r].revision
    BY DEF Tunnelled
  <2>3. pc[r] = "refresh" => Dated(held[r], now, TTL + 2 * MaxFlight)
    <3> SUFFICES ASSUME pc[r] = "refresh"
                 PROVE  Dated(held[r], now, TTL + 2 * MaxFlight)
      OBVIOUS
    <3>1. Dated(held[r], since[r], TTL + MaxFlight)
      BY DEF Aged
    <3>2. now <= since[r] + MaxFlight /\ since[r] \in Nat /\ now \in Nat
      BY <2>1 DEF Covered, InFlight
    <3>3. /\ TTL + MaxFlight \in Nat /\ MaxFlight \in Nat
          /\ (TTL + MaxFlight) + MaxFlight = TTL + 2 * MaxFlight
      OBVIOUS
    <3>4. replaced \in [Cluster -> Seq(Nat)] /\ held[r] \in Kubeconfig
      OBVIOUS
    <3> HIDE DEF IInv, Types, AgeInv
    <3>5. Dated(held[r], now, (TTL + MaxFlight) + MaxFlight)
      BY <3>1, <3>2, <3>3, <3>4, DatedLater
    <3> QED BY <3>3, <3>5
  <2>4. Bounded'
    <3>1. now \in Nat /\ since \in [Request -> Nat]
          /\ \A q \in Request : since[q] <= now
      BY DEF Bounded
    <3>2. \A q \in Request : since'[q] = since[q] \/ since'[q] = now
      BY <2>1, <3>1
    <3>3. Bounded /\ UNCHANGED <<now, lastDirect, open, bare, store>>
      BY <2>1 DEF upstream
    <3> HIDE DEF IInv, Types, AgeInv
    <3> QED BY <3>1, <3>2, <3>3 DEF Bounded
  <2>5. Aged'
    <3> DEFINE Young(q) ==
          /\ pc[q] \in {"inspect", "ensure", "set"} => Dated(held[q], since[q], 0)
          /\ pc[q] = "refresh" => Dated(held[q], since[q], TTL + MaxFlight)
          /\ pc[q] = "returned" => Dated(held[q], since[q], TTL + 2 * MaxFlight)
    <3>1. Young(r)'
      BY <2>1, <2>2, <2>3 DEF Aged, Dated, upstream
    <3>2. ASSUME NEW q \in Request \ {r} PROVE Young(q)'
      <4>1. UNCHANGED <<replaced, pc[q], held[q], since[q]>>
        BY <2>1 DEF upstream
      <4>2. Young(q)
        BY DEF Aged
      <4> HIDE DEF IInv, Types, AgeInv
      <4> QED BY <4>1, <4>2 DEF Dated
    <3>3. \A key \in DOMAIN store' :
            Dated(store[key].value, store[key].expires, TTL + MaxFlight)'
      BY <2>1 DEF Aged, Dated, upstream
    <3> HIDE DEF IInv, Types, AgeInv
    <3> QED BY <3>1, <3>2, <3>3 DEF Aged
  <2>6. SshuttleHost => Opened'
    BY <2>1, <2>2 DEF Opened, Direct, upstream
  <2> QED BY <2>4, <2>5, <2>6
<1> QED BY <1>1, <1>2

(* What is filed was fetched within the last MaxFlight.                       *)
LEMMA SetAges == ASSUME IInv, AgeInv, NEW r \in Request, Set(r) PROVE AgeInv'
<1> DEFINE key == KubeconfigKey(asked[r])
<1> USE TTLAssumption, BoundsAssumption DEF IInv, Types, AgeInv
<1>1. /\ pc[r] = "set"
      /\ store' = AfterSet(store, key, held[r], now)
      /\ pc' = [pc EXCEPT ![r] = "returned"]
      /\ since' = [since EXCEPT ![r] = now]
      /\ UNCHANGED <<now, upstream, asked, held>>
  BY DEF Set, Goto
<1>2. \A k \in DOMAIN store' :
        \/ k = key /\ store'[k] = [value |-> held[r], expires |-> now + TTL]
        \/ k \in DOMAIN store /\ store'[k] = store[k]
  BY <1>1, SetKeeps
<1>3. since[r] \in Nat /\ now <= since[r] + MaxFlight
  BY <1>1 DEF Covered, InFlight
<1>4. /\ Dated(held[r], now + TTL, TTL + MaxFlight)
      /\ Dated(held[r], now, TTL + 2 * MaxFlight)
  <2>1. Dated(held[r], since[r], 0)
    BY <1>1 DEF Aged
  <2>2. replaced \in [Cluster -> Seq(Nat)] /\ held[r] \in Kubeconfig
    OBVIOUS
  <2>3. /\ now + TTL \in Nat /\ now \in Nat /\ TTL + MaxFlight \in Nat
        /\ TTL + 2 * MaxFlight \in Nat
        /\ now + TTL <= since[r] + (TTL + MaxFlight)
        /\ now <= since[r] + (TTL + 2 * MaxFlight)
    BY <1>3
  <2> HIDE DEF IInv, Types, AgeInv
  <2>4. /\ Dated(held[r], now + TTL, 0 + (TTL + MaxFlight))
        /\ Dated(held[r], now, 0 + (TTL + 2 * MaxFlight))
    BY <1>3, <2>1, <2>2, <2>3, DatedLater
  <2>5. /\ 0 + (TTL + MaxFlight) = TTL + MaxFlight
        /\ 0 + (TTL + 2 * MaxFlight) = TTL + 2 * MaxFlight
    BY <2>3
  <2> QED BY <2>4, <2>5
<1>5. SshuttleHost => /\ Direct(held[r], now + TTL, TTL + MaxFlight)
                      /\ Direct(held[r], now, TTL + MaxFlight)
  <2>1. SshuttleHost => Direct(held[r], since[r], 0)
    BY <1>1 DEF Opened
  <2>2. lastDirect[held[r].cluster] \in Nat
    BY DEF Kubeconfig, Bounded
  <2> QED BY <1>3, <2>1, <2>2 DEF Direct
<1>6. UNCHANGED <<now, replaced, lastDirect, open, bare, asked, held>>
  BY <1>1 DEF upstream
<1>7. \A k \in DOMAIN store' :
        \/ store'[k].value = held[r] /\ store'[k].expires = now + TTL
        \/ k \in DOMAIN store /\ store'[k] = store[k]
  BY <1>2
<1>8. \A q \in Request :
        \/ q = r /\ pc'[q] = "returned" /\ since'[q] = now
        \/ pc'[q] = pc[q] /\ since'[q] = since[q]
  BY <1>1
<1>9. now \in Nat /\ TTL \in Nat /\ now <= now /\ now + TTL <= now + TTL
  OBVIOUS
<1>10. Bounded /\ Aged /\ (SshuttleHost => Opened)
  OBVIOUS
<1> HIDE DEF key, IInv, Types, AgeInv
<1>11. Bounded'
  BY <1>6, <1>7, <1>8, <1>9, <1>10 DEF Bounded
<1>12. Aged'
  <2>1. \A k \in DOMAIN store' :
          Dated(store'[k].value, store'[k].expires, TTL + MaxFlight)
    BY <1>4, <1>7, <1>10 DEF Aged
  <2>2. \A q \in Request :
          /\ pc'[q] \in {"inspect", "ensure", "set"} =>
               Dated(held[q], since'[q], 0)
          /\ pc'[q] = "refresh" => Dated(held[q], since'[q], TTL + MaxFlight)
          /\ pc'[q] = "returned" => Dated(held[q], since'[q], TTL + 2 * MaxFlight)
    BY <1>4, <1>8, <1>10 DEF Aged
  <2> QED BY <1>6, <2>1, <2>2 DEF Aged, Dated
<1>13. SshuttleHost => Opened'
  <2> SUFFICES ASSUME SshuttleHost PROVE Opened'
    OBVIOUS
  <2>1. \A k \in DOMAIN store' :
          Direct(store'[k].value, store'[k].expires, TTL + MaxFlight)
    BY <1>5, <1>7, <1>10 DEF Opened
  <2>2. \A q \in Request :
          /\ pc'[q] \in {"inspect", "ensure", "set"} => held[q].cluster = asked[q]
          /\ pc'[q] = "set" => Direct(held[q], since'[q], 0)
          /\ pc'[q] = "refresh" => held[q].proxied
          /\ pc'[q] = "returned" => Direct(held[q], since'[q], TTL + MaxFlight)
    BY <1>5, <1>8, <1>10 DEF Opened
  <2> QED BY <1>6, <1>10, <2>1, <2>2 DEF Opened, Direct
<1> QED BY <1>11, <1>12, <1>13 DEF AgeInv

(* A replacement that happens now makes nothing older than it was.           *)
LEMMA RotateAges ==
  ASSUME IInv, AgeInv, NEW c \in Cluster, Rotate(c) PROVE AgeInv'
<1> USE TTLAssumption, BoundsAssumption DEF IInv, Types, AgeInv
<1>1. /\ replaced' = [replaced EXCEPT ![c] = Append(replaced[c], now)]
      /\ UNCHANGED <<now, lastDirect, open, bare, store, leased, pc, asked, since, held>>
  BY DEF Rotate
<1>2. ASSUME NEW k \in Kubeconfig, NEW t \in Nat, NEW slack \in Nat,
             t <= now + slack, Dated(k, t, slack)
      PROVE  Dated(k, t, slack)'
  <2>1. replaced[c] \in Seq(Nat) /\ k.cluster \in Cluster
    BY DEF Kubeconfig
  <2>2. CASE k.cluster = c
    BY <1>1, <1>2, <2>1, <2>2 DEF Dated
  <2>3. CASE k.cluster # c
    BY <1>1, <1>2, <2>1, <2>3 DEF Dated
  <2> QED BY <2>2, <2>3
<1>3. Bounded'
  BY <1>1 DEF Bounded
<1>4. Aged'
  <2>1. ASSUME NEW key \in DOMAIN store
        PROVE  Dated(store[key].value, store[key].expires, TTL + MaxFlight)'
    <3>1. /\ store[key].value \in Kubeconfig /\ store[key].expires \in Nat
          /\ store[key].expires <= now + (TTL + MaxFlight)
          /\ TTL + MaxFlight \in Nat
      BY DEF Bounded
    <3>2. Dated(store[key].value, store[key].expires, TTL + MaxFlight)
      BY DEF Aged
    <3>3. UNCHANGED store
      BY <1>1
    <3> QED BY <1>2, <3>1, <3>2, <3>3 DEF Dated
  <2>2. ASSUME NEW r \in Request, NEW slack \in Nat,
               Dated(held[r], since[r], slack)
        PROVE  Dated(held[r], since[r], slack)'
    <3>1. held[r] \in Kubeconfig /\ since[r] \in Nat /\ since[r] <= now + slack
      BY DEF Bounded
    <3>2. UNCHANGED <<held, since>>
      BY <1>1
    <3> QED BY <1>2, <2>2, <3>1, <3>2 DEF Dated
  <2>3. 0 \in Nat /\ TTL + MaxFlight \in Nat /\ TTL + 2 * MaxFlight \in Nat
    OBVIOUS
  <2>4. \A r \in Request :
          /\ pc[r] \in {"inspect", "ensure", "set"} => Dated(held[r], since[r], 0)'
          /\ pc[r] = "refresh" => Dated(held[r], since[r], TTL + MaxFlight)'
          /\ pc[r] = "returned" => Dated(held[r], since[r], TTL + 2 * MaxFlight)'
    BY <2>2, <2>3 DEF Aged
  <2> QED BY <1>1, <2>1, <2>4 DEF Aged
<1>5. SshuttleHost => Opened'
  BY <1>1 DEF Opened, Direct
<1> QED BY <1>3, <1>4, <1>5

(* What is reached without a tunnel, or was until now, last was so now.      *)
LEMMA OpenLater ==
  ASSUME IInv, Bounded, Opened,
         UNCHANGED <<replaced, store, pc, asked, since, held>>,
         lastDirect' \in [Cluster -> Nat],
         \A c \in Cluster : lastDirect'[c] >= lastDirect[c],
         \A c \in (open \cup bare)' : lastDirect'[c] = now'
  PROVE  Opened'
<1> USE TTLAssumption, BoundsAssumption DEF IInv, Types
<1>1. ASSUME NEW k \in Kubeconfig, NEW t \in Nat, NEW slack \in Nat,
             Direct(k, t, slack)
      PROVE  k.proxied \/ t <= lastDirect'[k.cluster] + slack
  <2>1. lastDirect[k.cluster] \in Nat /\ lastDirect'[k.cluster] \in Nat
        /\ lastDirect'[k.cluster] >= lastDirect[k.cluster]
    BY DEF Kubeconfig, Bounded
  <2> QED BY <1>1, <2>1 DEF Direct
<1>2. \A key \in DOMAIN store :
        \/ store[key].value.proxied
        \/ store[key].expires <= lastDirect'[store[key].value.cluster] + (TTL + MaxFlight)
  BY <1>1 DEF Opened
<1>3. \A r \in Request :
        /\ pc[r] = "set" =>
             held[r].proxied \/ since[r] <= lastDirect'[held[r].cluster] + 0
        /\ pc[r] = "returned" =>
             \/ held[r].proxied
             \/ since[r] <= lastDirect'[held[r].cluster] + (TTL + MaxFlight)
  BY <1>1 DEF Opened
<1> QED BY <1>2, <1>3 DEF Opened, Direct

LEMMA RestrictAges ==
  ASSUME IInv, AgeInv, NEW c \in Cluster, Restrict(c) PROVE AgeInv'
<1> USE TTLAssumption, BoundsAssumption DEF IInv, Types, AgeInv
<1>1. /\ c \in open
      /\ open' = open \ {c} /\ bare' \in {bare, bare \cup {c}}
      /\ lastDirect' = [lastDirect EXCEPT ![c] = now]
      /\ UNCHANGED <<now, replaced, store, leased, pc, asked, since, held>>
  BY DEF Restrict
<1>2. /\ lastDirect' \in [Cluster -> Nat]
      /\ \A d \in Cluster : lastDirect'[d] >= lastDirect[d] /\ lastDirect'[d] <= now
  BY <1>1 DEF Bounded
<1>3. Bounded'
  BY <1>1, <1>2 DEF Bounded
<1>4. Aged'
  BY <1>1 DEF Aged, Dated
<1>5. SshuttleHost => Opened'
  <2>1. SshuttleHost => \A d \in (open \cup bare)' : lastDirect'[d] = now'
    BY <1>1 DEF Opened, Bounded
  <2> QED BY <1>1, <1>2, <2>1, OpenLater
<1> QED BY <1>3, <1>4, <1>5

LEMMA AddressAges ==
  ASSUME IInv, AgeInv, NEW c \in Cluster, Address(c) PROVE AgeInv'
<1> USE TTLAssumption, BoundsAssumption DEF IInv, Types, AgeInv
<1>1. /\ bare' = bare \ {c}
      /\ lastDirect' = [lastDirect EXCEPT ![c] = now]
      /\ UNCHANGED <<now, replaced, open, store, leased, pc, asked, since, held>>
  BY DEF Address
<1>2. /\ lastDirect' \in [Cluster -> Nat]
      /\ \A d \in Cluster : lastDirect'[d] >= lastDirect[d] /\ lastDirect'[d] <= now
  BY <1>1 DEF Bounded
<1>3. Bounded'
  BY <1>1, <1>2 DEF Bounded
<1>4. Aged'
  BY <1>1 DEF Aged, Dated
<1>5. SshuttleHost => Opened'
  <2>1. SshuttleHost => \A d \in (open \cup bare)' : lastDirect'[d] = now'
    BY <1>1 DEF Opened, Bounded
  <2> QED BY <1>1, <1>2, <2>1, OpenLater
<1> QED BY <1>3, <1>4, <1>5

LEMMA TickAges == ASSUME IInv, AgeInv, Tick PROVE AgeInv'
<1> USE TTLAssumption, BoundsAssumption DEF IInv, Types, AgeInv
<1>1. /\ now < MaxTime /\ now' = now + 1
      /\ lastDirect' = [c \in Cluster |->
                         IF c \in open \cup bare THEN now + 1 ELSE lastDirect[c]]
      /\ UNCHANGED <<replaced, open, bare, store, leased, pc, asked, since, held>>
  BY DEF Tick, HasInfo
<1>2. /\ lastDirect' \in [Cluster -> Nat]
      /\ \A c \in Cluster : lastDirect'[c] >= lastDirect[c] /\ lastDirect'[c] <= now'
      /\ \A c \in (open \cup bare)' : lastDirect'[c] = now'
  BY <1>1 DEF Bounded
<1>3. Bounded'
  BY <1>1, <1>2 DEF Bounded
<1>4. Aged'
  BY <1>1 DEF Aged, Dated
<1>5. SshuttleHost => Opened'
  BY <1>1, <1>2, OpenLater
<1> QED BY <1>3, <1>4, <1>5

LEMMA NextAgeInv == IInv /\ AgeInv /\ [Next]_vars => AgeInv'
<1> SUFFICES ASSUME IInv, AgeInv, [Next]_vars PROVE AgeInv'
  OBVIOUS
<1>1. CASE UNCHANGED vars
  BY <1>1 DEF vars, upstream, AgeInv, Bounded, Aged, Dated, Opened, Direct
<1> QED
  BY <1>1, GetAges, FetchAges, InspectAges, EnsureAges, SetAges, RotateAges,
     RestrictAges, AddressAges, TickAges DEF Next

LEMMA SpecAgeInv == Spec => [](IInv /\ AgeInv)
BY InitIInv, NextIInv, InitAgeInv, NextAgeInv, PTL DEF Spec

(* Every variable keeps its type, and nothing expires later than a TTL from  *)
(* now (server/kubeconfig.go: cachedKubeconfig).                              *)
THEOREM TypeCorrect == Spec => []TypeOK
<1>1. IInv /\ AgeInv => TypeOK
  BY TTLAssumption, BoundsAssumption
  DEF IInv, Types, AgeInv, Bounded, TypeOK, Key
<1> QED BY <1>1, SpecAgeInv, PTL

(* A request returns no kubeconfig whose secret was replaced more than a TTL *)
(* and the time of two requests ago (cache.go: Get).                          *)
THEOREM NothingIsLongStale == Spec => []NeverLongStale
<1>1. IInv /\ AgeInv => NeverLongStale
  <2> SUFFICES ASSUME IInv, AgeInv, NEW r \in Returned,
                      held[r].revision \in DOMAIN replaced[held[r].cluster]
               PROVE  since[r] <= replaced[held[r].cluster][held[r].revision]
                                    + TTL + 2 * MaxFlight
    BY DEF NeverLongStale
  <2>1. Dated(held[r], since[r], TTL + 2 * MaxFlight)
    BY DEF AgeInv, Aged, Returned
  <2>2. replaced[held[r].cluster][held[r].revision] \in Nat /\ since[r] \in Nat
    BY DEF IInv, Types, Kubeconfig, Returned
  <2> QED BY <2>1, <2>2, TTLAssumption, BoundsAssumption DEF Dated
<1> QED BY <1>1, SpecAgeInv, PTL

(* A kubeconfig comes without a tunnel only if its API server was open, or    *)
(* had no endpoint to tunnel to, no more than a TTL and the time of a request *)
(* ago (server/kubeconfig.go: FetchAPIServerInfo).                            *)
THEOREM NoClosedWithoutTunnel == Spec => []ClosedIsTunnelled
<1>1. IInv /\ AgeInv => ClosedIsTunnelled
  <2> SUFFICES ASSUME IInv, AgeInv, SshuttleHost, NEW r \in Returned,
                      ~held[r].proxied
               PROVE  since[r] <= lastDirect[held[r].cluster] + TTL + MaxFlight
    BY DEF ClosedIsTunnelled
  <2>1. since[r] <= lastDirect[held[r].cluster] + (TTL + MaxFlight)
    BY DEF AgeInv, Opened, Direct, Returned
  <2>2. lastDirect[held[r].cluster] \in Nat /\ since[r] \in Nat
    BY DEF AgeInv, Bounded, IInv, Types, Kubeconfig, Returned
  <2> QED BY <2>1, <2>2, TTLAssumption, BoundsAssumption
<1> QED BY <1>1, SpecAgeInv, PTL

-----------------------------------------------------------------------------
(* The provider on top of the pipeline.                                       *)

(* A manager is filed under a cluster that has the key of the manager's own. *)
(* A call that has not yet looked has not begun with the pipeline, and one   *)
(* that is building is no older than MaxFlight.                               *)
Builds(r) ==
  /\ at[r] = "lookup" => pc[r] = "idle"
  /\ at[r] = "resolve" /\ pc[r] # "idle" => now <= since[r] + MaxFlight

PInv ==
  /\ via \in [Request -> {"own", "embedded"}]
  /\ DOMAIN managers \subseteq Cluster
  /\ \A c \in DOMAIN managers : /\ managers[c] \in Kubeconfig
                                /\ KubeconfigKey(managers[c].cluster) = KubeconfigKey(c)
  /\ at \in [Request -> Place]
  /\ \A r \in Request : Builds(r)

LEMMA InitPInv == ProviderInit => PInv
BY DEF ProviderInit, Init, PInv, Builds, NoManagers, Place

(* What a step of the pipeline does to the places and times of the requests. *)
LEMMA Steps ==
  ASSUME IInv, NEW r \in Request, Get(r) \/ Fetch(r) \/ Inspect(r) \/ Ensure(r) \/ Set(r)
  PROVE  /\ now' = now
         /\ \A q \in Request \ {r} : pc'[q] = pc[q]
         /\ pc'[r] # "idle"
         /\ \A q \in Request :
              \/ since'[q] = since[q] /\ (pc[q] = "idle" => pc'[q] = "idle")
              \/ since'[q] = now
<1> USE DEF IInv, Types
<1>1. CASE Get(r)
  BY <1>1 DEF Get, AfterHit, Stage
<1>2. CASE Fetch(r)
  BY <1>2 DEF Fetch, Fail, Goto, AfterFetch, Stage
<1>3. CASE Inspect(r)
  BY <1>3 DEF Inspect, Fail, Goto, Stage
<1>4. CASE Ensure(r)
  BY <1>4 DEF Ensure, Fail, Goto, Stage
<1>5. CASE Set(r)
  BY <1>5 DEF Set, Goto, Stage
<1> QED BY <1>1, <1>2, <1>3, <1>4, <1>5

LEMMA NextPInv == IInv /\ PInv /\ [ProviderNext]_providerVars => PInv'
<1> SUFFICES ASSUME IInv, PInv, [ProviderNext]_providerVars PROVE PInv'
  OBVIOUS
<1>1. CASE UNCHANGED providerVars
  BY <1>1 DEF providerVars, provider, vars, PInv, Builds
<1>2. ASSUME NEW r \in Request, Lookup(r) PROVE PInv'
  <2>1. /\ at[r] = "lookup" /\ UNCHANGED <<now, pc, since, via, managers>>
        /\ \/ at' = [at EXCEPT ![r] = "found"]
           \/ at' = [at EXCEPT ![r] = "resolve"]
    BY <1>2 DEF Lookup, Reach, vars
  <2> QED BY <2>1 DEF PInv, Builds, Place
<1>3. ASSUME NEW r \in Request, Pipeline(r) PROVE PInv'
  <2>1. at[r] \in {"own", "resolve"} /\ UNCHANGED <<via, managers, at>>
    BY <1>3 DEF Pipeline, provider
  <2>2. /\ now' = now
        /\ \A q \in Request \ {r} : pc'[q] = pc[q]
        /\ \A q \in Request :
             \/ since'[q] = since[q] /\ (pc[q] = "idle" => pc'[q] = "idle")
             \/ since'[q] = now
    BY <1>3, Steps DEF Pipeline
  <2>3. \A q \in Request : Builds(q)'
    <3> SUFFICES ASSUME NEW q \in Request PROVE Builds(q)'
      OBVIOUS
    <3>1. now \in Nat /\ MaxFlight \in Nat /\ since[q] \in Nat
      BY BoundsAssumption DEF IInv, Types
    <3>2. CASE q = r
      <4>1. at'[q] # "lookup"
        BY <2>1, <3>2
      <4>2. at[q] = "resolve" /\ pc[q] # "idle" => now <= since[q] + MaxFlight
        BY DEF PInv, Builds
      <4>3. since'[q] = now => now <= since'[q] + MaxFlight
        BY <3>1
      <4> QED BY <2>1, <2>2, <4>1, <4>2, <4>3 DEF Builds
    <3>3. CASE q # r
      <4>1. now <= now + MaxFlight
        BY <3>1
      <4> QED BY <2>1, <2>2, <3>3, <4>1 DEF PInv, Builds
    <3> QED BY <3>2, <3>3
  <2> QED BY <2>1, <2>3 DEF PInv
<1>4. ASSUME NEW r \in Request, Install(r) PROVE PInv'
  <2>1. /\ at[r] = "resolve" /\ UNCHANGED <<now, pc, since, via>>
        /\ \/ at' = [at EXCEPT ![r] = "built"]
           \/ at' = [at EXCEPT ![r] = "error"]
        /\ managers' \in {managers, Installed(r)}
    BY <1>4 DEF Install, Reach, vars
  <2>2. /\ asked[r] \in Cluster /\ held[r] \in Kubeconfig
        /\ KubeconfigKey(held[r].cluster) = KubeconfigKey(asked[r])
    BY DEF IInv, Types, Filed
  <2>3. /\ DOMAIN managers' \subseteq Cluster
        /\ \A c \in DOMAIN managers' :
             /\ managers'[c] \in Kubeconfig
             /\ KubeconfigKey(managers'[c].cluster) = KubeconfigKey(c)
    BY <2>1, <2>2 DEF PInv, Installed
  <2> QED BY <2>1, <2>3 DEF PInv, Builds, Place
<1>5. ASSUME Meanwhile PROVE PInv'
  <2>1. UNCHANGED <<via, managers, at, pc, since>>
    BY <1>5 DEF Meanwhile, provider, Rotate, Restrict, Address, Tick
  <2>2. CASE now' = now
    BY <2>1, <2>2 DEF PInv, Builds
  <2>3. CASE now' = now + 1 /\ \A r \in Request : Unhurried(r)
    <3>1. \A r \in Request : at[r] = "resolve" => now + 1 <= since[r] + MaxFlight
      BY <2>3, BoundsAssumption DEF Unhurried, IInv, Types
    <3> QED BY <2>1, <2>3, <3>1 DEF PInv, Builds
  <2> QED BY <1>5, <2>2, <2>3 DEF Meanwhile, Rotate, Restrict, Address, Tick
<1> QED BY <1>1, <1>2, <1>3, <1>4, <1>5 DEF ProviderNext

(* To the pipeline, the provider is one of its callers: every behaviour of    *)
(* the provider is one of KubeconfigCache (provider.go: capiProvider).        *)
THEOREM ProviderIsCaller == ProviderSpec => Spec
<1>1. ProviderInit => Init
  BY DEF ProviderInit
<1>2. [ProviderNext]_providerVars => [Next]_vars
  BY DEF ProviderNext, providerVars, Lookup, Pipeline, Install, Meanwhile, Next, vars
<1> QED BY <1>1, <1>2, PTL DEF ProviderSpec, Spec

LEMMA ProviderInvs == ProviderSpec => [](IInv /\ AgeInv /\ PInv)
<1>1. ProviderSpec => [](IInv /\ AgeInv)
  BY ProviderIsCaller, SpecAgeInv
<1> QED BY <1>1, InitPInv, NextPInv, PTL DEF ProviderSpec

(* The provider's variables keep their types, and so do those of the         *)
(* pipeline it uses (provider.go: capiProvider).                              *)
THEOREM ProviderTypeCorrect == ProviderSpec => []ProviderTypeOK
<1>1. ProviderSpec => []TypeOK
  BY ProviderIsCaller, TypeCorrect
<1>2. TypeOK /\ PInv => ProviderTypeOK
  BY DEF PInv, ProviderTypeOK
<1> QED BY <1>1, <1>2, ProviderInvs, PTL

(* Under the same condition as before, every manager is of the cluster it is *)
(* kept for, whichever call has put it there (provider.go:                   *)
(* managerForTarget).                                                         *)
THEOREM NobodyElsesManager ==
  ASSUME \A c, d \in Cluster : KubeconfigKey(c) = KubeconfigKey(d) => c = d
  PROVE  ProviderSpec => []ManagersAreOwn
<1>1. PInv => ManagersAreOwn
  BY DEF PInv, ManagersAreOwn, Kubeconfig
<1> QED BY <1>1, ProviderInvs, PTL

(* A manager is built with a tunnel that lasts for a TTL, and of a secret no *)
(* older than the pipeline and the time of building allow (provider.go:      *)
(* ResolveTarget precedes NewManager).                                        *)
THEOREM ManagersAreBornFresh == ProviderSpec => BornFresh
<1> DEFINE Fresh(r) ==
      LET k == managers'[asked[r]]
          history == replaced[k.cluster]
      IN  /\ k.proxied => leased[k.cluster] + 2 * MaxFlight >= now + TTL
          /\ k.revision \in DOMAIN history =>
               now <= history[k.revision] + TTL + 3 * MaxFlight
<1>1. ASSUME IInv, AgeInv, PInv, [ProviderNext]_providerVars, NEW r \in Request,
             at'[r] = "built", at[r] # "built"
      PROVE  Fresh(r)
  <2>1. /\ at[r] = "resolve" /\ pc[r] = "returned"
        /\ managers' = Installed(r)
    BY <1>1 DEF PInv, ProviderNext, providerVars, provider, Lookup, Pipeline,
                Install, Meanwhile, Reach
  <2>2. managers'[asked[r]] = held[r]
    BY <2>1 DEF Installed
  <2>3. now <= since[r] + MaxFlight
    BY <1>1, <2>1 DEF PInv, Builds
  <2>4. held[r].proxied => leased[held[r].cluster] + MaxFlight >= since[r] + TTL
    BY <1>1, <2>1 DEF IInv, TunnelOutlastsKubeconfig, Returned
  <2>5. Dated(held[r], since[r], TTL + 2 * MaxFlight)
    BY <1>1, <2>1 DEF AgeInv, Aged
  <2>6. /\ held[r] \in Kubeconfig /\ replaced \in [Cluster -> Seq(Nat)]
        /\ now \in Nat /\ since[r] \in Nat /\ leased[held[r].cluster] \in Nat
    BY <1>1 DEF IInv, Types, Kubeconfig
  <2>7. TTL \in Nat /\ MaxFlight \in Nat
    BY TTLAssumption, BoundsAssumption
  <2>8. held[r].revision \in DOMAIN replaced[held[r].cluster] =>
          replaced[held[r].cluster][held[r].revision] \in Nat
    BY <2>6 DEF Kubeconfig
  <2>9. held[r].proxied =>
          leased[held[r].cluster] + 2 * MaxFlight >= now + TTL
    BY <2>3, <2>4, <2>6, <2>7, SMTT(30)
  <2>10. held[r].revision \in DOMAIN replaced[held[r].cluster] =>
           now <= replaced[held[r].cluster][held[r].revision] + TTL + 3 * MaxFlight
    <3> DEFINE old == replaced[held[r].cluster][held[r].revision]
    <3> SUFFICES ASSUME held[r].revision \in DOMAIN replaced[held[r].cluster]
                 PROVE  now <= old + TTL + 3 * MaxFlight
      OBVIOUS
    <3>1. since[r] <= old + (TTL + 2 * MaxFlight) /\ old \in Nat
      BY <2>5, <2>8 DEF Dated
    <3> HIDE DEF old
    <3> QED BY <2>3, <2>6, <2>7, <3>1
  <2> QED BY <2>2, <2>9, <2>10
<1>2. IInv /\ AgeInv /\ PInv /\ [ProviderNext]_providerVars =>
        [\A r \in Request : at'[r] = "built" /\ at[r] # "built" => Fresh(r)]_providerVars
  BY <1>1
<1> QED BY <1>2, ProviderInvs, PTL DEF ProviderSpec, BornFresh
=============================================================================
