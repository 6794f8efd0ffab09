-------------------------- MODULE ProxyManagerProofs --------------------------
(* Theorems about ProxyManager for every set of calls and targets.            *)
EXTENDS ProxyManager, TLAPS

(* The inductive invariant.  A target's leader is the one call in a leading   *)
(* stage; a call has no process and no timer before the steps that make them; *)
(* an entry belongs to a call that has returned from ensureProcessProxy; a    *)
(* call in startup finds its key absent; and a callback that is signalling    *)
(* has spent its timer, so it cannot be overwritten.                          *)
LeaderInv ==
  \A c \in Call, t \in Target :
    leader[t] = c <=> pc[c] \in Leading /\ key[c] = t

FreshInv ==
  \A c \in Call :
    /\ pc[c] \in {"idle", "joined", "lookup", "refresh", "assign", "spawn"}
         => proc[c] = "none"
    /\ pc[c] \in {"idle", "joined", "lookup", "refresh", "spawn", "select",
                  "arm"} => timer[c] = "none"

EntryInv ==
  \A t \in Target : entries[t] # None =>
    /\ key[entries[t]] = t
    /\ pc[entries[t]] \in {"ok", "nil"}
    /\ proc[entries[t]] # "none"

StartupInv ==
  \A c \in Call :
    /\ pc[c] \in Startup => entries[key[c]] = None
    /\ Starting(c) => proc[c] # "none"

RefreshInv ==
  \A c \in Call : pc[c] \in {"refresh", "assign"} =>
    existing[c] \in Call /\ key[existing[c]] = key[c]

VictimInv ==
  /\ \A k \in Call : victim[k] # None => timer[k] = "spent"
  /\ \A k \in Killer : victim[k] # None => proc[victim[k]] # "none"

IInv ==
  /\ TypeOK
  /\ LeaderInv
  /\ FreshInv
  /\ EntryInv
  /\ StartupInv
  /\ RefreshInv
  /\ VictimInv
  /\ NoStrayTunnel

(* Stop changes one timer, from armed to stopped, or nothing.                 *)
LEMMA StopChangesOneTimer ==
  ASSUME timer \in [Call -> TimerState], NEW k
  PROVE  /\ Stopped(k) \in [Call -> TimerState]
         /\ \A c \in Call : Stopped(k)[c] # timer[c] =>
              c = k /\ timer[c] = "armed" /\ Stopped(k)[c] = "stopped"
<1>1. CASE timer[k] = "armed"
  <2>1. Stopped(k) =
          [c \in Call |-> IF c = k THEN "stopped" ELSE timer[c]]
    BY <1>1 DEF Stopped
  <2>. QED
    BY <1>1, <2>1 DEF TimerState
<1>2. CASE timer[k] # "armed"
  BY <1>2 DEF Stopped
<1>. QED
  BY <1>1, <1>2

LEMMA InitIInv == Init => IInv
BY NamesAssumption
DEF Init, IInv, TypeOK, LeaderInv, FreshInv, EntryInv, StartupInv, RefreshInv,
    VictimInv, NoStrayTunnel, Stage, Leading, Startup, Starting, Killer,
    TimerState, ProcState

LEMMA NextIInv == IInv /\ [Next]_vars => IInv'
<1> SUFFICES ASSUME IInv, [Next]_vars PROVE IInv'
  OBVIOUS
<1> USE NamesAssumption
    DEF IInv, TypeOK, LeaderInv, FreshInv, EntryInv, StartupInv, RefreshInv,
        VictimInv, NoStrayTunnel, Starting, Tracked, Condemned, Goto,
        Stage, Leading, Startup, Killer, TimerState, ProcState
<1>1. ASSUME NEW c \in Call, Begin(c) PROVE IInv'
  BY <1>1 DEF Begin, InFlight
<1>2. ASSUME NEW c \in Call, Lookup(c) PROVE IInv'
  BY <1>2 DEF Lookup, AfterLookup
<1>3. ASSUME NEW c \in Call, Refresh(c) PROVE IInv'
  BY <1>3, SMTT(30) DEF Refresh, Stopped
<1>4. ASSUME NEW c \in Call, Assign(c) PROVE IInv'
  BY <1>4 DEF Assign, NewTimer
<1>5. ASSUME NEW c \in Call, Spawn(c) PROVE IInv'
  BY <1>5 DEF Spawn, SpawnError
<1>6. ASSUME NEW c \in Call, SelectExited(c) PROVE IInv'
  BY <1>6 DEF SelectExited
<1>7. ASSUME NEW c \in Call, SelectElapsed(c) PROVE IInv'
  BY <1>7 DEF SelectElapsed
<1>8. ASSUME NEW c \in Call, Arm(c) PROVE IInv'
  BY <1>8 DEF Arm
<1>9. ASSUME NEW c \in Call, Insert(c) PROVE IInv'
  BY <1>9 DEF Insert, WithWatcher
<1>10. ASSUME NEW c \in Call, Finish(c) PROVE IInv'
  BY <1>10 DEF Finish, Shares
<1>11. ASSUME NEW k \in Call, Fire(k) PROVE IInv'
  BY <1>11 DEF Fire
<1>12. ASSUME NEW k \in Call, Callback(k) PROVE IInv'
  BY <1>12 DEF Callback, KillRemove
<1>13. ASSUME NEW k \in Killer, KillFinish(k) PROVE IInv'
  <2>1. /\ victim[k] \in Call
        /\ victim' = [victim EXCEPT ![k] = None]
        /\ proc' = [proc EXCEPT ![victim[k]] =
                      IF proc[victim[k]] = "running" THEN "termed" ELSE @]
        /\ UNCHANGED <<pc, key, leader, existing, entries, timerOf, watched,
                       main, doomed>>
    BY <1>13 DEF KillFinish, Terminated
  <2>2. /\ timer' \in [Call -> TimerState]
        /\ \A c \in Call : timer'[c] # timer[c] => timer[c] = "armed"
    <3>1. timer' = Stopped(timerOf[victim[k]])
      BY <1>13 DEF KillFinish, Terminated
    <3>. QED
      BY <3>1, StopChangesOneTimer
  <2>3. TypeOK'
    <3>1. proc' \in [Call -> ProcState] /\ victim' \in [Killer -> Call \cup {None}]
      BY <2>1 DEF TypeOK
    <3> HIDE DEF IInv, LeaderInv, FreshInv, EntryInv, StartupInv, RefreshInv,
             VictimInv, NoStrayTunnel
    <3>2. TypeOK
      BY DEF IInv
    <3>. QED
      BY <2>1, <2>2, <3>1, <3>2
  <2>4. LeaderInv' /\ FreshInv' /\ StartupInv' /\ RefreshInv'
    BY <2>1, <2>2
  <2>5. EntryInv' /\ VictimInv'
    BY <2>1, <2>2
  <2>6. NoStrayTunnel'
    BY <2>1
  <2>. QED
    BY <2>3, <2>4, <2>5, <2>6
<1>14. ASSUME NEW c \in Call, WatchExit(c) PROVE IInv'
  BY <1>14 DEF WatchExit, StillCurrent, Stopped
<1>15. ASSUME BeginKillAll PROVE IInv'
  BY <1>15 DEF BeginKillAll
<1>16. ASSUME NEW t \in Target, SweepKill(t) PROVE IInv'
  BY <1>16 DEF SweepKill, KillRemove
<1>17. ASSUME Exit PROVE IInv'
  BY <1>17 DEF Exit, Swept
<1>18. ASSUME NEW c \in Call, ProcExit(c) PROVE IInv'
  BY <1>18 DEF ProcExit
<1>19. ASSUME UNCHANGED vars PROVE IInv'
  BY <1>19 DEF vars
<1>. QED
  BY <1>1, <1>2, <1>3, <1>4, <1>5, <1>6, <1>7, <1>8, <1>9, <1>10, <1>11,
     <1>12, <1>13, <1>14, <1>15, <1>16, <1>17, <1>18, <1>19
  DEF Next, CallStep

LEMMA SpecIInv == Spec => []IInv
BY InitIInv, NextIInv, PTL DEF Spec

(* Every reachable state of the manager is well typed (manager.go: Manager,   *)
(* processEntry).                                                             *)
THEOREM TypeCorrect == Spec => []TypeOK
<1>1. IInv => TypeOK
  BY DEF IInv
<1>. QED
  BY <1>1, SpecIInv, PTL

(* However refreshes, timers, exits and the shutdown sweep interleave, a      *)
(* running sshuttle is held by its call, by processEntries or by a            *)
(* killProcessEntry about to signal it.                                       *)
THEOREM NoTunnelIsStray == Spec => []NoStrayTunnel
<1>1. IInv => NoStrayTunnel
  BY DEF IInv
<1>. QED
  BY <1>1, SpecIInv, PTL

LEMMA InUseIsUnique == IInv => OneTunnelPerTarget
BY NamesAssumption
DEF IInv, TypeOK, LeaderInv, StartupInv, OneTunnelPerTarget, Starting, Tracked,
    Leading, Startup

(* A target never has two tunnels being started or in use (EnsureProxy).      *)
THEOREM TunnelIsUnique == Spec => []OneTunnelPerTarget
BY InUseIsUnique, SpecIInv, PTL

-----------------------------------------------------------------------------
(* Every entry has a timer that will remove it, provided that a TTL does not  *)
(* elapse before the goroutine that armed the timer takes its next step.      *)

(* Timers and entries.  The timer an entry has was armed by the call that     *)
(* inserted it or by one that refreshed it, so two entries never share one;   *)
(* a timer still in its call's hands has not fired; and what a kill removed   *)
(* stays removed.                                                             *)
OwnerInv ==
  \A e \in Call : timerOf[e] # None =>
    /\ timerOf[e] = e \/ existing[timerOf[e]] = e
    /\ pc[timerOf[e]] \in {"insert", "ok", "nil"}
    /\ pc[e] \in {"insert", "ok", "nil"}
    /\ existing[e] = None

RefreshedInv ==
  /\ \A c \in Call : existing[c] # None =>
       /\ pc[c] \in {"refresh", "assign", "ok", "nil"}
       /\ pc[existing[c]] \in {"ok", "nil"}
       /\ existing[existing[c]] = None
  /\ \A t \in Target : entries[t] # None => existing[entries[t]] = None

InHandInv ==
  \A c \in Call :
    /\ pc[c] = "assign" => timer[c] = "armed"
    /\ pc[c] = "insert" => timer[c] = "armed" /\ timerOf[c] = c

RemovedInv ==
  \A k \in Killer : victim[k] # None =>
    /\ pc[victim[k]] \in {"ok", "nil"}
    /\ entries[key[victim[k]]] # victim[k]

(* The timer of a tracked entry, or its successor, was armed for its target. *)
SameKeyInv ==
  \A e \in Call : timerOf[e] # None => key[timerOf[e]] = key[e]

JInv ==
  /\ OwnerInv
  /\ RefreshedInv
  /\ InHandInv
  /\ RemovedInv
  /\ SameKeyInv
  /\ ExpiryPending

LEMMA InitJInv == Init => JInv
BY NamesAssumption
DEF Init, JInv, OwnerInv, RefreshedInv, InHandInv, RemovedInv, SameKeyInv,
    ExpiryPending, Killer

LEMMA NextJInv == ~ZeroTTL /\ IInv /\ IInv' /\ JInv /\ [Next]_vars => JInv'
<1> SUFFICES ASSUME ~ZeroTTL, IInv, IInv', JInv, [Next]_vars PROVE JInv'
  OBVIOUS
<1> USE NamesAssumption
    DEF IInv, TypeOK, LeaderInv, FreshInv, EntryInv, StartupInv, RefreshInv,
        VictimInv, Starting, Tracked, Goto, Stage, Leading, Startup, Killer,
        TimerState, ProcState, JInv, OwnerInv, RefreshedInv, InHandInv,
        RemovedInv, SameKeyInv, ExpiryPending, Pending
<1>1. ASSUME NEW c \in Call, Begin(c) PROVE JInv'
  BY <1>1, SMTT(30) DEF Begin, InFlight
<1>2. ASSUME NEW c \in Call, Lookup(c) PROVE JInv'
  BY <1>2 DEF Lookup, AfterLookup
<1>3. ASSUME NEW c \in Call, Refresh(c) PROVE JInv'
  BY <1>3 DEF Refresh, Stopped
<1>4. ASSUME NEW c \in Call, Assign(c) PROVE JInv'
  BY <1>4 DEF Assign, NewTimer
<1>5. ASSUME NEW c \in Call, Spawn(c) PROVE JInv'
  BY <1>5 DEF Spawn, SpawnError
<1>6. ASSUME NEW c \in Call, SelectExited(c) PROVE JInv'
  BY <1>6 DEF SelectExited
<1>7. ASSUME NEW c \in Call, SelectElapsed(c) PROVE JInv'
  BY <1>7 DEF SelectElapsed
<1>8. ASSUME NEW c \in Call, Arm(c) PROVE JInv'
  BY <1>8 DEF Arm
<1>9. ASSUME NEW c \in Call, Insert(c) PROVE JInv'
  BY <1>9 DEF Insert, WithWatcher
<1>10. ASSUME NEW c \in Call, Finish(c) PROVE JInv'
  BY <1>10 DEF Finish, Shares
<1>11. ASSUME NEW k \in Call, Fire(k) PROVE JInv'
  BY <1>11 DEF Fire
<1>12. ASSUME NEW k \in Call, Callback(k) PROVE JInv'
  BY <1>12 DEF Callback, KillRemove
<1>13. ASSUME NEW k \in Killer, KillFinish(k) PROVE JInv'
  BY <1>13 DEF KillFinish, Stopped, Terminated
<1>14. ASSUME NEW c \in Call, WatchExit(c) PROVE JInv'
  BY <1>14 DEF WatchExit, StillCurrent, Stopped
<1>15. ASSUME BeginKillAll PROVE JInv'
  BY <1>15 DEF BeginKillAll
<1>16. ASSUME NEW t \in Target, SweepKill(t) PROVE JInv'
  BY <1>16 DEF SweepKill, KillRemove
<1>17. ASSUME Exit PROVE JInv'
  BY <1>17 DEF Exit, Swept
<1>18. ASSUME NEW c \in Call, ProcExit(c) PROVE JInv'
  BY <1>18 DEF ProcExit
<1>19. ASSUME UNCHANGED vars PROVE JInv'
  BY <1>19 DEF vars
<1> HIDE DEF IInv, JInv
<1>. QED
  BY <1>1, <1>2, <1>3, <1>4, <1>5, <1>6, <1>7, <1>8, <1>9, <1>10, <1>11,
     <1>12, <1>13, <1>14, <1>15, <1>16, <1>17, <1>18, <1>19
  DEF Next, CallStep

(* With a nonzero TTL no entry is ever left without a timer that will remove  *)
(* it: a tunnel lives until its last TTL and no longer (manager.go: Manager). *)
THEOREM EntriesExpire ==
  ASSUME ~ZeroTTL PROVE Spec => []ExpiryPending
<1>1. Init => IInv /\ JInv
  BY InitIInv, InitJInv
<1>2. IInv /\ JInv /\ [Next]_vars => (IInv /\ JInv)'
  BY NextIInv, NextJInv
<1>3. JInv => ExpiryPending
  BY DEF JInv
<1>. QED
  BY <1>1, <1>2, <1>3, PTL DEF Spec

-----------------------------------------------------------------------------
(* The shutdown sweep, provided that requests end before it begins.           *)

(* From then on no call is under way, the map only loses entries, and those   *)
(* still in it are among the keys left to sweep; when the daemon exits, there *)
(* are none left and the last victim has been signalled.                      *)
SweepInv ==
  /\ main # "up" =>
       /\ \A c \in Call : CallReturned(c)
       /\ \A t \in Target : entries[t] # None => t \in doomed
  /\ main = "exited" => doomed = {} /\ victim[Main] = None

LEMMA NextSweepInv ==
  ~SlowRequests /\ TypeOK /\ SweepInv /\ [Next]_vars => SweepInv'
<1> SUFFICES ASSUME ~SlowRequests, TypeOK, SweepInv, [Next]_vars PROVE SweepInv'
  OBVIOUS
<1> USE NamesAssumption DEF TypeOK, SweepInv, CallReturned, Killer, Running
<1>1. ASSUME NEW c \in Call, Begin(c) \/ CallStep(c) PROVE SweepInv'
  <2>1. main = "up" /\ main' = "up"
    BY <1>1 DEF Begin, CallStep, Lookup, Refresh, Assign, Spawn, SelectExited,
                SelectElapsed, Arm, Insert, Finish
  <2>. QED
    BY <2>1
<1>2. ASSUME NEW k \in Call, Fire(k) PROVE SweepInv'
  BY <1>2 DEF Fire
<1>3. ASSUME NEW k \in Call, Callback(k) PROVE SweepInv'
  BY <1>3 DEF Callback, KillRemove
<1>4. ASSUME NEW k \in Killer, KillFinish(k) PROVE SweepInv'
  BY <1>4 DEF KillFinish
<1>5. ASSUME NEW c \in Call, WatchExit(c) PROVE SweepInv'
  BY <1>5 DEF WatchExit, StillCurrent
<1>6. ASSUME BeginKillAll PROVE SweepInv'
  BY <1>6 DEF BeginKillAll
<1>7. ASSUME NEW t \in Target, SweepKill(t) PROVE SweepInv'
  BY <1>7 DEF SweepKill, KillRemove
<1>8. ASSUME Exit PROVE SweepInv'
  BY <1>8 DEF Exit, Swept
<1>9. ASSUME NEW c \in Call, ProcExit(c) PROVE SweepInv'
  BY <1>9 DEF ProcExit
<1>10. ASSUME UNCHANGED vars PROVE SweepInv'
  BY <1>10 DEF vars
<1>. QED
  BY <1>1, <1>2, <1>3, <1>4, <1>5, <1>6, <1>7, <1>8, <1>9, <1>10 DEF Next

LEMMA SweptMeansSignalled == IInv /\ SweepInv => ShutdownTerminates
<1> SUFFICES ASSUME IInv, SweepInv, main = "exited",
                    NEW c \in Call, proc[c] = "running"
             PROVE  \E k \in Call : victim[k] = c
  BY DEF ShutdownTerminates
<1>1. ~Starting(c)
  BY DEF SweepInv, CallReturned, Starting
<1>2. ~Tracked(c)
  BY NamesAssumption DEF SweepInv, Tracked, IInv, TypeOK
<1>3. Condemned(c)
  BY <1>1, <1>2 DEF IInv, NoStrayTunnel
<1>. QED
  BY <1>3, NamesAssumption DEF Condemned, Killer, SweepInv

(* If requests end before the sweep, the daemon exits with every sshuttle     *)
(* signalled but those a timer callback has taken out of the map, whatever    *)
(* callbacks and exit watchers remove while the sweep goes through its copy   *)
(* of the keys (KillAllProcessProxies).                                       *)
THEOREM SweepLeavesNone ==
  ASSUME ~SlowRequests PROVE Spec => []ShutdownTerminates
<1>1. Init => SweepInv
  BY DEF Init, SweepInv
<1>2. IInv => TypeOK
  BY DEF IInv
<1>3. IInv /\ SweepInv /\ [Next]_vars => SweepInv'
  BY <1>2, NextSweepInv
<1>. QED
  BY <1>1, <1>3, SpecIInv, SweptMeansSignalled, PTL DEF Spec

-----------------------------------------------------------------------------
(* The manager implements the safety part of TunnelLifecycle: initial states  *)
(* map to initial states, and every step of the code is a step of the life    *)
(* cycle of one tunnel or leaves all lives as they are.                       *)

Lives == [c \in Call |-> LifeOf(c)]

LEMMA LifeMoves ==
  ASSUME NEW c \in Call, NEW s, LifeOf(c)' = s,
         \A d \in Call \ {c} : LifeOf(d)' = LifeOf(d)
  PROVE  Lives' = [Lives EXCEPT ![c] = s]
BY DEF Lives

LEMMA LifeStays ==
  ASSUME \A d \in Call : LifeOf(d)' = LifeOf(d) PROVE Lives' = Lives
BY DEF Lives

LEMMA InitLife == Init => Life!LifeInit
BY DEF Init, Life!LifeInit, LifeOf

LEMMA ReleaseLife ==
  ASSUME IInv, NEW c \in Call, LifeOf(c) \in {"starting", "serving"},
         LifeOf(c)' = "released", UNCHANGED key,
         \A d \in Call \ {c} : LifeOf(d)' = LifeOf(d)
  PROVE  Life!LifeNext
BY LifeMoves DEF Lives, Life!LifeNext, Life!Release, Life!InUse, Life!Become

LEMMA NextLife == IInv /\ [Next]_vars => [Life!LifeNext]_(Life!tunnelVars)
<1> SUFFICES ASSUME IInv, [Next]_vars PROVE [Life!LifeNext]_(Life!tunnelVars)
  OBVIOUS
<1> USE NamesAssumption
    DEF IInv, TypeOK, LeaderInv, FreshInv, EntryInv, StartupInv,
        Starting, Tracked, Goto, Stage, Leading, Startup, Killer, TimerState,
        ProcState, LifeOf
<1> DEFINE Same == UNCHANGED key /\ \A d \in Call : LifeOf(d)' = LifeOf(d)
<1>0. Same => [Life!LifeNext]_(Life!tunnelVars)
  BY LifeStays DEF Life!tunnelVars, Lives
<1>1. ASSUME NEW c \in Call, Begin(c) PROVE Same
  BY <1>1 DEF Begin
<1>2. ASSUME NEW c \in Call, Lookup(c) PROVE Same
  BY <1>2 DEF Lookup, AfterLookup
<1>3. ASSUME NEW c \in Call, Refresh(c) PROVE Same
  BY <1>3 DEF Refresh
<1>4. ASSUME NEW c \in Call, Assign(c) PROVE Same
  BY <1>4 DEF Assign, NewTimer
<1>5. ASSUME NEW c \in Call, Spawn(c) PROVE Life!LifeNext \/ Same
  <2>1. CASE Goto(c, "fail") /\ UNCHANGED proc
    BY <1>5, <2>1 DEF Spawn, SpawnError
  <2>2. CASE proc' = [proc EXCEPT ![c] = "running"] /\ Goto(c, "select")
    <3>1. LifeOf(c) = "unborn" /\ LifeOf(c)' = "starting"
      BY <1>5, <2>2 DEF Spawn, SpawnError
    <3>2. \A d \in Call \ {c} : LifeOf(d)' = LifeOf(d)
      BY <1>5, <2>2 DEF Spawn, SpawnError
    <3>3. \A d \in Call : key[d] = key[c] =>
            ~(LifeOf(d) \in {"starting", "serving"})
      BY <1>5, <2>2 DEF Spawn, SpawnError
    <3>4. UNCHANGED key
      BY <1>5 DEF Spawn, SpawnError
    <3>5. Life!Start(c)
      BY <3>1, <3>2, <3>3, <3>4, LifeMoves
      DEF Lives, Life!Start, Life!InUse, Life!Become
    <3>. QED
      BY <3>5 DEF Life!LifeNext
  <2>. QED
    BY <1>5, <2>1, <2>2 DEF Spawn, SpawnError
<1>6. ASSUME NEW c \in Call, SelectExited(c) PROVE Life!LifeNext
  <2>1. LifeOf(c) = "starting" /\ LifeOf(c)' = "released"
    BY <1>6 DEF SelectExited
  <2>2. \A d \in Call \ {c} : LifeOf(d)' = LifeOf(d)
    BY <1>6 DEF SelectExited
  <2>. QED
    BY <1>6, <2>1, <2>2, ReleaseLife DEF SelectExited
<1>7. ASSUME NEW c \in Call, SelectElapsed(c) PROVE Same
  BY <1>7 DEF SelectElapsed
<1>8. ASSUME NEW c \in Call, Arm(c) PROVE Same
  BY <1>8 DEF Arm
<1>9. ASSUME NEW c \in Call, Insert(c) PROVE Life!LifeNext
  <2>1. LifeOf(c) = "starting" /\ LifeOf(c)' = "serving"
    BY <1>9 DEF Insert, WithWatcher
  <2>2. \A d \in Call \ {c} : LifeOf(d)' = LifeOf(d)
    BY <1>9 DEF Insert, WithWatcher
  <2>3. Life!Serve(c)
    BY <1>9, <2>1, <2>2, LifeMoves DEF Insert, Lives, Life!Serve, Life!Become
  <2>. QED
    BY <2>3 DEF Life!LifeNext
<1>10. ASSUME NEW c \in Call, Finish(c) PROVE Same
  BY <1>10 DEF Finish, Shares
<1>11. ASSUME NEW k \in Call, Fire(k) PROVE Same
  BY <1>11 DEF Fire
<1>12. ASSUME NEW k \in Killer, NEW t \in Target, KillRemove(k, t),
              UNCHANGED <<pc, key, proc>>
       PROVE  Life!LifeNext \/ Same
  <2>1. CASE entries[t] = None
    BY <1>12, <2>1 DEF KillRemove
  <2>2. CASE entries[t] # None
    <3>1. PICK e \in Call : entries[t] = e
      BY <2>2
    <3>2. LifeOf(e) = "serving" /\ LifeOf(e)' = "released"
      BY <1>12, <2>2, <3>1 DEF KillRemove
    <3>3. \A d \in Call \ {e} : LifeOf(d)' = LifeOf(d)
      BY <1>12, <2>2, <3>1 DEF KillRemove
    <3>. QED
      BY <1>12, <3>2, <3>3, ReleaseLife
  <2>. QED
    BY <2>1, <2>2
<1>13. ASSUME NEW k \in Call, Callback(k) PROVE Life!LifeNext \/ Same
  BY <1>12, <1>13 DEF Callback
<1>14. ASSUME NEW k \in Killer, KillFinish(k) PROVE Same
  BY <1>14 DEF KillFinish, Terminated, VictimInv
<1>15. ASSUME NEW c \in Call, WatchExit(c) PROVE Life!LifeNext \/ Same
  <2>1. CASE entries[key[c]] # c
    BY <1>15, <2>1 DEF WatchExit, StillCurrent
  <2>2. CASE entries[key[c]] = c
    <3>1. LifeOf(c) = "serving" /\ LifeOf(c)' = "released"
      BY <1>15, <2>2 DEF WatchExit, StillCurrent
    <3>2. \A d \in Call \ {c} : LifeOf(d)' = LifeOf(d)
      BY <1>15, <2>2 DEF WatchExit, StillCurrent
    <3>. QED
      BY <1>15, <3>1, <3>2, ReleaseLife DEF WatchExit, StillCurrent
  <2>. QED
    BY <2>1, <2>2
<1>16. ASSUME BeginKillAll PROVE Same
  BY <1>16 DEF BeginKillAll
<1>17. ASSUME NEW t \in Target, SweepKill(t) PROVE Life!LifeNext \/ Same
  BY <1>12, <1>17 DEF SweepKill
<1>18. ASSUME Exit PROVE Same
  BY <1>18 DEF Exit, Swept
<1>19. ASSUME NEW c \in Call, ProcExit(c) PROVE Same
  BY <1>19 DEF ProcExit
<1>20. ASSUME UNCHANGED vars PROVE Same
  BY <1>20 DEF vars
<1>. QED
  BY <1>0, <1>1, <1>2, <1>3, <1>4, <1>5, <1>6, <1>7, <1>8, <1>9, <1>10, <1>11,
     <1>13, <1>14, <1>15, <1>16, <1>17, <1>18, <1>19, <1>20
  DEF Next, CallStep

(* A tunnel goes once through its life and two tunnels of a target are never  *)
(* in use together, whatever the interleaving (manager.go: Manager).          *)
THEOREM ImplementsLifeSafety == Spec => Life!LifeSafety
BY InitLife, NextLife, SpecIInv, PTL DEF Spec, Life!LifeSafety
=============================================================================
