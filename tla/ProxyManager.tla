----------------------------- MODULE ProxyManager -----------------------------
(* The sshuttle tunnel manager of internal/proxy/manager.go as it runs when   *)
(* the daemon is not under systemd: EnsureProxy, its singleflight group, the  *)
(* TTL timers, the exit watchers and the shutdown sweep, one action per step  *)
(* that another goroutine can observe.                                        *)
(*                                                                            *)
(* A Call is one invocation of EnsureProxy.  A call spawns at most one        *)
(* sshuttle, creates at most one processEntry and arms at most one TTL timer, *)
(* so the process, the entry and the timer are named by the call that made    *)
(* them: "entry e" is the entry call e inserted, "timer k" the timer call k   *)
(* armed.                                                                     *)
CONSTANTS
  Call,          \* invocations of EnsureProxy
  Target,        \* values of targetKey: "ip:port"
  None,          \* no call: an absent map entry, a nil pointer
  Main,          \* the main goroutine, where KillAllProcessProxies runs
  ZeroTTL,       \* the TTL may elapse before the arming goroutine's next step
  SlowRequests   \* requests may outlast the 10s limit of Server.Close

ASSUME NamesAssumption ==
  None \notin Call /\ Main \notin Call /\ None # Main
ASSUME SettingsAssumption == ZeroTTL \in BOOLEAN /\ SlowRequests \in BOOLEAN

VARIABLES
  pc,        \* where each call is
  key,       \* the target each call was made for
  leader,    \* singleflight: the call executing for a target
  existing,  \* the entry a refreshing call read from processEntries
  entries,   \* processEntries: the entry of a target
  timerOf,   \* processEntry.timer, as the call that armed it
  timer,     \* each TTL timer
  proc,      \* each sshuttle process
  watched,   \* the entries whose exit watcher still waits
  victim,    \* killProcessEntry's local e, between the unlock and the signal
  main,      \* the main goroutine
  doomed     \* the keys KillAllProcessProxies has still to visit

vars == <<pc, key, leader, existing, entries, timerOf, timer, proc, watched,
          victim, main, doomed>>

Startup == {"spawn", "select", "arm", "insert"}
Leading == Startup \cup {"lookup", "refresh", "assign", "ok", "fail"}
Stage == Leading \cup {"idle", "joined", "nil", "error"}
TimerState == {"none", "armed", "stopped", "fired", "spent"}
ProcState == {"none", "running", "termed", "exited"}
Killer == Call \cup {Main}

Init ==
  /\ pc = [c \in Call |-> "idle"]
  /\ key \in [Call -> Target]
  /\ leader = [t \in Target |-> None]
  /\ existing = [c \in Call |-> None]
  /\ entries = [t \in Target |-> None]
  /\ timerOf = [c \in Call |-> None]
  /\ timer = [c \in Call |-> "none"]
  /\ proc = [c \in Call |-> "none"]
  /\ watched = {}
  /\ victim = [k \in Killer |-> None]
  /\ main = "up"
  /\ doomed = {}

(* No goroutine outlives the daemon.                                          *)
Running == main # "exited"

Goto(c, s) == pc' = [pc EXCEPT ![c] = s]

(* Timer.Stop: it prevents only a timer that has not fired.                  *)
Stopped(k) ==
  IF timer[k] = "armed" THEN [timer EXCEPT ![k] = "stopped"] ELSE timer

-----------------------------------------------------------------------------
(* EnsureProxy and ensureProcessProxy.                                        *)

NeverInFlight(t) == FALSE
InFlight(t) == leader[t] # None

(* group.Do: the first caller for a key leads, the others wait for it.       *)
Begin(c) ==
  /\ Running
  /\ pc[c] = "idle"
  /\ main = "up" \/ SlowRequests
  /\ IF InFlight(key[c])
       THEN Goto(c, "joined") /\ UNCHANGED leader
       ELSE Goto(c, "lookup") /\ leader' = [leader EXCEPT ![key[c]] = c]
  /\ UNCHANGED <<key, existing, entries, timerOf, timer, proc, watched,
                 victim, main, doomed>>

SpawnIfExpired(c) ==
  LET e == entries[key[c]] IN
  IF e = None \/ timer[timerOf[e]] = "fired" THEN "spawn" ELSE "refresh"
AfterLookup(c) == IF entries[key[c]] = None THEN "spawn" ELSE "refresh"

(* processEntries[key], read under mu; the result is used after the unlock.  *)
Lookup(c) ==
  /\ Running
  /\ pc[c] = "lookup"
  /\ existing' = [existing EXCEPT ![c] = entries[key[c]]]
  /\ Goto(c, AfterLookup(c))
  /\ UNCHANGED <<key, leader, entries, timerOf, timer, proc, watched, victim,
                 main, doomed>>

(* existing.timer.Stop(), its result ignored, and clock.AfterFunc(ttl, ...). *)
Refresh(c) ==
  /\ Running
  /\ pc[c] = "refresh"
  /\ timer' = [Stopped(timerOf[existing[c]]) EXCEPT ![c] = "armed"]
  /\ Goto(c, "assign")
  /\ UNCHANGED <<key, leader, existing, entries, timerOf, proc, watched,
                 victim, main, doomed>>

KeepOldTimer(c) == timerOf
NewTimer(c) == [timerOf EXCEPT ![existing[c]] = c]

(* existing.timer = ..., without the lock: the entry may be gone by now.     *)
Assign(c) ==
  /\ Running
  /\ pc[c] = "assign"
  /\ timerOf' = NewTimer(c)
  /\ Goto(c, "ok")
  /\ UNCHANGED <<key, leader, existing, entries, timer, proc, watched, victim,
                 main, doomed>>

ZombieOnError(c) == [proc EXCEPT ![c] = "zombie"]
SpawnError(c) == proc

(* spawnProcess: sshuttle starts and is waited for, or cannot be started.    *)
Spawn(c) ==
  /\ Running
  /\ pc[c] = "spawn"
  /\ \/ proc' = [proc EXCEPT ![c] = "running"] /\ Goto(c, "select")
     \/ proc' = SpawnError(c) /\ Goto(c, "fail")
  /\ UNCHANGED <<key, leader, existing, entries, timerOf, timer, watched,
                 victim, main, doomed>>

(* <-exited: sshuttle ended within the startup window.                       *)
SelectExited(c) ==
  /\ Running
  /\ pc[c] = "select"
  /\ proc[c] = "exited"
  /\ Goto(c, "fail")
  /\ UNCHANGED <<key, leader, existing, entries, timerOf, timer, proc,
                 watched, victim, main, doomed>>

(* <-startupElapsed: it may be chosen although exited is ready as well.      *)
SelectElapsed(c) ==
  /\ Running
  /\ pc[c] = "select"
  /\ Goto(c, "arm")
  /\ UNCHANGED <<key, leader, existing, entries, timerOf, timer, proc,
                 watched, victim, main, doomed>>

(* e := &processEntry{...} and its TTL timer, before e is in the map.        *)
Arm(c) ==
  /\ Running
  /\ pc[c] = "arm"
  /\ timer' = [timer EXCEPT ![c] = "armed"]
  /\ timerOf' = [timerOf EXCEPT ![c] = c]
  /\ Goto(c, "insert")
  /\ UNCHANGED <<key, leader, existing, entries, proc, watched, victim, main,
                 doomed>>

NoWatcher(c) == watched
WithWatcher(c) == watched \cup {c}

(* processEntries[key] = e under mu, then the exit watcher is started.       *)
Insert(c) ==
  /\ Running
  /\ pc[c] = "insert"
  /\ entries' = [entries EXCEPT ![key[c]] = c]
  /\ watched' = WithWatcher(c)
  /\ Goto(c, "ok")
  /\ UNCHANGED <<key, leader, existing, timerOf, timer, proc, victim, main,
                 doomed>>

LeaderOnly(d, c) == d = c
Shares(d, c) == d = c \/ (pc[d] = "joined" /\ key[d] = key[c])

(* group.Do returns: every caller that shared the attempt gets its result.   *)
Finish(c) ==
  /\ Running
  /\ pc[c] \in {"ok", "fail"}
  /\ pc' = [d \in Call |->
              IF Shares(d, c)
                THEN IF pc[c] = "ok" THEN "nil" ELSE "error"
                ELSE pc[d]]
  /\ leader' = [leader EXCEPT ![key[c]] = None]
  /\ UNCHANGED <<key, existing, entries, timerOf, timer, proc, watched,
                 victim, main, doomed>>

-----------------------------------------------------------------------------
(* Timer callbacks and killProcessEntry.                                      *)

(* The TTL elapses.  From here on Stop comes too late.  Unless the TTL is    *)
(* zero, the goroutine that armed the timer takes its next step first.       *)
Fire(k) ==
  /\ Running
  /\ timer[k] = "armed"
  /\ ZeroTTL \/ pc[k] \notin {"insert", "assign"}
  /\ timer' = [timer EXCEPT ![k] = "fired"]
  /\ UNCHANGED <<pc, key, leader, existing, entries, timerOf, proc, watched,
                 victim, main, doomed>>

(* killProcessEntry up to the unlock: whatever entry the key has is removed. *)
KillRemove(k, t) ==
  /\ entries' = [entries EXCEPT ![t] = None]
  /\ victim' = [victim EXCEPT ![k] = entries[t]]

(* The callback of timer k gets the lock.                                    *)
Callback(k) ==
  /\ Running
  /\ timer[k] = "fired"
  /\ timer' = [timer EXCEPT ![k] = "spent"]
  /\ KillRemove(k, key[k])
  /\ UNCHANGED <<pc, key, leader, existing, timerOf, proc, watched, main,
                 doomed>>

Unsignalled(e) == proc[e]
Terminated(e) == IF proc[e] = "running" THEN "termed" ELSE proc[e]

(* The rest of killProcessEntry: e.timer.Stop() and SIGTERM, without the     *)
(* lock.  Signalling a process that has exited does nothing.                 *)
KillFinish(k) ==
  LET e == victim[k] IN
  /\ Running
  /\ e # None
  /\ timer' = Stopped(timerOf[e])
  /\ proc' = [proc EXCEPT ![e] = Terminated(e)]
  /\ victim' = [victim EXCEPT ![k] = None]
  /\ UNCHANGED <<pc, key, leader, existing, entries, timerOf, watched, main,
                 doomed>>

AnyEntry(c) == entries[key[c]] # None
StillCurrent(c) == entries[key[c]] = c

(* The watcher goroutine: <-exited, then the entry goes if it is still e.    *)
WatchExit(c) ==
  /\ Running
  /\ c \in watched
  /\ proc[c] = "exited"
  /\ watched' = watched \ {c}
  /\ IF StillCurrent(c)
       THEN /\ timer' = Stopped(timerOf[c])
            /\ entries' = [entries EXCEPT ![key[c]] = None]
       ELSE UNCHANGED <<timer, entries>>
  /\ UNCHANGED <<pc, key, leader, existing, timerOf, proc, victim, main,
                 doomed>>

-----------------------------------------------------------------------------
(* Shutdown, in main.run: Close, then the deferred KillAllProcessProxies.     *)

CallReturned(c) == pc[c] \in {"idle", "nil", "error"}

(* Server.Close returned: every request is done, or the 10s are over.  Then  *)
(* KillAllProcessProxies copies the keys under mu.                           *)
BeginKillAll ==
  /\ main = "up"
  /\ SlowRequests \/ \A c \in Call : CallReturned(c)
  /\ main' = "killing"
  /\ doomed' = {t \in Target : entries[t] # None}
  /\ UNCHANGED <<pc, key, leader, existing, entries, timerOf, timer, proc,
                 watched, victim>>

SweepKill(t) ==
  /\ main = "killing"
  /\ t \in doomed
  /\ victim[Main] = None
  /\ doomed' = doomed \ {t}
  /\ KillRemove(Main, t)
  /\ UNCHANGED <<pc, key, leader, existing, timerOf, timer, proc, watched,
                 main>>

SweptButUnsignalled == doomed = {}
Swept == doomed = {} /\ victim[Main] = None

(* run returns: the daemon is gone and so is every goroutine.                *)
Exit ==
  /\ main = "killing"
  /\ Swept
  /\ main' = "exited"
  /\ UNCHANGED <<pc, key, leader, existing, entries, timerOf, timer, proc,
                 watched, victim, doomed>>

-----------------------------------------------------------------------------
(* sshuttle ends, on its own or after SIGTERM; it survives the daemon.       *)
ProcExit(c) ==
  /\ proc[c] \in {"running", "termed"}
  /\ proc' = [proc EXCEPT ![c] = "exited"]
  /\ UNCHANGED <<pc, key, leader, existing, entries, timerOf, timer, watched,
                 victim, main, doomed>>

CallStep(c) ==
  \/ Lookup(c) \/ Refresh(c) \/ Assign(c)
  \/ Spawn(c) \/ SelectExited(c) \/ SelectElapsed(c)
  \/ Arm(c) \/ Insert(c) \/ Finish(c)

Next ==
  \/ \E c \in Call : Begin(c) \/ CallStep(c)
  \/ \E k \in Call : Fire(k) \/ Callback(k)
  \/ \E k \in Killer : KillFinish(k)
  \/ \E c \in Call : WatchExit(c)
  \/ BeginKillAll
  \/ \E t \in Target : SweepKill(t)
  \/ Exit
  \/ \E c \in Call : ProcExit(c)

Spec == Init /\ [][Next]_vars

(* Every goroutine that can run does, and SIGTERM ends an sshuttle.  Nothing *)
(* obliges a call to be made, an sshuttle to die on its own or a shutdown to *)
(* be asked for.                                                             *)
Prompt ==
  /\ \A c \in Call : WF_vars(CallStep(c)) /\ WF_vars(WatchExit(c))
  /\ \A k \in Call : WF_vars(Callback(k))
  /\ \A k \in Killer : WF_vars(KillFinish(k))
  /\ \A c \in Call : WF_vars(proc[c] = "termed" /\ ProcExit(c))
  /\ WF_vars(\E t \in Target : SweepKill(t))
  /\ WF_vars(Exit)

PromptSpec == Spec /\ Prompt

(* Time passes: every armed timer fires.                                     *)
TimePasses == \A k \in Call : WF_vars(Fire(k))

-----------------------------------------------------------------------------
(* Correctness.                                                               *)

(* Every variable keeps its type (manager.go: processEntry, Manager).        *)
TypeOK ==
  /\ pc \in [Call -> Stage]
  /\ key \in [Call -> Target]
  /\ leader \in [Target -> Call \cup {None}]
  /\ existing \in [Call -> Call \cup {None}]
  /\ entries \in [Target -> Call \cup {None}]
  /\ timerOf \in [Call -> Call \cup {None}]
  /\ timer \in [Call -> TimerState]
  /\ proc \in [Call -> ProcState]
  /\ watched \in SUBSET Call
  /\ victim \in [Killer -> Call \cup {None}]
  /\ main \in {"up", "killing", "exited"}
  /\ doomed \in SUBSET Target

Starting(c) == pc[c] \in {"select", "arm", "insert"}
Tracked(c) == entries[key[c]] = c
Condemned(c) == \E k \in Killer : victim[k] = c

(* A running sshuttle is always somebody's: the call still starting it, the  *)
(* map, or a killProcessEntry about to signal it.  A tunnel nobody holds     *)
(* could never be torn down (manager.go: "in-memory tracking is safe").      *)
NoStrayTunnel ==
  \A c \in Call :
    proc[c] = "running" => Starting(c) \/ Tracked(c) \/ Condemned(c)

(* A target never has two tunnels being started or in use: singleflight,     *)
(* lookup, spawn and insert together, although none of them holds mu for     *)
(* long enough to see to it (EnsureProxy: "share one attempt").              *)
OneTunnelPerTarget ==
  \A c, d \in Call :
    /\ key[c] = key[d]
    /\ Starting(c) \/ Tracked(c)
    /\ Starting(d) \/ Tracked(d)
    => c = d

Pending(k) == timer[k] \in {"armed", "fired"}

(* Every entry in the map has a timer that will still remove it, or is       *)
(* between Stop and the assignment of the timer that will: refreshes, kills  *)
(* and exits race for the timer without ever leaving an entry without one.   *)
ExpiryPending ==
  \A t \in Target : entries[t] # None =>
    \/ timerOf[entries[t]] # None /\ Pending(timerOf[entries[t]])
    \/ \E c \in Call : pc[c] = "assign" /\ existing[c] = entries[t]
                       /\ Pending(c)

(* When requests end before the sweep, the sweep leaves no sshuttle running  *)
(* but those a timer callback had already taken out of the map               *)
(* (KillAllProcessProxies: "tears down every directly-spawned tunnel").      *)
ShutdownTerminates ==
  main = "exited" /\ ~SlowRequests =>
    \A c \in Call : proc[c] = "running" => \E k \in Call : victim[k] = c

(* EnsureProxy returns, whatever sshuttle, the timers and the other callers  *)
(* do, unless the daemon exits first.                                        *)
EveryCallReturns ==
  \A c \in Call : pc[c] # "idle" ~> CallReturned(c) \/ main = "exited"

(* The entry of an sshuttle that has died does not stay: the next call       *)
(* spawns a new one instead of refreshing a dead tunnel, however long the    *)
(* TTL is (manager.go: the watcher goroutine of ensureProcessProxy).         *)
DeadTunnelForgotten ==
  \A c \in Call : (Tracked(c) /\ proc[c] = "exited")
                    ~> (~Tracked(c) \/ main = "exited")

(* With no further calls every tunnel comes down when its TTL is over        *)
(* (manager.go: the timers of ensureProcessProxy).                           *)
TunnelsExpire ==
  TimePasses =>
    \A c \in Call : proc[c] = "running" ~> (proc[c] # "running"
                                            \/ main = "exited")

-----------------------------------------------------------------------------
(* The manager implements the life cycle its callers rely on: a process that  *)
(* was started is in use until the manager lets go of it.                     *)

LifeOf(c) ==
  IF proc[c] = "none" THEN "unborn"
  ELSE IF Starting(c) THEN "starting"
  ELSE IF Tracked(c) THEN "serving" ELSE "released"

Life == INSTANCE TunnelLifecycle
          WITH Tunnel <- Call, target <- key, life <- [c \in Call |-> LifeOf(c)]

(* Each step of the code is a step of the life cycle or changes nothing in   *)
(* it, and if time passes no tunnel is started or in use for ever            *)
(* (manager.go: Manager, "ensures sshuttle tunnels exist and refreshes their *)
(* TTL on reuse").                                                           *)
ImplementsLifecycle == Life!LifeSafety /\ (TimePasses => Life!LifeProgress)

-----------------------------------------------------------------------------
(* What a test says and the code does not do.                                 *)

(* A refresh stops the entry's old timer for good: only the timer an entry   *)
(* has now removes it (manager_test.go:149-151).                             *)
RefreshOutlivesOldTimer ==
  [][\A k \in Call : Callback(k) /\ victim'[k] # None
                       => timerOf[victim'[k]] = k]_vars
=============================================================================
