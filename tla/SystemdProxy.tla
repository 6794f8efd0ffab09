----------------------------- MODULE SystemdProxy -----------------------------
(* The tunnel manager of internal/proxy/manager.go as it runs under systemd:  *)
(* EnsureProxy, its singleflight group, isUnitActive and ensureSystemdProxy.  *)
(* The daemon keeps nothing of a tunnel; the transient unit is its state, and *)
(* changes by itself between two commands.  The daemon may be restarted at    *)
(* any time, and a request may be given up by its client.                     *)
(*                                                                            *)
(* What systemd does is modelled from the properties the unit is started      *)
(* with: Restart=on-failure, StartLimitBurst, RuntimeMaxSec and --collect.    *)
CONSTANTS
  Call,     \* invocations of EnsureProxy
  Target,   \* values of targetKey, and so of unitName
  None      \* no call

ASSUME NoneAssumption == None \notin Call

VARIABLES
  pc,         \* where each call is
  key,        \* the target each call was made for
  cancelled,  \* the calls whose context is done
  leader,     \* singleflight: the call executing for a target
  unit,       \* ActiveState of each target's unit; "absent" if not loaded
  tunnel,     \* the unit each call has started, if any
  up,         \* history: targets whose unit was active during the attempt
  upset       \* history: targets whose attempt was interfered with

systemd == <<unit, tunnel>>
history == <<up, upset>>
vars == <<pc, key, cancelled, leader, systemd, history>>

Leading == {"probe", "extend", "run", "ok", "fail"}
Returned == {"nil", "error", "gone"}
Stage == Leading \cup Returned \cup {"idle", "joined", "orphan"}

Init ==
  /\ pc = [c \in Call |-> "idle"]
  /\ key \in [Call -> Target]
  /\ cancelled = {}
  /\ leader = [t \in Target |-> None]
  /\ unit = [t \in Target |-> "absent"]
  /\ tunnel = [c \in Call |-> "none"]
  /\ up = {}
  /\ upset = {}

Goto(c, s) == pc' = [pc EXCEPT ![c] = s]

-----------------------------------------------------------------------------
(* EnsureProxy.                                                               *)

InFlight(t) == leader[t] # None

(* group.Do.  A new attempt begins with a history of its own: "activating"   *)
(* is a state no command can do anything with.                               *)
Begin(c) ==
  LET t == key[c] IN
  /\ pc[c] = "idle"
  /\ IF InFlight(t)
     THEN Goto(c, "joined") /\ UNCHANGED <<leader, history>>
     ELSE /\ Goto(c, "probe")
          /\ leader' = [leader EXCEPT ![t] = c]
          /\ up' = IF unit[t] = "active" THEN up \cup {t} ELSE up \ {t}
          /\ upset' = IF unit[t] = "activating" \/ c \in cancelled
                        THEN upset \cup {t} ELSE upset \ {t}
  /\ UNCHANGED <<key, cancelled, systemd>>

LeaderOnly(d, c) == d = c
Shares(d, c) == d = c \/ (pc[d] = "joined" /\ key[d] = key[c])

(* group.Do returns: every caller that shared the attempt gets its result.   *)
Finish(c) ==
  /\ pc[c] \in {"ok", "fail"}
  /\ pc' = [d \in Call |->
              IF Shares(d, c)
                THEN IF pc[c] = "ok" THEN "nil" ELSE "error"
                ELSE pc[d]]
  /\ leader' = [leader EXCEPT ![key[c]] = None]
  /\ UNCHANGED <<key, cancelled, systemd, history>>

-----------------------------------------------------------------------------
(* ensureSystemdProxy.  A command fails for reasons of its own (systemctl     *)
(* cannot be started, the user manager does not answer), and always under a   *)
(* context that is done.                                                      *)

Faulted(c, s) ==
  /\ upset' = upset \cup {key[c]}
  /\ Goto(c, s)

Untrimmed(t) == FALSE
Loaded(t) == unit[t] # "absent"
SeenActive(t) == unit[t] = "active"

(* isUnitActive: any error means "not active".                               *)
Probe(c) ==
  /\ pc[c] = "probe"
  /\ \/ /\ c \notin cancelled
        /\ Goto(c, IF SeenActive(key[c]) THEN "extend" ELSE "run")
        /\ UNCHANGED upset
     \/ Faulted(c, "run")
  /\ UNCHANGED <<key, cancelled, leader, systemd, up>>

NotFound == "notfound"
ExtendError == "fail"

(* systemctl set-property, decided on what is-active said: there may be no   *)
(* such unit by now.                                                         *)
Extend(c) ==
  /\ pc[c] = "extend"
  /\ \/ /\ c \notin cancelled
        /\ Goto(c, IF unit[key[c]] = "absent" THEN ExtendError ELSE "ok")
        /\ UNCHANGED upset
     \/ Faulted(c, "fail")
  /\ UNCHANGED <<key, cancelled, leader, systemd, up>>

AnyName(t) == TRUE
NameIsFree(t) == unit[t] = "absent"

(* systemd starts the unit for call c; it refuses if the name is taken.      *)
Start(c) ==
  LET t == key[c] IN
  /\ NameIsFree(t)
  /\ unit' = [unit EXCEPT ![t] = "active"]
  /\ tunnel' = [tunnel EXCEPT ![c] = "up"]
  /\ up' = up \cup {t}

(* systemd-run.  A client killed half way may have got its request through.  *)
Run(c) ==
  /\ pc[c] = "run"
  /\ \/ /\ c \notin cancelled
        /\ Start(c)
        /\ Goto(c, "ok")
        /\ UNCHANGED upset
     \/ /\ c \notin cancelled
        /\ ~NameIsFree(key[c])
        /\ Goto(c, "fail")
        /\ UNCHANGED <<systemd, history>>
     \/ /\ Faulted(c, "fail")
        /\ \/ UNCHANGED <<systemd, up>>
           \/ c \notin cancelled /\ Start(c)
  /\ UNCHANGED <<key, cancelled, leader>>

-----------------------------------------------------------------------------
(* The rest of the world.                                                     *)

(* The client of a call goes away.  Nobody but the leader heeds its context. *)
Cancel(c) ==
  /\ c \notin cancelled
  /\ cancelled' = cancelled \cup {c}
  /\ upset' = IF leader[key[c]] = c THEN upset \cup {key[c]} ELSE upset
  /\ UNCHANGED <<pc, key, leader, systemd, up>>

(* The unit changes by itself, for better or for worse.                      *)
Becomes(t, s) ==
  /\ unit' = [unit EXCEPT ![t] = s]
  /\ tunnel' = [c \in Call |->
       IF s = "absent" /\ key[c] = t /\ tunnel[c] = "up" THEN "down" ELSE tunnel[c]]
  /\ up' = IF s = "active" THEN up \cup {t} ELSE up
  /\ upset' = upset \cup {t}
  /\ UNCHANGED <<pc, key, cancelled, leader>>

(* sshuttle fails, exits, or reaches RuntimeMaxSec, which is a failure too:  *)
(* the unit waits for its restart, or is collected.                          *)
Die(t) ==
  /\ unit[t] = "active"
  /\ \E s \in {"activating", "absent"} : Becomes(t, s)

(* RestartSec is over; past StartLimitBurst the unit is collected.           *)
Restart(t) ==
  /\ unit[t] = "activating"
  /\ \E s \in {"active", "absent"} : Becomes(t, s)

(* The daemon is restarted: its calls and its singleflight group are gone,   *)
(* and the units are left alone.  A systemd-run of its may still be on its   *)
(* way.                                                                      *)
RestartDaemon ==
  /\ \E c \in Call : pc[c] \in Leading
  /\ pc' = [c \in Call |->
              CASE pc[c] = "run" -> "orphan"
                [] pc[c] \in Leading \cup {"joined"} -> "gone"
                [] OTHER -> pc[c]]
  /\ leader' = [t \in Target |-> None]
  /\ UNCHANGED <<key, cancelled, systemd, history>>

Orphan(c) ==
  /\ pc[c] = "orphan"
  /\ Goto(c, "gone")
  /\ \/ Start(c) /\ upset' = upset \cup {key[c]}
     \/ UNCHANGED <<systemd, history>>
  /\ UNCHANGED <<key, cancelled, leader>>

CallStep(c) == Probe(c) \/ Extend(c) \/ Run(c) \/ Finish(c)

Next ==
  \/ \E c \in Call : Begin(c) \/ CallStep(c) \/ Cancel(c) \/ Orphan(c)
  \/ \E t \in Target : Die(t) \/ Restart(t)
  \/ RestartDaemon

Spec == Init /\ [][Next]_vars

(* Goroutines go on and commands end; nothing else is owed.                  *)
FairSpec == Spec /\ \A c \in Call : WF_vars(CallStep(c))

-----------------------------------------------------------------------------
(* Every variable keeps its type (manager.go: Manager).                       *)
TypeOK ==
  /\ pc \in [Call -> Stage]
  /\ key \in [Call -> Target]
  /\ cancelled \in SUBSET Call
  /\ leader \in [Target -> Call \cup {None}]
  /\ unit \in [Target -> {"absent", "active", "activating"}]
  /\ tunnel \in [Call -> {"none", "up", "down"}]
  /\ up \in SUBSET Target
  /\ upset \in SUBSET Target

(* A call is told that there is a tunnel only if the unit was active at some *)
(* moment of the attempt, its own or the one it shared, although the probe,  *)
(* the extension and the start are separate commands (manager.go:            *)
(* ensureSystemdProxy, "the only source of truth").                          *)
SuccessIsTunnelled == \A c \in Call : pc[c] = "ok" => key[c] \in up

(* An attempt fails only if a command failed, its leader's client went away, *)
(* or the unit was not what it had been or was waiting for its restart:      *)
(* whatever an earlier daemon has left behind, its unit is taken over        *)
(* (manager.go: "survives a daemon restart with no reconciliation step").    *)
FailureHasACause == \A c \in Call : pc[c] = "fail" => key[c] \in upset

(* EnsureProxy returns, unless the daemon is restarted: no caller waits for  *)
(* an attempt that is over (manager.go: EnsureProxy).                        *)
EveryCallReturns ==
  \A c \in Call : pc[c] # "idle" ~> pc[c] \in Returned \cup {"orphan"}

-----------------------------------------------------------------------------
(* Both modes of the manager make the same promise: the unit that a call has  *)
(* started is in use until systemd lets go of it.                             *)

LifeOf(c) ==
  CASE tunnel[c] = "none" -> "unborn"
    [] tunnel[c] = "down" -> "released"
    [] tunnel[c] = "up" -> IF pc[c] = "nil" THEN "serving" ELSE "starting"

Life == INSTANCE TunnelLifecycle
          WITH Target <- Target, Tunnel <- Call, target <- key,
               life <- [c \in Call |-> LifeOf(c)]

(* A target never has two tunnels, across restarts of the daemon and with    *)
(* commands of an earlier one still on their way, and a tunnel that systemd  *)
(* has collected does not come back (manager.go: ensureSystemdProxy).        *)
ImplementsLifecycle == Life!LifeSafety
=============================================================================
