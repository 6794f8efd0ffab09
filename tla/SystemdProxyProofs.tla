-------------------------- MODULE SystemdProxyProofs --------------------------
(* Theorems about SystemdProxy for any number of calls and targets.           *)
EXTENDS SystemdProxy, TLAPS

(* Singleflight: the calls at work on a target are its leader alone.          *)
LeaderInv ==
  /\ \A t \in Target : leader[t] # None =>
       key[leader[t]] = t /\ pc[leader[t]] \in Leading
  /\ \A c \in Call : pc[c] \in Leading => leader[key[c]] = c

(* What an attempt has seen of its unit was so at some moment of it.          *)
SeenInv ==
  \A c \in Call : pc[c] \in Leading =>
    /\ unit[key[c]] = "active" => key[c] \in up
    /\ pc[c] \in {"extend", "ok"} => key[c] \in up

(* As long as nothing interferes, the unit is what the attempt takes it for.  *)
CalmInv ==
  \A c \in Call : pc[c] \in Leading /\ key[c] \notin upset =>
    /\ c \notin cancelled
    /\ pc[c] # "fail"
    /\ pc[c] = "probe" => unit[key[c]] # "activating"
    /\ pc[c] = "extend" => unit[key[c]] = "active"
    /\ pc[c] = "run" => unit[key[c]] = "absent"

(* A unit has been started by one call at most, and no call starts two.       *)
TunnelInv ==
  /\ \A c \in Call :
       pc[c] \in {"idle", "joined", "probe", "extend", "run", "orphan"} =>
         tunnel[c] = "none"
  /\ \A c \in Call : tunnel[c] = "up" => unit[key[c]] # "absent"
  /\ \A c, d \in Call :
       tunnel[c] = "up" /\ tunnel[d] = "up" /\ key[c] = key[d] => c = d

IInv == TypeOK /\ LeaderInv /\ SeenInv /\ CalmInv /\ TunnelInv

LEMMA InitIInv == Init => IInv
BY DEF Init, IInv, TypeOK, LeaderInv, SeenInv, CalmInv, TunnelInv, Stage,
       Leading, Returned

LEMMA NextIInv == IInv /\ [Next]_vars => IInv'
<1> SUFFICES ASSUME IInv, [Next]_vars PROVE IInv'
  OBVIOUS
<1> USE NoneAssumption DEF IInv, TypeOK, Stage, Leading, Returned, Goto,
        systemd, history
<1>1. ASSUME NEW c \in Call, Begin(c) PROVE IInv'
  <2>1. TypeOK'
    BY <1>1 DEF Begin, InFlight
  <2>2. LeaderInv'
    BY <1>1 DEF Begin, InFlight, LeaderInv
  <2>3. SeenInv'
    BY <1>1 DEF Begin, InFlight, LeaderInv, SeenInv
  <2>4. CalmInv'
    BY <1>1 DEF Begin, InFlight, LeaderInv, CalmInv
  <2>5. TunnelInv'
    BY <1>1 DEF Begin, InFlight, TunnelInv
  <2>. QED
    BY <2>1, <2>2, <2>3, <2>4, <2>5
<1>2. ASSUME NEW c \in Call, Probe(c) PROVE IInv'
  <2>1. TypeOK'
    BY <1>2 DEF Probe, Faulted
  <2>2. LeaderInv'
    BY <1>2 DEF Probe, Faulted, LeaderInv
  <2>3. SeenInv'
    BY <1>2 DEF Probe, Faulted, SeenInv, SeenActive
  <2>4. CalmInv'
    BY <1>2 DEF Probe, Faulted, LeaderInv, CalmInv, SeenActive
  <2>5. TunnelInv'
    BY <1>2 DEF Probe, Faulted, TunnelInv
  <2>. QED
    BY <2>1, <2>2, <2>3, <2>4, <2>5
<1>3. ASSUME NEW c \in Call, Extend(c) PROVE IInv'
  <2>1. TypeOK'
    BY <1>3 DEF Extend, Faulted, ExtendError
  <2>2. LeaderInv'
    BY <1>3 DEF Extend, Faulted, ExtendError, LeaderInv
  <2>3. SeenInv'
    BY <1>3 DEF Extend, Faulted, ExtendError, SeenInv
  <2>4. CalmInv'
    BY <1>3 DEF Extend, Faulted, ExtendError, LeaderInv, CalmInv
  <2>5. TunnelInv'
    BY <1>3 DEF Extend, Faulted, ExtendError, TunnelInv
  <2>. QED
    BY <2>1, <2>2, <2>3, <2>4, <2>5
<1>4. ASSUME NEW c \in Call, Run(c) PROVE IInv'
  <2>1. TypeOK'
    BY <1>4 DEF Run, Faulted, Start
  <2>2. LeaderInv'
    BY <1>4 DEF Run, Faulted, Start, LeaderInv
  <2>3. SeenInv'
    BY <1>4 DEF Run, Faulted, Start, SeenInv, LeaderInv
  <2>4. CalmInv'
    BY <1>4 DEF Run, Faulted, Start, LeaderInv, CalmInv, NameIsFree
  <2>5. TunnelInv'
    BY <1>4 DEF Run, Faulted, Start, TunnelInv, NameIsFree
  <2>. QED
    BY <2>1, <2>2, <2>3, <2>4, <2>5
<1>5. ASSUME NEW c \in Call, Finish(c) PROVE IInv'
  <2>1. TypeOK'
    BY <1>5 DEF Finish, Shares
  <2>2. LeaderInv'
    BY <1>5 DEF Finish, Shares, LeaderInv
  <2>3. SeenInv' /\ CalmInv'
    BY <1>5 DEF Finish, Shares, SeenInv, CalmInv
  <2>4. TunnelInv'
    BY <1>5 DEF Finish, Shares, TunnelInv
  <2>. QED
    BY <2>1, <2>2, <2>3, <2>4
<1>6. ASSUME NEW c \in Call, Cancel(c) PROVE IInv'
  BY <1>6 DEF Cancel, LeaderInv, SeenInv, CalmInv, TunnelInv
<1>7. ASSUME NEW c \in Call, Orphan(c) PROVE IInv'
  <2>1. TypeOK'
    BY <1>7 DEF Orphan, Start
  <2>2. LeaderInv'
    BY <1>7 DEF Orphan, Start, LeaderInv
  <2>3. SeenInv' /\ CalmInv'
    BY <1>7 DEF Orphan, Start, SeenInv, CalmInv
  <2>4. TunnelInv'
    BY <1>7 DEF Orphan, Start, TunnelInv, NameIsFree
  <2>. QED
    BY <2>1, <2>2, <2>3, <2>4
<1>8. ASSUME NEW t \in Target, NEW s \in {"absent", "active", "activating"},
             unit[t] # "absent", Becomes(t, s)
      PROVE  IInv'
  <2>1. TypeOK'
    BY <1>8 DEF Becomes
  <2>2. LeaderInv'
    BY <1>8 DEF Becomes, LeaderInv
  <2>3. SeenInv' /\ CalmInv'
    BY <1>8 DEF Becomes, SeenInv, CalmInv
  <2>4. TunnelInv'
    BY <1>8 DEF Becomes, TunnelInv
  <2>. QED
    BY <2>1, <2>2, <2>3, <2>4
<1>9. ASSUME NEW t \in Target, Die(t) \/ Restart(t) PROVE IInv'
  BY <1>8, <1>9 DEF Die, Restart
<1>10. ASSUME RestartDaemon PROVE IInv'
  BY <1>10 DEF RestartDaemon, LeaderInv, SeenInv, CalmInv, TunnelInv
<1>11. ASSUME UNCHANGED vars PROVE IInv'
  BY <1>11 DEF vars, LeaderInv, SeenInv, CalmInv, TunnelInv
<1>. QED
  BY <1>1, <1>2, <1>3, <1>4, <1>5, <1>6, <1>7, <1>9, <1>10, <1>11
  DEF Next, CallStep

LEMMA SpecIInv == Spec => []IInv
BY InitIInv, NextIInv, PTL DEF Spec

(* Every variable keeps its type (manager.go: Manager).                       *)
THEOREM TypeCorrect == Spec => []TypeOK
<1>1. IInv => TypeOK
  BY DEF IInv
<1>. QED
  BY <1>1, SpecIInv, PTL

(* Whoever is told that there is a tunnel shared an attempt during which the  *)
(* unit was active (manager.go: ensureSystemdProxy).                          *)
THEOREM NoFalseSuccess == Spec => []SuccessIsTunnelled
<1>1. IInv => SuccessIsTunnelled
  BY DEF IInv, SeenInv, SuccessIsTunnelled, Leading
<1>. QED
  BY <1>1, SpecIInv, PTL

(* Left alone, an attempt succeeds, in whatever state an earlier daemon has   *)
(* left the unit but for a restart that is pending (manager.go:               *)
(* ensureSystemdProxy).                                                       *)
THEOREM NoIdleFailure == Spec => []FailureHasACause
<1>1. IInv => FailureHasACause
  BY DEF IInv, CalmInv, FailureHasACause, Leading
<1>. QED
  BY <1>1, SpecIInv, PTL

-----------------------------------------------------------------------------
(* The refinement of TunnelLifecycle.                                         *)

Lives == [c \in Call |-> LifeOf(c)]

LEMMA LifeMoves ==
  ASSUME NEW c \in Call, NEW s, LifeOf(c)' = s,
         \A d \in Call \ {c} : LifeOf(d)' = LifeOf(d)
  PROVE  Lives' = [Lives EXCEPT ![c] = s]
BY DEF Lives

LEMMA InitLife == Init => Life!LifeInit
BY DEF Init, Life!LifeInit, LifeOf

LEMMA StartLife ==
  ASSUME IInv, NEW c \in Call, pc[c] \in {"run", "orphan"}, Start(c),
         NEW s \in {"ok", "fail", "gone"}, Goto(c, s), UNCHANGED key
  PROVE  Life!LifeNext
<1> USE DEF IInv, TypeOK, TunnelInv, LifeOf, Goto, Start, NameIsFree
<1>1. LifeOf(c) = "unborn" /\ LifeOf(c)' = "starting"
  OBVIOUS
<1>2. \A d \in Call \ {c} : LifeOf(d)' = LifeOf(d)
  OBVIOUS
<1>3. \A d \in Call : key[d] = key[c] => ~(LifeOf(d) \in {"starting", "serving"})
  OBVIOUS
<1>4. Life!Start(c)
  BY <1>1, <1>2, <1>3, LifeMoves DEF Lives, Life!Start, Life!InUse, Life!Become
<1>. QED
  BY <1>4 DEF Life!LifeNext

LEMMA NextLife == IInv /\ [Next]_vars => [Life!LifeNext]_(Life!tunnelVars)
<1> SUFFICES ASSUME IInv, [Next]_vars PROVE [Life!LifeNext]_(Life!tunnelVars)
  OBVIOUS
<1> USE DEF IInv, TypeOK, TunnelInv, Goto, systemd, history, Stage, Leading,
            Returned
<1> DEFINE Same == UNCHANGED key /\ \A d \in Call : LifeOf(d)' = LifeOf(d)
<1>0. Same => [Life!LifeNext]_(Life!tunnelVars)
  BY DEF Life!tunnelVars
<1>1. ASSUME NEW c \in Call, Begin(c) \/ Probe(c) \/ Extend(c) \/ Cancel(c)
      PROVE  Same
  BY <1>1 DEF Begin, Probe, Extend, ExtendError, Cancel, Faulted, LifeOf
<1>2. ASSUME NEW c \in Call, Run(c) PROVE Life!LifeNext \/ Same
  <2>1. CASE Start(c)
    BY <1>2, <2>1, StartLife DEF Run, Faulted
  <2>2. CASE UNCHANGED systemd
    BY <1>2, <2>2 DEF Run, Faulted, LifeOf
  <2>. QED
    BY <1>2, <2>1, <2>2 DEF Run
<1>3. ASSUME NEW c \in Call, Orphan(c) PROVE Life!LifeNext \/ Same
  <2>1. CASE Start(c)
    BY <1>3, <2>1, StartLife DEF Orphan
  <2>2. CASE UNCHANGED systemd
    BY <1>3, <2>2 DEF Orphan, LifeOf
  <2>. QED
    BY <1>3, <2>1, <2>2 DEF Orphan
<1>4. ASSUME NEW c \in Call, Finish(c) PROVE Life!LifeNext \/ Same
  <2>1. UNCHANGED key /\ \A d \in Call \ {c} : LifeOf(d)' = LifeOf(d)
    BY <1>4 DEF Finish, Shares, LifeOf
  <2>2. CASE pc[c] = "ok" /\ tunnel[c] = "up"
    <3>1. LifeOf(c) = "starting" /\ LifeOf(c)' = "serving"
      BY <1>4, <2>2 DEF Finish, Shares, LifeOf
    <3>2. Life!Serve(c)
      BY <2>1, <3>1, LifeMoves DEF Lives, Life!Serve, Life!Become
    <3>. QED
      BY <3>2 DEF Life!LifeNext
  <2>3. CASE ~(pc[c] = "ok" /\ tunnel[c] = "up")
    BY <1>4, <2>1, <2>3 DEF Finish, Shares, LifeOf
  <2>. QED
    BY <2>2, <2>3
<1>5. ASSUME NEW t \in Target, NEW s, Becomes(t, s) PROVE Life!LifeNext \/ Same
  <2>1. CASE s = "absent" /\ \E c \in Call : key[c] = t /\ tunnel[c] = "up"
    <3>1. PICK c \in Call : key[c] = t /\ tunnel[c] = "up"
      BY <2>1
    <3>2. LifeOf(c) \in {"starting", "serving"} /\ LifeOf(c)' = "released"
      BY <1>5, <2>1, <3>1 DEF Becomes, LifeOf
    <3>3. UNCHANGED key /\ \A d \in Call \ {c} : LifeOf(d)' = LifeOf(d)
      BY <1>5, <2>1, <3>1 DEF Becomes, LifeOf
    <3>4. Life!Release(c)
      BY <3>2, <3>3, LifeMoves DEF Lives, Life!Release, Life!InUse, Life!Become
    <3>. QED
      BY <3>4 DEF Life!LifeNext
  <2>2. CASE ~(s = "absent" /\ \E c \in Call : key[c] = t /\ tunnel[c] = "up")
    BY <1>5, <2>2 DEF Becomes, LifeOf
  <2>. QED
    BY <2>1, <2>2
<1>6. ASSUME NEW t \in Target, Die(t) \/ Restart(t) PROVE Life!LifeNext \/ Same
  BY <1>5, <1>6 DEF Die, Restart
<1>7. ASSUME RestartDaemon PROVE Same
  BY <1>7 DEF RestartDaemon, LifeOf
<1>8. ASSUME UNCHANGED vars PROVE Same
  BY <1>8 DEF vars, LifeOf
<1>. QED
  BY <1>0, <1>1, <1>2, <1>3, <1>4, <1>6, <1>7, <1>8 DEF Next, CallStep

(* A target never has two tunnels, and a tunnel goes once through its life,   *)
(* whatever becomes of the daemon and the units (manager.go:                  *)
(* ensureSystemdProxy).                                                       *)
THEOREM ImplementsLife == Spec => ImplementsLifecycle
BY InitLife, NextLife, SpecIInv, PTL
DEF Spec, ImplementsLifecycle, Life!LifeSafety
=============================================================================
