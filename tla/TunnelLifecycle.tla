---------------------------- MODULE TunnelLifecycle ----------------------------
(* What the tunnel manager promises its callers, whatever its goroutines do:  *)
(* a tunnel goes once through its life, two tunnels of a target are never in  *)
(* use together, and a tunnel in use is released in the end.                  *)
CONSTANTS Tunnel, Target

VARIABLES target, life

tunnelVars == <<target, life>>

LifeInit ==
  /\ target \in [Tunnel -> Target]
  /\ life = [u \in Tunnel |-> "unborn"]

InUse(u) == life[u] \in {"starting", "serving"}

Become(u, s) == life' = [life EXCEPT ![u] = s] /\ UNCHANGED target

Start(u) ==
  /\ life[u] = "unborn"
  /\ \A v \in Tunnel : target[v] = target[u] => ~InUse(v)
  /\ Become(u, "starting")

Serve(u) == life[u] = "starting" /\ Become(u, "serving")

Release(u) == InUse(u) /\ Become(u, "released")

LifeNext == \E u \in Tunnel : Start(u) \/ Serve(u) \/ Release(u)

LifeSafety == LifeInit /\ [][LifeNext]_tunnelVars

LifeProgress == \A u \in Tunnel : WF_tunnelVars(Serve(u) \/ Release(u))

LifeSpec == LifeSafety /\ LifeProgress
=============================================================================
