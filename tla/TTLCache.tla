------------------------------- MODULE TTLCache -------------------------------
(* The cache of internal/cache/cache.go: a map whose entries expire a fixed   *)
(* time after being set, looked at only when they are read.  Get and Set each *)
(* hold the mutex throughout, so each is one step of its caller.              *)
LOCAL INSTANCE Naturals

CONSTANT TTL    \* ticks an entry lives after being set

ASSUME TTLAssumption == TTL \in Nat

NoEntries == [key \in {} |-> [value |-> key, expires |-> 0]]

(* now().After(expiresAt): an entry is still good at its last instant.       *)
ExpiredLate(entry, now) == now > entry.expires + 1
Expired(entry, now) == now > entry.expires

Hit(store, key, now) == key \in DOMAIN store /\ ~Expired(store[key], now)

(* What Get leaves of the map: an expired entry is deleted when it is read.  *)
AfterGet(store, key, now) ==
  [k \in {j \in DOMAIN store : j = key => Hit(store, key, now)} |-> store[k]]

SlidingSet(store, key, value, now) ==
  LET start == IF key \in DOMAIN store THEN store[key].expires ELSE now
  IN [k \in DOMAIN store \cup {key} |->
       IF k = key THEN [value |-> value, expires |-> start + TTL] ELSE store[k]]

AfterSet(store, key, value, now) ==
  [k \in DOMAIN store \cup {key} |->
    IF k = key THEN [value |-> value, expires |-> now + TTL] ELSE store[k]]
=============================================================================
