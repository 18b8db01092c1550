------------------------------- MODULE RWLock -------------------------------
(***************************************************************************)
(* What every lock service of the repository promises its users: a         *)
(* reader-writer lock.  A user holds the lock in no mode, in LOCK_SHARED   *)
(* or in LOCK_EXCL; it gets the lock only when its mode is compatible with *)
(* the modes in which the others hold it.                                  *)
(***************************************************************************)

CONSTANT Users   \* the tasks (transactions) that lock and unlock

VARIABLE held    \* the mode in which each user holds the lock

Modes == {"SHARED", "EXCL"}

TypeOK == held \in [Users -> Modes \cup {"none"}]

Init == held = [u \in Users |-> "none"]

(* lock_acquire_async returned 0, or lock_req_granted returned 1.          *)
Take(u, m) ==
  /\ held[u] = "none"
  /\ \A v \in Users \ {u} : held[v] = "none" \/ (held[v] = "SHARED" /\ m = "SHARED")
  /\ held' = [held EXCEPT ![u] = m]

(* lock_release was called.                                                *)
Drop(u) ==
  /\ held[u] # "none"
  /\ held' = [held EXCEPT ![u] = "none"]

Next == \E u \in Users : Drop(u) \/ \E m \in Modes : Take(u, m)

Spec == Init /\ [][Next]_held

(* A user that holds the lock exclusively holds it alone.                  *)
Exclusion ==
  \A u, v \in Users :
    u # v /\ held[u] # "none" /\ held[v] # "none" =>
      held[u] = "SHARED" /\ held[v] = "SHARED"
=============================================================================
