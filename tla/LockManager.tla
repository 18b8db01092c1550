---------------------------- MODULE LockManager ----------------------------
(***************************************************************************)
(* Locks outside the range of the switch (lock_out_of_range in             *)
(* lib/lock.cc): the host lock_to_lm(lock) manages the lock and decides    *)
(* alone.  The switch only forwards the packets, unchanged.  Tasks on the  *)
(* manager's host call the handlers directly, the others send ACQUIRE and  *)
(* RELEASE to its server port, in order; grants (GRANT_WO_AGENT) go to the *)
(* client ports and are handled in any order.                              *)
(***************************************************************************)
EXTENDS Naturals, Sequences, FiniteSets

CONSTANTS
  Tasks,    \* the tasks that use the lock, on all hosts
  Local,    \* those on the manager's host
  MaxReq    \* bound: requests made by one task

ASSUME ManagerConstants ==
  /\ Local \subseteq Tasks
  /\ MaxReq \in Nat

Ops == {"SHARED", "EXCL"}

VARIABLES
  lm,       \* mode, holders and wqueue of the manager's innet_lock
  granted,  \* task_granted of each task, on its host
  app,      \* state of each task
  net,      \* packets of each remote task on their way to the manager
  grants    \* number of grants on their way to each task

vars == <<lm, granted, app, net, grants>>

Wqe == [task : Tasks, op : Ops]
Packet == {[type |-> "RELEASE"]} \cup [type : {"ACQUIRE"}, op : Ops]

TypeOK ==
  /\ lm \in [mode : Ops \cup {"FREE"}, holders : SUBSET Tasks, wqueue : Seq(Wqe)]
  /\ granted \in [Tasks -> BOOLEAN]
  /\ app \in [Tasks -> [pc : {"idle", "wait", "hold"}, op : Ops, req : 0 .. MaxReq]]
  /\ net \in [Tasks -> Seq(Packet)]
  /\ \A t \in Tasks : grants[t] \in Nat /\ (granted[t] => grants[t] = 0)

Init ==
  /\ lm = [mode |-> "FREE", holders |-> {}, wqueue |-> <<>>]
  /\ granted = [t \in Tasks |-> FALSE]
  /\ app = [t \in Tasks |-> [pc |-> "idle", op |-> "SHARED", req |-> 0]]
  /\ net = [t \in Tasks |-> <<>>]
  /\ grants = [t \in Tasks |-> 0]

-----------------------------------------------------------------------------
(* A mutant: an exclusive request is granted while readers hold the lock.  *)
HandleAcquireLmAnyOp(m, t, op) ==
  IF m.mode # "EXCL"
    THEN [lm |-> [m EXCEPT !.mode = op, !.holders = @ \cup {t}], grant |-> TRUE]
    ELSE [lm |-> [m EXCEPT !.wqueue = Append(@, [task |-> t, op |-> op])],
          grant |-> FALSE]

(* handle_acquire_lm.                                                      *)
HandleAcquireLm(m, t, op) ==
  IF m.mode = "FREE" \/ (m.mode = "SHARED" /\ op = "SHARED")
    THEN [lm |-> [m EXCEPT !.mode = op, !.holders = @ \cup {t}], grant |-> TRUE]
    ELSE [lm |-> [m EXCEPT !.wqueue = Append(@, [task |-> t, op |-> op])],
          grant |-> FALSE]

IsShared(w) == w.op = "SHARED"
IsExcl(w) == w.op = "EXCL"

(* Mutants: the readers are granted but not recorded; the writers are      *)
(* dropped; the writers are granted with the readers, and stay queued.     *)
DigestWqForgets(q) ==
  [lm |-> [mode |-> "SHARED", holders |-> {}, wqueue |-> SelectSeq(q, IsExcl)],
   grant |-> SelectSeq(q, IsShared)]

DigestWqDrops(q) ==
  [lm |-> [mode |-> "SHARED",
           holders |-> {q[i].task : i \in {j \in DOMAIN q : IsShared(q[j])}},
           wqueue |-> <<>>],
   grant |-> SelectSeq(q, IsShared)]

DigestWqGrantsAll(q) ==
  [lm |-> [mode |-> "SHARED",
           holders |-> {q[i].task : i \in {j \in DOMAIN q : IsShared(q[j])}},
           wqueue |-> SelectSeq(q, IsExcl)],
   grant |-> q]

(* lock_digest_wq, here at the manager: every reader in the queue becomes  *)
(* a holder and is granted, also one behind a writer; the writers stay.    *)
DigestWq(q) ==
  [lm |-> [mode |-> "SHARED",
           holders |-> {q[i].task : i \in {j \in DOMAIN q : IsShared(q[j])}},
           wqueue |-> SelectSeq(q, IsExcl)],
   grant |-> SelectSeq(q, IsShared)]

(* What the callers of handle_release_lm do when it returns true: the      *)
(* writer at the head is granted and leaves the queue, but is no holder.   *)
GrantHead(q) ==
  [lm |-> [mode |-> "EXCL", holders |-> {}, wqueue |-> Tail(q)],
   grant |-> <<Head(q)>>]

(* handle_release_lm.  `grant' is what is sent.                            *)
HandleReleaseLm(m, t) ==
  LET hs == m.holders \ {t}
      q  == m.wqueue
  IN  CASE hs # {} -> [lm |-> [m EXCEPT !.holders = hs], grant |-> <<>>]
        [] hs = {} /\ q = <<>> ->
             [lm |-> [mode |-> "FREE", holders |-> {}, wqueue |-> q], grant |-> <<>>]
        [] hs = {} /\ q # <<>> /\ IsShared(Head(q)) -> DigestWq(q)
        [] OTHER -> GrantHead(q)

SendGrants(q) ==
  grants' = [t \in Tasks |-> grants[t] + Cardinality({i \in DOMAIN q : q[i].task = t})]

-----------------------------------------------------------------------------
(* The tasks: the out-of-range parts of lock_acquire_async and             *)
(* lock_release, and lock_req_granted.  lock_prepare_wait does not clear a *)
(* flag that is there.                                                     *)

AcquireHere(t, op) ==
  LET r == HandleAcquireLm(lm, t, op)
  IN  /\ t \in Local
      /\ lm' = r.lm
      /\ app' = [app EXCEPT ![t] = [pc |-> IF r.grant THEN "hold" ELSE "wait",
                                    op |-> op, req |-> @.req + 1]]
      /\ UNCHANGED net

AcquireThere(t, op) ==
  /\ t \notin Local
  /\ net' = [net EXCEPT ![t] = Append(@, [type |-> "ACQUIRE", op |-> op])]
  /\ app' = [app EXCEPT ![t] = [pc |-> "wait", op |-> op, req |-> @.req + 1]]
  /\ UNCHANGED lm

Acquire(t, op) ==
  /\ app[t].pc = "idle" /\ app[t].req < MaxReq
  /\ AcquireHere(t, op) \/ AcquireThere(t, op)
  /\ UNCHANGED <<granted, grants>>

ReqGranted(t) ==
  /\ app[t].pc = "wait" /\ granted[t]
  /\ app' = [app EXCEPT ![t].pc = "hold"]
  /\ granted' = [granted EXCEPT ![t] = FALSE]
  /\ UNCHANGED <<lm, net, grants>>

ReleaseHere(t) ==
  LET r == HandleReleaseLm(lm, t)
  IN  /\ t \in Local
      /\ lm' = r.lm
      /\ SendGrants(r.grant)
      /\ UNCHANGED net

ReleaseThere(t) ==
  /\ t \notin Local
  /\ net' = [net EXCEPT ![t] = Append(@, [type |-> "RELEASE"])]
  /\ UNCHANGED <<lm, grants>>

Release(t) ==
  /\ app[t].pc = "hold"
  /\ app' = [app EXCEPT ![t].pc = "idle"]
  /\ ReleaseHere(t) \/ ReleaseThere(t)
  /\ UNCHANGED granted

(* lock_packet_process at the manager ...                                  *)
PollAcquire(t) ==
  LET r == HandleAcquireLm(lm, t, Head(net[t]).op)
  IN  /\ net[t] # <<>> /\ Head(net[t]).type = "ACQUIRE"
      /\ lm' = r.lm
      /\ SendGrants(IF r.grant THEN <<[task |-> t]>> ELSE <<>>)
      /\ net' = [net EXCEPT ![t] = Tail(@)]
      /\ UNCHANGED <<granted, app>>

PollRelease(t) ==
  LET r == HandleReleaseLm(lm, t)
  IN  /\ net[t] # <<>> /\ Head(net[t]).type = "RELEASE"
      /\ lm' = r.lm
      /\ SendGrants(r.grant)
      /\ net' = [net EXCEPT ![t] = Tail(@)]
      /\ UNCHANGED <<granted, app>>

(* ... and at the host of a task that is granted the lock.                 *)
PollGrant(t) ==
  /\ grants[t] > 0
  /\ grants' = [grants EXCEPT ![t] = @ - 1]
  /\ granted' = [granted EXCEPT ![t] = TRUE]
  /\ UNCHANGED <<lm, app, net>>

Next ==
  \E t \in Tasks :
    \/ \E op \in Ops : Acquire(t, op)
    \/ ReqGranted(t) \/ Release(t)
    \/ PollAcquire(t) \/ PollRelease(t) \/ PollGrant(t)

Spec == Init /\ [][Next]_vars

(* Cores poll for ever; a task polls its flag and releases what it got.    *)
FairSpec ==
  /\ Spec
  /\ \A t \in Tasks :
       /\ WF_vars(ReqGranted(t)) /\ WF_vars(Release(t))
       /\ WF_vars(PollAcquire(t)) /\ WF_vars(PollRelease(t)) /\ WF_vars(PollGrant(t))

-----------------------------------------------------------------------------
RW == INSTANCE RWLock WITH
        Users <- Tasks,
        held <- [t \in Tasks |-> IF app[t].pc = "hold" THEN app[t].op ELSE "none"]

(* The fallback is a reader-writer lock for its tasks, with local grants   *)
(* by a return value and remote ones by packets.                           *)
ImplementsRWLock == RW!Spec

Queued == {lm.wqueue[i].task : i \in DOMAIN lm.wqueue}

(* The tasks that the manager let in and whose release it has not seen.    *)
Owner(t) ==
  \/ net[t] # <<>> /\ Head(net[t]).type = "RELEASE"
  \/ net[t] = <<>> /\ app[t].pc # "idle" /\ t \notin Queued

Owners == {t \in Tasks : Owner(t)}

(* The manager knows its owners: exactly the holders in the shared mode,   *)
(* one in the exclusive mode, where a writer that came from the queue is   *)
(* in no holder set (handle_release_lm) and still keeps the others out.    *)
ManagerExact ==
  /\ lm.mode = "FREE" => Owners = {} /\ lm.wqueue = <<>>
  /\ lm.mode = "SHARED" =>
       Owners = lm.holders /\ Owners # {} /\ \A i \in DOMAIN lm.wqueue : IsExcl(lm.wqueue[i])
  /\ lm.mode = "EXCL" => lm.holders \subseteq Owners /\ Cardinality(Owners) = 1

(* Every waiting task gets the lock.                                       *)
EventuallyHolds == \A t \in Tasks : app[t].pc = "wait" ~> app[t].pc = "hold"
=============================================================================
