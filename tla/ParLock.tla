------------------------------ MODULE ParLock ------------------------------
(***************************************************************************)
(* The ParLock baseline (baseline/ParLock/lib) in the configuration that   *)
(* is built: PARLOCK_READER_FIRST, no PARLOCK_ENQUEUE_HOLDERS, busy-loop   *)
(* waiting.  One lock and its server.  Tasks on the server's host work on  *)
(* the lock table directly, under its mutex; the others send POST_LOCK_REQ *)
(* and POST_UNLOCK_REQ, which reach the server in the order in which the   *)
(* task sent them (one RX core serves the server port); POST_LOCK_REPLY    *)
(* packets are spread over several RX cores and arrive in any order.       *)
(*                                                                         *)
(* A trace line fixes the task, the lock and the mode, so a task is a      *)
(* reader or a writer.                                                     *)
(***************************************************************************)
EXTENDS Integers, Sequences, FiniteSets

CONSTANTS
  Readers,   \* the tasks that ask for LOCK_SHARED
  Writers,   \* the tasks that ask for LOCK_EXCL
  Local,     \* the tasks that run on the lock's server
  Aborts     \* TRUE: a waiting task may give up (txnbench's timeout)

Clients == Readers \cup Writers

ASSUME ParLockConstants ==
  /\ Readers \cap Writers = {}
  /\ IsFiniteSet(Clients)
  /\ Aborts \in BOOLEAN

VARIABLES
  lock_state,      \* state, counter and queue of LockQueue; a queued task
  shared_counter,  \*   has a ticket: its place in request_queue, which is
  ticket,          \*   0 when the task is not queued
  tail,            \* the last ticket given out
  wait_flag,       \* LockEntry::wait_flag of each task, on the task's host
  pc,              \* where the task is: idle, wait, hold or done
  net,             \* packets of each remote task to the server
  reply            \* number of replies on their way to each remote task

table == <<lock_state, shared_counter, ticket, tail>>
vars  == <<lock_state, shared_counter, ticket, tail, wait_flag, pc, net, reply>>

Posts == {"LOCK_REQ", "UNLOCK_REQ"}

TypeOK ==
  /\ lock_state \in {"FREE", "SHARED", "EXCLUSIVE"}
  /\ shared_counter \in Nat
  /\ ticket \in [Clients -> Nat]
  /\ tail \in Nat
  /\ wait_flag \in [Clients -> BOOLEAN]
  /\ pc \in [Clients -> {"idle", "wait", "hold", "done"}]
  /\ net \in [Clients -> Seq(Posts)]
  /\ reply \in [Clients -> Nat]

Init ==
  /\ lock_state = "FREE"
  /\ shared_counter = 0
  /\ ticket = [t \in Clients |-> 0]
  /\ tail = 0
  /\ wait_flag = [t \in Clients |-> FALSE]
  /\ pc = [t \in Clients |-> "idle"]
  /\ net = [t \in Clients |-> <<>>]
  /\ reply = [t \in Clients |-> 0]

-----------------------------------------------------------------------------
(* The request queue.                                                      *)

Queued == {t \in Clients : ticket[t] > 0}

(* get_head_request.                                                       *)
IsHead(t) == t \in Queued /\ \A u \in Queued : ticket[t] <= ticket[u]

(* Signals the local tasks of S, sends a reply to the remote ones.         *)
Grant(S) ==
  /\ wait_flag' = [t \in Clients |-> wait_flag[t] \/ (t \in S /\ t \in Local)]
  /\ reply' = [t \in Clients |->
                 IF t \in S /\ t \notin Local THEN reply[t] + 1 ELSE reply[t]]

NoGrant == UNCHANGED <<wait_flag, reply>>

-----------------------------------------------------------------------------
(* Acquire: acquire_lock_local, server_handle_exclusive_lock and           *)
(* server_handle_shared_lock are the same code on the table.               *)

(* A mutant: a writer joins the readers.                                   *)
AdmitsWriter(t) == lock_state # "EXCLUSIVE"

Admits(t) == IF t \in Writers THEN lock_state = "FREE" ELSE lock_state # "EXCLUSIVE"

GrantAcquire(t) ==
  /\ Admits(t)
  /\ lock_state' = IF t \in Writers THEN "EXCLUSIVE" ELSE "SHARED"
  /\ shared_counter' = IF t \in Writers THEN shared_counter ELSE shared_counter + 1
  /\ Grant({t})
  /\ UNCHANGED <<ticket, tail>>

EnqueueAcquire(t) ==
  /\ ~Admits(t)
  /\ tail' = tail + 1
  /\ ticket' = [ticket EXCEPT ![t] = tail + 1]
  /\ NoGrant
  /\ UNCHANGED <<lock_state, shared_counter>>

TableAcquire(t) == GrantAcquire(t) \/ EnqueueAcquire(t)

-----------------------------------------------------------------------------
(* Release: release_lock_local, server_handle_exclusive_unlock and         *)
(* server_handle_shared_unlock.                                            *)

(* erase_lock_request found the task in the queue: an aborted waiter.      *)
EraseRequest(t) ==
  /\ t \in Queued
  /\ ticket' = [ticket EXCEPT ![t] = 0]
  /\ NoGrant
  /\ UNCHANGED <<lock_state, shared_counter, tail>>

(* Mutants: the writer stays in the queue; the readers that leave it       *)
(* together are counted as one.                                            *)
PassToWriterQueued(w) ==
  /\ w \in Writers /\ IsHead(w)
  /\ lock_state' = "EXCLUSIVE"
  /\ Grant({w})
  /\ UNCHANGED ticket

PassToReadersOnce(S) ==
  /\ \E r \in S : IsHead(r)
  /\ lock_state' = "SHARED"
  /\ shared_counter' = shared_counter + 1
  /\ ticket' = [t \in Clients |-> IF t \in S THEN 0 ELSE ticket[t]]
  /\ Grant(S)

(* The lock became free.  With a writer at the head of the queue it goes   *)
(* to the writer; with a reader (and only in the release of a writer,      *)
(* dequeue_shared_requests) to all the readers in the queue.               *)
PassToWriter(w) ==
  /\ w \in Writers /\ IsHead(w)
  /\ lock_state' = "EXCLUSIVE"
  /\ ticket' = [ticket EXCEPT ![w] = 0]
  /\ Grant({w})

PassToReaders(S) ==
  /\ \E r \in S : IsHead(r)
  /\ lock_state' = "SHARED"
  /\ shared_counter' = shared_counter + Cardinality(S)
  /\ ticket' = [t \in Clients |-> IF t \in S THEN 0 ELSE ticket[t]]
  /\ Grant(S)

LeaveFree == lock_state' = "FREE" /\ NoGrant /\ UNCHANGED ticket

(* A mutant: only the reader at the head leaves the queue.                 *)
WriterReleaseHead ==
  \/ (\E w \in Clients : PassToWriter(w)) /\ UNCHANGED <<shared_counter, tail>>
  \/ (\E r \in Readers : PassToReaders({r})) /\ UNCHANGED tail
  \/ Queued = {} /\ LeaveFree /\ UNCHANGED <<shared_counter, tail>>

WriterRelease ==
  \/ (\E w \in Clients : PassToWriter(w)) /\ UNCHANGED <<shared_counter, tail>>
  \/ PassToReaders(Queued \cap Readers) /\ UNCHANGED tail
  \/ Queued = {} /\ LeaveFree /\ UNCHANGED <<shared_counter, tail>>

(* A reader at the head is the "abnormal condition which should not        *)
(* appear": it is logged and the lock is left free.                        *)
ReaderRelease ==
  /\ shared_counter' = shared_counter - 1
  /\ \/ shared_counter - 1 > 0 /\ NoGrant /\ UNCHANGED <<lock_state, ticket>>
     \/ shared_counter - 1 <= 0 /\ \E w \in Clients : PassToWriter(w)
     \/ /\ shared_counter - 1 <= 0
        /\ Queued = {} \/ \E r \in Readers : IsHead(r)
        /\ LeaveFree
  /\ UNCHANGED tail

(* A release of a task that is not queued, in another state than the one   *)
(* it was granted in, changes nothing.                                     *)
TableRelease(t) ==
  IF t \in Queued THEN EraseRequest(t)
  ELSE IF t \in Writers /\ lock_state = "EXCLUSIVE" THEN WriterRelease
  ELSE IF t \in Readers /\ lock_state = "SHARED" THEN ReaderRelease
  ELSE NoGrant /\ UNCHANGED table

-----------------------------------------------------------------------------
(* The tasks: lock_acquire_async, lock_req_granted and lock_release.       *)

Call(t, from, to, post, Work(_)) ==
  /\ pc[t] \in from
  /\ pc' = [pc EXCEPT ![t] = to]
  /\ \/ t \in Local /\ Work(t) /\ UNCHANGED net
     \/ /\ t \notin Local
        /\ net' = [net EXCEPT ![t] = Append(@, post)]
        /\ NoGrant /\ UNCHANGED table

(* add_to_wait_queue inserts a FALSE flag, and keeps one that is there.    *)
Acquire(t) == Call(t, {"idle"}, "wait", "LOCK_REQ", TableAcquire)

ReqGranted(t) ==
  /\ pc[t] = "wait" /\ wait_flag[t]
  /\ pc' = [pc EXCEPT ![t] = "hold"]
  /\ UNCHANGED <<lock_state, shared_counter, ticket, tail, wait_flag, net, reply>>

Release(t) == Call(t, {"hold"}, "done", "UNLOCK_REQ", TableRelease)

Abort(t) == Aborts /\ Call(t, {"wait"}, "done", "UNLOCK_REQ", TableRelease)

(* net_poll_packets on the server and, for a reply, on the task's host.    *)
ServerPoll(t) ==
  /\ net[t] # <<>>
  /\ net' = [net EXCEPT ![t] = Tail(@)]
  /\ \/ Head(net[t]) = "LOCK_REQ" /\ TableAcquire(t)
     \/ Head(net[t]) = "UNLOCK_REQ" /\ TableRelease(t)
  /\ UNCHANGED pc

ReplyPoll(t) ==
  /\ reply[t] > 0
  /\ reply' = [reply EXCEPT ![t] = @ - 1]
  /\ wait_flag' = [wait_flag EXCEPT ![t] = TRUE]
  /\ UNCHANGED <<lock_state, shared_counter, ticket, tail, pc, net>>

Next ==
  \E t \in Clients :
    \/ Acquire(t) \/ ReqGranted(t) \/ Release(t) \/ Abort(t)
    \/ ServerPoll(t) \/ ReplyPoll(t)

Spec == Init /\ [][Next]_vars

(* The polling loops run for ever; a task polls its flag until it is set   *)
(* and releases the lock it got.                                           *)
FairSpec ==
  /\ Spec
  /\ \A t \in Clients :
       /\ WF_vars(ReqGranted(t)) /\ WF_vars(Release(t))
       /\ WF_vars(ServerPoll(t)) /\ WF_vars(ReplyPoll(t))

-----------------------------------------------------------------------------
Mode(t) == IF t \in Writers THEN "EXCL" ELSE "SHARED"

RW == INSTANCE RWLock WITH
        Users <- Clients,
        held <- [t \in Clients |-> IF pc[t] = "hold" THEN Mode(t) ELSE "none"]

(* The tasks see a reader-writer lock, whichever of the four release paths *)
(* hands it on, and also when waiting tasks abort.                         *)
ImplementsRWLock == RW!Spec

(* The tasks the table has let in and whose release it has not yet seen.   *)
Owner(t) ==
  /\ pc[t] # "idle" /\ ticket[t] = 0
  /\ net[t] = <<>> => pc[t] # "done"
  /\ net[t] # <<>> => Head(net[t]) = "UNLOCK_REQ"

Owners == {t \in Clients : Owner(t)}

(* lock_state and shared_counter, the only record ParLock keeps of its     *)
(* holders, agree with who has the lock or will learn that it has it; the  *)
(* "abnormal conditions" that the releases log cannot appear: no reader is *)
(* queued in the shared state and a free lock has an empty queue.          *)
TableExact ==
  /\ lock_state = "FREE" => Owners = {} /\ Queued = {} /\ shared_counter = 0
  /\ lock_state = "SHARED" =>
       /\ Owners \subseteq Readers /\ Queued \subseteq Writers
       /\ shared_counter = Cardinality(Owners) /\ shared_counter > 0
  /\ lock_state = "EXCLUSIVE" =>
       shared_counter = 0 /\ \E w \in Writers : Owners = {w}

(* "Wait until the request is fulfilled": a task that goes on has been let *)
(* in by the lock's server.                                                *)
HoldIsGranted == \A t \in Clients : pc[t] = "hold" => Owner(t)

(* What the packets, the queue and the flag of one task can be together:   *)
(* a task has one request under way, which is in one place.                *)
OneRequest(t) ==
  /\ t \in Local => net[t] = <<>> /\ reply[t] = 0
  /\ net[t] \in {<<>>, <<"LOCK_REQ">>, <<"UNLOCK_REQ">>, <<"LOCK_REQ", "UNLOCK_REQ">>}
  /\ pc[t] = "idle" => net[t] = <<>> /\ ticket[t] = 0 /\ ~wait_flag[t] /\ reply[t] = 0
  /\ pc[t] = "wait" => net[t] \in {<<>>, <<"LOCK_REQ">>}
  /\ pc[t] = "hold" => net[t] = <<>> /\ ticket[t] = 0
  /\ pc[t] = "done" => net[t] # <<"LOCK_REQ">> /\ (net[t] = <<>> => ticket[t] = 0)
  /\ net[t] # <<>> /\ Head(net[t]) = "LOCK_REQ" =>
       ticket[t] = 0 /\ ~wait_flag[t] /\ reply[t] = 0
  /\ ticket[t] > 0 => ~wait_flag[t] /\ reply[t] = 0

(* The inductive invariant: the table is exact because a request is never  *)
(* in two places, and a flag or a reply always stands for a task that the  *)
(* table let in.                                                           *)
IInv == TypeOK /\ TableExact /\ \A t \in Clients : OneRequest(t)

(* Every task that waits gets the lock or gives up, readers and writers,   *)
(* also behind waiters that gave up.                                       *)
EventuallyServed == \A t \in Clients : pc[t] = "wait" ~> pc[t] \in {"hold", "done"}
=============================================================================
