--------------------------- MODULE NetLockServer ---------------------------
(***************************************************************************)
(* The lock server of the NetLock baseline (baseline/NetLock/lib:          *)
(* lock_server.cc, request.cc) for one lock.  It is the primary of a lock  *)
(* that is not in the switch, and the secondary of one that is: then it    *)
(* only buffers the requests that do not fit into the switch's queue.  A   *)
(* handler runs under the queue's mutex and sends before it unlocks, so it *)
(* is one step.                                                            *)
(*                                                                         *)
(* A request is named by its task (client_id and txn_id); the task fixes   *)
(* the mode.  payload, transferred and seqnum are data for the clients.    *)
(***************************************************************************)
EXTENDS Integers, Sequences, SequencesExt, FiniteSets

CONSTANTS Tasks, Writers   \* the tasks, and those that ask for EXCLUSIVE

Mode(t) == IF t \in Writers THEN "EXCL" ELSE "SHARED"

(* NodeQueuePerLock: node_queue, lock_state and shared_counter.            *)
ServerState ==
  [queue : Seq(Tasks), state : {"FREE", "SHARED", "EXCLUSIVE"}, shared : Int]

init_lock_queue == [queue |-> <<>>, state |-> "FREE", shared |-> 0]

(* The new state and the tasks that are sent GRANT_LOCK_FROM_SERVER.       *)
Result(srv, granted) == [srv |-> srv, granted |-> granted]

(* The queue.  dequeue_request is called n times in a row, and of the      *)
(* entry get_head_request returns the mode decides.                        *)
enqueue_request(q, t) == Append(q, t)

dequeue_request(q, n) == SubSeq(q, n + 1, Len(q))

HeadIs(mode, q) == q # <<>> /\ Mode(Head(q)) = mode

get_shared_requests(q) == {t \in ToSet(q) : t \notin Writers}

(* The place of the erased request, counted from 0; 0 too if there is none *)
erase_lock_request(q, t) ==
  LET i == SelectInSeq(q, LAMBDA u : u = t)
  IN  IF i = 0 THEN [queue |-> q, ret |-> 0]
      ELSE [queue |-> RemoveAt(q, i), ret |-> i - 1]

-----------------------------------------------------------------------------
(* The primary.  Holders stay in the queue until they release.             *)

process_primary_acquire(s, t) ==
  LET r == [s EXCEPT !.queue = enqueue_request(@, t)]
  IN  IF Mode(t) = "SHARED" /\ s.state \in {"FREE", "SHARED"}
      THEN Result([r EXCEPT !.state = "SHARED", !.shared = @ + 1], {t})
      ELSE IF Mode(t) = "EXCL" /\ s.state = "FREE"
      THEN Result([r EXCEPT !.state = "EXCLUSIVE"], {t})
      ELSE Result(r, {})

(* The last reader left.  A reader at the head is not scheduled.           *)
AfterReaders(s) ==
  IF HeadIs("EXCL", s.queue)
  THEN Result([s EXCEPT !.state = "EXCLUSIVE"], {Head(s.queue)})
  ELSE Result([s EXCEPT !.state = "FREE"], {})

(* Mutants: the counter is not increased for the readers that are let in;  *)
(* only the reader at the head is.                                         *)
AfterWriterUncounted(s) ==
  IF HeadIs("SHARED", s.queue)
  THEN Result([s EXCEPT !.state = "SHARED"], get_shared_requests(s.queue))
  ELSE AfterReaders(s)

AfterWriterHeadOnly(s) ==
  IF HeadIs("SHARED", s.queue)
  THEN Result([s EXCEPT !.state = "SHARED", !.shared = @ + 1], {Head(s.queue)})
  ELSE AfterReaders(s)

(* The writer left: a reader at the head brings in all queued readers.     *)
AfterWriter(s) ==
  IF HeadIs("SHARED", s.queue)
  THEN LET R == get_shared_requests(s.queue)
       IN  Result([s EXCEPT !.state = "SHARED", !.shared = @ + Cardinality(R)], R)
  ELSE AfterReaders(s)

(* An exclusive request that was not the first in the queue belongs to a   *)
(* waiter that aborted.                                                    *)
process_primary_release(s, t) ==
  LET e == erase_lock_request(s.queue, t)
      r == [s EXCEPT !.queue = e.queue]
  IN  IF Mode(t) = "SHARED" /\ s.state = "SHARED"
      THEN IF s.shared - 1 > 0 THEN Result([r EXCEPT !.shared = @ - 1], {})
           ELSE AfterReaders([r EXCEPT !.shared = @ - 1])
      ELSE IF Mode(t) = "EXCL" /\ s.state = "EXCLUSIVE" /\ e.ret = 0
      THEN AfterWriter(r)
      ELSE Result(r, {})

-----------------------------------------------------------------------------
(* The secondary.                                                          *)

process_secondary_acquire(s, t) == [s EXCEPT !.queue = enqueue_request(@, t)]

(* How many requests a release brings back to a queue of len slots.        *)
PushBackCount(s, len) == IF Len(s.queue) < len THEN Len(s.queue) ELSE len

(* The requests that are sent back to the switch, and the queue without    *)
(* them.                                                                   *)
process_secondary_release(s, len) ==
  LET n == PushBackCount(s, len)
  IN  [srv |-> [s EXCEPT !.queue = dequeue_request(@, n)],
       pushed |-> SubSeq(s.queue, 1, n)]
=============================================================================
