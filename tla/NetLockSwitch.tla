--------------------------- MODULE NetLockSwitch ---------------------------
(***************************************************************************)
(* The switch of the NetLock baseline (baseline/NetLock/switch/p4) for one *)
(* lock in its table: a ring of size slots with the requests that hold or  *)
(* wait for the lock, in the order of their arrival.  head is the slot     *)
(* that was freed last, tail the one that was filled last.  A release      *)
(* frees the slot after head, whoever sends it; a packet that recirculates *)
(* through the pipeline then tells the tasks whose turn has come.          *)
(*                                                                         *)
(* The bounds left and right are 1 and size.                               *)
(* Registers are taken modulo Word, which is 2^32 in the switch.           *)
(* queue_size_op is 0: nothing writes it after the start.                  *)
(***************************************************************************)
EXTENDS Naturals, Sequences

CONSTANTS
  Tasks, Writers,  \* the tasks, and those that ask for EXCLUSIVE_LOCK
  Word,            \* number of values of a register
  NoTask           \* content of a slot that was never written

LOCAL IsExcl(t) == t \in Writers

RegisterState(size) ==
  [size : {size},             \* left_bound_register and right_bound_register
   empty : 0 .. size,         \* slots_two_sides_register, lo and hi
   inServer : 0 .. Word - 1,
   excl : 0 .. Word - 1,      \* shared_and_exclusive_count_register
   shared : 0 .. Word - 1,
   head : 1 .. size, tail : 1 .. size,
   slot : [1 .. size -> Tasks \cup {NoTask}]]

(* The registers as the control plane writes them.                         *)
InitialRegisters(size) ==
  [size |-> size, empty |-> size, inServer |-> 0, excl |-> 0, shared |-> 0,
   head |-> 1, tail |-> 1, slot |-> [i \in 1 .. size |-> NoTask]]

NextSlot(reg, i) == IF i = reg.size THEN 1 ELSE i + 1

(* Decode: right - left.                                                   *)
SizeOfQueue(reg) == reg.size - 1

(* What leaves the pipeline: tasks told that they have the lock, with the  *)
(* op field of the packet; packets to the server; packets that recirculate *)
Output(reg, told, server, recirc) ==
  [reg |-> reg, told |-> told, server |-> server, recirc |-> recirc]

-----------------------------------------------------------------------------
(* AcquireLock.                                                            *)

(* A mutant: the requests at the server are not counted down.             *)
push_back_uncounted(reg) ==
  [reg EXCEPT !.empty = IF @ > 0 THEN @ - 1 ELSE @]

(* A slot, unless there is none or requests wait at the server.            *)
dec_empty_slots(reg) ==
  IF reg.empty > 0 /\ reg.inServer = 0 THEN [reg EXCEPT !.empty = @ - 1]
  ELSE [reg EXCEPT !.inServer = (@ + 1) % Word]

push_back(reg) ==
  [reg EXCEPT !.empty = IF @ > 0 THEN @ - 1 ELSE @,
              !.inServer = (@ + Word - 1) % Word]

(* A mutant: a writer does not see the readers.                            *)
locked_ignores_readers(reg, t) ==
  IF IsExcl(t) THEN reg.excl > 0 ELSE reg.excl > 0 /\ (reg.shared + 1) % Word # 0

(* The lock is taken.  The result for a reader is the new reader count.    *)
locked(reg, t) ==
  IF IsExcl(t) THEN reg.excl > 0 \/ reg.shared > 0
  ELSE reg.excl > 0 /\ (reg.shared + 1) % Word # 0

(* acquire_lock_table, update_tail_table and the tables of the arrays.     *)
enqueue(reg, t) ==
  LET i == NextSlot(reg, reg.tail)
      n == [reg EXCEPT !.tail = i, !.slot[i] = t]
  IN  IF IsExcl(t) THEN [n EXCEPT !.excl = (@ + 1) % Word]
      ELSE [n EXCEPT !.shared = (@ + 1) % Word]

(* A request of a client or, with op PUSH_BACK_LOCK, one that the server   *)
(* sent back.  The latter is told with its op unchanged.                   *)
AcquireLock(reg, op, t) ==
  LET r == IF op = "ACQUIRE_LOCK" THEN dec_empty_slots(reg) ELSE push_back(reg)
      grant == IF op = "ACQUIRE_LOCK" THEN "DIRECT_GRANT_FROM_SWITCH" ELSE op
  IN  IF op = "ACQUIRE_LOCK" /\ r.inServer # 0
      THEN Output(r, {}, <<[op |-> op, task |-> t]>>, <<>>)
      ELSE Output(enqueue(r, t),
                  IF locked(r, t) THEN {} ELSE {<<t, grant>>}, <<>>, <<>>)

-----------------------------------------------------------------------------
(* ReleaseLock.                                                            *)

(* A mutant: the release that empties the ring leaves head and counters.   *)
pop_unless_last(reg, t) ==
  LET r == [reg EXCEPT !.empty = IF @ <= SizeOfQueue(reg) THEN @ + 1 ELSE @]
  IN  IF reg.empty = SizeOfQueue(reg) THEN r
      ELSE IF IsExcl(t) THEN [r EXCEPT !.head = NextSlot(reg, @), !.excl = (@ + Word - 1) % Word]
      ELSE [r EXCEPT !.head = NextSlot(reg, @), !.shared = (@ + Word - 1) % Word]

(* inc_empty_slots, update_head and update_lock.                           *)
pop(reg, t) ==
  LET r == [reg EXCEPT !.empty = IF @ <= SizeOfQueue(reg) THEN @ + 1 ELSE @,
                       !.head = NextSlot(reg, @)]
  IN  IF IsExcl(t) THEN [r EXCEPT !.excl = (@ + Word - 1) % Word]
      ELSE [r EXCEPT !.shared = (@ + Word - 1) % Word]

(* The first pass of a release (recirc_flag 0).  One that empties the ring *)
(* goes to the server; one that leaves requests behind recirculates.       *)
ReleaseLock(reg, t) ==
  LET r == pop(reg, t)
  IN  IF reg.empty = SizeOfQueue(reg)
      THEN Output(r, {}, <<[op |-> "RELEASE_LOCK", task |-> t]>>, <<>>)
      ELSE IF r.head # r.tail
      THEN Output(r, {}, <<>>,
             <<[flag |-> 1, head |-> NextSlot(r, r.head), tail |-> r.tail,
                dequeued |-> r.slot[r.head]]>>)
      ELSE Output(r, {}, <<>>, <<>>)

(* A mutant: the walk ends at the first reader.                            *)
TurnOfOne(p, t) == p.flag = 1 /\ (IsExcl(p.dequeued) \/ IsExcl(t))

(* Whether the task t at the packet's head has its turn: the next one      *)
(* after a writer, a writer after a reader, all readers in a row.          *)
Turn(p, t) ==
  \/ p.flag = 1 /\ (IsExcl(p.dequeued) \/ IsExcl(t))
  \/ p.flag = 2 /\ ~IsExcl(t)

(* A later pass.  The mirrored copy leaves with op ACQUIRE_LOCK.           *)
Recirculate(reg, p) ==
  LET t == reg.slot[p.head]
      walk == p.head # p.tail /\ ~IsExcl(t)
  IN  IF ~Turn(p, t) THEN Output(reg, {}, <<>>, <<>>)
      ELSE Output(reg, {<<t, "ACQUIRE_LOCK">>}, <<>>,
             IF walk THEN <<[p EXCEPT !.flag = 2, !.head = NextSlot(reg, @)]>> ELSE <<>>)
=============================================================================
