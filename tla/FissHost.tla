------------------------------ MODULE FissHost ------------------------------
(***************************************************************************)
(* The host library of FissLock for one in-range lock (lib/lock.cc): the   *)
(* metadata innet_lock, and for each packet handler and API call what it   *)
(* does to the metadata and which packets it sends.  Every handler runs    *)
(* under the metadata's mutex; what it sends after the unlock is in its    *)
(* `send' field and reaches the switch later.                              *)
(***************************************************************************)
EXTENDS FissSwitch, SequencesExt

CONSTANT FwdBackMax   \* 2 in the code: fwd_back_cnt[lh] > 2 suspends

ASSUME HostConstants == FwdBackMax \in Nat

HostModes == LockModes \cup {"FREE"}

InnetLock ==
  [mode : HostModes, is_agent : BOOLEAN, ncnt : Nat,
   holders : SUBSET LockHolder, wqueue : Seq(Wqe),
   task_granted : SUBSET TaskIds, delayed_free : BOOLEAN,
   early_release : SUBSET LockHolder,
   fwd_back_cnt : [LockHolder -> 0 .. FwdBackMax + 1],
   local_holders : SUBSET TaskIds]

MetaInit ==
  [mode |-> "FREE", is_agent |-> FALSE, ncnt |-> 0, holders |-> {},
   wqueue |-> <<>>, task_granted |-> {}, delayed_free |-> FALSE,
   early_release |-> {}, fwd_back_cnt |-> [lh \in LockHolder |-> 0],
   local_holders |-> {}]

(* send_post_lock_generic.                                                 *)
Post(type, mode, old, host, task, wq, ncnt, dest) ==
  [type |-> type, mode |-> mode, old_mode |-> old, granted |-> FALSE,
   transferred |-> FALSE, machine_id |-> host, task |-> task,
   agent |-> dest, wq |-> wq, ncnt |-> ncnt]

(* MODE_OLD_MODE keeps one bit: FREE (0) and LOCK_SHARED (2) look alike.   *)
OldModeBit(mode) == IF mode = "EXCL" THEN "EXCL" ELSE "SHARED"

Result(m, send) == [meta |-> m, send |-> send]

Lh(p) == <<p.machine_id, p.task>>
WqeOf(p) == [op |-> p.mode, host |-> p.machine_id, task |-> p.task]

AddHolder(m, lh) == [m EXCEPT !.holders = @ \cup {lh}]
Suspend(m, w) == [m EXCEPT !.wqueue = Append(@, w)]

LocalNotify(m, task) ==
  [m EXCEPT !.local_holders = @ \cup {task}, !.task_granted = @ \cup {task}]

(* A mutant: the exclusive entries of a transferred queue are dropped.     *)
DigestWqDropsExcl(m, wq) ==
  LET shared == SelectSeq(wq, LAMBDA w : w.op = "SHARED")
      grant(w) == Post("GRANT_WO_AGENT", "SHARED", "SHARED", w.host, w.task,
                       <<>>, 0, w.host)
  IN  Result([m EXCEPT !.holders = @ \cup {<<w.host, w.task>> : w \in ToSet(shared)}],
             [i \in DOMAIN shared |-> grant(shared[i])])

(* lock_digest_wq: shared waiters become holders and get a grant, the      *)
(* exclusive ones go (back) to the wait queue.                             *)
DigestWq(m, wq) ==
  LET shared == SelectSeq(wq, LAMBDA w : w.op = "SHARED")
      excl   == SelectSeq(wq, LAMBDA w : w.op = "EXCL")
      grant(w) == Post("GRANT_WO_AGENT", "SHARED", "SHARED", w.host, w.task,
                       <<>>, 0, w.host)
  IN  Result([m EXCEPT !.holders = @ \cup {<<w.host, w.task>> : w \in ToSet(shared)},
                       !.wqueue = @ \o excl],
             [i \in DOMAIN shared |-> grant(shared[i])])

(* Mutants: the end of the agent period forgets one of the resets.         *)
NotAgentKeepsAgent(m) == [m EXCEPT !.mode = "FREE", !.ncnt = 0, !.wqueue = <<>>]
NotAgentKeepsMode(m) == [m EXCEPT !.is_agent = FALSE, !.ncnt = 0, !.wqueue = <<>>]

NotAgent(m) ==
  [m EXCEPT !.is_agent = FALSE, !.mode = "FREE", !.ncnt = 0, !.wqueue = <<>>]

(* The agent period ends: no holder is left.  lock_free_helper and         *)
(* lock_transfer_helper, and the same code inlined in lock_release.        *)
FreeOrTransfer(h, m) ==
  LET nc  == m.ncnt % CntMod
      old == OldModeBit(m.mode)
      pkt == IF m.wqueue = <<>>
               THEN Post("FREE", "SHARED", old, h, NoTask, <<>>, nc, h)
               ELSE Post("TRANSFER", Head(m.wqueue).op, old,
                         Head(m.wqueue).host, Head(m.wqueue).task,
                         Tail(m.wqueue), nc, h)
  IN  IF m.holders = {} THEN Result(NotAgent(m), <<pkt>>) ELSE Result(m, <<>>)

-----------------------------------------------------------------------------
(* lock_packet_process, one operator for each packet type.                 *)

(* A mutant: a request is sent back to the switch any number of times.     *)
OnAcquireForwards(m0, p) ==
  LET shared == p.mode = "SHARED"
      m  == IF shared /\ p.granted THEN [m0 EXCEPT !.ncnt = @ + 1] ELSE m0
      lh == Lh(p)
  IN  CASE lh \in m.early_release ->
             Result([m EXCEPT !.early_release = @ \ {lh}], <<>>)
        [] lh \notin m.early_release /\ p.granted /\ (m.is_agent \/ shared) ->
             Result(AddHolder(m, lh), <<>>)
        [] lh \notin m.early_release /\ m.is_agent /\ ~p.granted ->
             Result(Suspend(m, WqeOf(p)), <<>>)
        [] OTHER -> Result([m EXCEPT !.fwd_back_cnt[lh] = @ + 1], <<p>>)

(* A shared notification is counted whether or not this host is (still,    *)
(* already) the agent.                                                     *)
OnAcquire(m0, p) ==
  LET shared == p.mode = "SHARED"
      m  == IF shared /\ p.granted THEN [m0 EXCEPT !.ncnt = @ + 1] ELSE m0
      lh == Lh(p)
  IN  CASE lh \in m.early_release ->
             Result([m EXCEPT !.early_release = @ \ {lh}], <<>>)
        [] lh \notin m.early_release /\ p.granted /\ (m.is_agent \/ shared) ->
             Result(AddHolder(m, lh), <<>>)
        [] lh \notin m.early_release /\ m.is_agent /\ ~p.granted ->
             Result(Suspend(m, WqeOf(p)), <<>>)
        [] /\ lh \notin m.early_release /\ ~m.is_agent /\ ~shared
           /\ m.fwd_back_cnt[lh] > FwdBackMax ->
             Result([Suspend(m, WqeOf(p)) EXCEPT !.fwd_back_cnt[lh] = 0], <<>>)
        [] OTHER ->
             Result(IF shared THEN m
                    ELSE [m EXCEPT !.fwd_back_cnt[lh] = @ + 1], <<p>>)

OnGrantWithAgent(h, m0, p) ==
  LET m == [AddHolder(m0, <<h, p.task>>) EXCEPT
              !.is_agent = TRUE, !.mode = p.mode,
              !.ncnt = CASE p.transferred -> @
                         [] ~p.transferred /\ p.mode = "SHARED" -> @ + 1
                         [] OTHER -> 0]
      r == CASE ~p.transferred -> Result(m, <<>>)
             [] p.transferred /\ p.mode = "SHARED" -> DigestWq(m, p.wq)
             [] OTHER -> Result([m EXCEPT !.wqueue = @ \o p.wq], <<>>)
  IN  [r EXCEPT !.meta = LocalNotify(@, p.task)]

OnGrantWithoutAgent(m, p) == Result(LocalNotify(m, p.task), <<>>)

(* The first wait-queue entry of the releasing task is erased.             *)
EraseWaiter(m, lh) ==
  [m EXCEPT !.wqueue = RemoveFirstMatch(@, LAMBDA w : <<w.host, w.task>> = lh)]

OnRelease(h, m, p) ==
  LET lh == Lh(p)
      queued == \E w \in ToSet(m.wqueue) : <<w.host, w.task>> = lh
  IN  CASE lh \notin m.holders /\ queued -> Result(EraseWaiter(m, lh), <<>>)
        [] lh \notin m.holders /\ ~queued ->
             FreeOrTransfer(h, [m EXCEPT !.early_release = @ \cup {lh}])
        [] lh \in m.holders /\ ~m.is_agent ->
             Result([m EXCEPT !.holders = @ \ {lh}, !.delayed_free = TRUE], <<>>)
        [] OTHER -> FreeOrTransfer(h, [m EXCEPT !.holders = @ \ {lh}])

(* Mutants: the counter of the packet replaces the one of the host, which  *)
(* has counted the late notifications; the head waiter is not put back; a  *)
(* delayed free is sent again as it came.                                  *)
OnPushBackOverwrites(m, p) ==
  IF m.delayed_free /\ m.holders = {}
    THEN Result([m EXCEPT !.ncnt = 0, !.delayed_free = FALSE],
                <<[p EXCEPT !.ncnt = (@ + m.ncnt) % CntMod]>>)
    ELSE Result([m EXCEPT !.mode = p.old_mode, !.is_agent = TRUE, !.ncnt = p.ncnt,
                          !.wqueue = IF p.type = "TRANSFER"
                                       THEN @ \o <<WqeOf(p)>> \o p.wq ELSE @],
                <<>>)

OnPushBackDropsHead(m, p) ==
  IF m.delayed_free /\ m.holders = {}
    THEN Result([m EXCEPT !.ncnt = 0, !.delayed_free = FALSE],
                <<[p EXCEPT !.ncnt = (@ + m.ncnt) % CntMod]>>)
    ELSE Result([m EXCEPT !.mode = p.old_mode, !.is_agent = TRUE, !.ncnt = @ + p.ncnt,
                          !.wqueue = @ \o p.wq],
                <<>>)

OnPushBackUnchanged(m, p) ==
  IF m.delayed_free /\ m.holders = {}
    THEN Result(m, <<p>>)
    ELSE Result([m EXCEPT !.mode = p.old_mode, !.is_agent = TRUE, !.ncnt = @ + p.ncnt,
                          !.wqueue = IF p.type = "TRANSFER"
                                       THEN @ \o <<WqeOf(p)>> \o p.wq ELSE @],
                <<>>)

(* A TRANSFER or FREE that the switch pushed back.                         *)
OnPushBack(m, p) ==
  IF m.delayed_free /\ m.holders = {}
    THEN Result([m EXCEPT !.ncnt = 0, !.delayed_free = FALSE],
                <<[p EXCEPT !.ncnt = (@ + m.ncnt) % CntMod]>>)
    ELSE Result([m EXCEPT !.mode = p.old_mode, !.is_agent = TRUE,
                          !.ncnt = @ + p.ncnt,
                          !.wqueue = IF p.type = "TRANSFER"
                                       THEN @ \o <<WqeOf(p)>> \o p.wq ELSE @],
                <<>>)

PacketProcess(h, m, p) ==
  CASE p.type = "ACQUIRE" -> OnAcquire(m, p)
    [] p.type = "GRANT_W_AGENT" -> OnGrantWithAgent(h, m, p)
    [] p.type = "GRANT_WO_AGENT" -> OnGrantWithoutAgent(m, p)
    [] p.type = "RELEASE" -> OnRelease(h, m, p)
    [] p.type \in {"TRANSFER", "FREE"} -> OnPushBack(m, p)

-----------------------------------------------------------------------------
(* A mutant: the fast path does not look at the mode of the lock.          *)
AcquireAsyncAnyMode(h, m, task, op) ==
  CASE m.is_agent /\ op = "SHARED" ->
         [meta |-> AddHolder(m, <<h, task>>), send |-> <<>>, granted |-> TRUE]
    [] m.is_agent /\ op # "SHARED" ->
         [meta |-> Suspend(m, [op |-> op, host |-> h, task |-> task]),
          send |-> <<>>, granted |-> FALSE]
    [] OTHER ->
         [meta |-> m, granted |-> FALSE,
          send |-> <<Post("ACQUIRE", op, "SHARED", h, task, <<>>, 0, h)>>]

(* lock_acquire_async: `granted' is the return value 0.                    *)
AcquireAsync(h, m, task, op) ==
  CASE m.is_agent /\ m.mode = "SHARED" /\ op = "SHARED" ->
         [meta |-> AddHolder(m, <<h, task>>), send |-> <<>>, granted |-> TRUE]
    [] m.is_agent /\ ~(m.mode = "SHARED" /\ op = "SHARED") ->
         [meta |-> Suspend(m, [op |-> op, host |-> h, task |-> task]),
          send |-> <<>>, granted |-> FALSE]
    [] OTHER ->
         [meta |-> m, granted |-> FALSE,
          send |-> <<Post("ACQUIRE", op, "SHARED", h, task, <<>>, 0, h)>>]

LockRelease(h, m0, task) ==
  LET m  == [m0 EXCEPT !.local_holders = @ \ {task}]
      lh == <<h, task>>
  IN  CASE ~m.is_agent ->
             Result(m, <<Post("RELEASE", "SHARED", "SHARED", h, task, <<>>, 0, h)>>)
        [] m.is_agent /\ lh \notin m.holders ->
             FreeOrTransfer(h, [m EXCEPT !.early_release = @ \cup {lh}])
        [] OTHER -> FreeOrTransfer(h, [m EXCEPT !.holders = @ \ {lh}])
=============================================================================
