------------------------------ MODULE Recovery ------------------------------
(***************************************************************************)
(* Failure recovery of one in-range lock (build option                     *)
(* FISSLOCK_FAILURE_RECOVERY): machines and the switch fail, the failure   *)
(* is reported to the living hosts, and each of them runs integrity_check  *)
(* (lib/lock.cc) against the coordinator (rpc/main.cc), a single-threaded  *)
(* daemon that answers one RPC at a time.  Packets in flight at the crash  *)
(* are lost.  Every call of a task enters check_error first, so the tasks  *)
(* stand still until their host has finished; what they do afterwards is   *)
(* not part of this model.                                                 *)
(***************************************************************************)
EXTENDS FissHost, FiniteSets, Bags

CONSTANTS
  HostNum,    \* HOST_NUM: the number of machines, and the largest host id
  Clients,    \* the <<host, task>> pairs that may use the lock
  Restore,    \* TASK_FOR_RESTORE
  MaxUsers    \* bound: tasks that hold or want the lock when the failure strikes

ASSUME RecoveryConstants ==
  /\ HostNum \in Nat
  /\ Hosts \subseteq 1 .. HostNum
  /\ Clients \subseteq Hosts \X (TaskIds \ {Restore})
  /\ IsFiniteSet(Clients)
  /\ Restore \in TaskIds
  /\ MaxUsers \in Nat

VARIABLES
  old,     \* what was known when the failure struck: metadata, living hosts
  meta,    \* lock metadata of each host
  task,    \* hold, wait, ask (in check_error), exist, abort or free (no user)
  rec,     \* integrity_check of each host: where it is, what is left to send
  lm,      \* the coordinator: lm_state, fault_signal, ready_bitmap
  reg,     \* the registers of the restarted switch
  ready,   \* *ready_signal: the switch is up again
  net      \* bag of packets: for the switch (to = NoHost) or for a host

vars == <<old, meta, task, rec, lm, reg, ready, net>>

Alive == old.alive
HostOf(t) == t[1]
Running(h) == h \in Alive /\ rec[h].pc # "crashed"

Phases == {"signal", "holders", "waiters", "check", "restore", "done", "crashed"}
TaskStates == {"hold", "wait", "ask", "exist", "abort", "free"}

TypeOK ==
  /\ old \in [alive : SUBSET Hosts, held : SUBSET Clients, meta : [Hosts -> InnetLock]]
  /\ meta \in [Hosts -> InnetLock]
  /\ task \in [Clients -> TaskStates]
  /\ rec \in [Hosts -> [pc : Phases, todo : SUBSET LockHolder, early : SUBSET Hosts,
                        restored : BOOLEAN]]
  /\ lm \in [has_agent : BOOLEAN, holders : SUBSET LockHolder,
             waiters : SUBSET LockHolder, fault_signal : SUBSET Hosts,
             ready_bitmap : SUBSET Hosts]
  /\ reg \in Registers
  /\ ready \in BOOLEAN
  /\ IsABag(net)

-----------------------------------------------------------------------------
(* The states in which a failure can strike.  The agent is a living host,  *)
(* or none: it died, or the packet that makes it one is in flight.  It has *)
(* recorded a holder, the one that made it the agent or a later one.       *)
(* Exclusive: the agent is the holder's host and knows the holder.         *)
(* Shared: the agent knows the holders whose notification arrived, and     *)
(* those it granted itself, on the fast path of lock_acquire_async, are    *)
(* not in local_holders.  Holders on dead hosts matter only if the agent   *)
(* knows them.  The queue of a living agent may hold tasks of any host;    *)
(* other tasks (`lost') wait for a request that was in flight.             *)
Queues(S) == {q \in UNION {[1 .. n -> S] : n \in 0 .. MaxUsers} : IsInjective(q)}

MetaAt(h, agent, mode, known, fast, queue, held) ==
  LET mine == {t \in held : HostOf(t) = h}
  IN  [MetaInit EXCEPT
         !.is_agent = h = agent,
         !.mode = IF h = agent THEN mode ELSE "FREE",
         !.ncnt = IF h = agent /\ mode = "SHARED" THEN Cardinality(known \ fast) ELSE 0,
         !.holders = IF h = agent THEN known ELSE {},
         !.wqueue = IF h = agent
                      THEN [i \in DOMAIN queue |->
                              [op |-> "EXCL", host |-> queue[i][1], task |-> queue[i][2]]]
                      ELSE <<>>,
         !.local_holders = {t[2] : t \in mine \ fast}]

Strikes(alive, mode, held, agent, known, fast, queue, lost) ==
  /\ mode = "EXCL" => /\ known = held /\ fast = {}
                      /\ \E t \in held : held = {t} /\ HostOf(t) = agent
  /\ agent = NoHost <=> known = {}
  /\ agent = NoHost => queue = <<>>
  /\ \A t \in held : HostOf(t) \in alive \/ t \in known
  /\ Cardinality(held \cup lost) + Len(queue) <= MaxUsers
  /\ meta = [h \in Hosts |-> MetaAt(h, agent, mode, known, fast, queue, held)]
  /\ old = [alive |-> alive, held |-> held, meta |-> meta]
  /\ task = [t \in Clients |-> CASE t \in held -> "hold"
                             [] t \in lost \cup ToSet(queue) -> "wait"
                             [] OTHER -> "free"]

Init ==
  /\ \E alive \in (SUBSET Hosts) \ {{}, Hosts}, mode \in LockModes, held \in SUBSET Clients :
     \E agent \in alive \cup {NoHost}, known \in SUBSET held :
     \E fast \in SUBSET {t \in known : HostOf(t) = agent}, queue \in Queues(Clients \ held) :
     \E lost \in SUBSET {t \in Clients \ (held \cup ToSet(queue)) : HostOf(t) \in alive} :
       Strikes(alive, mode, held, agent, known, fast, queue, lost)
  /\ rec = [h \in Hosts |-> [pc |-> "signal", todo |-> {}, early |-> {},
                             restored |-> FALSE]]
  /\ lm = [has_agent |-> FALSE, holders |-> {}, waiters |-> {},
           fault_signal |-> {}, ready_bitmap |-> {}]
  /\ reg = RegInit
  /\ ready = FALSE
  /\ net = EmptyBag

Send(p) == net' = net (+) SetToBag({[to |-> NoHost, pkt |-> p]})

-----------------------------------------------------------------------------
(* integrity_check, called by the first thread of a host that finds the    *)
(* fault signal set; the other threads wait for its mutex.                 *)

(* It sleeps at least a second at the barrier, so the tasks that wait poll *)
(* while the signal is set: they are in check_error too, and will ask      *)
(* whether they are still queued.                                          *)
IntegrityCheck(h) ==
  /\ h \in Alive /\ rec[h].pc = "signal"
  /\ task' = [t \in Clients |->
                IF HostOf(t) = h /\ task[t] = "wait" THEN "ask" ELSE task[t]]
  /\ rec' = [rec EXCEPT ![h].pc = "holders",
                        ![h].todo = {<<h, t>> : t \in meta[h].local_holders}]
  /\ UNCHANGED <<old, meta, lm, reg, ready, net>>

(* Mutants: the holder is submitted without its host; each holder replaces *)
(* the one before.                                                         *)
CollectHoldersBareTask(h) ==
  /\ rec[h].pc = "holders"
  /\ \E t \in rec[h].todo :
       /\ lm' = [lm EXCEPT !.holders = @ \cup {t[2]}]
       /\ rec' = [rec EXCEPT ![h].todo = @ \ {t}]
  /\ UNCHANGED <<old, meta, task, reg, ready, net>>

CollectHoldersReplaces(h) ==
  /\ rec[h].pc = "holders"
  /\ \E t \in rec[h].todo :
       /\ lm' = [lm EXCEPT !.holders = {t}]
       /\ rec' = [rec EXCEPT ![h].todo = @ \ {t}]
  /\ UNCHANGED <<old, meta, task, reg, ready, net>>

(* RPC_COLLECT_HOLDERS.                                                    *)
CollectHolders(h) ==
  /\ rec[h].pc = "holders"
  /\ \E t \in rec[h].todo :
       /\ lm' = [lm EXCEPT !.holders = @ \cup {t}]
       /\ rec' = [rec EXCEPT ![h].todo = @ \ {t}]
  /\ UNCHANGED <<old, meta, task, reg, ready, net>>

(* A mutant: the loop ends one host earlier.                               *)
FailedOffByOne == {i \in 0 .. HostNum - 2 : i \in Hosts /\ i \notin Alive}

(* SERVER_FAILED for i in 0 .. HOST_NUM - 1: the last host is never looked *)
(* at.                                                                     *)
Failed == {i \in 0 .. HostNum - 1 : i \in Hosts /\ i \notin Alive}

(* The loop over the wait queue steps over the entry behind an erased one. *)
EraseHost(q, i) ==
  FoldLeft(LAMBDA acc, w :
             IF w.host = i /\ ~acc.skip THEN [acc EXCEPT !.skip = TRUE]
             ELSE [q |-> Append(acc.q, w), skip |-> FALSE],
           [q |-> <<>>, skip |-> FALSE], q).q

EraseFailed(q, failed) ==
  FoldLeft(LAMBDA acc, i : IF i \in failed THEN EraseHost(acc, i) ELSE acc,
           q, [i \in 1 .. HostNum |-> i])

(* What an agent with this queue submits to the coordinator afterwards.    *)
Submits(q) == {<<w.host, w.task>> : w \in ToSet(EraseFailed(q, Failed))}

(* Erasing from an unordered_set inside a loop over it is undefined.  The  *)
(* first match is erased; then the loop follows a pointer in freed memory: *)
(* it goes on, or ends early, or the process dies.                         *)
RemoveFailed(h) ==
  LET m == meta[h]
      gone == {lh \in m.holders : lh[1] \in Failed}
      Cleaned(S) ==
        [meta EXCEPT ![h].holders = @ \ S, ![h].wqueue = EraseFailed(@, Failed)]
  IN  /\ rec[h].pc = "holders" /\ rec[h].todo = {}
      /\ \/ /\ ~m.is_agent
            /\ rec' = [rec EXCEPT ![h].pc = "waiters"]
            /\ UNCHANGED meta
         \/ /\ m.is_agent
            /\ \E S \in SUBSET gone : (gone = {} \/ S # {}) /\ meta' = Cleaned(S)
            /\ rec' = [rec EXCEPT ![h].pc = "waiters", ![h].todo = Submits(m.wqueue)]
         \/ /\ m.is_agent /\ gone # {}
            /\ rec' = [rec EXCEPT ![h].pc = "crashed"]
            /\ UNCHANGED meta
      /\ UNCHANGED <<old, task, lm, reg, ready, net>>

(* A mutant: the coordinator does not note that there is an agent.         *)
CollectWaitersNoAgent(h) ==
  /\ rec[h].pc = "waiters"
  /\ \E t \in rec[h].todo :
       /\ lm' = [lm EXCEPT !.waiters = @ \cup {t}]
       /\ rec' = [rec EXCEPT ![h].todo = @ \ {t}]
  /\ UNCHANGED <<old, meta, task, reg, ready, net>>

(* RPC_COLLECT_WAITERS: who submits a waiter is known to be an agent.      *)
CollectWaiters(h) ==
  /\ rec[h].pc = "waiters"
  /\ \E t \in rec[h].todo :
       /\ lm' = [lm EXCEPT !.has_agent = TRUE, !.waiters = @ \cup {t}]
       /\ rec' = [rec EXCEPT ![h].todo = @ \ {t}]
  /\ UNCHANGED <<old, meta, task, reg, ready, net>>

(* recovery_ready.  `ready_bitmap | 1 == fault_signal | 1' groups as       *)
(* `ready_bitmap | (1 == fault_signal) | 1' and is never zero: the reply   *)
(* says only whether the switch is ready.  `early' notes who had not       *)
(* submitted yet when the reply let the host pass.                         *)
Ready(bitmap) == ready /\ bitmap \cup {0} # {}

(* A mutant: the machine is not marked as ready.                           *)
RecoveryReadyUnmarked(h) ==
  /\ rec[h].pc = "waiters" /\ rec[h].todo = {}
  /\ lm' = [lm EXCEPT !.fault_signal = Alive]
  /\ rec' = IF Ready(lm.ready_bitmap)
              THEN [rec EXCEPT ![h].pc = "check", ![h].early = Alive \ lm.ready_bitmap]
              ELSE rec
  /\ UNCHANGED <<old, meta, task, reg, ready, net>>

RecoveryReady(h) ==
  LET bitmap == lm.ready_bitmap \cup {h}
  IN  /\ rec[h].pc = "waiters" /\ rec[h].todo = {}
      /\ lm' = [lm EXCEPT !.ready_bitmap = bitmap, !.fault_signal = Alive]
      /\ rec' = IF Ready(bitmap)
                  THEN [rec EXCEPT ![h].pc = "check", ![h].early = Alive \ bitmap]
                  ELSE rec
      /\ UNCHANGED <<old, meta, task, reg, ready, net>>

(* Mutants: one missed holder goes unnoticed; a living agent is not put on *)
(* the list of the agents whose switch state is restored.                  *)
CheckHolderAgentOffByOne(h) ==
  /\ rec[h].pc = "check" /\ meta[h].is_agent
  /\ meta' = IF Cardinality(lm.holders) > Cardinality(meta[h].holders) + 1
               THEN [meta EXCEPT ![h].holders = @ \cup lm.holders] ELSE meta
  /\ rec' = [rec EXCEPT ![h].pc = "restore"]
  /\ UNCHANGED <<old, task, lm, reg, ready, net>>

CheckHolderAgentUnlisted(h) ==
  /\ rec[h].pc = "check" /\ meta[h].is_agent
  /\ meta' = IF Cardinality(lm.holders) > Cardinality(meta[h].holders)
               THEN [meta EXCEPT ![h].holders = @ \cup lm.holders] ELSE meta
  /\ rec' = [rec EXCEPT ![h].pc = "done"]
  /\ UNCHANGED <<old, task, lm, reg, ready, net>>

(* check_holder for an agent and the second scan's use of the reply: the   *)
(* number of collected holders is compared with the number recorded.       *)
CheckHolderAgent(h) ==
  /\ rec[h].pc = "check" /\ meta[h].is_agent
  /\ meta' = IF Cardinality(lm.holders) > Cardinality(meta[h].holders)
               THEN [meta EXCEPT ![h].holders = @ \cup lm.holders] ELSE meta
  /\ rec' = [rec EXCEPT ![h].pc = "restore"]
  /\ UNCHANGED <<old, task, lm, reg, ready, net>>

(* check_holder for a host with local holders that is not the agent: it    *)
(* becomes the agent if the coordinator knows of none.                     *)
LostAgent == ~lm.has_agent /\ lm.holders # {}

(* A mutant: the lock is not marked as having an agent again.              *)
CheckHolderOtherUnmarked(h) ==
  /\ rec[h].pc = "check" /\ ~meta[h].is_agent
  /\ IF meta[h].local_holders # {} /\ LostAgent
       THEN /\ meta' = [meta EXCEPT ![h].is_agent = TRUE,
                          ![h].mode = IF Cardinality(lm.holders) > 1 THEN "SHARED" ELSE "EXCL",
                          ![h].holders = @ \cup lm.holders]
            /\ rec' = [rec EXCEPT ![h].pc = "restore", ![h].restored = TRUE]
       ELSE rec' = [rec EXCEPT ![h].pc = "done"] /\ UNCHANGED meta
  /\ UNCHANGED <<old, task, lm, reg, ready, net>>

CheckHolderOther(h) ==
  /\ rec[h].pc = "check" /\ ~meta[h].is_agent
  /\ IF meta[h].local_holders # {} /\ LostAgent
       THEN /\ lm' = [lm EXCEPT !.has_agent = TRUE]
            /\ meta' = [meta EXCEPT ![h].is_agent = TRUE,
                          ![h].mode = IF Cardinality(lm.holders) > 1 THEN "SHARED" ELSE "EXCL",
                          ![h].holders = @ \cup lm.holders]
            /\ rec' = [rec EXCEPT ![h].pc = "restore", ![h].restored = TRUE]
       ELSE rec' = [rec EXCEPT ![h].pc = "done"] /\ UNCHANGED <<lm, meta>>
  /\ UNCHANGED <<old, task, reg, ready, net>>

(* The agent sends an ACQUIRE to the restarted switch; then the fault      *)
(* signal is cleared.                                                      *)
RestoreSwitch(h) ==
  /\ rec[h].pc = "restore"
  /\ Send(Post("ACQUIRE", meta[h].mode, "SHARED", h, Restore, <<>>, 0, h))
  /\ rec' = [rec EXCEPT ![h].pc = "done"]
  /\ UNCHANGED <<old, meta, task, lm, reg, ready>>

(* The switch has been restarted and its controller sets the flag.         *)
SwitchReady ==
  /\ ~ready /\ ready' = TRUE
  /\ UNCHANGED <<old, meta, task, rec, lm, reg, net>>

-----------------------------------------------------------------------------
(* A mutant: the bitmaps are not compared, as in recovery_ready.           *)
AllReadyLoose == lm.fault_signal # {}

(* check_waiter: asked again and again while the answer is 2.              *)
AllReady == lm.fault_signal # {} /\ lm.ready_bitmap = lm.fault_signal

(* Its answer 1: an agent has submitted the request with its wait queue.   *)
WaiterExists(t) == lm.has_agent /\ t \in lm.waiters

CheckWaiter(t) ==
  /\ task[t] = "ask" /\ rec[HostOf(t)].pc = "done" /\ AllReady
  /\ task' = [task EXCEPT ![t] = IF WaiterExists(t) THEN "exist" ELSE "abort"]
  /\ UNCHANGED <<old, meta, rec, lm, reg, ready, net>>

-----------------------------------------------------------------------------
(* The switch and the packet handlers.  Packets for a dead host vanish,    *)
(* and the grant that answers a restoring ACQUIRE is ignored.              *)
Switch ==
  \E e \in BagToSet(net) :
    LET r == Pipeline(reg, e.pkt)
    IN  /\ e.to = NoHost
        /\ reg' = r.reg
        /\ net' = (net (-) SetToBag({e}))
                    (+) SetToBag({[to |-> o.host, pkt |-> o.pkt] :
                                    o \in {x \in r.out : Running(x.host)}})
        /\ UNCHANGED <<old, meta, task, rec, lm, ready>>

Process(h, p) ==
  IF p.type = "GRANT_W_AGENT" /\ p.task = Restore THEN Result(meta[h], <<>>)
  ELSE PacketProcess(h, meta[h], p)

Deliver ==
  \E e \in BagToSet(net) :
    LET r == Process(e.to, e.pkt)
    IN  /\ e.to # NoHost
        /\ meta' = [meta EXCEPT ![e.to] = r.meta]
        /\ net' = (net (-) SetToBag({e}))
                    (+) SetToBag({[to |-> NoHost, pkt |-> p] : p \in ToSet(r.send)})
        /\ UNCHANGED <<old, task, rec, lm, reg, ready>>

Recover ==
  \/ SwitchReady
  \/ \E h \in Hosts :
       \/ IntegrityCheck(h) \/ CollectHolders(h) \/ RemoveFailed(h)
       \/ CollectWaiters(h) \/ RecoveryReady(h)
       \/ CheckHolderAgent(h) \/ CheckHolderOther(h) \/ RestoreSwitch(h)

Next ==
  \/ Recover
  \/ \E t \in Clients : CheckWaiter(t)
  \/ Switch \/ Deliver

Spec == Init /\ [][Next]_vars

(* Every living host has a thread that calls the library, the coordinator  *)
(* answers, the switch is restarted, and check_error retries for ever.     *)
FairSpec == Spec /\ WF_vars(Recover) /\ WF_vars(\E t \in Clients : CheckWaiter(t))

-----------------------------------------------------------------------------
(* The agent of a lock is restored by one host at most, however the        *)
(* requests of the hosts interleave ("prevent subsequent requesters from   *)
(* restoring the agent again", rpc/main.cc).                               *)
RestoredOnce ==
  \A g, h \in Hosts : rec[g].restored /\ rec[h].restored => g = h

QueuedAtAgent(t) ==
  \E g \in Alive : old.meta[g].is_agent
                     /\ \E w \in ToSet(old.meta[g].wqueue) : <<w.host, w.task>> = t

(* The answer to a waiting task is exact: it is aborted if and only if no  *)
(* living agent has it in its wait queue.  check_waiter answers only when  *)
(* all living machines have submitted, although hosts pass the barrier     *)
(* before.                                                                 *)
VerdictExact ==
  \A t \in Clients :
    /\ task[t] = "exist" => QueuedAtAgent(t)
    /\ task[t] = "abort" => ~QueuedAtAgent(t)

(* A second agent next to a living one is restored only if that agent had  *)
(* not submitted its waiters when the other host passed the barrier, or    *)
(* had no waiter to submit: only RPC_COLLECT_WAITERS tells the coordinator *)
(* that there is an agent.                                                 *)
SecondAgentOnly ==
  \A g, h \in Alive :
    rec[h].restored /\ old.meta[g].is_agent =>
      g \in rec[h].early \/ Submits(old.meta[g].wqueue) = {}

(* A restored agent knows only tasks that held the lock, and all of them   *)
(* but those of hosts that had not submitted, and those granted on the     *)
(* fast path of a living agent, which are not in local_holders.            *)
RestoredSound ==
  \A h \in Alive :
    rec[h].restored /\ rec[h].pc = "restore" =>
      /\ meta[h].holders \subseteq old.held
      /\ \A t \in old.held :
           /\ task[t] = "hold" /\ HostOf(t) \in Alive \ rec[h].early
           /\ t[2] \in old.meta[HostOf(t)].local_holders
           => t \in meta[h].holders

(* A living agent learns of the holders whose notification was lost: it    *)
(* misses one only if it passed the barrier before the others, or if a     *)
(* holder that nobody collected (granted on the fast path, or of a failed  *)
(* host) makes up for it in the comparison of the two numbers.             *)
MissedOnly ==
  \A g \in Alive :
    /\ old.meta[g].is_agent /\ rec[g].pc = "restore" /\ rec[g].early = {}
    /\ meta[g].holders \subseteq lm.holders
    => \A t \in old.held :
         HostOf(t) \in Alive /\ task[t] = "hold" => t \in meta[g].holders

(* After the scan the queue of a living agent keeps a waiter of a failed   *)
(* host only if it is the last host (HOST_NUM), or if the waiter stood     *)
(* behind another one of the same host.                                    *)
LeftInQueue ==
  \A g \in Alive :
    LET q == old.meta[g].wqueue
    IN  rec[g].pc \in {"waiters", "check", "restore"} =>
          \A w \in ToSet(meta[g].wqueue) :
            \/ w.host \in Alive \cup {HostNum}
            \/ \E i, j \in DOMAIN q :
                 /\ i < j /\ q[j] = w /\ q[i].host = w.host
                 /\ \A k \in i .. j : q[k].host \notin Alive

Recovered == (\A h \in Alive : rec[h].pc = "done") /\ net = EmptyBag

OnlyAgent(g) == {h \in Alive : meta[h].is_agent} = {g}

(* When all living hosts have finished and there is one agent, the         *)
(* restarted switch knows it and the mode of the lock: "restore the mid    *)
(* and mode by sending an acquire packet from each agent".                 *)
SwitchKnowsAgent ==
  Recovered =>
    \A g \in Alive : OnlyAgent(g) =>
      reg.free = "ACQUIRED" /\ reg.agent = g /\ reg.rw = meta[g].mode

(* The barrier: "wait until other machines and the switch are also ready"; *)
(* whoever passes it finds that "all machines have submitted their metas". *)
BarrierHolds == \A h \in Alive : rec[h].early = {}

(* Unless a process dies in the recovery, every living host finishes it    *)
(* and every task that asked gets an answer: the loops at the barrier and  *)
(* in check_error do not wait for each other.                              *)
RecoveryEnds ==
  <>[](\/ \E h \in Alive : rec[h].pc = "crashed"
       \/ /\ \A h \in Alive : rec[h].pc = "done"
          /\ \A t \in Clients : task[t] # "ask")
=============================================================================
