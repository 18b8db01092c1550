-------------------------------- MODULE BMv2 --------------------------------
(***************************************************************************)
(* The BMv2 port: one sidecar process (lib/bmv2, lib/lock.cc built with    *)
(* FISSLOCK_BMV2) in front of the software switch p4_bmv2, for one         *)
(* registered lock.  The threads of the sidecar take the lock in the       *)
(* exclusive mode through fl_bmv2_try_acquire_excl, each under a task id   *)
(* of its own, and release it with fl_bmv2_release_excl.                   *)
(*                                                                         *)
(* A thread injects a packet into veth-inject after it has left the mutex  *)
(* of the lock.  What the switch sends to the host is appended to a pcap   *)
(* file; the poll thread reads the file again from its start whenever it   *)
(* has grown, and dispatches the packets it has not counted yet.           *)
(***************************************************************************)
EXTENDS FissHost, FiniteSets

CONSTANTS
  Self,     \* LOCALHOST_ID of the sidecar
  Tasks,    \* the calls of fl_bmv2_try_acquire_excl
  Hasty     \* those of them whose deadline may pass

ASSUME SidecarConstants ==
  Self \in Hosts /\ Tasks \subseteq TaskIds /\ Hasty \subseteq Tasks

VARIABLES
  reg,   \* the registers of the switch
  meta,  \* the innet_lock of the sidecar
  app,   \* the threads
  wire,  \* packets on veth-inject, in the order of injection
  pcap,  \* packets in veth-h1_out.pcap
  poll   \* the poll thread: packets done, file size it acted on, in a scan?

vars == <<reg, meta, app, wire, pcap, poll>>

(* A thread: where it is between the native methods nativeTryAcquireExcl   *)
(* and nativeReleaseExcl, the packet it has yet to inject, and the task    *)
(* that it has yet to notify.                                              *)
Thread ==
  [pc : {"new", "wait", "hold", "done", "failed"}, out : Seq(LockPacket),
   next : TaskIds \cup {NoTask}]

TypeOK ==
  /\ reg \in Registers
  /\ meta \in InnetLock
  /\ app \in [Tasks -> Thread]
  /\ wire \in Seq(LockPacket)
  /\ pcap \in Seq(LockPacket)
  /\ poll.done \in 0 .. Len(pcap)
  /\ poll.before \in 0 .. Len(pcap)
  /\ poll.scan \in BOOLEAN

(* bmv2_net_configure counts no packet as done, and what is in the file    *)
(* already does not start a scan.                                          *)
Configured(file) == [done |-> 0, before |-> Len(file), scan |-> FALSE]

(* fl_bmv2_init and fl_bmv2_register_lock: lock_local_init makes a fresh   *)
(* innet_lock.                                                             *)
Init ==
  /\ reg = RegInit
  /\ meta = MetaInit
  /\ app = [t \in Tasks |-> [pc |-> "new", out |-> <<>>, next |-> NoTask]]
  /\ wire = <<>>
  /\ pcap = <<>>
  /\ poll = Configured(pcap)

Ready(t) == app[t].out = <<>> /\ app[t].next = NoTask

-----------------------------------------------------------------------------
(* lock_acquire_async in the BMv2 build: while another local task is the   *)
(* exclusive holder the request is queued and no packet is sent.           *)
AcquireExcl(m, t) ==
  IF m.mode = "EXCL" /\ m.holders # {} /\ <<Self, t>> \notin m.holders
    THEN [meta |-> Suspend(m, [op |-> "EXCL", host |-> Self, task |-> t]),
          send |-> <<>>, granted |-> FALSE]
    ELSE AcquireAsync(Self, m, t, "EXCL")

TryAcquire(t) ==
  LET r == AcquireExcl(meta, t)
  IN  /\ app[t].pc = "new"
      /\ app' = [app EXCEPT ![t].pc = IF r.granted THEN "hold" ELSE "wait",
                            ![t].out = r.send]
      /\ meta' = r.meta
      /\ UNCHANGED <<reg, wire, pcap, poll>>

(* lock_req_granted finds the flag set and clears it.                      *)
ReqGranted(t) ==
  /\ app[t].pc = "wait" /\ Ready(t)
  /\ t \in meta.task_granted
  /\ app' = [app EXCEPT ![t].pc = "hold"]
  /\ meta' = [meta EXCEPT !.task_granted = @ \ {t}]
  /\ UNCHANGED <<reg, wire, pcap, poll>>

(* lock_release in the BMv2 build: without a holder the head of the wait   *)
(* queue, if it is local, becomes the holder; nothing is sent.             *)
CanGrantLocally(m) ==
  m.holders = {} /\ m.wqueue # <<>> /\ Head(m.wqueue).host = Self

(* A mutant: the new holder stays in the wait queue.                       *)
LocalGrantKeeps(m) ==
  LET w == Head(m.wqueue)
  IN  AddHolder([m EXCEPT !.mode = w.op], <<Self, w.task>>)

LocalGrant(m) ==
  LET w == Head(m.wqueue)
  IN  AddHolder([m EXCEPT !.mode = w.op, !.wqueue = Tail(@)], <<Self, w.task>>)

(* A mutant: the thread of the new holder is not notified.                 *)
ReleaseExclSilent(m0, t) ==
  LET lh == <<Self, t>>
      m  == [m0 EXCEPT !.local_holders = @ \ {t},
                       !.holders = @ \ {lh},
                       !.early_release = IF lh \in m0.holders THEN @ ELSE @ \cup {lh}]
  IN  IF m0.is_agent /\ CanGrantLocally(m)
        THEN [meta |-> LocalGrant(m), send |-> <<>>, next |-> NoTask]
        ELSE LockRelease(Self, m0, t) @@ [next |-> NoTask]

ReleaseExcl(m0, t) ==
  LET lh == <<Self, t>>
      m  == [m0 EXCEPT !.local_holders = @ \ {t},
                       !.holders = @ \ {lh},
                       !.early_release = IF lh \in m0.holders THEN @ ELSE @ \cup {lh}]
  IN  IF m0.is_agent /\ CanGrantLocally(m)
        THEN [meta |-> LocalGrant(m), send |-> <<>>, next |-> Head(m.wqueue).task]
        ELSE LockRelease(Self, m0, t) @@ [next |-> NoTask]

(* fl_bmv2_release_excl.                                                   *)
Unlock(t) ==
  LET r == ReleaseExcl(meta, t)
  IN  /\ app[t].pc = "hold" /\ Ready(t)
      /\ app' = [app EXCEPT ![t] = [pc |-> "done", out |-> r.send, next |-> r.next]]
      /\ meta' = r.meta
      /\ UNCHANGED <<reg, wire, pcap, poll>>

(* The deadline passes before the flag is seen: release and give up.       *)
Timeout(t) ==
  LET r == ReleaseExcl(meta, t)
  IN  /\ app[t].pc = "wait" /\ Ready(t)
      /\ app' = [app EXCEPT ![t] = [pc |-> "failed", out |-> r.send, next |-> r.next]]
      /\ meta' = r.meta
      /\ UNCHANGED <<reg, wire, pcap, poll>>

(* What a thread does after the unlock: net_send and lock_local_notify.    *)
Inject(t) ==
  /\ app[t].out # <<>>
  /\ wire' = wire \o app[t].out
  /\ app' = [app EXCEPT ![t].out = <<>>]
  /\ UNCHANGED <<reg, meta, pcap, poll>>

Notify(t) ==
  /\ app[t].next # NoTask
  /\ meta' = LocalNotify(meta, app[t].next)
  /\ app' = [app EXCEPT ![t].next = NoTask]
  /\ UNCHANGED <<reg, wire, pcap, poll>>

-----------------------------------------------------------------------------
(* The switch.  Its tables are those of the Tofino program; only the last  *)
(* step differs: a packet without an agent goes to its machine_id, where   *)
(* the Tofino program drops it.                                            *)
Egress(p, out) ==
  IF out = {} THEN {[p EXCEPT !.agent = NoHost]} ELSE {e.pkt : e \in out}

Switch ==
  /\ wire # <<>>
  /\ LET r == Pipeline(reg, Head(wire))
     IN  /\ reg' = r.reg
         /\ pcap' = pcap \o SetToSeq(Egress(Head(wire), r.out))
  /\ wire' = Tail(wire)
  /\ UNCHANGED <<meta, app, poll>>

(* Mutants: the remembered size is past the end of the file; one new       *)
(* packet is not enough to start a scan.                                   *)
PollBeginPastEnd ==
  /\ ~poll.scan
  /\ Len(pcap) > poll.before
  /\ poll' = [poll EXCEPT !.before = Len(pcap) + 1, !.scan = TRUE]
  /\ UNCHANGED <<reg, meta, app, wire, pcap>>

PollBeginLate ==
  /\ ~poll.scan
  /\ Len(pcap) > poll.before + 1
  /\ poll' = [poll EXCEPT !.before = Len(pcap), !.scan = TRUE]
  /\ UNCHANGED <<reg, meta, app, wire, pcap>>

(* net_poll_packets: nothing to do unless the file has grown.              *)
PollBegin ==
  /\ ~poll.scan
  /\ Len(pcap) > poll.before
  /\ poll' = [poll EXCEPT !.before = Len(pcap), !.scan = TRUE]
  /\ UNCHANGED <<reg, meta, app, wire, pcap>>

(* Mutant: every scan counts from the start of the file.                   *)
DispatchAgain ==
  /\ poll.scan /\ poll.done < Len(pcap)
  /\ meta' = PacketProcess(Self, meta, pcap[poll.done + 1]).meta
  /\ poll' = [poll EXCEPT !.done = IF @ + 1 = Len(pcap) THEN 0 ELSE @ + 1,
                          !.scan = (poll.done + 1 < Len(pcap))]
  /\ UNCHANGED <<reg, app, wire, pcap>>

(* scan_pcap_file dispatches the next packet that is not counted yet.  The *)
(* value that packet_dispatch returns is not looked at: the answer that a  *)
(* handler has put into the buffer for the RX loop is dropped.             *)
Dispatch ==
  /\ poll.scan /\ poll.done < Len(pcap)
  /\ meta' = PacketProcess(Self, meta, pcap[poll.done + 1]).meta
  /\ poll' = [poll EXCEPT !.done = @ + 1]
  /\ UNCHANGED <<reg, app, wire, pcap>>

PollEnd ==
  /\ poll.scan /\ poll.done = Len(pcap)
  /\ poll' = [poll EXCEPT !.scan = FALSE]
  /\ UNCHANGED <<reg, meta, app, wire, pcap>>

(* What a thread goes on to do once it has called the API.                 *)
Run(t) == ReqGranted(t) \/ Unlock(t) \/ Inject(t) \/ Notify(t)

Poll == PollBegin \/ Dispatch \/ PollEnd

Next ==
  \/ \E t \in Tasks : TryAcquire(t) \/ Run(t)
  \/ \E t \in Hasty : Timeout(t)
  \/ Switch
  \/ Poll

Spec == Init /\ [][Next]_vars

(* Every thread, the switch and the poll thread run on.  Nobody has to     *)
(* call fl_bmv2_try_acquire_excl, and no deadline has to pass.             *)
FairSpec ==
  Spec /\ (\A t \in Tasks : WF_vars(Run(t))) /\ WF_vars(Switch) /\ WF_vars(Poll)

-----------------------------------------------------------------------------
Holds(t) == app[t].pc = "hold"
Waits(t) == app[t].pc = "wait"

(* The lock as the threads see it.                                         *)
RW == INSTANCE RWLock WITH
        Users <- Tasks,
        held <- [t \in Tasks |-> IF Holds(t) THEN "EXCL" ELSE "none"]

(* fl_bmv2_try_acquire_excl returns 1 to one thread at a time.             *)
MutualExclusion == RW!Exclusion

InTime == \A t \in Tasks : app[t].pc # "failed"

(* As long as no call has timed out, the thread that has the lock is the   *)
(* only recorded holder, the host is the agent and the switch knows that   *)
(* the lock is taken: an echoed FREE, a late ACQUIRE or a local grant      *)
(* never lets in a second thread.                                          *)
HolderAlone ==
  InTime => \A t \in Tasks : Holds(t) =>
              /\ meta.is_agent /\ meta.holders = {<<Self, t>>}
              /\ reg.free = "ACQUIRED" /\ reg.agent = Self

NetEmpty ==
  wire = <<>> /\ poll.done = Len(pcap) /\ \A t \in Tasks : Ready(t)

Queued(t) == \E w \in ToSet(meta.wqueue) : w.task = t

(* When everything has come to rest and no call has timed out, a thread    *)
(* waits for ever only because its request is in the queue of an agent     *)
(* without holder (the FREE that the switch sent back made it the agent    *)
(* again) or because a host that was not the agent sent the request back   *)
(* (fwd_back_cnt) and the answer was dropped.                              *)
StallsOnly ==
  InTime /\ NetEmpty /\ (\A t \in Tasks : ~Holds(t) /\ t \notin meta.task_granted) =>
    \A t \in Tasks : Waits(t) =>
      \/ Queued(t) /\ meta.is_agent /\ meta.holders = {} /\ reg.free = "FREE"
      \/ ~Queued(t) /\ meta.fwd_back_cnt[<<Self, t>>] > 0

(* How often the request of a thread, or its grant, exists.                *)
Copies(t) ==
  Cardinality({i \in DOMAIN meta.wqueue : meta.wqueue[i].task = t})
    + Cardinality({i \in DOMAIN wire : wire[i].task = t /\ wire[i].type = "ACQUIRE"})
    + Cardinality({i \in poll.done + 1 .. Len(pcap) :
                     pcap[i].task = t /\ pcap[i].type # "RELEASE"})
    + Cardinality({u \in Tasks : app[u].next = t})
    + Len(SelectSeq(app[t].out, LAMBDA p : p.type = "ACQUIRE"))
    + (IF t \in meta.task_granted THEN 1 ELSE 0)

(* A request never exists twice.                                           *)
RequestOnce == \A t \in Tasks : Copies(t) <= (IF Holds(t) THEN 0 ELSE 1)

Freed == \E i \in DOMAIN pcap : pcap[i].type = "FREE"

(* As long as the lock goes from thread to thread every waiting thread     *)
(* gets it.                                                                *)
ChainServed ==
  [](InTime /\ ~Freed) => \A t \in Tasks : Waits(t) ~> Holds(t)
=============================================================================
