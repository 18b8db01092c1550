------------------------------ MODULE FissLock ------------------------------
(***************************************************************************)
(* The FissLock system for one in-range lock: the switch, the hosts and    *)
(* the application tasks that acquire and release the lock, composed       *)
(* through the network.                                                    *)
(*                                                                         *)
(* Every sending thread (an application task, or an RX core of a host) has *)
(* its own FIFO TX queue to the switch.  A host's server port (20001) is   *)
(* steered to one RX core, so server packets are handled in order; its     *)
(* client port (20002) is spread over several cores by RSS, so client      *)
(* packets are handled in any order.                                       *)
(***************************************************************************)
EXTENDS FissHost, FiniteSets, Functions, Bags

CONSTANTS
  Clients,   \* the <<host, task>> pairs that use the lock
  Ops,       \* the modes the tasks ask for
  MaxReq,    \* bound: requests made by one task
  Aborts     \* TRUE: a waiting task may time out and release

ASSUME ClientConstants ==
  /\ Clients \subseteq LockHolder
  /\ Ops \subseteq LockModes
  /\ MaxReq \in Nat
  /\ Aborts \in BOOLEAN

VARIABLES
  reg,    \* the registers of the switch
  meta,   \* lock metadata of each host
  app,    \* state of each application task
  tx,     \* TX queue of each thread
  server, \* packets for a host's server port, in order
  client  \* bag of packets for a host's client port

vars == <<reg, meta, app, tx, server, client>>

RxServer(h) == <<h, "rx_server">>
RxClient(h) == <<h, "rx_client">>
Threads == Clients \cup {RxServer(h) : h \in Hosts} \cup {RxClient(h) : h \in Hosts}

Host(t) == t[1]
Task(t) == t[2]

AppState == [pc : {"idle", "wait", "hold"}, op : LockModes, req : 0 .. MaxReq]

TypeOK ==
  /\ reg \in Registers
  /\ meta \in [Hosts -> InnetLock]
  /\ app \in [Clients -> AppState]
  /\ tx \in [Threads -> Seq(LockPacket)]
  /\ server \in [Hosts -> Seq(LockPacket)]
  /\ DOMAIN client = Hosts
  /\ \A h \in Hosts : IsABag(client[h]) /\ BagToSet(client[h]) \subseteq LockPacket

Init ==
  /\ reg = RegInit
  /\ meta = [h \in Hosts |-> MetaInit]
  /\ app = [t \in Clients |-> [pc |-> "idle", op |-> "SHARED", req |-> 0]]
  /\ tx = [th \in Threads |-> <<>>]
  /\ server = [h \in Hosts |-> <<>>]
  /\ client = [h \in Hosts |-> EmptyBag]

Send(th, pkts) == tx' = [tx EXCEPT ![th] = @ \o pkts]

-----------------------------------------------------------------------------
(* Application tasks.                                                      *)

Acquire(t, op) ==
  LET r == AcquireAsync(Host(t), meta[Host(t)], Task(t), op)
  IN  /\ app[t].pc = "idle" /\ app[t].req < MaxReq
      /\ app' = [app EXCEPT ![t] = [pc |-> IF r.granted THEN "hold" ELSE "wait",
                                    op |-> op, req |-> @.req + 1]]
      /\ meta' = [meta EXCEPT ![Host(t)] = r.meta]
      /\ Send(t, r.send)
      /\ UNCHANGED <<reg, server, client>>

(* lock_req_granted returns 1 and resets the flag.                         *)
ReqGranted(t) ==
  /\ app[t].pc = "wait"
  /\ Task(t) \in meta[Host(t)].task_granted
  /\ app' = [app EXCEPT ![t].pc = "hold"]
  /\ meta' = [meta EXCEPT ![Host(t)].task_granted = @ \ {Task(t)}]
  /\ UNCHANGED <<reg, tx, server, client>>

Release(t) ==
  LET r == LockRelease(Host(t), meta[Host(t)], Task(t))
  IN  /\ \/ app[t].pc = "hold"
         \/ app[t].pc = "wait" /\ Aborts
      /\ app' = [app EXCEPT ![t].pc = "idle"]
      /\ meta' = [meta EXCEPT ![Host(t)] = r.meta]
      /\ Send(t, r.send)
      /\ UNCHANGED <<reg, server, client>>

-----------------------------------------------------------------------------
(* The switch takes the next packet of some TX queue.                      *)
Delivered(out, h, port) == {e.pkt : e \in {x \in out : x.host = h /\ x.port = port}}

Switch(th) ==
  /\ tx[th] # <<>>
  /\ LET r == Pipeline(reg, Head(tx[th]))
     IN  /\ reg' = r.reg
         /\ server' = [h \in Hosts |-> server[h] \o SetToSeq(Delivered(r.out, h, "server"))]
         /\ client' = [h \in Hosts |-> client[h] (+) SetToBag(Delivered(r.out, h, "client"))]
  /\ tx' = [tx EXCEPT ![th] = Tail(@)]
  /\ UNCHANGED <<meta, app>>

(* A host polls a packet and processes it; the reply is transmitted by     *)
(* the polling core.                                                       *)
PollServer(h) ==
  /\ server[h] # <<>>
  /\ LET r == PacketProcess(h, meta[h], Head(server[h]))
     IN  /\ meta' = [meta EXCEPT ![h] = r.meta]
         /\ Send(RxServer(h), r.send)
  /\ server' = [server EXCEPT ![h] = Tail(@)]
  /\ UNCHANGED <<reg, app, client>>

PollClient(h) ==
  \E p \in BagToSet(client[h]) :
    /\ LET r == PacketProcess(h, meta[h], p)
       IN  /\ meta' = [meta EXCEPT ![h] = r.meta]
           /\ Send(RxClient(h), r.send)
    /\ client' = [client EXCEPT ![h] = @ (-) SetToBag({p})]
    /\ UNCHANGED <<reg, app, server>>

Next ==
  \/ \E t \in Clients : (\E op \in Ops : Acquire(t, op)) \/ ReqGranted(t) \/ Release(t)
  \/ \E th \in Threads : Switch(th)
  \/ \E h \in Hosts : PollServer(h) \/ PollClient(h)

Spec == Init /\ [][Next]_vars

(* The switch and the polling loops run for ever, a task polls for its     *)
(* grant until it gets it, and a task that got the lock releases it.       *)
FairSpec ==
  /\ Spec
  /\ \A t \in Clients : WF_vars(ReqGranted(t)) /\ WF_vars(Release(t))
  /\ \A th \in Threads : WF_vars(Switch(th))
  /\ \A h \in Hosts : WF_vars(PollServer(h)) /\ WF_vars(PollClient(h))

-----------------------------------------------------------------------------
Holds(t) == app[t].pc = "hold"
Waits(t) == app[t].pc = "wait"

(* The lock as its users see it.                                           *)
RW == INSTANCE RWLock WITH
        Users <- Clients,
        held <- [t \in Clients |-> IF Holds(t) THEN app[t].op ELSE "none"]

(* The whole system (grants by the switch, by the agent, by the local fast *)
(* path of lock_acquire_async, transfers, push-backs) implements the       *)
(* reader-writer lock: a step that gives the lock to a task finds it       *)
(* compatible with all tasks that hold it at that moment.                  *)
ImplementsRWLock == RW!Spec

(* An exclusive holder is alone, whichever of the grant paths gave it and  *)
(* the other tasks the lock.                                               *)
MutualExclusion == RW!Exclusion

(* Never do two hosts act as the agent of the lock, also while a TRANSFER  *)
(* or FREE is in flight or pushed back (is_agent in lock.cc).              *)
OneAgent == \A g, h \in Hosts : meta[g].is_agent /\ meta[h].is_agent => g = h

NetEmpty ==
  /\ \A th \in Threads : tx[th] = <<>>
  /\ \A h \in Hosts : server[h] = <<>> /\ client[h] = EmptyBag

(* With no packet in flight a shared agent has counted exactly the         *)
(* notifications that the switch counted (modulo the 8 bits of the         *)
(* register): the comparison that lets FREE and TRANSFER through is exact. *)
CounterAgrees ==
  NetEmpty =>
    \A h \in Hosts :
      meta[h].is_agent /\ meta[h].mode = "SHARED" => meta[h].ncnt % CntMod = reg.ncnt

(* With no packet in flight the switch and the hosts agree on whether the  *)
(* lock is taken, on who is the agent and on the mode.                     *)
SwitchAgrees ==
  NetEmpty =>
    \A h \in Hosts :
      meta[h].is_agent <=>
        reg.free = "ACQUIRED" /\ reg.agent = h /\ reg.rw = meta[h].mode

(* With no packet in flight every task that holds the lock is in the       *)
(* agent's holder set, "The lock holder set" of innet_lock: the agent will *)
(* not free or transfer a lock that is still held.                         *)
HolderRecorded ==
  NetEmpty =>
    \A t \in Clients : Holds(t) => \E h \in Hosts : meta[h].is_agent /\ t \in meta[h].holders

(* The assertions of lock.cc (they do not stop the default build): a grant *)
(* with agent meets a host that is not the agent ("redundant agent"), a    *)
(* pushed back TRANSFER or FREE meets a free lock ("mode not free"), the   *)
(* agent never handles a release of "a free lock".                         *)
AssertionsHold ==
  \A h \in Hosts :
    /\ \A p \in BagToSet(client[h]) : p.type = "GRANT_W_AGENT" => ~meta[h].is_agent
    /\ server[h] # <<>> /\ EndsPeriod(Head(server[h]))
         => meta[h].mode = "FREE" \/ (meta[h].delayed_free /\ meta[h].holders = {})
    /\ meta[h].is_agent => meta[h].mode # "FREE"

-----------------------------------------------------------------------------
(* How often the request of a task, or the grant that answers it, exists   *)
(* in a wait queue, in a packet and in task_granted.                       *)

Mentions(t, q) == Cardinality({i \in DOMAIN q : <<q[i].host, q[i].task>> = t})

Carries(t, p) ==
  Mentions(t, p.wq)
    + IF /\ Lh(p) = t
         /\ \/ p.type \in {"GRANT_W_AGENT", "GRANT_WO_AGENT", "TRANSFER"}
            \/ p.type = "ACQUIRE" /\ ~p.granted
        THEN 1 ELSE 0

SumOf(f) == FoldFunction(+, 0, f)

CarriedBy(t, q) == SumOf([i \in DOMAIN q |-> Carries(t, q[i])])

Copies(t) ==
  SumOf([th \in Threads |-> CarriedBy(t, tx[th])])
    + SumOf([h \in Hosts |->
              CarriedBy(t, server[h]) + Mentions(t, meta[h].wqueue)
                + SumOf([p \in BagToSet(client[h]) |-> client[h][p] * Carries(t, p)])])
    + IF Task(t) \in meta[Host(t)].task_granted THEN 1 ELSE 0

(* A request is conserved: while its task waits it exists exactly once,    *)
(* as a packet, a wait-queue entry (moved between hosts by TRANSFER and    *)
(* pushed back), or a grant; afterwards no copy is left that could grant   *)
(* the lock a second time.                                                 *)
RequestConserved == \A t \in Clients : Copies(t) = IF Waits(t) THEN 1 ELSE 0

(* Nothing moves any more: no packet, no holder, no unseen grant.          *)
Quiet ==
  /\ NetEmpty
  /\ \A t \in Clients : ~Holds(t) /\ Task(t) \notin meta[Host(t)].task_granted

(* When everything has come to rest, a task still waits only because its   *)
(* request is parked in the wait queue of a host that is not the agent     *)
(* (the fwd_back_cnt limit) or of an agent that has no holder (a pushed    *)
(* back FREE): there is no third way to lose a request.                    *)
StallsOnlyParked ==
  Quiet =>
    \A t \in Clients : Waits(t) =>
      \E h \in Hosts : /\ Mentions(t, meta[h].wqueue) > 0
                       /\ meta[h].is_agent => meta[h].holders = {}

(* The exchange of packets comes to an end: requests that the switch and a *)
(* host that is not (yet, any more) the agent send back and forth, and     *)
(* TRANSFER and FREE packets that are refused and sent again, do not go    *)
(* round for ever.                                                         *)
Settles == <>[]NetEmpty

(* As long as all tasks ask for the shared mode every waiting task gets    *)
(* the lock, by the multicast of the switch, at the agent or through a     *)
(* pushed back FREE.                                                       *)
ReadersServed ==
  [](\A t \in Clients : app[t].op = "SHARED") => \A t \in Clients : Waits(t) ~> Holds(t)
=============================================================================
