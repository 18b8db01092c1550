------------------------------ MODULE NetLock ------------------------------
(***************************************************************************)
(* The NetLock baseline: clients, switch and lock server, for one lock.    *)
(* The same client library and server are built as two systems:            *)
(*                                                                         *)
(*   netlock  the switch keeps the queues of the locks in its table; other *)
(*            locks are forwarded to the server, their primary             *)
(*   srvlock  (central_srv_switch) every request goes to the server        *)
(*                                                                         *)
(* Init chooses the system and how the tasks behave.                       *)
(***************************************************************************)
EXTENDS Integers, Sequences, SequencesExt, FiniteSets, FiniteSetsExt

CONSTANTS
  Readers, Writers,  \* the tasks that ask for LOCK_SHARED and LOCK_EXCL
  Word,              \* values of a switch register, 2^32 in the switch
  NoTask,
  Systems            \* the systems of which Init chooses one

Tasks == Readers \cup Writers

(* inSwitch: check_lock_exist_table knows the lock.  spread: the packets   *)
(* to the server have different source ports and meet different RX cores.  *)
(* aborts: when a waiting task gives up (txnbench's timeout): never, after *)
(* a grant that it did not hear, when its request has reached the server   *)
(* (the timeout is longer than a packet's way), or at any time.  reqs      *)
(* bounds the requests of a task.  size: the slots of the lock in the      *)
(* switch, len_in_switch at the server.  users: the tasks that use it.     *)
System ==
  [inSwitch : BOOLEAN, size : Nat \ {0}, spread : BOOLEAN,
   aborts : {"never", "ignored", "arrived", "any"}, reqs : {1, 2}, users : SUBSET Tasks]

ASSUME NetLockConstants ==
  /\ Readers \cap Writers = {} /\ NoTask \notin Tasks
  /\ Word \in Nat \ {0}
  /\ Systems \subseteq System

VARIABLES
  sys,         \* the system
  reg,         \* registers of the switch
  srv,         \* the server's queue of the lock
  app,         \* the tasks: pc and number of requests made
  wait_flag,   \* LockEntry::wait_flag of each task
  ignored,     \* history: a grant of this request was not dispatched
  tx,          \* packets of each task on their way to the switch
  recirc,      \* packets that recirculate in the switch
  to_server,   \* packets from the switch to the server
  push_backs,  \* PUSH_BACK_LOCK packets from the server to the switch
  inbox        \* op fields of the grants on their way to each task

vars == <<sys, reg, srv, app, wait_flag, ignored, tx, recirc, to_server,
          push_backs, inbox>>

Server == INSTANCE NetLockServer
Switch == INSTANCE NetLockSwitch

Ops == {"ACQUIRE_LOCK", "RELEASE_LOCK"}
Grants == {"DIRECT_GRANT_FROM_SWITCH", "GRANT_LOCK_FROM_SERVER", "PUSH_BACK_LOCK",
           "ACQUIRE_LOCK"}
Recirculating ==
  [flag : {1, 2}, head : 1 .. sys.size, tail : 1 .. sys.size, dequeued : Tasks \cup {NoTask}]

(* A reader counter below zero or a slot count outside the ring would be a *)
(* value the server and the switch were not written for.                   *)
TypeOK ==
  /\ sys \in Systems
  /\ reg \in Switch!RegisterState(sys.size)
  /\ srv \in Server!ServerState /\ srv.shared >= 0
  /\ app \in [Tasks -> [pc : {"idle", "wait", "hold"}, req : 0 .. 2]]
  /\ wait_flag \in [Tasks -> BOOLEAN] /\ ignored \in [Tasks -> BOOLEAN]
  /\ tx \in [Tasks -> Seq(Ops)]
  /\ recirc \in Seq(Recirculating)
  /\ to_server \in Seq([op : Ops, task : Tasks])
  /\ push_backs \in Seq(Tasks)
  /\ inbox \in [Tasks -> Seq(Grants)]

Init ==
  /\ sys \in Systems
  /\ reg = Switch!InitialRegisters(sys.size)
  /\ srv = Server!init_lock_queue
  /\ app = [t \in Tasks |-> [pc |-> "idle", req |-> 0]]
  /\ wait_flag = [t \in Tasks |-> FALSE]
  /\ ignored = [t \in Tasks |-> FALSE]
  /\ tx = [t \in Tasks |-> <<>>]
  /\ recirc = <<>> /\ to_server = <<>> /\ push_backs = <<>>
  /\ inbox = [t \in Tasks |-> <<>>]

-----------------------------------------------------------------------------
(* The client library: lock_acquire_async, lock_req_granted, lock_release  *)
(* and the RX loop.                                                        *)

(* net_send.                                                               *)
Send(t, op) == tx' = [tx EXCEPT ![t] = Append(@, op)]

(* add_to_wait_queue inserts a FALSE flag, and keeps one that is there.    *)
Acquire(t) ==
  /\ t \in sys.users /\ app[t].pc = "idle" /\ app[t].req < sys.reqs
  /\ app' = [app EXCEPT ![t] = [pc |-> "wait", req |-> @.req + 1]]
  /\ ignored' = [ignored EXCEPT ![t] = FALSE]
  /\ Send(t, "ACQUIRE_LOCK")
  /\ UNCHANGED <<sys, reg, srv, wait_flag, recirc, to_server, push_backs, inbox>>

(* A mutant: the flag is not reset.                                        *)
ReqGrantedKeepsFlag(t) ==
  /\ app[t].pc = "wait" /\ wait_flag[t]
  /\ app' = [app EXCEPT ![t].pc = "hold"]
  /\ UNCHANGED <<sys, reg, srv, wait_flag, ignored, tx, recirc, to_server,
                 push_backs, inbox>>

ReqGranted(t) ==
  /\ app[t].pc = "wait" /\ wait_flag[t]
  /\ app' = [app EXCEPT ![t].pc = "hold"]
  /\ wait_flag' = [wait_flag EXCEPT ![t] = FALSE]
  /\ UNCHANGED <<sys, reg, srv, ignored, tx, recirc, to_server, push_backs, inbox>>

Release(t) ==
  /\ app[t].pc = "hold"
  /\ app' = [app EXCEPT ![t].pc = "idle"]
  /\ Send(t, "RELEASE_LOCK")
  /\ UNCHANGED <<sys, reg, srv, wait_flag, ignored, recirc, to_server,
                 push_backs, inbox>>

MayAbort(t) ==
  \/ sys.aborts = "any"
  \/ sys.aborts = "ignored" /\ ignored[t]
  \/ sys.aborts = "arrived" /\ tx[t] = <<>>
                            /\ \A i \in 1 .. Len(to_server) : to_server[i].task # t

Abort(t) ==
  /\ app[t].pc = "wait" /\ MayAbort(t)
  /\ app' = [app EXCEPT ![t].pc = "idle"]
  /\ Send(t, "RELEASE_LOCK")
  /\ UNCHANGED <<sys, reg, srv, wait_flag, ignored, recirc, to_server,
                 push_backs, inbox>>

(* packet_dispatch hands two ops to lock_packet_dispatch, which signals    *)
(* the task; the others are dropped.  The order in which the RX cores do   *)
(* this does not matter: a flag is set or not.                             *)
Dispatched(op) == op \in {"GRANT_LOCK_FROM_SERVER", "DIRECT_GRANT_FROM_SWITCH"}

(* coroutine_wait_queue_signal.                                            *)
Signal(t) == wait_flag' = [wait_flag EXCEPT ![t] = TRUE]

PollClient(t) ==
  /\ inbox[t] # <<>>
  /\ inbox' = [inbox EXCEPT ![t] = Tail(@)]
  /\ IF Dispatched(Head(inbox[t])) THEN Signal(t) ELSE UNCHANGED wait_flag
  /\ ignored' = [ignored EXCEPT ![t] = @ \/ ~Dispatched(Head(inbox[t]))]
  /\ UNCHANGED <<sys, reg, srv, app, tx, recirc, to_server, push_backs>>

-----------------------------------------------------------------------------
(* The switch.                                                             *)

Tell(told) ==
  inbox' = [t \in Tasks |->
              inbox[t] \o SetToSeq({g[2] : g \in {h \in told : h[1] = t}})]

(* The packets that leave a pass through the pipeline.                     *)
Emit(out, rest) ==
  /\ reg' = out.reg
  /\ Tell(out.told)
  /\ to_server' = to_server \o out.server
  /\ recirc' = rest \o out.recirc

(* A packet of a client.  Without an entry in check_lock_exist_table, and  *)
(* in central_srv_switch, it is forwarded to the primary.                  *)
SwitchClient(t) ==
  /\ tx[t] # <<>>
  /\ tx' = [tx EXCEPT ![t] = Tail(@)]
  /\ LET op == Head(tx[t])
     IN  \/ /\ ~sys.inSwitch
            /\ to_server' = Append(to_server, [op |-> op, task |-> t])
            /\ UNCHANGED <<reg, recirc, inbox>>
         \/ /\ sys.inSwitch /\ op = "ACQUIRE_LOCK"
            /\ Emit(Switch!AcquireLock(reg, op, t), recirc)
         \/ /\ sys.inSwitch /\ op = "RELEASE_LOCK"
            /\ Emit(Switch!ReleaseLock(reg, t), recirc)
  /\ UNCHANGED <<sys, srv, app, wait_flag, ignored, push_backs>>

SwitchPushBack ==
  /\ push_backs # <<>>
  /\ push_backs' = Tail(push_backs)
  /\ Emit(Switch!AcquireLock(reg, "PUSH_BACK_LOCK", Head(push_backs)), recirc)
  /\ UNCHANGED <<sys, srv, app, wait_flag, ignored, tx>>

SwitchRecirculate ==
  /\ recirc # <<>>
  /\ Emit(Switch!Recirculate(reg, Head(recirc)), Tail(recirc))
  /\ UNCHANGED <<sys, srv, app, wait_flag, ignored, tx, push_backs>>

-----------------------------------------------------------------------------
(* The server: rx_loop, process_primary_backup, process_secondary_backup.  *)

PrimaryBackup(p) ==
  LET r == IF p.op = "ACQUIRE_LOCK" THEN Server!process_primary_acquire(srv, p.task)
           ELSE Server!process_primary_release(srv, p.task)
  IN  /\ srv' = r.srv
      /\ Tell({<<t, "GRANT_LOCK_FROM_SERVER">> : t \in r.granted})
      /\ UNCHANGED push_backs

SecondaryBackup(p) ==
  /\ \/ /\ p.op = "ACQUIRE_LOCK"
        /\ srv' = Server!process_secondary_acquire(srv, p.task)
        /\ UNCHANGED push_backs
     \/ /\ p.op = "RELEASE_LOCK"
        /\ LET r == Server!process_secondary_release(srv, sys.size)
           IN  srv' = r.srv /\ push_backs' = push_backs \o r.pushed
  /\ UNCHANGED inbox

(* Packets of one lock have one source port, hence one RX core and stay in *)
(* order, unless the switch numbers the source ports (central_srv_switch). *)
PollServer(i) ==
  /\ i \in 1 .. Len(to_server)
  /\ sys.spread \/ i = 1
  /\ to_server' = RemoveAt(to_server, i)
  /\ \/ sys.inSwitch /\ SecondaryBackup(to_server[i])
     \/ ~sys.inSwitch /\ PrimaryBackup(to_server[i])
  /\ UNCHANGED <<sys, reg, app, wait_flag, ignored, tx, recirc>>

(* What happens without a decision of a task.                              *)
Progress ==
  \/ \E t \in Tasks : ReqGranted(t) \/ Release(t) \/ PollClient(t) \/ SwitchClient(t)
  \/ SwitchPushBack \/ SwitchRecirculate
  \/ \E i \in 1 .. Len(to_server) : PollServer(i)

Next == Progress \/ \E t \in Tasks : Acquire(t) \/ Abort(t)

Spec == Init /\ [][Next]_vars

(* The RX loops and the pipeline run for ever; a task polls its flag until *)
(* it is set and releases the lock it got.  Tasks make finitely many       *)
(* requests, so fairness of all these steps together is enough.            *)
FairSpec == Spec /\ WF_vars(Progress)

-----------------------------------------------------------------------------
Mode(t) == IF t \in Writers THEN "EXCL" ELSE "SHARED"

RW == INSTANCE RWLock WITH
        Users <- Tasks,
        held <- [t \in Tasks |-> IF app[t].pc = "hold" THEN Mode(t) ELSE "none"]

(* The tasks see a reader-writer lock: decided by the server, also when    *)
(* packets overtake each other or waiting tasks abort, and decided by the  *)
(* switch, also when aborts make releases pop the requests of others.      *)
ImplementsRWLock == RW!Spec

Pending == {i \in 1 .. Len(to_server) : to_server[i].op = "ACQUIRE_LOCK"}

(* inServer, by which the switch decides whether a request may enter the   *)
(* ring, counts the requests at the server or on the way from and to it.   *)
InServerExact ==
  sys.inSwitch =>
    reg.inServer = Cardinality(Pending) + Len(srv.queue) + Len(push_backs)

(* The request of t has been put into the ring, its release has popped.    *)
Entered(t) ==
  /\ app[t].req > 0
  /\ "ACQUIRE_LOCK" \notin ToSet(tx[t])
  /\ t \notin ToSet(srv.queue) \cup ToSet(push_backs) \cup {to_server[i].task : i \in Pending}

Popped(t) == app[t].req > 0 /\ app[t].pc = "idle" /\ tx[t] = <<>>

(* The counters by which the switch grants at once are the requests in the *)
(* ring minus the releases, by mode, modulo the register's width: they     *)
(* wrap when a task releases a request that still waits at the server, and *)
(* come back when it enters the ring.                                      *)
CountersExact ==
  sys.inSwitch =>
    \A m \in {"SHARED", "EXCL"} :
      LET T == {t \in Tasks : Mode(t) = m}
      IN  (IF m = "EXCL" THEN reg.excl ELSE reg.shared) =
          (Cardinality({t \in T : Entered(t)})
             + Word - Cardinality({t \in T : Popped(t)})) % Word

(* The tasks that the switch told, by whatever packet, and that have not   *)
(* released.                                                               *)
Told(t) ==
  \/ app[t].pc = "hold"
  \/ app[t].pc = "wait" /\ (wait_flag[t] \/ ignored[t] \/ inbox[t] # <<>>)

Orderly == sys.inSwitch /\ sys.aborts \in {"never", "ignored"}

(* The walk over the ring tells the right tasks.  As long as nobody gives  *)
(* up before its turn, the tasks told are compatible with each other...    *)
ToldCompatible ==
  Orderly => \A t, u \in Tasks :
    t # u /\ Told(t) /\ Told(u) => Mode(t) = "SHARED" /\ Mode(u) = "SHARED"

Quiet ==
  /\ \A t \in Tasks : tx[t] = <<>> /\ inbox[t] = <<>>
  /\ recirc = <<>> /\ to_server = <<>> /\ push_backs = <<>>

(* ...and nobody is forgotten: when no packet is under way, a request in   *)
(* the ring or at the server waits behind a task that was told.            *)
NobodyForgotten ==
  Orderly /\ Quiet /\ (\E t \in Tasks : app[t].pc = "wait") => \E t \in Tasks : Told(t)

(* Every task that waits at a primary gets the lock or gives up.           *)
EventuallyServed ==
  \A t \in Tasks : ~sys.inSwitch /\ app[t].pc = "wait" ~> app[t].pc # "wait"

(* "Wait until the request is fulfilled": a task whose lock is in the      *)
(* switch, too, gets the lock when the others release it.                  *)
WaitIsFulfilled == \A t \in Tasks : app[t].pc = "wait" ~> app[t].pc = "hold"
=============================================================================
