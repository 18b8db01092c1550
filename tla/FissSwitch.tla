----------------------------- MODULE FissSwitch -----------------------------
(***************************************************************************)
(* The data plane of the FissLock switch for one in-range lock: the lock   *)
(* packet, the four registers of the lock and what the ingress and egress  *)
(* pipelines do to them and to a packet (switch/p4).  The three register   *)
(* slices (CounterTable_1..3, LockOperation_1..3) are copies of the same   *)
(* code, selected by the lock id: one lock uses exactly one of them.       *)
(***************************************************************************)
EXTENDS Naturals, Sequences

CONSTANTS
  Hosts,     \* the machines running the host library
  NoHost,    \* register value 0 of lock_agent_array: no agent
  TaskIds,   \* task_id, unique inside one host
  NoTask,    \* task_id 0 of a FREE packet
  CntMod     \* size of the notification counter, 2^8 in the code

ASSUME SwitchConstants ==
  /\ NoHost \notin Hosts
  /\ NoTask \notin TaskIds
  /\ CntMod \in Nat \ {0}

LockHolder == Hosts \X TaskIds
LockModes  == {"SHARED", "EXCL"}
PostTypes  == {"ACQUIRE", "GRANT_W_AGENT", "GRANT_WO_AGENT", "RELEASE",
               "TRANSFER", "FREE"}

Wqe == [op : LockModes, host : Hosts, task : TaskIds]

LockPacket ==
  [type : PostTypes, mode : LockModes, old_mode : LockModes,
   granted : BOOLEAN, transferred : BOOLEAN,
   machine_id : Hosts, task : TaskIds \cup {NoTask},
   agent : Hosts \cup {NoHost}, wq : Seq(Wqe), ncnt : 0 .. CntMod - 1]

Registers ==
  [free : {"FREE", "ACQUIRED"}, rw : LockModes,
   agent : Hosts \cup {NoHost}, ncnt : 0 .. CntMod - 1]

RegInit == [free |-> "FREE", rw |-> "SHARED", agent |-> NoHost, ncnt |-> 0]

-----------------------------------------------------------------------------
(* CounterTable: the notification counter counts every shared ACQUIRE; a   *)
(* TRANSFER or FREE that ends a shared period is compared with it.         *)

EndsPeriod(p) == p.type \in {"TRANSFER", "FREE"}

(* A mutant: the counter in the packet is not compared with the register.  *)
AgentChangedUnchecked(reg, p) == EndsPeriod(p) /\ p.old_mode = "SHARED"

AgentChanged(reg, p) ==
  EndsPeriod(p) /\ p.old_mode = "SHARED" /\ reg.ncnt = p.ncnt

CounterTable(reg, p) ==
  IF p.type = "ACQUIRE" /\ p.mode = "SHARED"
    THEN [reg EXCEPT !.ncnt = (@ + 1) % CntMod]
  ELSE IF EndsPeriod(p) /\ (p.old_mode = "EXCL" \/ AgentChanged(reg, p))
    THEN [reg EXCEPT !.ncnt = 0]
  ELSE reg

(* A mutant: a TRANSFER does not write the mode register.                  *)
RwTableNoTransfer(reg, p) ==
  IF p.type = "ACQUIRE" /\ reg.free = "FREE" THEN p.mode ELSE reg.rw

(* The mode register: rw_table's entries; RELEASE matches none of them.    *)
RwTable(reg, p) ==
  IF \/ EndsPeriod(p) /\ reg.free = "ACQUIRED"
     \/ p.type = "ACQUIRE" /\ reg.free = "FREE"
    THEN p.mode
    ELSE reg.rw

(* A mutant: a shared ACQUIRE of a shared lock goes to the agent only.     *)
LockOperationNoMcast(reg, p) ==
  CASE p.type = "ACQUIRE" /\ reg.free = "FREE" -> "new_agent"
    [] p.type = "TRANSFER" /\ reg.free = "ACQUIRED" -> "transfer_agent"
    [] p.type = "FREE" /\ reg.free = "ACQUIRED" -> "reset_agent"
    [] p.type \in {"ACQUIRE", "RELEASE"} /\ reg.free = "ACQUIRED" -> "fwd_to_agent"
    [] OTHER -> "nop"

(* The entry of lock_operation that the packet matches.                    *)
LockOperation(reg, p) ==
  CASE p.type = "ACQUIRE" /\ reg.free = "FREE" -> "new_agent"
    [] /\ p.type = "ACQUIRE" /\ reg.free = "ACQUIRED"
       /\ p.mode = "SHARED" /\ reg.rw = "SHARED" -> "mcast_to_agent"
    [] /\ p.type = "ACQUIRE" /\ reg.free = "ACQUIRED"
       /\ "EXCL" \in {p.mode, reg.rw} -> "fwd_to_agent"
    [] p.type = "RELEASE" /\ reg.free = "ACQUIRED" -> "fwd_to_agent"
    [] p.type = "TRANSFER" /\ reg.free = "ACQUIRED" -> "transfer_agent"
    [] p.type = "FREE" /\ reg.free = "ACQUIRED" -> "reset_agent"
    [] OTHER -> "nop"

(* An emitted copy of the packet: the host it goes to and the UDP port.    *)
Emit(host, port, p) == [host |-> host, port |-> port, pkt |-> p]

(* Multicast group 0 is empty: a packet for no host is dropped.            *)
Forward(port, p) ==
  IF p.agent = NoHost THEN {} ELSE {Emit(p.agent, port, p)}

(* The five actions of lock.p4 and the replicas egress.p4 makes of a       *)
(* multicast packet: ACQUIRE+granted to the agent's server port and        *)
(* GRANT_WO_AGENT to the requester's client port.                          *)
Outputs(reg, p, op) ==
  CASE op \in {"new_agent", "transfer_agent"} ->
         Forward("client",
           [p EXCEPT !.type = "GRANT_W_AGENT", !.agent = p.machine_id,
                     !.transferred = (op = "transfer_agent")])
    [] op = "mcast_to_agent" ->
         Forward("server", [p EXCEPT !.agent = reg.agent, !.granted = TRUE])
           \cup {Emit(p.machine_id, "client",
                   [p EXCEPT !.type = "GRANT_WO_AGENT", !.agent = reg.agent])}
    [] op = "fwd_to_agent" ->
         Forward("server", [p EXCEPT !.agent = reg.agent])
    [] op = "reset_agent" -> {}
    [] op = "nop" -> Forward("server", p)

NewAgent(reg, p, op) ==
  CASE op \in {"new_agent", "transfer_agent"} -> p.machine_id
    [] op = "reset_agent" -> NoHost
    [] OTHER -> reg.agent

(* The whole pipeline on one packet: the new registers and the copies.     *)
Pipeline(reg, pkt) ==
  LET p   == [pkt EXCEPT !.granted = FALSE]
      cnt == CounterTable(reg, p)
      op  == LockOperation(reg, p)
  IN  CASE /\ EndsPeriod(p) /\ p.old_mode = "SHARED"
           /\ ~AgentChanged(reg, p) ->
             [reg |-> cnt, out |-> Forward("server", p)]
        [] p.type = "GRANT_WO_AGENT" ->
             [reg |-> cnt,
              out |-> Forward("server", [p EXCEPT !.agent = p.machine_id])]
        [] OTHER ->
             [reg |-> [cnt EXCEPT
                         !.free = IF p.type = "FREE" THEN "FREE" ELSE "ACQUIRED",
                         !.rw = RwTable(reg, p),
                         !.agent = NewAgent(reg, p, op)],
              out |-> Outputs(reg, p, op)]
=============================================================================
