--------------------------- MODULE RecoveryProofs ---------------------------
(***************************************************************************)
(* What the recovery guarantees for any number of hosts and tasks.  The    *)
(* properties speak about the metadata at the time of the failure (`old'), *)
(* so the inductive invariant follows how each host turns it into what the *)
(* coordinator knows, and that packets reach only hosts that have finished.*)
(***************************************************************************)
EXTENDS Recovery, FiniteSetTheorems, TLAPS

Fields == {"mode", "is_agent", "holders", "wqueue", "local_holders"}

(* The holders that a host submits.                                        *)
Mine(h) == {<<h, t>> : t \in old.meta[h].local_holders}

(* The metadata at the failure: local holders hold the lock, only an agent *)
(* records holders, and a holder is local or known to the agent.           *)
OldOK ==
  /\ Alive \subseteq Hosts
  /\ old.held \subseteq Clients
  /\ \A h \in Hosts :
       /\ Fields \subseteq DOMAIN old.meta[h]
       /\ Mine(h) \subseteq old.held
       /\ ~old.meta[h].is_agent => old.meta[h].holders = {}
  /\ \A t \in old.held : \A g \in Hosts :
       old.meta[g].is_agent => t \in Mine(HostOf(t)) \/ t \in old.meta[g].holders

Shape ==
  /\ DOMAIN meta = Hosts
  /\ DOMAIN rec = Hosts
  /\ \A h \in Hosts :
       DOMAIN rec[h] = {"pc", "todo", "early", "restored"} /\ rec[h].restored \in BOOLEAN
  /\ DOMAIN lm = {"has_agent", "holders", "waiters", "fault_signal", "ready_bitmap"}
  /\ lm.has_agent \in BOOLEAN

Done == {h \in Hosts : rec[h].pc = "done"}

(* Only the ACQUIREs that restore the switch and their answers are under   *)
(* way, and only between the switch and hosts that have finished.          *)
PacketOK(e) ==
  /\ e.to \in Done \cup {NoHost}
  /\ {"type", "mode", "granted", "machine_id", "task", "agent", "transferred"}
       \subseteq DOMAIN e.pkt
  /\ e.pkt.machine_id \in Done
  /\ e.pkt.agent \in Done \cup {NoHost}
  /\ e.pkt.task = Restore
  /\ e.pkt.type \in {"ACQUIRE", "GRANT_W_AGENT", "GRANT_WO_AGENT"}
  /\ e.to = NoHost => e.pkt.type = "ACQUIRE"

NetOK ==
  /\ \A e \in BagToSet(net) : PacketOK(e)
  /\ DOMAIN reg = {"free", "rw", "agent", "ncnt"}
  /\ reg.agent \in Done \cup {NoHost}

(* Between the scans a host changes only what RemoveFailed changes.        *)
Kept(h) ==
  /\ Fields \subseteq DOMAIN meta[h]
  /\ meta[h].is_agent = old.meta[h].is_agent
  /\ meta[h].local_holders = old.meta[h].local_holders
  /\ meta[h].holders \subseteq old.meta[h].holders
  /\ \A t \in old.meta[h].holders : t[1] \in Alive => t \in meta[h].holders

(* The coordinator knows of the agent, or the agent has nothing to submit. *)
Noticed(h) ==
  old.meta[h].is_agent => lm.has_agent \/ Submits(old.meta[h].wqueue) = {}

(* A host's way through integrity_check, up to the barrier.                *)
CollectOK(h) ==
  /\ rec[h].pc \in {"signal", "holders"} => meta[h] = old.meta[h]
  /\ rec[h].pc \in {"waiters", "check"} => Kept(h)
  /\ rec[h].pc = "holders" =>
       rec[h].todo \subseteq Mine(h) /\ Mine(h) \subseteq rec[h].todo \cup lm.holders
  /\ rec[h].pc \notin {"signal", "holders"} => Mine(h) \subseteq lm.holders
  /\ rec[h].pc = "waiters" => rec[h].todo # {} \/ Noticed(h)
  /\ h \in lm.ready_bitmap => rec[h].pc \notin {"signal", "holders"} /\ Noticed(h)
  /\ h \notin Alive => rec[h].pc = "signal"

(* A holder that the host knows of if everybody had submitted.             *)
Knows(h) ==
  meta[h].holders \subseteq lm.holders =>
    \A t \in old.held : HostOf(t) \in Alive => t \in meta[h].holders

(* After the barrier.                                                      *)
RestoreOK(h) ==
  /\ rec[h].pc \in {"check", "restore"} => Alive \ rec[h].early \subseteq lm.ready_bitmap
  /\ rec[h].restored =>
       /\ lm.has_agent
       /\ rec[h].pc \in {"restore", "done"}
       /\ ~old.meta[h].is_agent
       /\ \A g \in Alive : old.meta[g].is_agent =>
            g \in rec[h].early \/ Submits(old.meta[g].wqueue) = {}
       /\ rec[h].pc = "restore" =>
            /\ meta[h].holders \subseteq old.held
            /\ \A g \in Alive \ rec[h].early : Mine(g) \subseteq meta[h].holders
  /\ rec[h].pc = "restore" /\ old.meta[h].is_agent /\ rec[h].early = {} => Knows(h)

RecoveryInv ==
  /\ OldOK
  /\ Shape
  /\ NetOK
  /\ lm.holders \subseteq old.held
  /\ \A h \in Hosts : CollectOK(h) /\ RestoreOK(h)
  /\ RestoredOnce

-----------------------------------------------------------------------------
(* The invariant holds when the failure strikes.                           *)

LEMMA InitMeta ==
  ASSUME NEW h, NEW agent, NEW mode, NEW known, NEW fast, NEW queue, NEW held, NEW m,
         m = MetaAt(h, agent, mode, known, fast, queue, held)
  PROVE  /\ Fields \subseteq DOMAIN m
         /\ m.is_agent = (h = agent)
         /\ m.holders = IF h = agent THEN known ELSE {}
         /\ m.local_holders = {t[2] : t \in {u \in held : HostOf(u) = h} \ fast}
BY DEF MetaAt, MetaInit, Fields

LEMMA InitInv == Init => RecoveryInv
<1> SUFFICES ASSUME Init PROVE RecoveryInv
  OBVIOUS
<1>1. PICK alive \in (SUBSET Hosts) \ {{}, Hosts}, mode \in LockModes, held \in SUBSET Clients :
        \E agent \in alive \cup {NoHost}, known \in SUBSET held :
        \E fast \in SUBSET {t \in known : HostOf(t) = agent}, queue \in Queues(Clients \ held) :
        \E lost \in SUBSET {t \in Clients \ (held \cup ToSet(queue)) : HostOf(t) \in alive} :
          Strikes(alive, mode, held, agent, known, fast, queue, lost)
  BY DEF Init
<1>2. PICK agent \in alive \cup {NoHost}, known \in SUBSET held :
        \E fast \in SUBSET {t \in known : HostOf(t) = agent} : \E queue, lost :
          Strikes(alive, mode, held, agent, known, fast, queue, lost)
  BY <1>1
<1>2a. PICK fast \in SUBSET {t \in known : HostOf(t) = agent} :
         \E queue, lost : Strikes(alive, mode, held, agent, known, fast, queue, lost)
  BY <1>2
<1>2b. PICK queue, lost : Strikes(alive, mode, held, agent, known, fast, queue, lost)
  BY <1>2a
<1>3. /\ meta = [h \in Hosts |-> MetaAt(h, agent, mode, known, fast, queue, held)]
      /\ old = [alive |-> alive, held |-> held, meta |-> meta]
  BY <1>2b DEF Strikes
<1>4. /\ rec = [h \in Hosts |-> [pc |-> "signal", todo |-> {}, early |-> {},
                                 restored |-> FALSE]]
      /\ lm = [has_agent |-> FALSE, holders |-> {}, waiters |-> {},
               fault_signal |-> {}, ready_bitmap |-> {}]
      /\ reg = RegInit
      /\ net = EmptyBag
  BY DEF Init
<1>5. old.alive = alive /\ old.held = held /\ old.meta = meta
  BY <1>3
<1>6. \A h \in Hosts :
        /\ Fields \subseteq DOMAIN meta[h]
        /\ meta[h].is_agent = (h = agent)
        /\ meta[h].holders = IF h = agent THEN known ELSE {}
        /\ meta[h].local_holders = {t[2] : t \in {u \in held : HostOf(u) = h} \ fast}
  <2> TAKE h \in Hosts
  <2>1. meta[h] = MetaAt(h, agent, mode, known, fast, queue, held)
    BY <1>3
  <2> QED BY <2>1, InitMeta
<1>7. \A t \in held : t = <<HostOf(t), t[2]>> /\ HostOf(t) \in Hosts
  BY RecoveryConstants DEF HostOf
<1>8. OldOK
  <2>1. ASSUME NEW h \in Hosts PROVE Mine(h) \subseteq old.held
    BY <1>5, <1>6, <1>7 DEF Mine
  <2>2. ASSUME NEW t \in old.held, NEW g \in Hosts, old.meta[g].is_agent,
               t \notin old.meta[g].holders
        PROVE  t \in Mine(HostOf(t))
    <3>1. t \notin fast
      BY <1>5, <1>6, <2>2
    <3>2. t[2] \in meta[HostOf(t)].local_holders
      BY <1>5, <1>6, <1>7, <2>2, <3>1
    <3> QED BY <1>5, <1>7, <2>2, <3>2 DEF Mine
  <2> QED BY <1>1, <1>5, <1>6, <2>1, <2>2 DEF OldOK, Alive
<1>9. Shape
  BY <1>3, <1>4 DEF Shape
<1>10. NetOK
  BY <1>4 DEF NetOK, RegInit, EmptyBag, SetToBag, BagToSet
<1>11. ASSUME NEW h \in Hosts PROVE CollectOK(h) /\ RestoreOK(h)
  BY <1>4, <1>5 DEF CollectOK, RestoreOK
<1> QED BY <1>4, <1>5, <1>8, <1>9, <1>10, <1>11 DEF RecoveryInv, RestoredOnce

-----------------------------------------------------------------------------
(* A host that takes no part in a step stays as it is: the coordinator     *)
(* only learns more.                                                       *)
LEMMA OtherHost ==
  ASSUME NEW g \in Hosts, CollectOK(g), RestoreOK(g), UNCHANGED old,
         rec'[g] = rec[g], meta'[g] = meta[g],
         lm.holders \subseteq lm'.holders,
         lm.ready_bitmap \subseteq lm'.ready_bitmap,
         g \in lm'.ready_bitmap => g \in lm.ready_bitmap,
         lm.has_agent => lm'.has_agent,
         lm'.holders = lm.holders \/ ~(Alive \subseteq lm.ready_bitmap)
  PROVE  CollectOK(g)' /\ RestoreOK(g)'
<1> USE DEF Alive
<1>1. Alive' = Alive /\ Mine(g)' = Mine(g) /\ (\A h : Mine(h)' = Mine(h))
  BY DEF Mine
<1>2. \A q : Submits(q)' = Submits(q)
  BY DEF Submits, Failed
<1>3. Kept(g)' = Kept(g)
  BY DEF Kept
<1>4. Noticed(g) => Noticed(g)'
  BY <1>2 DEF Noticed
<1>5. CollectOK(g)'
  BY <1>1, <1>3, <1>4 DEF CollectOK
<1>6. ASSUME rec[g].pc = "restore", old.meta[g].is_agent, rec[g].early = {} PROVE Knows(g)'
  <2>1. lm'.holders = lm.holders
    BY <1>6 DEF RestoreOK
  <2> QED BY <1>6, <2>1 DEF RestoreOK, Knows, HostOf
<1>7. RestoreOK(g)'
  BY <1>1, <1>2, <1>6 DEF RestoreOK
<1> QED BY <1>5, <1>7

(* Packets and the switch's agent refer to hosts that stay finished.       *)
LEMMA NetStays ==
  ASSUME NetOK, Done \subseteq Done', UNCHANGED <<net, reg>>
  PROVE  NetOK'
<1>1. \A e : PacketOK(e) => PacketOK(e)'
  BY DEF PacketOK
<1> QED BY <1>1 DEF NetOK

LEMMA OldStays ==
  ASSUME OldOK, UNCHANGED old
  PROVE  OldOK' /\ Alive' = Alive /\ (\A h : Mine(h)' = Mine(h))
         /\ (\A q : Submits(q)' = Submits(q))
BY DEF OldOK, Alive, Mine, HostOf, Submits, Failed

(* A step of host h in integrity_check that sends nothing preserves the    *)
(* invariant if it does so for h itself.                                   *)
LEMMA HostStep ==
  ASSUME RecoveryInv, NEW h \in Hosts, UNCHANGED <<old, net, reg>>, rec[h].pc # "done",
         Shape', \A g \in Hosts \ {h} : rec'[g] = rec[g] /\ meta'[g] = meta[g],
         lm.holders \subseteq lm'.holders, lm'.holders \subseteq old.held,
         lm.ready_bitmap \subseteq lm'.ready_bitmap,
         lm'.ready_bitmap \subseteq lm.ready_bitmap \cup {h},
         lm.has_agent => lm'.has_agent,
         lm'.holders = lm.holders \/ ~(Alive \subseteq lm.ready_bitmap),
         CollectOK(h)', RestoreOK(h)', RestoredOnce'
  PROVE  RecoveryInv'
<1>1. Done \subseteq Done'
  BY DEF Done
<1>2. NetOK'
  BY <1>1, NetStays DEF RecoveryInv
<1>3. ASSUME NEW g \in Hosts PROVE CollectOK(g)' /\ RestoreOK(g)'
  <2>1. CASE g = h
    BY <2>1
  <2>2. CASE g # h
    BY <2>2, OtherHost DEF RecoveryInv
  <2> QED BY <2>1, <2>2
<1> QED BY <1>2, <1>3, OldStays DEF RecoveryInv

LEMMA StepIntegrityCheck ==
  ASSUME RecoveryInv, NEW h \in Hosts, IntegrityCheck(h)
  PROVE  RecoveryInv'
<1> USE DEF RecoveryInv
<1>1. /\ h \in Alive /\ rec[h].pc = "signal"
      /\ rec' = [rec EXCEPT ![h].pc = "holders",
                            ![h].todo = {<<h, t>> : t \in meta[h].local_holders}]
      /\ UNCHANGED <<old, meta, lm, reg, net>>
  BY DEF IntegrityCheck
<1>2. /\ Shape'
      /\ rec'[h].pc = "holders" /\ rec'[h].restored = rec[h].restored
      /\ rec'[h].todo = {<<h, t>> : t \in meta[h].local_holders}
      /\ \A g \in Hosts \ {h} : rec'[g] = rec[g]
  BY <1>1 DEF Shape
<1>3. ~rec[h].restored /\ meta[h] = old.meta[h] /\ h \notin lm.ready_bitmap
  BY <1>1 DEF CollectOK, RestoreOK
<1>4. CollectOK(h)'
  BY <1>1, <1>2, <1>3 DEF CollectOK, Mine, Alive
<1>5. RestoreOK(h)' /\ RestoredOnce'
  BY <1>1, <1>2, <1>3 DEF RestoreOK, RestoredOnce
<1> QED BY <1>1, <1>2, <1>4, <1>5, HostStep

LEMMA StepCollectHolders ==
  ASSUME RecoveryInv, NEW h \in Hosts, CollectHolders(h)
  PROVE  RecoveryInv'
<1> USE DEF RecoveryInv
<1>1. PICK t \in rec[h].todo :
        /\ lm' = [lm EXCEPT !.holders = @ \cup {t}]
        /\ rec' = [rec EXCEPT ![h].todo = @ \ {t}]
  BY DEF CollectHolders
<1>2. rec[h].pc = "holders" /\ UNCHANGED <<old, meta, reg, net>>
  BY DEF CollectHolders
<1>3. /\ Shape'
      /\ rec'[h].pc = "holders" /\ rec'[h].restored = rec[h].restored
      /\ rec'[h].todo = rec[h].todo \ {t}
      /\ \A g \in Hosts \ {h} : rec'[g] = rec[g]
      /\ lm'.holders = lm.holders \cup {t}
      /\ lm'.ready_bitmap = lm.ready_bitmap /\ lm'.has_agent = lm.has_agent
  BY <1>1, <1>2 DEF Shape
<1>4. /\ ~rec[h].restored /\ h \notin lm.ready_bitmap /\ h \in Alive
      /\ meta[h] = old.meta[h] /\ t \in Mine(h) /\ Mine(h) \subseteq rec[h].todo \cup lm.holders
      /\ rec[h].todo \subseteq Mine(h)
  BY <1>1, <1>2 DEF CollectOK, RestoreOK
<1>5. Mine(h)' = Mine(h) /\ Alive' = Alive
  BY <1>2, OldStays
<1>6. CollectOK(h)'
  BY <1>2, <1>3, <1>4, <1>5 DEF CollectOK
<1>7. RestoreOK(h)' /\ RestoredOnce'
  BY <1>2, <1>3, <1>4 DEF RestoreOK, RestoredOnce
<1>8. lm'.holders \subseteq old.held
  BY <1>3, <1>4 DEF OldOK
<1> QED BY <1>2, <1>3, <1>4, <1>6, <1>7, <1>8, HostStep

LEMMA StepRemoveFailed ==
  ASSUME RecoveryInv, NEW h \in Hosts, RemoveFailed(h)
  PROVE  RecoveryInv'
<1> USE DEF RecoveryInv
<1>1. /\ rec[h].pc = "holders" /\ rec[h].todo = {}
      /\ UNCHANGED <<old, lm, reg, net>>
  BY DEF RemoveFailed
<1>2. /\ ~rec[h].restored /\ h \notin lm.ready_bitmap /\ h \in Alive
      /\ meta[h] = old.meta[h] /\ Mine(h) \subseteq lm.holders
      /\ Fields \subseteq DOMAIN meta[h]
  BY <1>1 DEF CollectOK, RestoreOK, OldOK
<1>3. /\ Mine(h)' = Mine(h) /\ Alive' = Alive
      /\ \A q : Submits(q)' = Submits(q)
  BY <1>1, OldStays
<1>4. ASSUME NEW pc, pc \in {"waiters", "crashed"}, rec'[h].pc = pc, Shape',
             rec'[h].restored = rec[h].restored,
             \A g \in Hosts \ {h} : rec'[g] = rec[g] /\ meta'[g] = meta[g],
             pc = "waiters" => Kept(h)',
             pc = "waiters" => rec'[h].todo # {} \/ Noticed(h)'
      PROVE  RecoveryInv'
  <2>1. CollectOK(h)'
    BY <1>1, <1>2, <1>3, <1>4 DEF CollectOK
  <2>2. RestoreOK(h)' /\ RestoredOnce'
    BY <1>1, <1>2, <1>4 DEF RestoreOK, RestoredOnce
  <2> QED BY <1>1, <1>4, <2>1, <2>2, HostStep
<1>5. CASE /\ ~meta[h].is_agent
           /\ rec' = [rec EXCEPT ![h].pc = "waiters"]
           /\ UNCHANGED meta
  <2>1. Shape' /\ rec'[h].pc = "waiters" /\ rec'[h].restored = rec[h].restored
        /\ \A g \in Hosts \ {h} : rec'[g] = rec[g]
    BY <1>1, <1>5 DEF Shape
  <2>2. Kept(h)' /\ Noticed(h)'
    BY <1>1, <1>2, <1>3, <1>5 DEF Kept, Noticed
  <2> QED BY <1>4, <1>5, <2>1, <2>2
<1>6. CASE /\ rec' = [rec EXCEPT ![h].pc = "crashed"]
           /\ UNCHANGED meta
  <2>1. Shape' /\ rec'[h].pc = "crashed" /\ rec'[h].restored = rec[h].restored
        /\ \A g \in Hosts \ {h} : rec'[g] = rec[g]
    BY <1>1, <1>6 DEF Shape
  <2> QED BY <1>4, <1>6, <2>1
<1>7. ASSUME NEW S \in SUBSET {lh \in meta[h].holders : lh[1] \in Failed},
             meta' = [meta EXCEPT ![h].holders = @ \ S, ![h].wqueue = EraseFailed(@, Failed)],
             rec' = [rec EXCEPT ![h].pc = "waiters", ![h].todo = Submits(meta[h].wqueue)]
      PROVE  RecoveryInv'
  <2>1. Shape' /\ rec'[h].pc = "waiters" /\ rec'[h].restored = rec[h].restored
        /\ rec'[h].todo = Submits(meta[h].wqueue)
        /\ \A g \in Hosts \ {h} : rec'[g] = rec[g] /\ meta'[g] = meta[g]
    BY <1>1, <1>7 DEF Shape
  <2>2. /\ Fields \subseteq DOMAIN meta'[h]
        /\ meta'[h].is_agent = meta[h].is_agent
        /\ meta'[h].local_holders = meta[h].local_holders
        /\ meta'[h].holders = meta[h].holders \ S
    BY <1>2, <1>7 DEF Shape, Fields
  <2>3. \A lh \in S : lh[1] \notin Alive
    BY DEF Failed
  <2>4. Kept(h)'
    BY <1>1, <1>2, <1>3, <2>2, <2>3 DEF Kept
  <2>5. rec'[h].todo # {} \/ Noticed(h)'
    BY <1>1, <1>2, <1>3, <2>1 DEF Noticed
  <2> QED BY <1>4, <2>1, <2>4, <2>5
<1> QED BY <1>5, <1>6, <1>7 DEF RemoveFailed

LEMMA StepCollectWaiters ==
  ASSUME RecoveryInv, NEW h \in Hosts, CollectWaiters(h)
  PROVE  RecoveryInv'
<1> USE DEF RecoveryInv
<1>1. PICK t \in rec[h].todo :
        /\ lm' = [lm EXCEPT !.has_agent = TRUE, !.waiters = @ \cup {t}]
        /\ rec' = [rec EXCEPT ![h].todo = @ \ {t}]
  BY DEF CollectWaiters
<1>2. rec[h].pc = "waiters" /\ UNCHANGED <<old, meta, reg, net>>
  BY DEF CollectWaiters
<1>3. /\ Shape'
      /\ rec'[h].pc = "waiters" /\ rec'[h].restored = rec[h].restored
      /\ \A g \in Hosts \ {h} : rec'[g] = rec[g]
      /\ lm'.holders = lm.holders /\ lm'.has_agent
      /\ lm'.ready_bitmap = lm.ready_bitmap
  BY <1>1, <1>2 DEF Shape
<1>4. ~rec[h].restored /\ h \in Alive /\ Kept(h) /\ Mine(h) \subseteq lm.holders
  BY <1>2 DEF CollectOK, RestoreOK
<1>5. Mine(h)' = Mine(h) /\ Alive' = Alive
  BY <1>2, OldStays
<1>6. Kept(h)' /\ Noticed(h)'
  BY <1>2, <1>3, <1>4, <1>5 DEF Kept, Noticed
<1>7. CollectOK(h)'
  BY <1>3, <1>4, <1>5, <1>6 DEF CollectOK
<1>8. RestoreOK(h)' /\ RestoredOnce'
  BY <1>3, <1>4 DEF RestoreOK, RestoredOnce
<1> QED BY <1>2, <1>3, <1>7, <1>8, HostStep

LEMMA StepRecoveryReady ==
  ASSUME RecoveryInv, NEW h \in Hosts, RecoveryReady(h)
  PROVE  RecoveryInv'
<1> USE DEF RecoveryInv
<1> DEFINE bitmap == lm.ready_bitmap \cup {h}
<1>1. /\ rec[h].pc = "waiters" /\ rec[h].todo = {}
      /\ lm' = [lm EXCEPT !.ready_bitmap = bitmap, !.fault_signal = Alive]
      /\ \/ rec' = [rec EXCEPT ![h].pc = "check", ![h].early = Alive \ bitmap]
         \/ rec' = rec
      /\ UNCHANGED <<old, meta, reg, net>>
  BY DEF RecoveryReady
<1>2. /\ Shape'
      /\ rec'[h].restored = rec[h].restored
      /\ \/ rec'[h].pc = "check" /\ rec'[h].early = Alive \ bitmap
         \/ rec'[h] = rec[h]
      /\ \A g \in Hosts \ {h} : rec'[g] = rec[g]
      /\ lm'.holders = lm.holders /\ lm'.has_agent = lm.has_agent
      /\ lm'.ready_bitmap = bitmap
  BY <1>1 DEF Shape
<1>3. ~rec[h].restored /\ h \in Alive /\ Kept(h) /\ Mine(h) \subseteq lm.holders /\ Noticed(h)
  BY <1>1 DEF CollectOK, RestoreOK
<1>4. Mine(h)' = Mine(h) /\ Alive' = Alive /\ (\A q : Submits(q)' = Submits(q))
  BY <1>1, OldStays
<1>5. Kept(h)' /\ Noticed(h)'
  BY <1>1, <1>2, <1>3, <1>4 DEF Kept, Noticed
<1>6. CollectOK(h)'
  BY <1>1, <1>2, <1>3, <1>4, <1>5 DEF CollectOK
<1>7. RestoreOK(h)' /\ RestoredOnce'
  BY <1>1, <1>2, <1>3, <1>4 DEF RestoreOK, RestoredOnce
<1> QED BY <1>1, <1>2, <1>6, <1>7, HostStep

(* If everybody has submitted, the numbers of collected and of recorded    *)
(* holders tell whether the agent misses one.                              *)
LEMMA StepCheckHolderAgent ==
  ASSUME RecoveryInv, NEW h \in Hosts, CheckHolderAgent(h)
  PROVE  RecoveryInv'
<1> USE DEF RecoveryInv
<1>1. /\ rec[h].pc = "check" /\ meta[h].is_agent
      /\ meta' = IF Cardinality(lm.holders) > Cardinality(meta[h].holders)
                   THEN [meta EXCEPT ![h].holders = @ \cup lm.holders] ELSE meta
      /\ rec' = [rec EXCEPT ![h].pc = "restore"]
      /\ UNCHANGED <<old, lm, reg, net>>
  BY DEF CheckHolderAgent
<1>2. /\ ~rec[h].restored /\ h \in Alive /\ Kept(h) /\ Mine(h) \subseteq lm.holders
      /\ Alive \ rec[h].early \subseteq lm.ready_bitmap
      /\ h \in lm.ready_bitmap => Noticed(h)
  BY <1>1 DEF CollectOK, RestoreOK
<1>3. /\ Shape'
      /\ rec'[h].pc = "restore" /\ rec'[h].restored = rec[h].restored
      /\ rec'[h].early = rec[h].early
      /\ \A g \in Hosts \ {h} : rec'[g] = rec[g] /\ meta'[g] = meta[g]
  BY <1>1 DEF Shape
<1>4. \/ meta'[h].holders = meta[h].holders \cup lm.holders
      \/ /\ ~(Cardinality(lm.holders) > Cardinality(meta[h].holders))
         /\ meta'[h].holders = meta[h].holders
  BY <1>1, <1>2 DEF Shape, Kept, Fields
<1>5. Mine(h)' = Mine(h) /\ Alive' = Alive /\ (\A q : Submits(q)' = Submits(q))
  BY <1>1, OldStays
<1>6. CollectOK(h)'
  <2>1. h \in lm.ready_bitmap => Noticed(h)'
    BY <1>1, <1>2, <1>5 DEF Noticed
  <2> QED BY <1>1, <1>2, <1>3, <1>5, <2>1 DEF CollectOK
<1>7. ASSUME rec[h].early = {}, meta'[h].holders \subseteq lm.holders,
             NEW t \in old.held, HostOf(t) \in Alive
      PROVE  t \in meta'[h].holders
  <2>1. old.meta[h].is_agent
    BY <1>1, <1>2 DEF Kept
  <2>2. CASE t \in old.meta[h].holders
    BY <1>2, <1>4, <1>7, <2>2 DEF Kept, HostOf
  <2>3. CASE t \in Mine(HostOf(t))
    <3>1. HostOf(t) \in Hosts /\ HostOf(t) \in lm.ready_bitmap
      BY <1>2, <1>7 DEF OldOK
    <3>2. t \in lm.holders
      BY <2>3, <3>1 DEF CollectOK
    <3>3. CASE meta'[h].holders = meta[h].holders \cup lm.holders
      BY <3>2, <3>3
    <3>4. CASE /\ ~(Cardinality(lm.holders) > Cardinality(meta[h].holders))
               /\ meta'[h].holders = meta[h].holders
      <4>1. IsFiniteSet(old.held)
        BY RecoveryConstants, FS_Subset DEF OldOK
      <4>2. IsFiniteSet(lm.holders)
        BY <4>1, FS_Subset
      <4>3. meta[h].holders \in SUBSET lm.holders
        BY <1>7, <3>4
      <4>4. /\ IsFiniteSet(meta[h].holders)
            /\ Cardinality(meta[h].holders) <= Cardinality(lm.holders)
            /\ Cardinality(lm.holders) = Cardinality(meta[h].holders)
                 => lm.holders = meta[h].holders
        BY <4>2, <4>3, FS_Subset
      <4>5. Cardinality(lm.holders) \in Nat /\ Cardinality(meta[h].holders) \in Nat
        BY <4>2, <4>4, FS_CardinalityType
      <4>6. lm.holders = meta[h].holders
        BY <3>4, <4>4, <4>5
      <4> QED BY <3>2, <3>4, <4>6
    <3> QED BY <1>4, <3>3, <3>4
  <2> QED BY <2>1, <2>2, <2>3 DEF OldOK
<1>8. RestoreOK(h)'
  <2>1. rec[h].early = {} => Knows(h)'
    BY <1>1, <1>5, <1>7 DEF Knows, HostOf
  <2> QED BY <1>1, <1>2, <1>3, <1>5, <2>1 DEF RestoreOK
<1>9. RestoredOnce'
  BY <1>2, <1>3 DEF RestoredOnce
<1> QED BY <1>1, <1>3, <1>6, <1>8, <1>9, HostStep

LEMMA StepCheckHolderOther ==
  ASSUME RecoveryInv, NEW h \in Hosts, CheckHolderOther(h)
  PROVE  RecoveryInv'
<1> USE DEF RecoveryInv
<1>1. rec[h].pc = "check" /\ ~meta[h].is_agent /\ UNCHANGED <<old, reg, net>>
  BY DEF CheckHolderOther
<1>2. /\ ~rec[h].restored /\ h \in Alive /\ Kept(h) /\ Mine(h) \subseteq lm.holders
      /\ Alive \ rec[h].early \subseteq lm.ready_bitmap
      /\ h \in lm.ready_bitmap => Noticed(h)
  BY <1>1 DEF CollectOK, RestoreOK
<1>3. /\ \A g : Mine(g)' = Mine(g)
      /\ Alive' = Alive /\ (\A q : Submits(q)' = Submits(q))
  BY <1>1, OldStays
<1>4. CASE /\ lm' = lm /\ meta' = meta
           /\ rec' = [rec EXCEPT ![h].pc = "done"]
  <2>1. /\ Shape'
        /\ rec'[h].pc = "done" /\ rec'[h].restored = rec[h].restored
        /\ \A g \in Hosts \ {h} : rec'[g] = rec[g]
    BY <1>1, <1>4 DEF Shape
  <2>2. h \in lm.ready_bitmap => Noticed(h)'
    BY <1>1, <1>2, <1>3, <1>4 DEF Noticed
  <2>3. CollectOK(h)'
    BY <1>1, <1>2, <1>3, <1>4, <2>1, <2>2 DEF CollectOK
  <2>4. RestoreOK(h)' /\ RestoredOnce'
    BY <1>2, <2>1 DEF RestoreOK, RestoredOnce
  <2> QED BY <1>1, <1>4, <2>1, <2>3, <2>4, HostStep
<1>5. CASE /\ LostAgent
           /\ lm' = [lm EXCEPT !.has_agent = TRUE]
           /\ meta' = [meta EXCEPT ![h].is_agent = TRUE,
                         ![h].mode = IF Cardinality(lm.holders) > 1 THEN "SHARED" ELSE "EXCL",
                         ![h].holders = @ \cup lm.holders]
           /\ rec' = [rec EXCEPT ![h].pc = "restore", ![h].restored = TRUE]
  <2>1. /\ Shape'
        /\ rec'[h].pc = "restore" /\ rec'[h].restored /\ rec'[h].early = rec[h].early
        /\ \A g \in Hosts \ {h} : rec'[g] = rec[g] /\ meta'[g] = meta[g]
        /\ lm'.holders = lm.holders /\ lm'.ready_bitmap = lm.ready_bitmap /\ lm'.has_agent
    BY <1>1, <1>5 DEF Shape
  <2>2. meta'[h].holders = lm.holders
    BY <1>1, <1>2, <1>5 DEF Shape, Kept, Fields, OldOK
  <2>3. ~lm.has_agent /\ \A g \in Hosts : ~rec[g].restored
    BY <1>5 DEF LostAgent, RestoreOK
  <2>4. RestoredOnce'
    BY <2>1, <2>3 DEF RestoredOnce
  <2>5. CollectOK(h)'
    BY <1>1, <1>2, <1>3, <2>1 DEF CollectOK, Noticed
  <2>6. ASSUME NEW g \in Alive, g \notin rec[h].early
        PROVE  Mine(g) \subseteq lm.holders
               /\ (old.meta[g].is_agent => Submits(old.meta[g].wqueue) = {})
    BY <1>2, <2>3, <2>6 DEF CollectOK, Noticed, OldOK
  <2>7. ~old.meta[h].is_agent
    BY <1>1, <1>2 DEF Kept
  <2>8. RestoreOK(h)'
    BY <1>1, <1>2, <1>3, <2>1, <2>2, <2>6, <2>7 DEF RestoreOK
  <2> QED BY <1>1, <2>1, <2>4, <2>5, <2>8, HostStep
<1> QED BY <1>4, <1>5 DEF CheckHolderOther

-----------------------------------------------------------------------------
(* The network.                                                            *)

LEMMA StepRestoreSwitch ==
  ASSUME RecoveryInv, NEW h \in Hosts, RestoreSwitch(h)
  PROVE  RecoveryInv'
<1> USE DEF RecoveryInv
<1>1. /\ rec[h].pc = "restore"
      /\ net' = net (+) SetToBag({[to |-> NoHost,
                                   pkt |-> Post("ACQUIRE", meta[h].mode, "SHARED", h,
                                                Restore, <<>>, 0, h)]})
      /\ rec' = [rec EXCEPT ![h].pc = "done"]
      /\ UNCHANGED <<old, meta, lm, reg>>
  BY DEF RestoreSwitch, Send
<1>2. /\ Shape'
      /\ rec'[h].pc = "done" /\ rec'[h].restored = rec[h].restored
      /\ rec'[h].early = rec[h].early
      /\ \A g \in Hosts \ {h} : rec'[g] = rec[g]
  BY <1>1 DEF Shape
<1>3. Done \subseteq Done' /\ h \in Done'
  BY <1>2 DEF Done
<1>4. /\ OldOK' /\ Alive' = Alive
      /\ \A g : Mine(g)' = Mine(g)
      /\ \A q : Submits(q)' = Submits(q)
  BY <1>1, OldStays
<1>5. NetOK'
  <2> DEFINE new == [to |-> NoHost, pkt |-> Post("ACQUIRE", meta[h].mode, "SHARED", h,
                                                 Restore, <<>>, 0, h)]
  <2>1. \A x \in BagToSet(net') : x \in BagToSet(net) \/ x = new
    BY <1>1 DEF BagToSet, SetToBag, (+)
  <2>2. \A e : PacketOK(e) => PacketOK(e)'
    BY <1>3 DEF PacketOK
  <2>3. PacketOK(new)'
    BY <1>3 DEF PacketOK, Post
  <2> QED BY <1>1, <1>3, <2>1, <2>2, <2>3 DEF NetOK
<1>6. CollectOK(h)' /\ RestoreOK(h)' /\ RestoredOnce'
  <2>1. CollectOK(h) /\ RestoreOK(h) /\ RestoredOnce
    OBVIOUS
  <2>2. Noticed(h) => Noticed(h)'
    BY <1>1, <1>4 DEF Noticed
  <2>3. CollectOK(h)'
    BY <1>1, <1>2, <1>4, <2>1, <2>2 DEF CollectOK
  <2>4. RestoreOK(h)'
    BY <1>1, <1>2, <1>4, <2>1 DEF RestoreOK
  <2> QED BY <1>2, <2>1, <2>3, <2>4 DEF RestoredOnce
<1>7. ASSUME NEW g \in Hosts, g # h PROVE CollectOK(g)' /\ RestoreOK(g)'
  BY <1>1, <1>2, <1>7, OtherHost
<1> QED BY <1>1, <1>2, <1>4, <1>5, <1>6, <1>7

LEMMA Forwarded ==
  ASSUME NEW q, NEW port, NEW x \in Forward(port, q), NoHost \notin Done,
         {"type", "mode", "granted", "machine_id", "task", "agent", "transferred"}
           \subseteq DOMAIN q,
         q.machine_id \in Done, q.agent \in Done \cup {NoHost}, q.task = Restore,
         q.type \in {"ACQUIRE", "GRANT_W_AGENT"}
  PROVE  x.host \in Done /\ PacketOK([to |-> x.host, pkt |-> x.pkt])
<1>1. q.agent \in Done /\ x.host = q.agent /\ x.pkt = q
  BY DEF Forward, Emit
<1> QED BY <1>1 DEF PacketOK

(* What the restarted switch makes of an ACQUIRE.                          *)
LEMMA PipelineAcquire ==
  ASSUME RecoveryInv, NEW e \in BagToSet(net), e.to = NoHost,
         NEW r, r = Pipeline(reg, e.pkt)
  PROVE  /\ DOMAIN r.reg = {"free", "rw", "agent", "ncnt"}
         /\ r.reg.agent \in Done \cup {NoHost}
         /\ \A x \in r.out : PacketOK([to |-> x.host, pkt |-> x.pkt]) /\ x.host \in Done
<1> DEFINE p == [e.pkt EXCEPT !.granted = FALSE]
           op == LockOperation(reg, p)
           cnt == CounterTable(reg, p)
<1>1. PacketOK(e) /\ NetOK
  BY DEF RecoveryInv, NetOK
<1>2. /\ DOMAIN p = DOMAIN e.pkt
      /\ p.type = "ACQUIRE" /\ p.task = Restore
      /\ p.machine_id \in Done /\ p.agent \in Done \cup {NoHost}
  BY <1>1 DEF PacketOK
<1>3. DOMAIN cnt = {"free", "rw", "agent", "ncnt"}
  BY <1>1, <1>2 DEF CounterTable, EndsPeriod, NetOK
<1>4. r = [reg |-> [cnt EXCEPT
                      !.free = IF p.type = "FREE" THEN "FREE" ELSE "ACQUIRED",
                      !.rw = RwTable(reg, p),
                      !.agent = NewAgent(reg, p, op)],
           out |-> Outputs(reg, p, op)]
  BY <1>2 DEF Pipeline, EndsPeriod
<1>5. op \in {"new_agent", "mcast_to_agent", "fwd_to_agent", "nop"}
  BY <1>2 DEF LockOperation
<1>6. NewAgent(reg, p, op) \in Done \cup {NoHost}
  BY <1>1, <1>2, <1>5 DEF NewAgent, NetOK
<1>7. ASSUME NEW x \in Outputs(reg, p, op)
      PROVE  PacketOK([to |-> x.host, pkt |-> x.pkt]) /\ x.host \in Done
  <2>0. NoHost \notin Done
    BY SwitchConstants DEF Done
  <2>1. {"type", "mode", "granted", "machine_id", "task", "agent", "transferred"}
          \subseteq DOMAIN p /\ reg.agent \in Done \cup {NoHost}
    BY <1>1, <1>2 DEF PacketOK, NetOK
  <2> HIDE DEF p, op
  <2>2. CASE op = "new_agent"
    <3> DEFINE q == [p EXCEPT !.type = "GRANT_W_AGENT", !.agent = p.machine_id,
                              !.transferred = (op = "transfer_agent")]
    <3>1. x \in Forward("client", q)
      BY <1>7, <2>2 DEF Outputs
    <3>2. /\ DOMAIN q = DOMAIN p /\ q.machine_id = p.machine_id /\ q.task = p.task
          /\ q.type = "GRANT_W_AGENT" /\ q.agent = p.machine_id
      BY <2>1
    <3> HIDE DEF q
    <3> QED BY <1>2, <2>0, <2>1, <3>1, <3>2, Forwarded
  <2>3. CASE op = "mcast_to_agent"
    <3> DEFINE q == [p EXCEPT !.agent = reg.agent, !.granted = TRUE]
               w == [p EXCEPT !.type = "GRANT_WO_AGENT", !.agent = reg.agent]
    <3>1. x \in Forward("server", q) \/ x = Emit(p.machine_id, "client", w)
      BY <1>7, <2>3 DEF Outputs
    <3>2. /\ DOMAIN q = DOMAIN p /\ q.machine_id = p.machine_id /\ q.task = p.task
          /\ q.type = p.type /\ q.agent = reg.agent
      BY <2>1
    <3>3. /\ DOMAIN w = DOMAIN p /\ w.machine_id = p.machine_id /\ w.task = p.task
          /\ w.type = "GRANT_WO_AGENT" /\ w.agent = reg.agent
      BY <2>1
    <3> HIDE DEF q, w
    <3>4. CASE x \in Forward("server", q)
      BY <1>2, <2>0, <2>1, <3>2, <3>4, Forwarded
    <3>5. CASE x = Emit(p.machine_id, "client", w)
      <4>1. x.host = p.machine_id /\ x.pkt = w
        BY <3>5 DEF Emit
      <4> QED BY <1>2, <2>0, <2>1, <3>3, <4>1 DEF PacketOK
    <3> QED BY <3>1, <3>4, <3>5
  <2>4. CASE op = "fwd_to_agent"
    <3> DEFINE q == [p EXCEPT !.agent = reg.agent]
    <3>1. x \in Forward("server", q)
      BY <1>7, <2>4 DEF Outputs
    <3>2. /\ DOMAIN q = DOMAIN p /\ q.machine_id = p.machine_id /\ q.task = p.task
          /\ q.type = p.type /\ q.agent = reg.agent
      BY <2>1
    <3> HIDE DEF q
    <3> QED BY <1>2, <2>0, <2>1, <3>1, <3>2, Forwarded
  <2>5. CASE op = "nop"
    <3>1. x \in Forward("server", p)
      BY <1>7, <2>5 DEF Outputs
    <3> QED BY <1>2, <2>0, <2>1, <3>1, Forwarded
  <2> QED BY <1>5, <2>2, <2>3, <2>4, <2>5
<1> HIDE DEF p, op, cnt
<1>8. DOMAIN r.reg = DOMAIN cnt /\ r.reg.agent = NewAgent(reg, p, op)
  <2> DEFINE free == IF p.type = "FREE" THEN "FREE" ELSE "ACQUIRED"
             rw == RwTable(reg, p)
             agent == NewAgent(reg, p, op)
  <2>1. r.reg = [cnt EXCEPT !.free = free, !.rw = rw, !.agent = agent]
    BY <1>4
  <2> HIDE DEF free, rw, agent
  <2>2. DOMAIN r.reg = DOMAIN cnt /\ r.reg.agent = agent
    BY <1>3, <2>1
  <2> QED BY <2>2 DEF agent
<1>9. r.out = Outputs(reg, p, op)
  BY <1>4
<1> QED BY <1>3, <1>6, <1>7, <1>8, <1>9

(* The handlers of a finished host only send an ACQUIRE back.              *)
LEMMA ProcessSends ==
  ASSUME RecoveryInv, NEW e \in BagToSet(net), e.to # NoHost
  PROVE  ToSet(Process(e.to, e.pkt).send) \subseteq
           (IF e.pkt.type = "ACQUIRE" THEN {e.pkt} ELSE {})
<1>1. PacketOK(e)
  BY DEF RecoveryInv, NetOK
<1>2. CASE e.pkt.type = "GRANT_W_AGENT"
  BY <1>1, <1>2 DEF PacketOK, Process, Result, ToSet
<1>3. CASE e.pkt.type = "GRANT_WO_AGENT"
  BY <1>3 DEF Process, PacketProcess, OnGrantWithoutAgent, Result, ToSet
<1>4. CASE e.pkt.type = "ACQUIRE"
  <2>1. Process(e.to, e.pkt) = OnAcquire(meta[e.to], e.pkt)
    BY <1>4 DEF Process, PacketProcess
  <2>2. OnAcquire(meta[e.to], e.pkt).send \in {<<>>, <<e.pkt>>}
    BY DEF OnAcquire, Result
  <2> QED BY <1>4, <2>1, <2>2 DEF ToSet
<1> QED BY <1>1, <1>2, <1>3, <1>4 DEF PacketOK

(* Steps after which integrity_check stands where it stood: only packets,  *)
(* the switch and the metadata of finished hosts may have changed.         *)
LEMMA QuietStep ==
  ASSUME RecoveryInv, UNCHANGED <<old, rec, lm>>, NetOK', DOMAIN meta' = Hosts,
         \A g \in Hosts \ Done : meta'[g] = meta[g]
  PROVE  RecoveryInv'
<1> USE DEF RecoveryInv
<1>1. Shape'
  BY DEF Shape
<1>2. ASSUME NEW g \in Hosts PROVE CollectOK(g)' /\ RestoreOK(g)'
  <2>1. CASE g \notin Done
    BY <2>1, OtherHost
  <2>2. CASE g \in Done
    <3>1. rec[g].pc = "done"
      BY <2>2 DEF Done
    <3>2. /\ Alive' = Alive /\ Mine(g)' = Mine(g)
          /\ \A q : Submits(q)' = Submits(q)
      BY OldStays
    <3>3. Noticed(g)' = Noticed(g)
      BY <3>2 DEF Noticed
    <3>4. CollectOK(g)'
      BY <3>1, <3>2, <3>3 DEF CollectOK
    <3>5. RestoreOK(g)'
      BY <3>1, <3>2 DEF RestoreOK
    <3> QED BY <3>4, <3>5
  <2> QED BY <2>1, <2>2
<1>3. RestoredOnce'
  BY DEF RestoredOnce
<1> QED BY <1>1, <1>2, <1>3, OldStays

LEMMA StepSwitch ==
  ASSUME RecoveryInv, Switch
  PROVE  RecoveryInv'
<1>1. PICK e \in BagToSet(net) :
        /\ e.to = NoHost
        /\ reg' = Pipeline(reg, e.pkt).reg
        /\ net' = (net (-) SetToBag({e}))
                    (+) SetToBag({[to |-> o.host, pkt |-> o.pkt] :
                                    o \in {x \in Pipeline(reg, e.pkt).out : Running(x.host)}})
  BY Zenon DEF Switch
<1>2. UNCHANGED <<old, meta, rec, lm>>
  BY DEF Switch
<1> DEFINE r == Pipeline(reg, e.pkt)
           new == {[to |-> o.host, pkt |-> o.pkt] : o \in {x \in r.out : Running(x.host)}}
<1>3. /\ DOMAIN r.reg = {"free", "rw", "agent", "ncnt"}
      /\ r.reg.agent \in Done \cup {NoHost}
      /\ \A x \in r.out : PacketOK([to |-> x.host, pkt |-> x.pkt])
  BY <1>1, PipelineAcquire
<1>4. \A x \in new : PacketOK(x)
  BY <1>3
<1> HIDE DEF new
<1>5. \A x \in BagToSet(net') : x \in BagToSet(net) \/ x \in new
  <2>1. net' = (net (-) SetToBag({e})) (+) SetToBag(new)
    BY <1>1 DEF new
  <2> QED BY <2>1 DEF BagToSet, SetToBag, (+), (-)
<1>6. Done' = Done
  BY <1>2 DEF Done
<1>7. \A x : PacketOK(x)' = PacketOK(x)
  BY <1>6 DEF PacketOK
<1>8. NetOK'
  <2>1. reg' = r.reg
    BY <1>1
  <2> HIDE DEF r
  <2> QED BY <1>3, <1>4, <1>5, <1>6, <1>7, <2>1 DEF NetOK, RecoveryInv
<1> QED BY <1>2, <1>8, QuietStep DEF RecoveryInv, Shape

LEMMA StepDeliver ==
  ASSUME RecoveryInv, Deliver
  PROVE  RecoveryInv'
<1>1. PICK e \in BagToSet(net) :
        /\ e.to # NoHost
        /\ meta' = [meta EXCEPT ![e.to] = Process(e.to, e.pkt).meta]
        /\ net' = (net (-) SetToBag({e}))
                    (+) SetToBag({[to |-> NoHost, pkt |-> p] :
                                    p \in ToSet(Process(e.to, e.pkt).send)})
  BY Zenon DEF Deliver
<1>2. UNCHANGED <<old, rec, lm, reg>>
  BY DEF Deliver
<1> DEFINE new == {[to |-> NoHost, pkt |-> p] : p \in ToSet(Process(e.to, e.pkt).send)}
<1>3. PacketOK(e) /\ NetOK
  BY DEF RecoveryInv, NetOK
<1>4. \A x \in new : PacketOK(x)
  <2>1. ASSUME NEW p \in ToSet(Process(e.to, e.pkt).send)
        PROVE  PacketOK([to |-> NoHost, pkt |-> p])
    <3>1. p = e.pkt /\ e.pkt.type = "ACQUIRE"
      BY <1>1, <2>1, ProcessSends
    <3> QED BY <1>3, <3>1 DEF PacketOK
  <2> QED BY <2>1
<1> HIDE DEF new
<1>5. \A x \in BagToSet(net') : x \in BagToSet(net) \/ x \in new
  <2>1. net' = (net (-) SetToBag({e})) (+) SetToBag(new)
    BY <1>1 DEF new
  <2> QED BY <2>1 DEF BagToSet, SetToBag, (+), (-)
<1>6. Done' = Done
  BY <1>2 DEF Done
<1>7. \A x : PacketOK(x)' = PacketOK(x)
  BY <1>6 DEF PacketOK
<1>8. NetOK'
  BY <1>2, <1>3, <1>4, <1>5, <1>6, <1>7 DEF NetOK
<1>9. e.to \in Done
  BY <1>1, <1>3 DEF PacketOK
<1>10. DOMAIN meta' = Hosts /\ \A g \in Hosts \ Done : meta'[g] = meta[g]
  BY <1>1, <1>9 DEF RecoveryInv, Shape
<1> QED BY <1>2, <1>8, <1>10, QuietStep

-----------------------------------------------------------------------------
LEMMA InductiveStep ==
  ASSUME RecoveryInv, [Next]_vars
  PROVE  RecoveryInv'
<1>1. ASSUME UNCHANGED <<old, meta, rec, lm, reg, net>> PROVE RecoveryInv'
  <2>1. NetOK'
    BY <1>1, NetStays DEF RecoveryInv, Done
  <2> QED BY <1>1, <2>1, QuietStep DEF RecoveryInv, Shape
<1>2. CASE SwitchReady
  BY <1>1, <1>2 DEF SwitchReady
<1>3. ASSUME NEW t \in Clients, CheckWaiter(t) PROVE RecoveryInv'
  BY <1>1, <1>3 DEF CheckWaiter
<1>4. CASE UNCHANGED vars
  BY <1>1, <1>4 DEF vars
<1>5. ASSUME NEW h \in Hosts,
             \/ IntegrityCheck(h) \/ CollectHolders(h) \/ RemoveFailed(h)
             \/ CollectWaiters(h) \/ RecoveryReady(h)
             \/ CheckHolderAgent(h) \/ CheckHolderOther(h) \/ RestoreSwitch(h)
      PROVE  RecoveryInv'
  BY <1>5, StepIntegrityCheck, StepCollectHolders, StepRemoveFailed, StepCollectWaiters,
     StepRecoveryReady, StepCheckHolderAgent, StepCheckHolderOther, StepRestoreSwitch
<1> QED BY <1>2, <1>3, <1>4, <1>5, StepSwitch, StepDeliver DEF Next, Recover

(* The inductive invariant of the recovery.                                *)
THEOREM RecoveryInvariant == Spec => []RecoveryInv
<1> QED BY InitInv, InductiveStep, PTL DEF Spec

(* The agent of a lock is restored by one host at most, whatever the       *)
(* number of hosts that ask check_holder (rpc/main.cc).                    *)
THEOREM OneRestorer == Spec => []RestoredOnce
<1>1. RecoveryInv => RestoredOnce
  BY DEF RecoveryInv
<1> QED BY <1>1, RecoveryInvariant, PTL

(* A second agent is restored next to a living one only if that one had    *)
(* not submitted when the other host passed the barrier, or had no waiter  *)
(* to submit.                                                              *)
THEOREM SecondAgent == Spec => []SecondAgentOnly
<1>1. RecoveryInv => SecondAgentOnly
  BY DEF RecoveryInv, SecondAgentOnly, RestoreOK, OldOK
<1> QED BY <1>1, RecoveryInvariant, PTL

(* A restored agent knows only tasks that held the lock, and all local     *)
(* holders of the hosts that had submitted.                                *)
THEOREM RestoredHolders == Spec => []RestoredSound
<1>1. RecoveryInv => RestoredSound
  <2> SUFFICES ASSUME RecoveryInv, NEW h \in Alive, rec[h].restored, rec[h].pc = "restore"
               PROVE  /\ meta[h].holders \subseteq old.held
                      /\ \A t \in old.held :
                           /\ HostOf(t) \in Alive \ rec[h].early
                           /\ t[2] \in old.meta[HostOf(t)].local_holders
                           => t \in meta[h].holders
    BY DEF RestoredSound
  <2>1. RestoreOK(h)
    BY DEF RecoveryInv, OldOK
  <2>2. \A t \in old.held : t = <<HostOf(t), t[2]>>
    BY RecoveryConstants DEF RecoveryInv, OldOK, HostOf
  <2>3. ASSUME NEW t \in old.held, HostOf(t) \in Alive \ rec[h].early,
               t[2] \in old.meta[HostOf(t)].local_holders
        PROVE  t \in meta[h].holders
    <3>1. t \in Mine(HostOf(t))
      BY <2>2, <2>3 DEF Mine
    <3> QED BY <2>1, <2>3, <3>1 DEF RestoreOK
  <2> QED BY <2>1, <2>3 DEF RestoreOK
<1> QED BY <1>1, RecoveryInvariant, PTL

(* A living agent that passed the barrier last misses a holder only if one *)
(* that nobody collected made up for it in the comparison.                 *)
THEOREM MissedHolders == Spec => []MissedOnly
<1>1. RecoveryInv => MissedOnly
  BY DEF RecoveryInv, MissedOnly, RestoreOK, Knows, OldOK
<1> QED BY <1>1, RecoveryInvariant, PTL
=============================================================================
