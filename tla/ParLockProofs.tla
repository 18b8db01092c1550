--------------------------- MODULE ParLockProofs ----------------------------
(***************************************************************************)
(* Proofs about ParLock, for any number of readers and writers, local or   *)
(* remote, with or without aborts: the table invariant is inductive, and   *)
(* ParLock implements the reader-writer lock.                              *)
(***************************************************************************)
EXTENDS ParLock, FiniteSetTheorems, SequenceTheorems, TLAPS

(* The sets the invariant speaks of are finite.                            *)
LEMMA Finite ==
  ASSUME NEW S \in SUBSET Clients
  PROVE  IsFiniteSet(S) /\ Cardinality(S) \in Nat
BY FS_Subset, FS_CardinalityType, ParLockConstants

LEMMA QueuedType == Queued \subseteq Clients /\ Owners \subseteq Clients
                    /\ Owners \cap Queued = {}
BY DEF Queued, Owners, Owner

(* An acquire that reaches the table (granted or queued) keeps the table   *)
(* exact.                                                                  *)
LEMMA AcquireKeepsTable ==
  ASSUME TypeOK, TableExact, NEW t \in Clients, t \notin Owners, t \notin Queued,
         TableAcquire(t),
         Owners' = IF Admits(t) THEN Owners \cup {t} ELSE Owners
  PROVE  TableExact'
<1>1. CASE GrantAcquire(t)
  <2>1. Queued' = Queued
    BY <1>1 DEF GrantAcquire, Queued
  <2>2. Owners' = Owners \cup {t}
    BY <1>1 DEF GrantAcquire
  <2>3. CASE t \in Writers
    <3>1. lock_state = "FREE" /\ lock_state' = "EXCLUSIVE" /\ shared_counter' = shared_counter
      BY <1>1, <2>3 DEF GrantAcquire, Admits
    <3>2. Owners' = {t} /\ shared_counter' = 0
      BY <2>2, <3>1 DEF TableExact
    <3> QED BY <2>3, <3>1, <3>2 DEF TableExact
  <2>4. CASE t \notin Writers
    <3>1. /\ lock_state \in {"FREE", "SHARED"} /\ lock_state' = "SHARED"
          /\ shared_counter' = shared_counter + 1
      BY <1>1, <2>4 DEF GrantAcquire, Admits, TypeOK
    <3>2. Cardinality(Owners \cup {t}) = Cardinality(Owners) + 1
      BY FS_AddElement, Finite, QueuedType
    <3>3. shared_counter = Cardinality(Owners) /\ Cardinality(Owners) \in Nat
      BY <3>1, FS_EmptySet, Finite, QueuedType DEF TableExact
    <3>4. Owners' \subseteq Readers /\ Queued' \subseteq Writers
      BY <2>1, <2>2, <2>4, <3>1 DEF TableExact, Clients
    <3>5. shared_counter' = Cardinality(Owners') /\ shared_counter' > 0
      BY <2>2, <3>1, <3>2, <3>3
    <3> QED BY <3>1, <3>4, <3>5 DEF TableExact
  <2> QED BY <2>3, <2>4
<1>2. CASE EnqueueAcquire(t)
  <2>1. Queued' = Queued \cup {t}
    BY <1>2 DEF EnqueueAcquire, Queued, TypeOK
  <2>2. Owners' = Owners /\ lock_state' = lock_state /\ shared_counter' = shared_counter
    BY <1>2 DEF EnqueueAcquire
  <2>3. lock_state = "EXCLUSIVE" \/ (lock_state = "SHARED" /\ t \in Writers)
    BY <1>2 DEF EnqueueAcquire, Admits, TypeOK
  <2> QED BY <2>1, <2>2, <2>3 DEF TableExact
<1> QED BY <1>1, <1>2 DEF TableAcquire

(* Which tasks the queue loses when the lock is handed on.                 *)
LEMMA PassToWriterQueue ==
  ASSUME TypeOK, NEW w \in Clients, PassToWriter(w)
  PROVE  /\ w \in Writers /\ w \in Queued /\ Queued' = Queued \ {w}
         /\ lock_state' = "EXCLUSIVE"
BY DEF PassToWriter, IsHead, Queued, TypeOK

LEMMA PassToReadersQueue ==
  ASSUME TypeOK, PassToReaders(Queued \cap Readers)
  PROVE  /\ Queued \cap Readers # {} /\ Queued' = Queued \ (Queued \cap Readers)
         /\ lock_state' = "SHARED"
         /\ shared_counter' = shared_counter + Cardinality(Queued \cap Readers)
BY DEF PassToReaders, Queued, TypeOK

(* A release that reaches the table keeps it exact: the releasing task     *)
(* leaves, the tasks that the queue loses come in.                         *)
LEMMA ReleaseKeepsTable ==
  ASSUME TypeOK, TableExact, NEW t \in Clients, t \in Owners \/ t \in Queued,
         TableRelease(t),
         Owners' = (Owners \ {t}) \cup ((Queued \ Queued') \ {t})
  PROVE  TableExact'
<1>1. CASE t \in Queued
  <2>1. EraseRequest(t)
    BY <1>1 DEF TableRelease
  <2>2. Queued' = Queued \ {t} /\ lock_state' = lock_state /\ shared_counter' = shared_counter
    BY <2>1 DEF EraseRequest, Queued, TypeOK
  <2>3. Owners' = Owners
    BY <1>1, <2>2, QueuedType
  <2> QED BY <2>2, <2>3 DEF TableExact
<1>2. CASE t \notin Queued /\ t \in Writers
  <2>1. lock_state = "EXCLUSIVE" /\ Owners = {t} /\ shared_counter = 0
    BY <1>2, ParLockConstants DEF TableExact, TypeOK
  <2>2. WriterRelease
    BY <1>2, <2>1 DEF TableRelease
  <2>3. Owners' = Queued \ Queued'
    BY <1>2, <2>1
  <2>4. ASSUME NEW w \in Clients, PassToWriter(w), UNCHANGED shared_counter
        PROVE  TableExact'
    BY <2>1, <2>3, <2>4, PassToWriterQueue DEF TableExact
  <2>5. CASE PassToReaders(Queued \cap Readers)
    <3> DEFINE S == Queued \cap Readers
    <3>1. S # {} /\ Queued' = Queued \ S /\ lock_state' = "SHARED"
          /\ shared_counter' = shared_counter + Cardinality(S)
      BY <2>5, PassToReadersQueue
    <3>2. Owners' = S /\ Queued' \subseteq Writers
      BY <2>3, <3>1, QueuedType DEF Clients
    <3>3. Cardinality(S) \in Nat /\ Cardinality(S) # 0
      BY <3>1, Finite, FS_EmptySet, QueuedType
    <3>4. shared_counter' = Cardinality(S) /\ shared_counter' > 0
      BY <2>1, <3>1, <3>3
    <3>5. shared_counter' = Cardinality(Owners') /\ Owners' \subseteq Readers
      BY <3>2, <3>4
    <3> QED BY <3>1, <3>2, <3>4, <3>5 DEF TableExact
  <2>6. CASE Queued = {} /\ LeaveFree /\ UNCHANGED <<shared_counter, tail>>
    <3>1. Queued' = {} /\ lock_state' = "FREE" /\ shared_counter' = 0
      BY <2>1, <2>6 DEF LeaveFree, Queued
    <3> QED BY <2>3, <2>6, <3>1 DEF TableExact
  <2> QED BY <2>2, <2>4, <2>5, <2>6 DEF WriterRelease
<1>3. CASE t \notin Queued /\ t \notin Writers
  <2>1. t \in Readers /\ t \in Owners
    BY <1>3 DEF Clients
  <2>2. /\ lock_state = "SHARED" /\ Owners \subseteq Readers /\ Queued \subseteq Writers
        /\ shared_counter = Cardinality(Owners)
    BY <2>1, ParLockConstants DEF TableExact, TypeOK
  <2>3. ReaderRelease
    BY <1>3, <2>1, <2>2 DEF TableRelease
  <2>4. /\ Cardinality(Owners) \in Nat /\ Cardinality(Owners \ {t}) \in Nat
        /\ Cardinality(Owners \ {t}) = Cardinality(Owners) - 1
    BY <2>1, Finite, FS_RemoveElement, QueuedType
  <2>5. shared_counter' = Cardinality(Owners \ {t})
    BY <2>2, <2>3, <2>4 DEF ReaderRelease
  <2>6. CASE shared_counter - 1 > 0 /\ NoGrant /\ UNCHANGED <<lock_state, ticket>>
    <3>1. Queued' = Queued /\ lock_state' = "SHARED"
      BY <2>2, <2>6 DEF Queued
    <3>2. Owners' = Owners \ {t}
      BY <3>1
    <3>3. shared_counter' > 0
      BY <2>2, <2>4, <2>5, <2>6
    <3> QED BY <2>2, <2>5, <3>1, <3>2, <3>3 DEF TableExact
  <2>7. ASSUME shared_counter - 1 <= 0
        PROVE  Owners \ {t} = {} /\ shared_counter' = 0
    <3>1. Cardinality(Owners \ {t}) = 0
      BY <2>2, <2>4, <2>7
    <3> QED BY <2>5, <3>1, Finite, FS_EmptySet, QueuedType
  <2>8. ASSUME shared_counter - 1 <= 0, NEW w \in Clients, PassToWriter(w)
        PROVE  TableExact'
    <3>1. Owners' = {w}
      BY <1>3, <2>7, <2>8, PassToWriterQueue
    <3> QED BY <2>7, <2>8, <3>1, PassToWriterQueue DEF TableExact
  <2>9. CASE /\ shared_counter - 1 <= 0
             /\ Queued = {} \/ \E r \in Readers : IsHead(r)
             /\ LeaveFree
    <3>1. Queued = {}
      BY <2>2, <2>9, ParLockConstants DEF IsHead
    <3>2. Queued' = {} /\ lock_state' = "FREE"
      BY <2>9, <3>1 DEF LeaveFree, Queued
    <3> QED BY <2>7, <2>9, <3>1, <3>2 DEF TableExact
  <2> QED BY <2>3, <2>6, <2>8, <2>9 DEF ReaderRelease
<1> QED BY <1>1, <1>2, <1>3

-----------------------------------------------------------------------------
(* What an operation of task t on the table does to each task.             *)

Same(u) == ticket'[u] = ticket[u] /\ wait_flag'[u] = wait_flag[u] /\ reply'[u] = reply[u]

TableTypes ==
  /\ lock_state' \in {"FREE", "SHARED", "EXCLUSIVE"} /\ shared_counter' \in Int
  /\ ticket' \in [Clients -> Nat] /\ tail' \in Nat
  /\ wait_flag' \in [Clients -> BOOLEAN] /\ reply' \in [Clients -> Nat]

(* Task u leaves the queue and is signalled or sent a reply.               *)
LetIn(u) ==
  /\ ticket'[u] = 0
  /\ u \in Local => reply'[u] = reply[u]
  /\ u \notin Local => wait_flag'[u] = wait_flag[u]

LEMMA AcquireEffect ==
  ASSUME TypeOK, NEW t \in Clients, t \notin Queued, TableAcquire(t)
  PROVE  /\ TableTypes
         /\ \A u \in Clients \ {t} : Same(u)
         /\ Admits(t) => LetIn(t)
         /\ ~Admits(t) => ticket'[t] > 0 /\ wait_flag'[t] = wait_flag[t] /\ reply'[t] = reply[t]
<1>1. CASE GrantAcquire(t)
  <2>1. /\ wait_flag' = [u \in Clients |-> wait_flag[u] \/ (u \in {t} /\ u \in Local)]
        /\ reply' = [u \in Clients |->
                       IF u \in {t} /\ u \notin Local THEN reply[u] + 1 ELSE reply[u]]
    BY <1>1 DEF GrantAcquire, Grant
  <2>2. wait_flag' \in [Clients -> BOOLEAN] /\ reply' \in [Clients -> Nat]
    BY <2>1 DEF TypeOK
  <2>3. ticket' = ticket /\ ticket[t] = 0
    BY <1>1 DEF GrantAcquire, Queued, TypeOK
  <2>4. TableTypes
    BY <1>1, <2>2, <2>3 DEF TableTypes, TypeOK, GrantAcquire
  <2>5. \A u \in Clients \ {t} : Same(u)
    BY <2>1, <2>3 DEF Same, TypeOK
  <2>6. LetIn(t)
    BY <2>1, <2>3 DEF LetIn, TypeOK
  <2> QED BY <1>1, <2>4, <2>5, <2>6 DEF GrantAcquire
<1>2. CASE EnqueueAcquire(t)
  BY <1>2 DEF EnqueueAcquire, NoGrant, TypeOK, TableTypes, Same
<1> QED BY <1>1, <1>2 DEF TableAcquire

LEMMA ReleaseEffect ==
  ASSUME TypeOK, NEW t \in Clients, TableRelease(t)
  PROVE  /\ TableTypes
         /\ \A u \in Clients \ {t} : Same(u) \/ (u \in Queued /\ LetIn(u))
         /\ ticket'[t] = 0 /\ wait_flag'[t] = wait_flag[t] /\ reply'[t] = reply[t]
<1> DEFINE Post == /\ TableTypes
                   /\ \A u \in Clients \ {t} : Same(u) \/ (u \in Queued /\ LetIn(u))
                   /\ ticket'[t] = 0 /\ wait_flag'[t] = wait_flag[t] /\ reply'[t] = reply[t]
<1>1. CASE t \in Queued
  <2>1. EraseRequest(t)
    BY <1>1 DEF TableRelease
  <2> QED BY <2>1 DEF EraseRequest, NoGrant, TypeOK, TableTypes, Same
<1>2. CASE t \notin Queued
  <2>0. ticket[t] = 0
    BY <1>2 DEF Queued, TypeOK
  <2>1. ASSUME NEW w \in Clients, PassToWriter(w), UNCHANGED tail, shared_counter' \in Int
        PROVE  Post
    <3>1. w \in Queued /\ w # t /\ ticket' = [ticket EXCEPT ![w] = 0] /\ lock_state' = "EXCLUSIVE"
      BY <1>2, <2>1 DEF PassToWriter, IsHead
    <3>2. /\ wait_flag' = [u \in Clients |-> wait_flag[u] \/ (u \in {w} /\ u \in Local)]
          /\ reply' = [u \in Clients |->
                         IF u \in {w} /\ u \notin Local THEN reply[u] + 1 ELSE reply[u]]
      BY <2>1 DEF PassToWriter, Grant
    <3>3. wait_flag' \in [Clients -> BOOLEAN] /\ reply' \in [Clients -> Nat]
          /\ ticket' \in [Clients -> Nat]
      BY <3>1, <3>2 DEF TypeOK
    <3>4. TableTypes
      BY <2>1, <3>1, <3>3 DEF TableTypes, TypeOK
    <3>5. \A u \in Clients \ {w} : Same(u)
      BY <3>1, <3>2 DEF Same, TypeOK
    <3>6. LetIn(w)
      BY <3>1, <3>2 DEF LetIn, TypeOK
    <3> QED BY <2>0, <3>1, <3>4, <3>5, <3>6 DEF Same
  <2>2. ASSUME PassToReaders(Queued \cap Readers), UNCHANGED tail
        PROVE  Post
    <3> DEFINE S == Queued \cap Readers
    <3>1. /\ ticket' = [u \in Clients |-> IF u \in S THEN 0 ELSE ticket[u]]
          /\ wait_flag' = [u \in Clients |-> wait_flag[u] \/ (u \in S /\ u \in Local)]
          /\ reply' = [u \in Clients |->
                         IF u \in S /\ u \notin Local THEN reply[u] + 1 ELSE reply[u]]
      BY <2>2 DEF PassToReaders, Grant
    <3>2. Cardinality(S) \in Nat
      BY Finite, QueuedType
    <3>3. shared_counter' \in Int /\ lock_state' = "SHARED"
      BY <2>2, <3>2 DEF PassToReaders, TypeOK
    <3>4. t \notin S
      BY <1>2
    <3> HIDE DEF S
    <3>5. TableTypes
      BY <2>2, <3>1, <3>3 DEF TableTypes, TypeOK
    <3>6. \A u \in Clients \ S : Same(u)
      BY <3>1 DEF Same, TypeOK
    <3>7. \A u \in Clients \cap S : LetIn(u)
      BY <3>1 DEF LetIn, TypeOK
    <3>8. S \subseteq Queued
      BY DEF S
    <3> QED BY <2>0, <3>4, <3>5, <3>6, <3>7, <3>8 DEF Same
  <2>3. ASSUME NoGrant, UNCHANGED <<ticket, tail>>, shared_counter' \in Int,
               lock_state' \in {"FREE", "SHARED", "EXCLUSIVE"}
        PROVE  Post
    BY <2>0, <2>3 DEF NoGrant, TypeOK, TableTypes, Same
  <2>4. CASE WriterRelease
    BY <2>1, <2>2, <2>3, <2>4 DEF WriterRelease, LeaveFree, TypeOK
  <2>5. CASE ReaderRelease
    <3>1. shared_counter' \in Int /\ UNCHANGED tail
      BY <2>5 DEF ReaderRelease, TypeOK
    <3> QED BY <2>1, <2>3, <2>5, <3>1 DEF ReaderRelease, LeaveFree, TypeOK
  <2>6. CASE NoGrant /\ UNCHANGED table
    BY <2>3, <2>6 DEF table, TypeOK
  <2> QED BY <1>2, <2>4, <2>5, <2>6 DEF TableRelease
<1> QED BY <1>1, <1>2

-----------------------------------------------------------------------------
(* The other tasks keep what the invariant says of them when t works on    *)
(* the table, and those that are let in become owners.                     *)
LEMMA OthersKeep ==
  ASSUME IInv, NEW u \in Clients, pc'[u] = pc[u], net'[u] = net[u],
         Same(u) \/ (u \in Queued /\ LetIn(u)), TableTypes
  PROVE  /\ OneRequest(u)'
         /\ Owner(u)' <=> Owner(u) \/ (u \in Queued /\ ~(u \in Queued)')
<1> USE DEF IInv, TypeOK
<1>1. CASE Same(u)
  BY <1>1 DEF Same, OneRequest, Owner, Queued
<1>2. CASE u \in Queued /\ LetIn(u)
  <2>1. ticket[u] > 0 /\ ticket'[u] = 0 /\ ~wait_flag[u] /\ reply[u] = 0 /\ OneRequest(u)
    BY <1>2 DEF Queued, LetIn, OneRequest
  <2>2. OneRequest(u)'
    BY <1>2, <2>1 DEF LetIn, OneRequest, TableTypes
  <2>3. Owner(u)' /\ ~(u \in Queued)'
    BY <1>2, <2>1 DEF LetIn, OneRequest, Owner, Queued
  <2> QED BY <1>2, <2>2, <2>3
<1> QED BY <1>1, <1>2

(* Task t, which is not known to the table, reaches it with a request.     *)
LEMMA AcquireStep ==
  ASSUME IInv, NEW t \in Clients, TableAcquire(t),
         t \notin Queued, ~Owner(t), ~wait_flag[t], reply[t] = 0,
         pc' \in [Clients -> {"idle", "wait", "hold", "done"}],
         net' \in [Clients -> Seq(Posts)],
         \A u \in Clients \ {t} : pc'[u] = pc[u] /\ net'[u] = net[u],
         \/ pc'[t] = "wait" /\ net'[t] = <<>>
         \/ pc'[t] = "done" /\ net'[t] = <<"UNLOCK_REQ">> /\ t \notin Local
  PROVE  IInv'
<1>1. /\ TableTypes
      /\ \A u \in Clients \ {t} : Same(u)
      /\ Admits(t) => LetIn(t)
      /\ ~Admits(t) => ticket'[t] > 0 /\ wait_flag'[t] = wait_flag[t] /\ reply'[t] = reply[t]
  BY AcquireEffect DEF IInv
<1>3. \A u \in Clients \ {t} : OneRequest(u)' /\ (Owner(u)' <=> Owner(u))
  <2> TAKE u \in Clients \ {t}
  <2>1. Same(u)
    BY <1>1
  <2>2. OneRequest(u)'
    BY <1>1, <2>1, OthersKeep
  <2> QED BY <2>1, <2>2 DEF Same, Owner
<1>4. OneRequest(t)'
  <2>1. Head(<<"UNLOCK_REQ">>) = "UNLOCK_REQ" /\ <<"UNLOCK_REQ">> # <<>>
        /\ <<"UNLOCK_REQ">> # <<"LOCK_REQ">>
    OBVIOUS
  <2>2. t \in Local => net'[t] = <<>> /\ reply'[t] = 0
    BY <1>1 DEF LetIn
  <2>3. ticket'[t] > 0 => ~wait_flag'[t] /\ reply'[t] = 0
    BY <1>1 DEF LetIn
  <2> QED BY <2>1, <2>2, <2>3 DEF OneRequest
<1>5. Owner(t)' <=> Admits(t)
  BY <1>1 DEF LetIn, Owner, TableTypes
<1>6. Owners' = IF Admits(t) THEN Owners \cup {t} ELSE Owners
  BY <1>3, <1>5 DEF Owners
<1>7. TableExact'
  BY <1>6, AcquireKeepsTable DEF IInv, Owners
<1>8. TypeOK'
  <2>1. shared_counter' \in Nat
    BY <1>1, <1>7 DEF TableTypes, TableExact
  <2> QED BY <1>1, <2>1 DEF TableTypes, TypeOK
<1> QED BY <1>3, <1>4, <1>7, <1>8 DEF IInv

(* Task t, an owner or a waiter, reaches the table with its release.       *)
LEMMA ReleaseStep ==
  ASSUME IInv, NEW t \in Clients, TableRelease(t),
         t \in Queued \/ Owner(t), pc[t] # "idle",
         pc' \in [Clients -> {"idle", "wait", "hold", "done"}],
         net' \in [Clients -> Seq(Posts)],
         \A u \in Clients \ {t} : pc'[u] = pc[u] /\ net'[u] = net[u],
         pc'[t] = "done", net'[t] = <<>>
  PROVE  IInv'
<1>1. /\ TableTypes
      /\ \A u \in Clients \ {t} : Same(u) \/ (u \in Queued /\ LetIn(u))
      /\ ticket'[t] = 0 /\ wait_flag'[t] = wait_flag[t] /\ reply'[t] = reply[t]
  BY ReleaseEffect DEF IInv
<1>3. \A u \in Clients \ {t} :
        /\ OneRequest(u)'
        /\ Owner(u)' <=> Owner(u) \/ (u \in Queued /\ ~(u \in Queued)')
  BY <1>1, OthersKeep
<1>4. OneRequest(t)' /\ ~Owner(t)'
  BY <1>1 DEF OneRequest, Owner, TableTypes, IInv
<1>5. Owners' = (Owners \ {t}) \cup ((Queued \ Queued') \ {t})
  BY <1>3, <1>4, QueuedType DEF Owners
<1>6. TableExact'
  BY <1>5, ReleaseKeepsTable DEF IInv, Owners
<1>7. TypeOK'
  <2>1. shared_counter' \in Nat
    BY <1>1, <1>6 DEF TableTypes, TableExact
  <2> QED BY <1>1, <2>1 DEF TableTypes, TypeOK
<1> QED BY <1>3, <1>4, <1>6, <1>7 DEF IInv

(* A step of t that leaves the table alone and does not make t an owner or *)
(* end its ownership.                                                      *)
LEMMA QuietStep ==
  ASSUME IInv, NEW t \in Clients, UNCHANGED table, TypeOK', OneRequest(t)',
         Owner(t)' <=> Owner(t),
         \A u \in Clients \ {t} :
           pc'[u] = pc[u] /\ net'[u] = net[u] /\ wait_flag'[u] = wait_flag[u]
             /\ reply'[u] = reply[u]
  PROVE  IInv'
<1>1. \A u \in Clients \ {t} : OneRequest(u)' /\ (Owner(u)' <=> Owner(u))
  BY DEF table, OneRequest, Owner, IInv
<1>2. Owners' = Owners /\ Queued' = Queued
  BY <1>1 DEF Owners, Queued, table
<1>3. TableExact'
  BY <1>2 DEF TableExact, IInv, table
<1> QED BY <1>1, <1>3 DEF IInv

(* A second post is put behind the first.                                  *)
LEMMA AppendToOne ==
  ASSUME NEW S, NEW x \in S, NEW y \in S
  PROVE  Append(<<x>>, y) = <<x, y>>
<1> DEFINE s == <<x>>
           a == Append(s, y)
           b == <<x, y>>
<1>1. s \in Seq(S) /\ Len(s) = 1 /\ s[1] = x
  OBVIOUS
<1>2. b \in Seq(S) /\ Len(b) = 2 /\ b[1] = x /\ b[2] = y
  OBVIOUS
<1> HIDE DEF s, b
<1>3. a \in Seq(S) /\ Len(a) = Len(s) + 1
  BY <1>1, AppendProperties
<1>4. ASSUME NEW i \in 1 .. Len(s) PROVE a[i] = s[i]
  BY <1>1
<1>5. a[Len(s) + 1] = y
  BY <1>1, AppendProperties, Zenon
<1> HIDE DEF a
<1>6. \A i \in 1 .. Len(a) : a[i] = b[i]
  BY <1>1, <1>2, <1>3, <1>4, <1>5
<1>7. a = b
  <2>1. Len(a) = Len(b)
    BY <1>1, <1>2, <1>3
  <2> QED BY <1>2, <1>3, <1>6, <2>1, SeqEqual, Zenon
<1> QED BY <1>7 DEF a, b, s

(* The posts of one task, and what Head, Tail and Append make of them.     *)
LEMMA PostFacts ==
  /\ <<"LOCK_REQ">> # <<>> /\ <<"UNLOCK_REQ">> # <<>> /\ <<"LOCK_REQ", "UNLOCK_REQ">> # <<>>
  /\ <<"UNLOCK_REQ">> # <<"LOCK_REQ">> /\ <<"LOCK_REQ", "UNLOCK_REQ">> # <<"LOCK_REQ">>
  /\ Head(<<"LOCK_REQ">>) = "LOCK_REQ" /\ Tail(<<"LOCK_REQ">>) = <<>>
  /\ Head(<<"UNLOCK_REQ">>) = "UNLOCK_REQ" /\ Tail(<<"UNLOCK_REQ">>) = <<>>
  /\ Head(<<"LOCK_REQ", "UNLOCK_REQ">>) = "LOCK_REQ"
  /\ Tail(<<"LOCK_REQ", "UNLOCK_REQ">>) = <<"UNLOCK_REQ">>
  /\ Append(<<>>, "LOCK_REQ") = <<"LOCK_REQ">>
  /\ Append(<<>>, "UNLOCK_REQ") = <<"UNLOCK_REQ">>
  /\ Append(<<"LOCK_REQ">>, "UNLOCK_REQ") = <<"LOCK_REQ", "UNLOCK_REQ">>
<1>1. /\ <<"LOCK_REQ">> # <<>> /\ <<"UNLOCK_REQ">> # <<>> /\ <<"LOCK_REQ", "UNLOCK_REQ">> # <<>>
      /\ <<"UNLOCK_REQ">> # <<"LOCK_REQ">> /\ <<"LOCK_REQ", "UNLOCK_REQ">> # <<"LOCK_REQ">>
  OBVIOUS
<1>2. /\ Head(<<"LOCK_REQ">>) = "LOCK_REQ" /\ Head(<<"UNLOCK_REQ">>) = "UNLOCK_REQ"
      /\ Head(<<"LOCK_REQ", "UNLOCK_REQ">>) = "LOCK_REQ"
  OBVIOUS
<1>3. Tail(<<"LOCK_REQ">>) = <<>> /\ Tail(<<"UNLOCK_REQ">>) = <<>>
  OBVIOUS
<1>4. Tail(<<"LOCK_REQ", "UNLOCK_REQ">>) = <<"UNLOCK_REQ">>
  OBVIOUS
<1>5. Append(<<>>, "LOCK_REQ") = <<"LOCK_REQ">> /\ Append(<<>>, "UNLOCK_REQ") = <<"UNLOCK_REQ">>
  OBVIOUS
<1>6. Append(<<"LOCK_REQ">>, "UNLOCK_REQ") = <<"LOCK_REQ", "UNLOCK_REQ">>
  BY AppendToOne, "LOCK_REQ" \in Posts, "UNLOCK_REQ" \in Posts DEF Posts
<1> QED BY <1>1, <1>2, <1>3, <1>4, <1>5, <1>6

LEMMA InitIInv == Init => IInv
<1> SUFFICES ASSUME Init PROVE IInv
  OBVIOUS
<1>1. TypeOK
  BY DEF Init, TypeOK
<1>2. Owners = {} /\ Queued = {}
  BY DEF Init, Owners, Owner, Queued
<1>3. \A t \in Clients : OneRequest(t)
  BY DEF Init, OneRequest
<1> QED BY <1>1, <1>2, <1>3 DEF IInv, TableExact, Init

LEMMA NextIInv == IInv /\ [Next]_vars => IInv'
<1> SUFFICES ASSUME IInv, [Next]_vars PROVE IInv'
  OBVIOUS
<1> USE DEF Posts
<1>1. ASSUME NEW t \in Clients, Acquire(t) PROVE IInv'
  <2>1. pc[t] = "idle" /\ net[t] = <<>> /\ ticket[t] = 0 /\ ~wait_flag[t] /\ reply[t] = 0
    BY <1>1 DEF Acquire, Call, IInv, OneRequest
  <2>2. pc' = [pc EXCEPT ![t] = "wait"]
    BY <1>1 DEF Acquire, Call
  <2>3. ~Owner(t) /\ t \notin Queued
    BY <2>1 DEF Owner, Queued
  <2>4. CASE t \in Local /\ TableAcquire(t) /\ UNCHANGED net
    BY <2>1, <2>2, <2>3, <2>4, AcquireStep DEF IInv, TypeOK
  <2>5. CASE /\ t \notin Local /\ net' = [net EXCEPT ![t] = Append(@, "LOCK_REQ")]
             /\ NoGrant /\ UNCHANGED table
    <3>1. net'[t] = <<"LOCK_REQ">> /\ pc'[t] = "wait" /\ net' \in [Clients -> Seq(Posts)]
      BY <2>1, <2>2, <2>5, PostFacts DEF IInv, TypeOK
    <3>2. TypeOK'
      BY <2>2, <2>5, <3>1 DEF IInv, TypeOK, table, NoGrant
    <3>3. OneRequest(t)' /\ ~Owner(t)'
      BY <2>1, <2>5, <3>1, PostFacts DEF OneRequest, Owner, table, NoGrant
    <3> QED BY <2>2, <2>3, <2>5, <3>2, <3>3, QuietStep DEF IInv, TypeOK, NoGrant
  <2> QED BY <1>1, <2>4, <2>5 DEF Acquire, Call
<1>2. ASSUME NEW t \in Clients, ReqGranted(t) PROVE IInv'
  <2>1. pc[t] = "wait" /\ wait_flag[t] /\ net[t] = <<>> /\ ticket[t] = 0
    BY <1>2, PostFacts DEF ReqGranted, IInv, OneRequest, TypeOK
  <2>2. TypeOK' /\ UNCHANGED table
    BY <1>2 DEF ReqGranted, IInv, TypeOK, table
  <2>3. OneRequest(t)' /\ Owner(t) /\ Owner(t)'
    BY <1>2, <2>1 DEF ReqGranted, OneRequest, Owner, IInv, TypeOK
  <2> QED BY <1>2, <2>2, <2>3, QuietStep DEF ReqGranted, IInv, TypeOK
<1>3. ASSUME NEW t \in Clients, Release(t) \/ Abort(t) PROVE IInv'
  <2>1. /\ pc[t] \in {"wait", "hold"} /\ pc' = [pc EXCEPT ![t] = "done"]
        /\ \/ t \in Local /\ TableRelease(t) /\ UNCHANGED net
           \/ /\ t \notin Local /\ net' = [net EXCEPT ![t] = Append(@, "UNLOCK_REQ")]
              /\ NoGrant /\ UNCHANGED table
    BY <1>3 DEF Release, Abort, Call
  <2>2. net[t] \in {<<>>, <<"LOCK_REQ">>} /\ (pc[t] = "hold" => net[t] = <<>> /\ ticket[t] = 0)
    BY <2>1 DEF IInv, OneRequest
  <2>3. CASE t \in Local /\ TableRelease(t) /\ UNCHANGED net
    <3>1. net[t] = <<>>
      BY <2>3 DEF IInv, OneRequest
    <3>2. t \in Queued \/ Owner(t)
      BY <2>1, <3>1 DEF Queued, Owner, IInv, TypeOK
    <3> QED BY <2>1, <2>3, <3>1, <3>2, ReleaseStep DEF IInv, TypeOK
  <2>4. CASE /\ t \notin Local /\ net' = [net EXCEPT ![t] = Append(@, "UNLOCK_REQ")]
             /\ NoGrant /\ UNCHANGED table
    <3> net \in [Clients -> Seq(Posts)] /\ pc \in [Clients -> {"idle", "wait", "hold", "done"}]
      BY DEF IInv, TypeOK
    <3>a. net'[t] = Append(net[t], "UNLOCK_REQ") /\ pc'[t] = "done"
      BY <2>1, <2>4
    <3>b. net' \in [Clients -> Seq(Posts)]
      BY <2>4
    <3>1. /\ net[t] = <<>> => net'[t] = <<"UNLOCK_REQ">>
          /\ net[t] = <<"LOCK_REQ">> => net'[t] = <<"LOCK_REQ", "UNLOCK_REQ">>
          /\ pc'[t] = "done" /\ net' \in [Clients -> Seq(Posts)]
      BY <3>a, <3>b, PostFacts
    <3>2. TypeOK'
      BY <2>1, <2>4, <3>1 DEF IInv, TypeOK, table, NoGrant
    <3>3. OneRequest(t) /\ UNCHANGED <<ticket, wait_flag, reply>>
      BY <2>4 DEF IInv, table, NoGrant
    <3>4. OneRequest(t)'
      BY <2>1, <2>2, <2>4, <3>1, <3>3, PostFacts DEF OneRequest
    <3>5. Owner(t)' <=> Owner(t)
      BY <2>1, <2>2, <3>1, <3>3, PostFacts DEF Owner
    <3> QED BY <2>1, <2>4, <3>2, <3>4, <3>5, QuietStep DEF IInv, TypeOK, NoGrant
  <2> QED BY <2>1, <2>3, <2>4
<1>4. ASSUME NEW t \in Clients, ServerPoll(t) PROVE IInv'
  <2>1. /\ net[t] # <<>> /\ net' = [net EXCEPT ![t] = Tail(@)] /\ pc' = pc
        /\ OneRequest(t) /\ t \notin Local
    BY <1>4 DEF ServerPoll, IInv, OneRequest
  <2>2. net' \in [Clients -> Seq(Posts)]
    BY <2>1 DEF IInv, TypeOK
  <2>3. CASE Head(net[t]) = "LOCK_REQ" /\ TableAcquire(t)
    <3>1. \/ net[t] = <<"LOCK_REQ">> /\ net'[t] = <<>>
          \/ net[t] = <<"LOCK_REQ", "UNLOCK_REQ">> /\ net'[t] = <<"UNLOCK_REQ">>
      BY <2>1, <2>3, PostFacts DEF OneRequest, IInv, TypeOK
    <3>2. \/ pc[t] = "wait" /\ net'[t] = <<>>
          \/ pc[t] = "done" /\ net'[t] = <<"UNLOCK_REQ">>
      BY <2>1, <3>1, PostFacts DEF OneRequest, IInv, TypeOK
    <3>3. ticket[t] = 0 /\ ~wait_flag[t] /\ reply[t] = 0
      BY <2>1, <2>3 DEF OneRequest
    <3>4. t \notin Queued /\ ~Owner(t)
      BY <2>1, <2>3, <3>3 DEF Queued, Owner
    <3> QED BY <2>1, <2>2, <2>3, <3>2, <3>3, <3>4, AcquireStep DEF IInv, TypeOK
  <2>4. CASE Head(net[t]) = "UNLOCK_REQ" /\ TableRelease(t)
    <3>1. net[t] = <<"UNLOCK_REQ">> /\ net'[t] = <<>>
      BY <2>1, <2>4, PostFacts DEF OneRequest, IInv, TypeOK
    <3>2. pc[t] = "done"
      BY <2>1, <3>1, PostFacts DEF OneRequest, IInv, TypeOK
    <3>3. t \in Queued \/ Owner(t)
      BY <2>4, <3>1, <3>2, PostFacts DEF Queued, Owner, IInv, TypeOK
    <3> QED BY <2>1, <2>2, <2>4, <3>1, <3>2, <3>3, ReleaseStep DEF IInv, TypeOK
  <2> QED BY <1>4, <2>3, <2>4 DEF ServerPoll
<1>5. ASSUME NEW t \in Clients, ReplyPoll(t) PROVE IInv'
  <2>1. OneRequest(t) /\ reply[t] > 0 /\ ticket[t] = 0 /\ pc[t] # "idle" /\ t \notin Local
    BY <1>5 DEF ReplyPoll, IInv, OneRequest, TypeOK
  <2>2. TypeOK' /\ UNCHANGED table
    BY <1>5 DEF ReplyPoll, IInv, TypeOK, table
  <2>3. OneRequest(t)' /\ (Owner(t)' <=> Owner(t))
    BY <1>5, <2>1 DEF ReplyPoll, OneRequest, Owner
  <2> QED BY <1>5, <2>2, <2>3, QuietStep DEF ReplyPoll, IInv, TypeOK
<1>6. CASE UNCHANGED vars
  BY <1>6 DEF vars, IInv, TypeOK, TableExact, OneRequest, Owners, Owner, Queued
<1> QED BY <1>1, <1>2, <1>3, <1>4, <1>5, <1>6 DEF Next

-----------------------------------------------------------------------------
(* The lock table of ParLock (lock_queue.cc) is exact in every reachable   *)
(* state, for any set of tasks, wherever they run, and with tasks that     *)
(* abort while they wait: the invariant is inductive.                      *)
THEOREM TableInvariant == Spec => []IInv
<1>1. Init => IInv
  BY InitIInv
<1>2. IInv /\ [Next]_vars => IInv'
  BY NextIInv
<1> QED BY <1>1, <1>2, PTL DEF Spec

(* Every variable keeps its type; in particular shared_counter does not    *)
(* become negative: it is decremented only for a reader that it counts.    *)
THEOREM TypeCorrect == Spec => []TypeOK
<1>1. IInv => TypeOK
  BY DEF IInv
<1> QED BY <1>1, TableInvariant, PTL

(* A task that has seen its wait flag set (lock_req_granted) is one that   *)
(* the lock's server let in and whose release it has not yet handled.      *)
THEOREM NoHoldWithoutGrant == Spec => []HoldIsGranted
<1>1. IInv => HoldIsGranted
  BY DEF IInv, HoldIsGranted, OneRequest, Owner
<1> QED BY <1>1, TableInvariant, PTL

(* Two owners are both readers: what TableExact says of any two tasks.     *)
LEMMA OwnersCompatible ==
  ASSUME IInv, NEW t \in Clients, NEW u \in Clients, t # u, Owner(t), Owner(u)
  PROVE  t \in Readers /\ u \in Readers
<1>1. t \in Owners /\ u \in Owners
  BY DEF Owners
<1> QED BY <1>1 DEF IInv, TypeOK, TableExact

(* The tasks of ParLock see a reader-writer lock: each step of the tasks,  *)
(* the server and the network is a Take, a Drop or a stuttering step of    *)
(* RWLock, so a writer never holds the lock with anyone else.              *)
THEOREM Refinement == Spec => ImplementsRWLock
<1> DEFINE held == [t \in Clients |-> IF pc[t] = "hold" THEN Mode(t) ELSE "none"]
<1>1. Init => RW!Init
  BY DEF Init, RW!Init
<1>2. IInv /\ [Next]_vars => [RW!Next]_held
  <2> SUFFICES ASSUME IInv, [Next]_vars PROVE [RW!Next]_held
    OBVIOUS
  <2>1. ASSUME NEW t \in Clients, ReqGranted(t) PROVE RW!Take(t, Mode(t))
    <3>1. Owner(t)
      BY <2>1, PostFacts DEF ReqGranted, IInv, OneRequest, Owner, TypeOK
    <3>2. ASSUME NEW u \in Clients \ {t}, held[u] # "none"
          PROVE  held[u] = "SHARED" /\ Mode(t) = "SHARED"
      <4>1. Owner(u)
        BY <3>2 DEF IInv, OneRequest, Owner
      <4>2. t \in Readers /\ u \in Readers
        BY <3>1, <4>1, OwnersCompatible
      <4> QED BY <3>2, <4>2, ParLockConstants DEF Mode
    <3>3. held[t] = "none" /\ held' = [held EXCEPT ![t] = Mode(t)]
      BY <2>1 DEF ReqGranted, IInv, TypeOK, Mode
    <3> QED BY <3>2, <3>3 DEF RW!Take
  <2>2. ASSUME NEW t \in Clients, Release(t) PROVE RW!Drop(t)
    BY <2>2 DEF Release, Call, IInv, TypeOK, Mode, RW!Drop
  <2>3. ASSUME NEW t \in Clients, Acquire(t) \/ Abort(t) PROVE held' = held
    BY <2>3 DEF Acquire, Abort, Call, IInv, TypeOK, Mode
  <2>4. ASSUME NEW t \in Clients, ServerPoll(t) \/ ReplyPoll(t) PROVE held' = held
    BY <2>4 DEF ServerPoll, ReplyPoll, Mode
  <2>5. CASE UNCHANGED vars
    BY <2>5 DEF vars, Mode
  <2>6. \A t \in Clients : Mode(t) \in RW!Modes
    BY DEF Mode, RW!Modes
  <2> QED BY <2>1, <2>2, <2>3, <2>4, <2>5, <2>6 DEF Next, RW!Next
<1> QED BY <1>1, <1>2, TableInvariant, PTL DEF Spec, ImplementsRWLock, RW!Spec
=============================================================================
