----------------------------- MODULE MCNetLock -----------------------------
(***************************************************************************)
(* The systems and clients NetLock is checked with.                        *)
(***************************************************************************)
EXTENDS NetLock

CONSTANTS r1, r2, w1, w2
MCReaders == {r1, r2}
MCWriters == {w1, w2}

(* srvlock, with txnbench; with microbench, where tasks use it again.      *)
SrvLock(U) == [inSwitch |-> FALSE, size |-> 1, spread |-> TRUE, aborts |-> "arrived",
               reqs |-> 1, users |-> U]
SrvLockAgain(U) == [SrvLock(U) EXCEPT !.aborts = "never", !.reqs = 2]

(* netlock, a lock at the primary, with txnbench.                          *)
Primary(U) == [inSwitch |-> FALSE, size |-> 1, spread |-> FALSE, aborts |-> "any",
               reqs |-> 1, users |-> U]

(* netlock, a lock in the switch, with txnbench; with a timeout that is    *)
(* long enough for everybody's turn to come; with microbench.              *)
InSwitch(n, U) == [inSwitch |-> TRUE, size |-> n, spread |-> FALSE, aborts |-> "any",
                   reqs |-> 1, users |-> U]
LongTimeout(n, U) == [InSwitch(n, U) EXCEPT !.aborts = "ignored"]
Microbench(n, U) == [InSwitch(n, U) EXCEPT !.aborts = "never"]

Three == {{r1, r2, w1}, {r1, w1, w2}}

AllSystems ==
  {SrvLock(U) : U \in Three} \cup {SrvLockAgain(U) : U \in {{r1, w1}, {w1, w2}}}
    \cup {Primary(U) : U \in Three}
    \cup {InSwitch(1, {r1, r2, w1}), InSwitch(2, {r1, w1, w2})}
    \cup {LongTimeout(n, Tasks) : n \in {1, 3}}

OnlyMicrobench == {Microbench(2, {r1, w1})}
=============================================================================
