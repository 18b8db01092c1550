----------------------------- MODULE MCRecovery -----------------------------
(* Three machines; two tasks on the first, one on each of the others.      *)
EXTENDS Recovery

CONSTANTS t1, t2

MCClients == {<<1, t1>>, <<1, t2>>, <<2, t1>>, <<3, t1>>}
=============================================================================
