----------------------------- MODULE MCFissLock -----------------------------
(* Small instances of FissLock: which tasks of which hosts use the lock.   *)
EXTENDS FissLock

CONSTANTS h1, h2, h3, t1, t2

(* Two tasks on one host, one on another: local and remote competition.    *)
TwoByOne == {<<h1, t1>>, <<h1, t2>>, <<h2, t1>>}

(* Two tasks of the same host.                                             *)
Same == {<<h1, t1>>, <<h1, t2>>}

(* One task on each of three hosts: the agent moves past a third party.    *)
OneEach == {<<h1, t1>>, <<h2, t1>>, <<h3, t1>>}
=============================================================================
