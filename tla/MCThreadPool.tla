---------------------------- MODULE MCThreadPool ----------------------------
(* Three tasks and two threads: two waits are in the way of every call of   *)
(* the third task and of their own ends, and one thread can be lost.       *)
EXTENDS ThreadPool
CONSTANTS t1, t2, t3

Messages == <<t1, t2, t3>>
=============================================================================
