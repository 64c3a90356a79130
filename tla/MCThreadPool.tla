----------------------------- MODULE MCThreadPool ------------------------------
(* Instances of ThreadPool for TLC: two threads and three tasks.           *)
EXTENDS ThreadPool

CONSTANTS t1, t2, t3, w1, w2
=============================================================================
