---------------------------- MODULE MCThreading ----------------------------
(* Bounded instance of Threading: two threads on one mutex, one on another. *)
EXTENDS Threading, TLC

CONSTANTS t1, t2, t3, m1, m2

MCMutexOf == (t1 :> m1) @@ (t2 :> m1) @@ (t3 :> m2)
=============================================================================
