--------------------------- MODULE MCSystemCalls ---------------------------
(* Bounded instance of SystemCalls: two threads, one of which makes two    *)
(* calls; every call may be of every function.                             *)
EXTENDS SystemCalls, TLC

CONSTANTS a1, a2, b1, ta, tb

MCBy == (a1 :> ta) @@ (a2 :> ta) @@ (b1 :> tb)
=============================================================================
