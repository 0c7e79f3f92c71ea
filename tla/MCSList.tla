------------------------------ MODULE MCSList ------------------------------
(* Bounded instances of SList: every node may be malloced, freed and       *)
(* malloced again any number of times.                                     *)
EXTENDS SList, TLC

CONSTANTS n1, n2, n3, n4

Nodes == Permutations({n1, n2, n3, n4})
=============================================================================
