---------------------------- MODULE MCHeapQueue ----------------------------
(***************************************************************************)
(* Six keys fill a heap of three levels, so that removing a leaf of one    *)
(* branch can move the last item under a parent of lower priority.         *)
(***************************************************************************)
EXTENDS HeapQueue, TLC

CONSTANTS k1, k2, k3, k4, k5, k6

MCKeys == {k1, k2, k3, k4, k5, k6}
Symmetry == Permutations(MCKeys)
=============================================================================
