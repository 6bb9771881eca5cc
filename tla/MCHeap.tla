------------------------------- MODULE MCHeap -------------------------------
(* Small instances of Heap for TLC: addresses are interchangeable.         *)
EXTENDS Heap, TLC

Symmetry == Permutations(Addr)
=============================================================================
