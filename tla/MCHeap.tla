------------------------------- MODULE MCHeap -------------------------------
(* Instances of Heap for TLC.                                              *)
EXTENDS Heap

TwoValues == 1..2

AllOps == OpNames
=============================================================================
