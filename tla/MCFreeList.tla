----------------------------- MODULE MCFreeList -----------------------------
(* Instances of FreeList for TLC.                                          *)
EXTENDS FreeList

CONSTANTS t1, t2, b1, b2, b3

TwoThreads == {t1, t2}
ThreeBlocks == {b1, b2, b3}

(* initHolderList and REMOVE_FROM_CDLL clear next_p; the other stores to   *)
(* it make no more difference to the list than this one.                   *)
OnlyNull == {NULL}
=============================================================================
