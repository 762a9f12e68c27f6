----------------------------- MODULE MCDeQueue -----------------------------
(* Instances of DeQueue for TLC.                                           *)
EXTENDS DeQueue

CONSTANTS v1, v2

TwoValues == {v1, v2}

AllOps == OpNames
AsQueue == {"push", "pop_front"}
=============================================================================
