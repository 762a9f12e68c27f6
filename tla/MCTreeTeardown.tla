--------------------------- MODULE MCTreeTeardown ---------------------------
(* Instances of TreeTeardown for TLC.                                      *)
EXTENDS TreeTeardown

CONSTANTS v1, v2

TwoValues == {v1, v2}
NineKeys == 1..9
TwoProbes == {1, 2}
AllOps == OpNames

(* Neighbours have different values, and one key gets either.              *)
NinePairs == {<<k, IF k % 2 = 0 THEN v1 ELSE v2>> : k \in NineKeys} \cup {<<5, v1>>}
=============================================================================
