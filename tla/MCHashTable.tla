---------------------------- MODULE MCHashTable ----------------------------
(* Instances of HashTable for TLC.                                         *)
EXTENDS HashTable, TLC

CONSTANTS t1, t2, k1, k2, v1, n1, n2

TwoThreads == {t1, t2}
TwoKeys == {k1, k2}
OneValue == {v1}
TwoNodes == {n1, n2}
NextOfTwo == n1 :> n2 @@ n2 :> NULL

(* Both keys are in one entry of the first base and in two of the second.  *)
SplitBySecond == k1 :> 0 @@ k2 :> 1

(* Both are in the last of three entries, and apart in a base of two.      *)
TogetherInThird == k1 :> 2 @@ k2 :> 5

(* One thread changes the table while the other one calls everything.      *)
Changer == t1 :> {"insert", "remove"} @@ t2 :> OpNames

Changers == [t \in TwoThreads |-> {"insert", "remove"}]
=============================================================================
