------------------------------ MODULE MCRWLock ------------------------------
(* Instances of RWLock for TLC.                                            *)
EXTENDS RWLock, TLC

CONSTANTS t1, t2, t3

AllThreads == {t1, t2, t3}

(* Only t1 promotes: a second promoter would wait for the first one's read *)
(* lock for ever, and the first for the second's.                          *)
OnePromoter ==
  [t \in AllThreads |-> IF t = t1 THEN OpNames ELSE OpNames \ PromoteOps]

=============================================================================
