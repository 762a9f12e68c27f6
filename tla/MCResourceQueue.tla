-------------------------- MODULE MCResourceQueue --------------------------
(* Instances of ResourceQueue for TLC.                                     *)
EXTENDS ResourceQueue

CONSTANTS t1, t2, t3

AllThreads == {t1, t2, t3}

(* Everybody waits without a limit.                                        *)
Untimed == [t \in AllThreads |-> {"request"}]

(* One thread may call everything.                                         *)
OneOfEach == [t \in AllThreads |-> IF t = t1 THEN OpNames ELSE {"request"}]

AllFaults == FaultNames
NoFaults == {}
=============================================================================
