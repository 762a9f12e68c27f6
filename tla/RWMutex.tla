------------------------------ MODULE RWMutex ------------------------------
(***************************************************************************)
(* What a readers/writer lock promises its callers, with every operation   *)
(* atomic.  Both lock implementations of port/ are checked against it: the *)
(* spinning RWLock of atomic.c (module RWLock) and the mutex-and-condition *)
(* ResourceQueue of resource_queue.c (module ResourceQueue).               *)
(***************************************************************************)

CONSTANT Threads        (* the threads that use the lock *)

VARIABLE hold           (* what each thread holds: Modes *)

Modes == {"none", "read", "write"}

Readers == {t \in Threads : hold[t] = "read"}
Writers == {t \in Threads : hold[t] = "write"}

Init == hold = [t \in Threads |-> "none"]

AcquireRead(t) ==
  /\ hold[t] = "none"
  /\ Writers = {}
  /\ hold' = [hold EXCEPT ![t] = "read"]

AcquireWrite(t) ==
  /\ hold[t] = "none"
  /\ Writers = {}
  /\ Readers = {}
  /\ hold' = [hold EXCEPT ![t] = "write"]

Release(t) ==
  /\ hold[t] # "none"
  /\ hold' = [hold EXCEPT ![t] = "none"]

(* The only reader becomes the writer without letting anyone in between.   *)
Promote(t) ==
  /\ Readers = {t}
  /\ Writers = {}
  /\ hold' = [hold EXCEPT ![t] = "write"]

(* The writer becomes a reader without letting another writer in between.  *)
Demote(t) ==
  /\ hold[t] = "write"
  /\ hold' = [hold EXCEPT ![t] = "read"]

Next ==
  \E t \in Threads :
     \/ AcquireRead(t)
     \/ AcquireWrite(t)
     \/ Release(t)
     \/ Promote(t)
     \/ Demote(t)

Spec == Init /\ [][Next]_hold

-----------------------------------------------------------------------------

(* A writer is alone: no second writer and no reader beside it.  This is   *)
(* what the thread tests of port/ rely on when they update shared memory   *)
(* under the lock.                                                         *)
Exclusive ==
  \A t, u \in Threads :
     t # u /\ hold[t] = "write" => hold[u] = "none"

=============================================================================
