------------------------------- MODULE RWLock -------------------------------
(***************************************************************************)
(* The spinning readers/writer lock of port/atomic.c: an int spin lock     *)
(* guards the three fields of RWLock, but every operation first looks at   *)
(* the fields without the spin lock, and lock_rwlock(WRITE) even stores    *)
(* about_to_write without it (line 71).  One action is one access that     *)
(* other threads can observe: an unlocked read, the unlocked store, the    *)
(* compare-and-swap that takes the spin lock, the test of the fields made  *)
(* under it, and their update with the unlock_int that follows.            *)
(***************************************************************************)

EXTENDS Integers, FiniteSets

CONSTANTS
  Threads,   (* the threads that share the lock                            *)
  Ops        (* Ops[t]: the operations the program of thread t calls       *)

LockOps    == {"lock_read", "lock_write"}
TryOps     == {"try_read", "try_write"}
UnlockOps  == {"unlock_read", "unlock_write"}
PromoteOps == {"promote", "try_promote"}
DemoteOps  == {"demote", "try_demote"}
OpNames    == LockOps \cup TryOps \cup UnlockOps \cup PromoteOps \cup DemoteOps

ASSUME RWLockAssumption ==
  /\ IsFiniteSet(Threads)
  /\ Ops \in [Threads -> SUBSET OpNames]

VARIABLES
  lock,            (* the int spin lock: 0 or 1                            *)
  about_to_write,  (* a writer asks new readers to stay out                *)
  is_writing,      (* a writer is inside                                   *)
  reader_count,    (* readers inside                                       *)
  pc,              (* where each thread is in its operation                *)
  op,              (* the operation each thread executes                   *)
  hold             (* what each thread holds of the lock (callers' view)   *)

vars == <<lock, about_to_write, is_writing, reader_count, pc, op, hold>>

Fields == <<about_to_write, is_writing, reader_count>>

PCs == {"idle", "is_writing", "second", "store", "lock", "locked",
        "update", "aborted"}

(* The operations that spin until they succeed; the others return false.   *)
Spinning == {"lock_read", "lock_write", "promote", "demote"}

ReadOps  == {"lock_read", "try_read"}
WriteOps == {"lock_write", "try_write"}

(* What a caller holds when it calls an operation.  Callers respect the    *)
(* notes "you must hold the rlock/wlock first" and never lock twice.       *)
Needs(o) ==
  IF o \in LockOps \cup TryOps THEN "none"
  ELSE IF o \in PromoteOps \cup {"unlock_read"} THEN "read"
  ELSE "write"

Init ==
  /\ lock = 0
  /\ about_to_write = FALSE
  /\ is_writing = FALSE
  /\ reader_count = 0
  /\ pc = [t \in Threads |-> "idle"]
  /\ op = [t \in Threads |-> "none"]
  /\ hold = [t \in Threads |-> "none"]

-----------------------------------------------------------------------------

At(t, place) == pc[t] = place

(* The operation of t returns to its caller.                               *)
Return(t) ==
  /\ pc' = [pc EXCEPT ![t] = "idle"]
  /\ op' = [op EXCEPT ![t] = "none"]

GoTo(t, place) ==
  /\ pc' = [pc EXCEPT ![t] = place]
  /\ op' = op

(* A failed attempt: sched_yield and another round, or "false".            *)
GiveUp(t) ==
  IF op[t] \in Spinning THEN GoTo(t, "is_writing") ELSE Return(t)

(* assert() calls abort(): the whole program stops.                        *)
Abort(t) == GoTo(t, "aborted")

Call(t, o) ==
  /\ At(t, "idle")
  /\ o \in Ops[t]
  /\ hold[t] = Needs(o)
  /\ op' = [op EXCEPT ![t] = o]
  /\ pc' = [pc EXCEPT ![t] = IF o \in UnlockOps THEN "lock" ELSE "is_writing"]
  /\ UNCHANGED <<lock, Fields, hold>>

(* The first operand of every unlocked test is is_writing.                 *)
ReadIsWriting(t) ==
  /\ At(t, "is_writing")
  /\ IF is_writing = (op[t] \in DemoteOps) THEN GoTo(t, "second") ELSE GiveUp(t)
  /\ UNCHANGED <<lock, Fields, hold>>

(* The second operand of the unlocked test.  In try_demote it is an        *)
(* assertion on the other two fields.                                      *)
ReadSecond(t) ==
  /\ At(t, "second")
  /\ \/ /\ op[t] \in ReadOps
        /\ IF about_to_write THEN GiveUp(t) ELSE GoTo(t, "lock")
     \/ /\ op[t] = "lock_write"
        /\ GoTo(t, IF reader_count < 1 THEN "lock" ELSE "store")
     \/ /\ op[t] = "try_write"
        /\ IF reader_count < 1 THEN GoTo(t, "lock") ELSE GiveUp(t)
     \/ /\ op[t] \in PromoteOps
        /\ IF reader_count = 1 THEN GoTo(t, "lock") ELSE GiveUp(t)
     \/ /\ op[t] \in DemoteOps
        /\ IF ~about_to_write /\ reader_count < 1 THEN GoTo(t, "lock") ELSE Abort(t)
  /\ UNCHANGED <<lock, Fields, hold>>

(* lock_rwlock(WRITE) saw readers: it asks for the lock by a store that    *)
(* the spin lock does not protect.                                         *)
StoreAboutToWrite(t) ==
  /\ At(t, "store")
  /\ about_to_write' = TRUE
  /\ GoTo(t, "is_writing")
  /\ UNCHANGED <<lock, is_writing, reader_count, hold>>

(* lock_int: compare-and-swap of 0 to 1.                                   *)
LockInt(t) ==
  /\ At(t, "lock")
  /\ lock = 0
  /\ lock' = 1
  /\ GoTo(t, "locked")
  /\ UNCHANGED <<Fields, hold>>

-----------------------------------------------------------------------------
(* The sections guarded by the spin lock: the fields are read again, then  *)
(* written, and unlock_int ends the section.                               *)

(* Mutant of MayProceed: writers trust the unlocked read of reader_count.  *)
MayProceedOnStaleCount(t) ==
  \/ op[t] \in ReadOps       /\ ~is_writing /\ ~about_to_write
  \/ op[t] \in WriteOps      /\ ~is_writing
  \/ op[t] \in PromoteOps    /\ ~is_writing /\ reader_count = 1
  \/ op[t] \in DemoteOps     /\ is_writing  /\ reader_count < 1 /\ ~about_to_write
  \/ op[t] = "unlock_read"   /\ ~is_writing /\ reader_count > 0
  \/ op[t] = "unlock_write"  /\ is_writing  /\ reader_count < 1

MayProceed(t) ==
  \/ op[t] \in ReadOps       /\ ~is_writing /\ ~about_to_write
  \/ op[t] \in WriteOps      /\ ~is_writing /\ reader_count < 1
  \/ op[t] \in PromoteOps    /\ ~is_writing /\ reader_count = 1
  \/ op[t] \in DemoteOps     /\ is_writing  /\ reader_count < 1 /\ ~about_to_write
  \/ op[t] = "unlock_read"   /\ ~is_writing /\ reader_count > 0
  \/ op[t] = "unlock_write"  /\ is_writing  /\ reader_count < 1

(* unlock_rwlock asserts its condition; try_demote asserts the rest of its *)
(* condition once it has seen is_writing.                                  *)
Asserts(t) == op[t] \in UnlockOps \/ (op[t] \in DemoteOps /\ is_writing)

(* The failed attempts that ask new readers to stay out.                   *)
AsksForLock(t) == (op[t] = "lock_write" /\ ~is_writing) \/ op[t] = "promote"

Recheck(t) ==
  /\ At(t, "locked")
  /\ IF MayProceed(t)
     THEN GoTo(t, "update") /\ UNCHANGED <<lock, about_to_write>>
     ELSE IF Asserts(t)
     THEN Abort(t) /\ UNCHANGED <<lock, about_to_write>>
     ELSE /\ about_to_write' = (about_to_write \/ AsksForLock(t))
          /\ lock' = 0
          /\ GiveUp(t)
  /\ UNCHANGED <<is_writing, reader_count, hold>>

(* The write of the fields by an operation in ops, unlock_int and return.  *)
Finish(t, ops, mode) ==
  /\ At(t, "update")
  /\ op[t] \in ops
  /\ lock' = 0
  /\ hold' = [hold EXCEPT ![t] = mode]
  /\ Return(t)

EnterRead(t) ==
  /\ Finish(t, ReadOps, "read")
  /\ reader_count' = reader_count + 1
  /\ UNCHANGED <<about_to_write, is_writing>>

(* Mutant of EnterWrite: about_to_write is not reset.                      *)
EnterWriteKeepingIntent(t) ==
  /\ Finish(t, WriteOps, "write")
  /\ is_writing' = TRUE
  /\ UNCHANGED <<about_to_write, reader_count>>

EnterWrite(t) ==
  /\ Finish(t, WriteOps, "write")
  /\ about_to_write' = FALSE
  /\ is_writing' = TRUE
  /\ UNCHANGED reader_count

(* Mutant of Promote: the promoted reader is still counted.                *)
PromoteKeepingCount(t) ==
  /\ Finish(t, PromoteOps, "write")
  /\ about_to_write' = FALSE
  /\ is_writing' = TRUE
  /\ UNCHANGED reader_count

Promote(t) ==
  /\ Finish(t, PromoteOps, "write")
  /\ about_to_write' = FALSE
  /\ is_writing' = TRUE
  /\ reader_count' = reader_count - 1

Demote(t) ==
  /\ Finish(t, DemoteOps, "read")
  /\ is_writing' = FALSE
  /\ reader_count' = reader_count + 1
  /\ UNCHANGED about_to_write

(* Mutant of LeaveRead: the reader is not discounted.                      *)
LeaveReadKeepingCount(t) ==
  /\ Finish(t, {"unlock_read"}, "none")
  /\ UNCHANGED Fields

LeaveRead(t) ==
  /\ Finish(t, {"unlock_read"}, "none")
  /\ reader_count' = reader_count - 1
  /\ UNCHANGED <<about_to_write, is_writing>>

LeaveWrite(t) ==
  /\ Finish(t, {"unlock_write"}, "none")
  /\ is_writing' = FALSE
  /\ UNCHANGED <<about_to_write, reader_count>>

-----------------------------------------------------------------------------

Step(t) ==
  \/ ReadIsWriting(t)
  \/ ReadSecond(t)
  \/ StoreAboutToWrite(t)
  \/ LockInt(t)
  \/ Recheck(t)
  \/ EnterRead(t)
  \/ EnterWrite(t)
  \/ Promote(t)
  \/ Demote(t)
  \/ LeaveRead(t)
  \/ LeaveWrite(t)

Running == \A t \in Threads : pc[t] # "aborted"

(* After an abort() nothing happens any more.                              *)
Halted == ~Running /\ UNCHANGED vars

Next ==
  \/ /\ Running
     /\ \E t \in Threads : Step(t) \/ \E o \in Ops[t] : Call(t, o)
  \/ Halted

Spec == Init /\ [][Next]_vars

(* Every thread keeps being scheduled, and whoever holds the lock unlocks  *)
(* it some day.  A weakly fair LockInt may lose the compare-and-swap for   *)
(* ever against others that keep taking the spin lock.                     *)
Unlock(t) == \E o \in UnlockOps \cap Ops[t] : Call(t, o)

Fairness ==
  \A t \in Threads : WF_vars(Running /\ Step(t)) /\ WF_vars(Running /\ Unlock(t))

FairSpec == Spec /\ Fairness

-----------------------------------------------------------------------------
(* Properties                                                              *)

TypeOK ==
  /\ lock \in {0, 1}
  /\ about_to_write \in BOOLEAN
  /\ is_writing \in BOOLEAN
  /\ reader_count \in Int
  /\ pc \in [Threads -> PCs]
  /\ op \in [Threads -> OpNames \cup {"none"}]
  /\ hold \in [Threads -> {"none", "read", "write"}]

RW == INSTANCE RWMutex

(* The lock is a readers/writer lock for its callers, whatever the stale   *)
(* unlocked reads return: nobody shares it with a writer.                  *)
Exclusive == RW!Exclusive

(* Every step of the lock is a step of the atomic readers/writer lock, so  *)
(* promotion and demotion let no other writer slip in between.             *)
ImplementsRWMutex == RW!Spec

(* The counter and the flag tell exactly who is inside: no increment is    *)
(* lost and no wrap-around of the unsigned counter can come.               *)
FieldsMatchHolders ==
  /\ reader_count = Cardinality(RW!Readers)
  /\ is_writing <=> RW!Writers # {}

(* The threads that will clear about_to_write when they get in.            *)
Pending(t) == op[t] \in {"lock_write", "promote"}

(* about_to_write is never left set when nobody is going to clear it.  A   *)
(* stale flag would shut out readers for ever.  The store of line 71 comes *)
(* after the test it depends on, possibly when another writer is inside.   *)
IntentHasOwner == about_to_write => \E t \in Threads : Pending(t)

(* The assertions of unlock_rwlock (lines 131 and 135) hold; only those of *)
(* try_demote_wlock_to_rlock can stop the program.                         *)
OnlyDemoteAborts ==
  \A t \in Threads : pc[t] = "aborted" => op[t] \in DemoteOps

(* Writers are preferred: once some writer has asked for the lock, a       *)
(* writer gets in, although readers keep calling.                          *)
IntentLeadsToWriter == about_to_write ~> is_writing

=============================================================================
