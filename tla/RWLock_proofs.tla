--------------------------- MODULE RWLock_proofs ---------------------------
(***************************************************************************)
(* Proofs about RWLock, for any finite set of threads and any choice of    *)
(* operations.  The invariants of RWLock are not inductive: a thread in    *)
(* "update" relies on a test it made one step before, which the spin lock  *)
(* protects.  IInv adds who holds the spin lock (SpinLockHeld), what a     *)
(* thread in "update" still knows (TestStillHolds) and how pc, op and hold *)
(* go together (CallsInProgress).                                          *)
(***************************************************************************)

EXTENDS RWLock, FiniteSetTheorems, TLAPS

Readers == RW!Readers
Writers == RW!Writers

CallsInProgress ==
  \A t \in Threads :
     /\ pc[t] = "idle" <=> op[t] = "none"
     /\ op[t] # "none" => hold[t] = Needs(op[t])
     /\ pc[t] \in {"is_writing", "second"} => op[t] \notin UnlockOps
     /\ pc[t] = "store" => op[t] = "lock_write"

Section == {"locked", "update"}

SpinLockHeld ==
  /\ \A t \in Threads : pc[t] \in Section => lock = 1
  /\ \A t, u \in Threads : pc[t] \in Section /\ pc[u] \in Section => t = u

TestStillHolds ==
  \A t \in Threads : pc[t] = "update" =>
     /\ op[t] \in ReadOps => ~is_writing
     /\ op[t] \in WriteOps => ~is_writing /\ reader_count < 1
     /\ op[t] \in PromoteOps => ~is_writing /\ reader_count = 1

IInv ==
  /\ TypeOK
  /\ FieldsMatchHolders
  /\ Exclusive
  /\ CallsInProgress
  /\ SpinLockHeld
  /\ TestStillHolds
  /\ IntentHasOwner
  /\ OnlyDemoteAborts

-----------------------------------------------------------------------------

LEMMA NeedsFacts ==
  /\ \A o \in LockOps \cup TryOps : Needs(o) = "none"
  /\ \A o \in PromoteOps \cup {"unlock_read"} : Needs(o) = "read"
  /\ \A o \in DemoteOps \cup {"unlock_write"} : Needs(o) = "write"
BY DEF Needs, LockOps, TryOps, PromoteOps, DemoteOps

(* Who reads and who writes after one thread changes what it holds.        *)
LEMMA ReadersFinite == IsFiniteSet(Readers)
BY FS_Subset, RWLockAssumption DEF Readers, RW!Readers

LEMMA HoldersAfter ==
  ASSUME TypeOK, NEW t \in Threads, NEW mode \in {"none", "read", "write"},
         hold' = [hold EXCEPT ![t] = mode]
  PROVE  /\ Readers' = IF mode = "read" THEN Readers \cup {t} ELSE Readers \ {t}
         /\ Writers' = IF mode = "write" THEN Writers \cup {t} ELSE Writers \ {t}
BY DEF TypeOK, Readers, Writers, RW!Readers, RW!Writers

LEMMA InitIInv == Init => IInv
<1> SUFFICES ASSUME Init PROVE IInv
  OBVIOUS
<1>1. Readers = {} /\ Writers = {}
  BY DEF Init, Readers, Writers, RW!Readers, RW!Writers
<1>2. FieldsMatchHolders
  BY <1>1, FS_EmptySet DEF Init, FieldsMatchHolders, Readers, Writers
<1>3. TypeOK
  <2>1. about_to_write \in BOOLEAN /\ is_writing \in BOOLEAN
    BY DEF Init
  <2>2. lock \in {0, 1} /\ reader_count \in Int
    BY DEF Init
  <2>3. pc \in [Threads -> PCs] /\ op \in [Threads -> OpNames \cup {"none"}]
    BY DEF Init, PCs
  <2>4. hold \in [Threads -> {"none", "read", "write"}]
    BY DEF Init
  <2>5. QED
    BY <2>1, <2>2, <2>3, <2>4 DEF TypeOK
<1>4. Exclusive
  BY DEF Init, Exclusive, RW!Exclusive
<1>5. CallsInProgress /\ SpinLockHeld /\ TestStillHolds
  BY DEF Init, CallsInProgress, SpinLockHeld, Section, TestStillHolds
<1>6. IntentHasOwner /\ OnlyDemoteAborts
  BY DEF Init, IntentHasOwner, OnlyDemoteAborts
<1>7. QED
  BY <1>2, <1>3, <1>4, <1>5, <1>6 DEF IInv

(* The steps that take no part of the lock: the fields that say who is     *)
(* inside and hold stay, at most about_to_write and the spin lock change.  *)
LEMMA OutsideSteps ==
  ASSUME IInv, NEW t \in Threads,
         \/ \E o \in Ops[t] : Call(t, o)
         \/ ReadIsWriting(t) \/ ReadSecond(t) \/ StoreAboutToWrite(t)
         \/ LockInt(t) \/ Recheck(t)
  PROVE  IInv'
<1> USE DEF At, GoTo, Return, GiveUp, Abort, Fields
<1>1. UNCHANGED <<is_writing, reader_count, hold>>
  BY DEF Call, ReadIsWriting, ReadSecond, StoreAboutToWrite, LockInt, Recheck
<1>2. TypeOK'
  <2>1. ASSUME NEW o \in Ops[t], Call(t, o) PROVE TypeOK'
    <3>1. o \in OpNames
      BY RWLockAssumption
    <3>2. QED
      BY <2>1, <3>1 DEF IInv, TypeOK, Call, PCs
  <2>2. CASE ReadIsWriting(t) \/ ReadSecond(t)
    BY <2>2 DEF IInv, TypeOK, ReadIsWriting, ReadSecond, PCs
  <2>3. CASE StoreAboutToWrite(t) \/ LockInt(t)
    BY <2>3 DEF IInv, TypeOK, StoreAboutToWrite, LockInt, PCs
  <2>4. CASE Recheck(t)
    BY <2>4 DEF IInv, TypeOK, Recheck, PCs
  <2>5. QED
    BY <2>1, <2>2, <2>3, <2>4
<1>3. FieldsMatchHolders' /\ Exclusive'
  BY <1>1 DEF IInv, FieldsMatchHolders, Exclusive, RW!Exclusive, RW!Readers, RW!Writers
<1>4. CallsInProgress'
  BY RWLockAssumption DEF IInv, CallsInProgress, TypeOK, Call, ReadIsWriting, ReadSecond,
     StoreAboutToWrite, LockInt, Recheck, Spinning, OpNames, LockOps, TryOps,
     UnlockOps, PromoteOps, DemoteOps
<1>5. SpinLockHeld'
  BY DEF IInv, SpinLockHeld, Section, TypeOK, Call, ReadIsWriting, ReadSecond,
     StoreAboutToWrite, LockInt, Recheck
<1>6. TestStillHolds'
  BY <1>1 DEF IInv, TestStillHolds, MayProceed, TypeOK, Call, ReadIsWriting, ReadSecond,
     StoreAboutToWrite, LockInt, Recheck, ReadOps, WriteOps, PromoteOps, DemoteOps
<1>7. IntentHasOwner'
  BY RWLockAssumption DEF IInv, IntentHasOwner, Pending, CallsInProgress, AsksForLock, TypeOK, Call,
     ReadIsWriting, ReadSecond, StoreAboutToWrite, LockInt, Recheck, Spinning
<1>8. OnlyDemoteAborts'
  <2>1. CASE Recheck(t)
    <3>1. op[t] = "unlock_read" => MayProceed(t)
      <4> SUFFICES ASSUME op[t] = "unlock_read" PROVE ~is_writing /\ reader_count > 0
        BY DEF MayProceed
      <4>1. t \in Readers
        BY NeedsFacts DEF IInv, CallsInProgress, Readers, RW!Readers
      <4>2. Writers = {}
        BY <4>1 DEF IInv, Exclusive, RW!Exclusive, Readers, Writers, RW!Readers, RW!Writers
      <4>3. reader_count # 0 /\ reader_count \in Nat
        BY <4>1, ReadersFinite, FS_EmptySet, FS_CardinalityType
           DEF IInv, FieldsMatchHolders, Readers
      <4>4. QED
        BY <4>2, <4>3 DEF IInv, FieldsMatchHolders, Writers
    <3>2. op[t] = "unlock_write" => MayProceed(t)
      <4> SUFFICES ASSUME op[t] = "unlock_write" PROVE is_writing /\ reader_count < 1
        BY DEF MayProceed
      <4>1. t \in Writers
        BY NeedsFacts DEF IInv, CallsInProgress, Writers, RW!Writers
      <4>2. Readers = {}
        BY <4>1 DEF IInv, Exclusive, RW!Exclusive, Readers, Writers, RW!Readers, RW!Writers
      <4>3. QED
        BY <4>1, <4>2, FS_EmptySet DEF IInv, FieldsMatchHolders, Readers, Writers
    <3>3. QED
      BY <2>1, <3>1, <3>2 DEF IInv, OnlyDemoteAborts, TypeOK, Recheck, Asserts, UnlockOps
  <2>2. CASE ~Recheck(t)
    BY <2>2 DEF IInv, OnlyDemoteAborts, TypeOK, CallsInProgress, Call, ReadIsWriting,
       ReadSecond, StoreAboutToWrite, LockInt, UnlockOps
  <2>3. QED
    BY <2>1, <2>2
<1>9. QED
  BY <1>2, <1>3, <1>4, <1>5, <1>6, <1>7, <1>8 DEF IInv

(* The steps that write the fields under the spin lock and return.         *)
Finishes(t) ==
  \/ EnterRead(t) \/ EnterWrite(t) \/ Promote(t)
  \/ Demote(t) \/ LeaveRead(t) \/ LeaveWrite(t)

(* Which readers and writers there are where such a step is enabled.       *)
LEMMA WhoIsInside ==
  ASSUME IInv, NEW t \in Threads, pc[t] = "update"
  PROVE  /\ op[t] \in ReadOps => t \notin Readers /\ Writers = {}
         /\ op[t] \in WriteOps => Readers = {} /\ Writers = {}
         /\ op[t] \in PromoteOps => Readers = {t} /\ Writers = {}
         /\ op[t] \in DemoteOps \cup {"unlock_write"} => Readers = {} /\ Writers = {t}
         /\ op[t] = "unlock_read" => t \in Readers /\ Writers = {}
<1>1. op[t] # "none" => hold[t] = Needs(op[t])
  BY DEF IInv, CallsInProgress
<1>2. ~is_writing => Writers = {}
  BY DEF IInv, FieldsMatchHolders, Writers
<1>3. reader_count < 1 => Readers = {}
  BY ReadersFinite, FS_EmptySet, FS_CardinalityType DEF IInv, FieldsMatchHolders, Readers
<1>4. ASSUME op[t] \in ReadOps PROVE t \notin Readers /\ Writers = {}
  BY <1>1, <1>2, <1>4, NeedsFacts
     DEF IInv, TestStillHolds, ReadOps, LockOps, TryOps, Readers, RW!Readers
<1>5. ASSUME op[t] \in WriteOps PROVE Readers = {} /\ Writers = {}
  BY <1>2, <1>3, <1>5 DEF IInv, TestStillHolds
<1>6. ASSUME op[t] \in PromoteOps PROVE Readers = {t} /\ Writers = {}
  <2>1. t \in Readers
    BY <1>1, <1>6, NeedsFacts DEF PromoteOps, Readers, RW!Readers
  <2>2. ~is_writing /\ Cardinality(Readers) = 1
    BY <1>6 DEF IInv, TestStillHolds, FieldsMatchHolders, Readers
  <2>3. PICK u : Readers = {u}
    BY <2>2, ReadersFinite, FS_Singleton
  <2>4. QED
    BY <1>2, <2>1, <2>2, <2>3
<1>7. ASSUME op[t] \in DemoteOps \cup {"unlock_write"} PROVE Readers = {} /\ Writers = {t}
  <2>1. hold[t] = "write"
    BY <1>1, <1>7, NeedsFacts DEF DemoteOps
  <2>2. QED
    BY <2>1 DEF IInv, Exclusive, RW!Exclusive, Readers, Writers, RW!Readers, RW!Writers
<1>8. ASSUME op[t] = "unlock_read" PROVE t \in Readers /\ Writers = {}
  <2>1. hold[t] = "read"
    BY <1>1, <1>8, NeedsFacts
  <2>2. QED
    BY <2>1 DEF IInv, Exclusive, RW!Exclusive, Readers, Writers, RW!Readers, RW!Writers
<1>9. QED
  BY <1>4, <1>5, <1>6, <1>7, <1>8

LEMMA FinishFields ==
  ASSUME IInv, NEW t \in Threads, Finishes(t)
  PROVE  FieldsMatchHolders' /\ Exclusive'
<1> USE DEF Finish
<1>1. pc[t] = "update" /\ TypeOK /\ FieldsMatchHolders
  BY DEF Finishes, EnterRead, EnterWrite, Promote, Demote, LeaveRead, LeaveWrite, At, IInv
<1>2. reader_count = Cardinality(Readers) /\ (is_writing <=> Writers # {})
  BY <1>1 DEF FieldsMatchHolders, Readers, Writers
<1>3. \A x : Cardinality(Readers \cup {x}) = IF x \in Readers THEN reader_count ELSE reader_count + 1
  BY <1>2, ReadersFinite, FS_AddElement
<1>4. \A x : Cardinality(Readers \ {x}) = IF x \in Readers THEN reader_count - 1 ELSE reader_count
  BY <1>2, ReadersFinite, FS_RemoveElement
<1>5. ASSUME /\ reader_count' = Cardinality(Readers')
             /\ is_writing' <=> Writers' # {}
             /\ Writers' = {} \/ (Readers' = {} /\ \E u \in Threads : Writers' = {u})
      PROVE  FieldsMatchHolders' /\ Exclusive'
  <2>1. FieldsMatchHolders'
    BY <1>5 DEF FieldsMatchHolders, Readers, Writers
  <2>2. hold' \in [Threads -> {"none", "read", "write"}]
    BY <1>1 DEF TypeOK, Finishes, EnterRead, EnterWrite, Promote, Demote, LeaveRead, LeaveWrite
  <2>3. Exclusive'
    BY <1>5, <2>2 DEF Exclusive, RW!Exclusive, Readers, Writers, RW!Readers, RW!Writers
  <2>4. QED
    BY <2>1, <2>3
<1>6. CASE EnterRead(t)
  <2>1. t \notin Readers /\ Writers = {}
    BY <1>1, <1>6, WhoIsInside DEF EnterRead
  <2>2. Readers' = Readers \cup {t} /\ Writers' = Writers \ {t}
    BY <1>1, <1>6, HoldersAfter DEF EnterRead
  <2>3. QED
    BY <1>2, <1>3, <1>5, <1>6, <2>1, <2>2 DEF EnterRead
<1>7. CASE EnterWrite(t)
  <2>1. Readers = {} /\ Writers = {}
    BY <1>1, <1>7, WhoIsInside DEF EnterWrite
  <2>2. Readers' = Readers \ {t} /\ Writers' = Writers \cup {t}
    BY <1>1, <1>7, HoldersAfter DEF EnterWrite
  <2>3. QED
    BY <1>2, <1>4, <1>5, <1>7, <2>1, <2>2 DEF EnterWrite
<1>8. CASE Promote(t)
  <2>1. Readers = {t} /\ Writers = {}
    BY <1>1, <1>8, WhoIsInside DEF Promote
  <2>2. Readers' = Readers \ {t} /\ Writers' = Writers \cup {t}
    BY <1>1, <1>8, HoldersAfter DEF Promote
  <2>3. QED
    BY <1>2, <1>4, <1>5, <1>8, <2>1, <2>2 DEF Promote
<1>9. CASE Demote(t)
  <2>1. Readers = {} /\ Writers = {t}
    BY <1>1, <1>9, WhoIsInside DEF Demote
  <2>2. Readers' = Readers \cup {t} /\ Writers' = Writers \ {t}
    BY <1>1, <1>9, HoldersAfter DEF Demote
  <2>3. QED
    BY <1>2, <1>3, <1>5, <1>9, <2>1, <2>2 DEF Demote
<1>10. CASE LeaveRead(t)
  <2>1. t \in Readers /\ Writers = {}
    BY <1>1, <1>10, WhoIsInside DEF LeaveRead
  <2>2. Readers' = Readers \ {t} /\ Writers' = Writers \ {t}
    BY <1>1, <1>10, HoldersAfter DEF LeaveRead
  <2>3. QED
    BY <1>2, <1>4, <1>5, <1>10, <2>1, <2>2 DEF LeaveRead
<1>11. CASE LeaveWrite(t)
  <2>1. Readers = {} /\ Writers = {t}
    BY <1>1, <1>11, WhoIsInside DEF LeaveWrite
  <2>2. Readers' = Readers \ {t} /\ Writers' = Writers \ {t}
    BY <1>1, <1>11, HoldersAfter DEF LeaveWrite
  <2>3. QED
    BY <1>2, <1>4, <1>5, <1>11, <2>1, <2>2 DEF LeaveWrite
<1>12. QED
  BY <1>6, <1>7, <1>8, <1>9, <1>10, <1>11 DEF Finishes

LEMMA FinishSteps ==
  ASSUME IInv, NEW t \in Threads, Finishes(t)
  PROVE  IInv'
<1> USE DEF Finish, Return, At
<1>1. TypeOK'
  <2> USE DEF IInv, TypeOK, Finishes, EnterRead, EnterWrite, Promote, Demote, LeaveRead,
      LeaveWrite, PCs
  <2>1. about_to_write' \in BOOLEAN /\ is_writing' \in BOOLEAN
    OBVIOUS
  <2>2. lock' \in {0, 1} /\ reader_count' \in Int
    OBVIOUS
  <2>3. pc' \in [Threads -> PCs] /\ op' \in [Threads -> OpNames \cup {"none"}]
    OBVIOUS
  <2>4. hold' \in [Threads -> {"none", "read", "write"}]
    OBVIOUS
  <2>5. QED
    BY <2>1, <2>2, <2>3, <2>4
<1>2. CallsInProgress' /\ SpinLockHeld'
  BY DEF IInv, TypeOK, CallsInProgress, SpinLockHeld, Section, Finishes, EnterRead,
     EnterWrite, Promote, Demote, LeaveRead, LeaveWrite
<1>3. TestStillHolds'
  BY DEF IInv, TypeOK, TestStillHolds, SpinLockHeld, Section, Finishes, EnterRead,
     EnterWrite, Promote, Demote, LeaveRead, LeaveWrite
<1>4. IntentHasOwner'
  BY DEF IInv, TypeOK, IntentHasOwner, Pending, Finishes, EnterRead, EnterWrite,
     Promote, Demote, LeaveRead, LeaveWrite, ReadOps, DemoteOps
<1>5. OnlyDemoteAborts'
  BY DEF IInv, TypeOK, OnlyDemoteAborts, Finishes, EnterRead, EnterWrite,
     Promote, Demote, LeaveRead, LeaveWrite
<1>6. QED
  BY <1>1, <1>2, <1>3, <1>4, <1>5, FinishFields DEF IInv

-----------------------------------------------------------------------------

LEMMA StepIInv == IInv /\ [Next]_vars => IInv'
<1> SUFFICES ASSUME IInv, [Next]_vars PROVE IInv'
  OBVIOUS
<1>1. CASE UNCHANGED vars
  BY <1>1 DEF vars, IInv, TypeOK, FieldsMatchHolders, RW!Readers, RW!Writers, Exclusive,
     RW!Exclusive, CallsInProgress, SpinLockHeld, TestStillHolds, IntentHasOwner, Pending,
     OnlyDemoteAborts
<1>2. ASSUME NEW t \in Threads, Step(t) \/ \E o \in Ops[t] : Call(t, o) PROVE IInv'
  BY <1>2, OutsideSteps, FinishSteps DEF Step, Finishes
<1>3. QED
  BY <1>1, <1>2 DEF Next, Halted

(* Each step of the lock is a step of the atomic lock, or leaves hold alone. *)
LEMMA StepRefines == IInv /\ [Next]_vars => [RW!Next]_hold
<1> SUFFICES ASSUME IInv, [Next]_vars PROVE [RW!Next]_hold
  OBVIOUS
<1> USE DEF RW!Next
<1>1. CASE UNCHANGED vars
  BY <1>1 DEF vars
<1>2. ASSUME NEW t \in Threads, Finishes(t) PROVE RW!Next
  <2>1. TypeOK /\ pc[t] = "update" /\ (op[t] # "none" => hold[t] = Needs(op[t]))
    BY <1>2 DEF IInv, CallsInProgress, Finishes, EnterRead, EnterWrite, Promote, Demote,
       LeaveRead, LeaveWrite, Finish, At
  <2>2. /\ op[t] \in ReadOps => RW!Writers = {}
        /\ op[t] \in WriteOps => RW!Readers = {} /\ RW!Writers = {}
        /\ op[t] \in PromoteOps => RW!Readers = {t} /\ RW!Writers = {}
    BY <2>1, WhoIsInside DEF Readers, Writers
  <2>3. CASE EnterRead(t)
    <3>1. RW!AcquireRead(t)
      BY <2>1, <2>2, <2>3, NeedsFacts
         DEF EnterRead, Finish, RW!AcquireRead, ReadOps, LockOps, TryOps
    <3>2. QED
      BY <3>1
  <2>4. CASE EnterWrite(t)
    <3>1. RW!AcquireWrite(t)
      BY <2>1, <2>2, <2>4, NeedsFacts
         DEF EnterWrite, Finish, RW!AcquireWrite, WriteOps, LockOps, TryOps
    <3>2. QED
      BY <3>1
  <2>5. CASE Promote(t)
    <3>1. RW!Promote(t)
      BY <2>2, <2>5 DEF Promote, Finish, RW!Promote
    <3>2. QED
      BY <3>1
  <2>6. CASE Demote(t)
    <3>1. RW!Demote(t)
      BY <2>1, <2>6, NeedsFacts DEF Demote, Finish, RW!Demote, DemoteOps
    <3>2. QED
      BY <3>1
  <2>7. CASE LeaveRead(t) \/ LeaveWrite(t)
    <3>1. RW!Release(t)
      BY <2>1, <2>7, NeedsFacts DEF LeaveRead, LeaveWrite, Finish, RW!Release
    <3>2. QED
      BY <3>1
  <2>8. QED
    BY <1>2, <2>3, <2>4, <2>5, <2>6, <2>7 DEF Finishes
<1>3. ASSUME NEW t \in Threads, ~Finishes(t), Step(t) \/ \E o \in Ops[t] : Call(t, o)
      PROVE UNCHANGED hold
  BY <1>3 DEF Step, Finishes, Call, ReadIsWriting, ReadSecond, StoreAboutToWrite, LockInt, Recheck
<1>4. QED
  BY <1>1, <1>2, <1>3 DEF Next, Halted, vars

(* RWLock implements the atomic readers/writer lock, whatever operations   *)
(* its threads call.                                                       *)
THEOREM Implementation == Spec => ImplementsRWMutex
<1>1. Init => RW!Init
  BY DEF Init, RW!Init
<1>2. QED
  BY <1>1, InitIInv, StepIInv, StepRefines, PTL DEF Spec, ImplementsRWMutex, RW!Spec

(* The type of every variable, in every reachable state.                   *)
THEOREM TypeCorrect == Spec => []TypeOK
<1>1. IInv => TypeOK
  BY DEF IInv
<1>2. QED
  BY <1>1, InitIInv, StepIInv, PTL DEF Spec

(* Mutual exclusion of the callers of RWLock, for any number of threads,   *)
(* although every test is first made without the spin lock.                *)
THEOREM MutualExclusion == Spec => []Exclusive
<1>1. IInv => Exclusive
  BY DEF IInv
<1>2. QED
  BY <1>1, InitIInv, StepIInv, PTL DEF Spec

(* reader_count and is_writing are exact, so the counter never wraps.      *)
THEOREM FieldsCorrect == Spec => []FieldsMatchHolders
<1>1. IInv => FieldsMatchHolders
  BY DEF IInv
<1>2. QED
  BY <1>1, InitIInv, StepIInv, PTL DEF Spec

(* The racy store of about_to_write never leaves a flag nobody will clear. *)
THEOREM IntentOwned == Spec => []IntentHasOwner
<1>1. IInv => IntentHasOwner
  BY DEF IInv
<1>2. QED
  BY <1>1, InitIInv, StepIInv, PTL DEF Spec

(* The assertions of unlock_rwlock cannot fail.                            *)
THEOREM UnlockSafe == Spec => []OnlyDemoteAborts
<1>1. IInv => OnlyDemoteAborts
  BY DEF IInv
<1>2. QED
  BY <1>1, InitIInv, StepIInv, PTL DEF Spec

=============================================================================
