-------------------------------- MODULE Heap --------------------------------
(***************************************************************************)
(* The array heap of base/heap.c, used by one thread at a time.  Every     *)
(* call stores its value at one end of the heap, and then ajustHeap or     *)
(* ajustHeapAppend moves it, one level per action, until it is in place.   *)
(* A hole goes up or down in front of the value: base_p[cur_idx] is stale  *)
(* until the value is stored there.                                        *)
(***************************************************************************)

EXTENDS Integers, FiniteSets

CONSTANTS
  Values,           (* integers, in the order of cmp_func_p                *)
  Unset,            (* a slot that was not stored to                       *)
  Memory, NoSuchIndex,   (* the errors                                     *)
  Ops,              (* the operations the users of the heap call           *)
  LEAST_HEAP_SIZE,
  capacity,         (* what the heap is created with                       *)
  MaxSize           (* bound: slots malloc provides at a time              *)

OpNames == {"add", "replace", "delete", "top", "sort"}

(* EXPAND_RATIO is 1.1: from 10 slots on a heap that expands has more.     *)
ASSUME HeapAssumption ==
  /\ Values \subseteq Int /\ Unset \notin Values
  /\ Memory \notin Values /\ NoSuchIndex \notin Values
  /\ Ops \subseteq OpNames
  /\ LEAST_HEAP_SIZE \in Nat /\ LEAST_HEAP_SIZE >= 10
  /\ capacity \in Nat /\ MaxSize \in Nat

VARIABLES
  base,             (* base_p: its slots, from 0                           *)
  base_size, base_used_length,
  pc,               (* "idle", or the loop a call is in                    *)
  cur_idx, value,   (* the hole, and the value to store in it              *)
  length,           (* the part of the heap that ajustHeap works on        *)
  end_i,            (* heapSort: the next slot to fill, -1 outside of it   *)
  answer            (* what the last call returned                         *)

vars == <<base, base_size, base_used_length, pc, cur_idx, value, length, end_i, answer>>

Loop == <<pc, cur_idx, value, length>>

Slots(size) == 0..(size - 1)

Init ==
  /\ base_size = IF capacity < LEAST_HEAP_SIZE THEN LEAST_HEAP_SIZE ELSE capacity
  /\ base = [i \in Slots(base_size) |-> Unset]
  /\ base_used_length = 0
  /\ pc = "idle" /\ cur_idx = 0 /\ value = Unset /\ length = 0
  /\ end_i = -1
  /\ answer = Memory

-----------------------------------------------------------------------------

Idle == pc = "idle" /\ end_i = -1

(* No loop is needed, or it is over.                                       *)
Stop == pc' = "idle" /\ cur_idx' = 0 /\ value' = Unset /\ length' = 0

(* ajustHeap(heap_p, len), with v in slot 0, and ajustHeapAppend, with v   *)
(* in the last slot.                                                       *)
ajustHeap(len, v) ==
  IF len < 2 THEN Stop
  ELSE pc' = "down" /\ cur_idx' = 0 /\ value' = v /\ length' = len

ajustHeapAppend(used, v) ==
  IF used < 2 THEN Stop
  ELSE pc' = "up" /\ cur_idx' = used - 1 /\ value' = v /\ length' = 0

(* Mutant of Expanded: the heap does not grow.                             *)
ExpandedByNothing(size) == size

(* base_size * EXPAND_RATIO, as an integer                                 *)
Expanded(size) == (size * 11) \div 10

addToHeap(v) ==
  /\ Idle
  /\ base_used_length < base_size
  /\ base' = [base EXCEPT ![base_used_length] = v]
  /\ base_used_length' = base_used_length + 1
  /\ ajustHeapAppend(base_used_length', v)
  /\ answer' = v
  /\ UNCHANGED <<base_size, end_i>>

(* The heap is full: its slots are copied to a larger array first.         *)
ExpandAndAdd(v) ==
  /\ Idle
  /\ base_used_length >= base_size
  /\ Expanded(base_size) <= MaxSize
  /\ base_size' = Expanded(base_size)
  /\ base' = [[i \in Slots(base_size') |->
                 IF i < base_used_length THEN base[i] ELSE Unset]
                EXCEPT ![base_used_length] = v]
  /\ base_used_length' = base_used_length + 1
  /\ ajustHeapAppend(base_used_length', v)
  /\ answer' = v
  /\ UNCHANGED end_i

AddFails ==
  /\ Idle
  /\ base_used_length >= base_size
  /\ Expanded(base_size) > MaxSize
  /\ answer' = Memory
  /\ UNCHANGED <<base, base_size, base_used_length, Loop, end_i>>

getHeapTop ==
  /\ Idle
  /\ answer' = IF base_used_length <= 0 THEN NoSuchIndex ELSE base[0]
  /\ UNCHANGED <<base, base_size, base_used_length, Loop, end_i>>

replaceHeapTop(v) ==
  /\ Idle
  /\ base' = [base EXCEPT ![0] = v]
  /\ base_used_length' = IF base_used_length < 1 THEN 1 ELSE base_used_length
  /\ ajustHeap(base_used_length', v)
  /\ answer' = v
  /\ UNCHANGED <<base_size, end_i>>

(* Mutant of deleteHeapTop: the last value is not put in order again.      *)
deleteHeapTopUnordered ==
  /\ Idle
  /\ base_used_length >= 1
  /\ answer' = base[0]
  /\ base' = [base EXCEPT ![0] = base[base_used_length - 1]]
  /\ base_used_length' = base_used_length - 1
  /\ Stop
  /\ UNCHANGED <<base_size, end_i>>

deleteHeapTop ==
  /\ Idle
  /\ base_used_length >= 1
  /\ answer' = base[0]
  /\ base' = [base EXCEPT ![0] = base[base_used_length - 1]]
  /\ base_used_length' = base_used_length - 1
  /\ ajustHeap(base_used_length', base[base_used_length - 1])
  /\ UNCHANGED <<base_size, end_i>>

DeleteFails ==
  /\ Idle
  /\ base_used_length < 1
  /\ answer' = NoSuchIndex
  /\ UNCHANGED <<base, base_size, base_used_length, Loop, end_i>>

-----------------------------------------------------------------------------
(* The loops of ajustHeapAppend and ajustHeap                              *)

Parent(i) == (i - 1) \div 2
Left(i)   == 2 * i + 1
Right(i)  == 2 * i + 2

(* The value goes into the hole, and the loop is over.                     *)
Settle == base' = [base EXCEPT ![cur_idx] = value] /\ Stop

(* The value at i goes into the hole, and leaves one at i.                 *)
Move(i) ==
  /\ base' = [base EXCEPT ![cur_idx] = base[i]]
  /\ cur_idx' = i
  /\ UNCHANGED <<pc, value, length>>

Up ==
  /\ pc = "up"
  /\ IF Parent(cur_idx) < 0 \/ base[Parent(cur_idx)] < value
     THEN Settle
     ELSE Move(Parent(cur_idx))
  /\ UNCHANGED <<base_size, base_used_length, end_i, answer>>

(* The smaller child of i; length when there is none.                      *)
Child(i) ==
  IF Left(i) >= length THEN length
  ELSE IF Right(i) < length /\ base[Right(i)] < base[Left(i)] THEN Right(i)
  ELSE Left(i)

Down ==
  /\ pc = "down"
  /\ IF Child(cur_idx) >= length \/ value < base[Child(cur_idx)]
     THEN Settle
     ELSE Move(Child(cur_idx))
  /\ UNCHANGED <<base_size, base_used_length, end_i, answer>>

-----------------------------------------------------------------------------
(* heapSort: the top changes places with the last slot of the heap, which  *)
(* gets shorter; at the end the array is reversed.                         *)

heapSort ==
  /\ Idle
  /\ base_used_length >= 2
  /\ end_i' = base_used_length - 1
  /\ UNCHANGED <<base, base_size, base_used_length, Loop, answer>>

(* Mutant of SortRound: the slot just filled is still part of the heap.    *)
SortRoundTooLong ==
  /\ pc = "idle" /\ end_i >= 0
  /\ base' = [base EXCEPT ![0] = base[end_i], ![end_i] = base[0]]
  /\ ajustHeap(end_i + 1, base[end_i])
  /\ IF end_i > 0
     THEN end_i' = end_i - 1
     ELSE end_i' = -2
  /\ UNCHANGED <<base_size, base_used_length, answer>>

SortRound ==
  /\ pc = "idle" /\ end_i >= 0
  /\ base' = [base EXCEPT ![0] = base[end_i], ![end_i] = base[0]]
  /\ ajustHeap(end_i, base[end_i])
  /\ IF end_i > 0
     THEN end_i' = end_i - 1
     ELSE end_i' = -2
  /\ UNCHANGED <<base_size, base_used_length, answer>>

Reverse ==
  /\ pc = "idle" /\ end_i = -2
  /\ base' = [i \in DOMAIN base |->
                IF i < base_used_length THEN base[base_used_length - 1 - i] ELSE base[i]]
  /\ end_i' = -1
  /\ UNCHANGED <<base_size, base_used_length, Loop, answer>>

-----------------------------------------------------------------------------

Call ==
  \/ "add" \in Ops /\ (AddFails \/ \E v \in Values : addToHeap(v) \/ ExpandAndAdd(v))
  \/ "replace" \in Ops /\ \E v \in Values : replaceHeapTop(v)
  \/ "delete" \in Ops /\ (deleteHeapTop \/ DeleteFails)
  \/ "top" \in Ops /\ getHeapTop
  \/ "sort" \in Ops /\ heapSort

Next == Call \/ Up \/ Down \/ SortRound \/ Reverse

Spec == Init /\ [][Next]_vars

-----------------------------------------------------------------------------
(* Properties                                                              *)

(* The variables have their types, and no loop reads or writes outside of  *)
(* the slots that hold values, which are within the array: it really grows *)
(* when it has to.                                                         *)
Fits ==
  /\ base_size \in Nat /\ base_size >= LEAST_HEAP_SIZE
  /\ base \in [Slots(base_size) -> Values \cup {Unset}]
  /\ base_used_length \in Nat
  /\ pc \in {"idle", "up", "down"}
  /\ cur_idx \in Nat /\ value \in Values \cup {Unset} /\ length \in Nat
  /\ end_i \in Int /\ end_i >= -2
  /\ answer \in Values \cup {Memory, NoSuchIndex}
  /\ base_used_length <= base_size
  /\ \A i \in Slots(base_used_length) : base[i] \in Values
  /\ pc # "idle" => cur_idx < base_used_length /\ length <= base_used_length

(* The value that is being moved is in the hole in all but fact.           *)
Filled == IF pc = "idle" THEN base ELSE [base EXCEPT ![cur_idx] = value]

(* How many there are of each value.                                       *)
Content ==
  [v \in Values |-> Cardinality({i \in Slots(base_used_length) : Filled[i] = v})]

P == INSTANCE PriorityBag WITH content <- Content

(* The heap keeps its values, none is lost or doubled by a move, a failed  *)
(* expansion or heapSort, and its top is the least of all of them.         *)
ImplementsBag == P!Spec

(* heapSort leaves the values in ascending order.                          *)
SortedAtEnd ==
  [][Reverse => \A i \in 0..(base_used_length - 2) : base'[i] <= base'[i + 1]]_vars

=============================================================================
