------------------------------- MODULE DeQueue -------------------------------
(***************************************************************************)
(* The double-ended queue of base/base_dequeue.c: a chain of units, each   *)
(* an array of unit_values_count slots of which [front_index, end_index)   *)
(* hold items.  Every operation runs under the lock of the queue from its  *)
(* first access to its last, so one operation is one action.               *)
(*                                                                         *)
(* queue.c is this queue with push and popFront; so is stack.c, whose      *)
(* popOutFromStack calls deQueuePopFront too (lines 34-37).                *)
(***************************************************************************)

EXTENDS Integers, FiniteSets, SequencesExt

CONSTANTS
  unit_values_count,  (* slots of a unit; createDeQueue makes it at least 20,
                         here any number from 2 up, the code only compares it *)
  Values,
  NoItem,             (* answer of a pop that found nothing; also an unused
                         slot, whose content the code never reads           *)
  Done,               (* answer of a push                                  *)
  NoMemory,           (* answer of a push whose unit malloc did not give    *)
  Created,            (* answer of createDeQueue                           *)
  Ops,                (* the operations the users of the queue call         *)
  MaxUnits            (* bound: the units malloc provides                   *)

OpNames == {"push", "pop", "push_front", "pop_front"}

ASSUME DeQueueAssumption ==
  /\ unit_values_count \in Nat \ {0, 1}
  /\ Values \cap {NoItem, Done, NoMemory, Created} = {}
  /\ Cardinality({NoItem, Done, NoMemory, Created}) = 4
  /\ Ops \subseteq OpNames
  /\ MaxUnits \in Nat \ {0}

VARIABLES
  units,       (* the units from front_p to end_p                          *)
  free_count,  (* units in free_list_p                                     *)
  answer       (* what the last operation returned                         *)

vars == <<units, free_count, answer>>

C == unit_values_count

Unit(front, end) ==
  [front_index |-> front, end_index |-> end, values |-> [i \in 0..(C - 1) |-> NoItem]]

(* Mutant of FirstUnit: it is filled from its last slot.                   *)
FirstUnitAtItsEnd == Unit(C - 1, C - 1)

(* The unit of a new queue is filled from its middle.                      *)
FirstUnit == Unit(C \div 2, C \div 2)

Init ==
  /\ units = <<FirstUnit>>
  /\ free_count = 0
  /\ answer = Created

(* destroyDeQueue and createDeQueue.                                       *)
Renew ==
  /\ units' = <<FirstUnit>>
  /\ free_count' = 0
  /\ answer' = Created

FrontUnit == units[1]
EndUnit   == Last(units)

(* expandDeQueue takes a unit from the free list before it asks malloc.    *)
CanExpand == free_count > 0 \/ Len(units) < MaxUnits

TakeUnit == free_count' = IF free_count > 0 THEN free_count - 1 ELSE 0

PutAtEnd(u, v) ==
  [u EXCEPT !.values[u.end_index] = v, !.end_index = @ + 1]

PutAtFront(u, v) ==
  [u EXCEPT !.values[u.front_index - 1] = v, !.front_index = @ - 1]

(* Mutant of Push: a new unit starts in its middle, like the first one.    *)
PushFromMiddle(v) ==
  /\ "push" \in Ops
  /\ IF EndUnit.end_index >= C
     THEN CanExpand /\ TakeUnit
          /\ units' = Append(units, PutAtEnd(Unit(C \div 2, C \div 2), v))
     ELSE units' = [units EXCEPT ![Len(units)] = PutAtEnd(@, v)] /\ UNCHANGED free_count
  /\ answer' = Done

Push(v) ==
  /\ "push" \in Ops
  /\ IF EndUnit.end_index >= C
     THEN CanExpand /\ TakeUnit /\ units' = Append(units, PutAtEnd(Unit(0, 0), v))
     ELSE units' = [units EXCEPT ![Len(units)] = PutAtEnd(@, v)] /\ UNCHANGED free_count
  /\ answer' = Done

PushFront(v) ==
  /\ "push_front" \in Ops
  /\ IF FrontUnit.front_index < 1
     THEN CanExpand /\ TakeUnit /\ units' = <<PutAtFront(Unit(C, C), v)>> \o units
     ELSE units' = [units EXCEPT ![1] = PutAtFront(@, v)] /\ UNCHANGED free_count
  /\ answer' = Done

IsDrained(u) == u.front_index >= u.end_index

(* malloc has no unit for expandDeQueue, with the free list empty.         *)
PushFails ==
  /\ \/ "push" \in Ops /\ EndUnit.end_index >= C
     \/ "push_front" \in Ops /\ FrontUnit.front_index < 1
  /\ free_count = 0
  /\ answer' = NoMemory
  /\ UNCHANGED <<units, free_count>>

(* ER_BASE_DEQUEUE_NO_MORE_ITEM: only the unit at that end was looked at.  *)
Misses ==
  /\ answer' = NoItem
  /\ UNCHANGED <<units, free_count>>

PopMisses      == "pop" \in Ops /\ IsDrained(EndUnit) /\ Misses
PopFrontMisses == "pop_front" \in Ops /\ IsDrained(FrontUnit) /\ Misses

(* Mutant of Pop: a drained unit is not left.                              *)
PopStaying ==
  /\ "pop" \in Ops
  /\ ~IsDrained(EndUnit)
  /\ LET last == EndUnit.end_index - 1
     IN  /\ answer' = EndUnit.values[last]
         /\ units' = [units EXCEPT ![Len(units)].end_index = last,
                                   ![Len(units)].values[last] = NoItem]
  /\ UNCHANGED free_count

Pop ==
  /\ "pop" \in Ops
  /\ ~IsDrained(EndUnit)
  /\ LET last == EndUnit.end_index - 1
     IN  /\ answer' = EndUnit.values[last]
         /\ IF Len(units) > 1 /\ last < 1
            THEN units' = Front(units) /\ free_count' = free_count + 1
            ELSE /\ units' = [units EXCEPT ![Len(units)].end_index = last,
                                           ![Len(units)].values[last] = NoItem]
                 /\ UNCHANGED free_count

(* Mutant of PopFront: the unit is left one item too early.                *)
PopFrontTooEarly ==
  /\ "pop_front" \in Ops
  /\ ~IsDrained(FrontUnit)
  /\ LET first == FrontUnit.front_index
     IN  /\ answer' = FrontUnit.values[first]
         /\ IF Len(units) > 1 /\ first + 2 >= C
            THEN units' = Tail(units) /\ free_count' = free_count + 1
            ELSE /\ units' = [units EXCEPT ![1].front_index = first + 1,
                                           ![1].values[first] = NoItem]
                 /\ UNCHANGED free_count

PopFront ==
  /\ "pop_front" \in Ops
  /\ ~IsDrained(FrontUnit)
  /\ LET first == FrontUnit.front_index
     IN  /\ answer' = FrontUnit.values[first]
         /\ IF Len(units) > 1 /\ first + 1 >= C
            THEN units' = Tail(units) /\ free_count' = free_count + 1
            ELSE /\ units' = [units EXCEPT ![1].front_index = first + 1,
                                           ![1].values[first] = NoItem]
                 /\ UNCHANGED free_count

Next ==
  \/ \E v \in Values : Push(v) \/ PushFront(v)
  \/ PushFails
  \/ Pop
  \/ PopFront
  \/ PopMisses
  \/ PopFrontMisses
  \/ Renew

Spec == Init /\ [][Next]_vars

isDeQueueEmpty ==
  Len(units) = 1 /\ FrontUnit.front_index = FrontUnit.end_index

-----------------------------------------------------------------------------
(* Properties                                                              *)

TypeOK ==
  /\ units \in Seq([front_index : 0..C, end_index : 0..C,
                    values : [0..(C - 1) -> Values \cup {NoItem}]])
  /\ units # <<>>
  /\ free_count \in Nat
  /\ answer \in Values \cup {NoItem, Done, NoMemory, Created}

(* The slots of all units, counted from slot 0 of the first, and the items *)
(* of the queue, front first: they are in the slots from front_index of    *)
(* the first unit up to end_index of the last.                             *)
FrontSlot == FrontUnit.front_index
EndSlot   == (Len(units) - 1) * C + EndUnit.end_index

InSlot(n) == units[1 + n \div C].values[n % C]

Content == [i \in 1..(EndSlot - FrontSlot) |-> InSlot(FrontSlot + i - 1)]

S == INSTANCE ItemSequence WITH content <- Content

(* Whatever mixture of pushes and pops at both ends moves the two ends     *)
(* through the units, every item comes out once, in the order of a queue.  *)
ImplementsSequence == S!Spec

(* The ends of units are where the code takes them to be: every unit but   *)
(* the first starts at slot 0 and every unit but the last ends at the last *)
(* slot.  The tests that leave a unit, end_index < 1 and                   *)
(* front_index >= unit_values_count, rely on it.                           *)
OnlyEndsArePartial ==
  TypeOK /\ \A k \in DOMAIN units :
     /\ units[k].front_index <= units[k].end_index
     /\ k > 1 => units[k].front_index = 0
     /\ k < Len(units) => units[k].end_index = C

(* Items never get stuck between two drained ends: one of pop and popFront *)
(* finds an item whenever there is one.                                    *)
ItemsInReach ==
  /\ OnlyEndsArePartial
  /\ Content # <<>> => ~IsDrained(FrontUnit) \/ ~IsDrained(EndUnit)

(* The loops "while (!isDeQueueEmpty(...)) pop" of the tests (base_dequeue_ *)
(* test.c:81) get an item in every round: a queue that is not empty has an *)
(* item at its front.                                                      *)
NotEmptyGivesItem == ~isDeQueueEmpty => ~IsDrained(FrontUnit)

=============================================================================
