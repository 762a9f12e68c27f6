--------------------------- MODULE DeQueue_proofs ---------------------------
(***************************************************************************)
(* The queue of base/base_dequeue.c, for every size of a unit, number of   *)
(* units and set of values: items come out in the order of a queue, and    *)
(* one end of it always finds one.                                         *)
(*                                                                         *)
(* The items stand in consecutive slots, counted through all units, from   *)
(* FrontSlot up to EndSlot.  An operation moves one of the two by one, or  *)
(* both by the slots of a unit when the first unit changes.                *)
(***************************************************************************)

EXTENDS DeQueue, SequenceTheorems, TLAPS

-----------------------------------------------------------------------------
(* Slots                                                                   *)

LEMMA SlotsOfAUnit == C \in Nat /\ C > 1
BY DeQueueAssumption DEF C

LEMMA UnitsBefore ==
  ASSUME NEW a \in Int, NEW b \in Int, a < b
  PROVE  a * C \in Int /\ b * C \in Int /\ a * C + C <= b * C
<1>1. C \in Nat /\ a * C \in Int /\ b * C \in Int
  BY SlotsOfAUnit
<1>2. b - a - 1 \in Nat
  OBVIOUS
<1>3. (b - a - 1) * C \in Nat
  BY <1>1, <1>2
<1>4. (b - a - 1) * C = b * C - a * C - C
  BY <1>1
<1>5. QED
  BY <1>1, <1>3, <1>4

LEMMA Neighbours ==
  ASSUME NEW k \in Int
  PROVE  k * C \in Int /\ (k + 1) * C = k * C + C /\ (k - 1) * C = k * C - C
BY SlotsOfAUnit

LEMMA Division ==
  ASSUME NEW n \in Nat, NEW d \in Nat \ {0}
  PROVE  n \div d \in Nat /\ n % d \in 0..(d - 1) /\ n = (n \div d) * d + (n % d)
OBVIOUS

LEMMA SlotSplit ==
  ASSUME NEW n \in Nat
  PROVE  n \div C \in Nat /\ n % C \in 0..(C - 1) /\ n = (n \div C) * C + (n % C)
<1>1. C \in Nat \ {0}
  BY SlotsOfAUnit
<1>2. QED
  BY <1>1, Division

LEMMA SlotOf ==
  ASSUME NEW k \in Nat, NEW j \in 0..(C - 1)
  PROVE  k * C + j \in Nat /\ (k * C + j) \div C = k /\ (k * C + j) % C = j
<1> DEFINE n == k * C + j
<1>1. C \in Nat /\ C > 1 /\ k * C \in Nat /\ n \in Nat
  BY SlotsOfAUnit
<1>2. /\ n \div C \in Nat /\ n % C \in 0..(C - 1) /\ n = (n \div C) * C + (n % C)
      /\ (n \div C) * C \in Nat
  BY <1>1, SlotSplit
<1>3. ~(n \div C < k)
  BY <1>1, <1>2, UnitsBefore
<1>4. ~(k < n \div C)
  BY <1>1, <1>2, UnitsBefore
<1>5. n \div C = k
  BY <1>2, <1>3, <1>4
<1>6. n % C = j
  BY <1>1, <1>2, <1>5
<1>7. QED
  BY <1>1, <1>5, <1>6

-----------------------------------------------------------------------------
(* Units                                                                   *)

Units == [front_index : 0..C, end_index : 0..C, values : [0..(C - 1) -> Values \cup {NoItem}]]

LEMMA UnitIs ==
  ASSUME NEW f \in 0..C, NEW e \in 0..C
  PROVE  Unit(f, e) \in Units /\ Unit(f, e).front_index = f /\ Unit(f, e).end_index = e
BY DEF Unit, Units

LEMMA PutAtEndIs ==
  ASSUME NEW u \in Units, u.end_index < C, NEW v \in Values
  PROVE  /\ PutAtEnd(u, v) \in Units
         /\ PutAtEnd(u, v).front_index = u.front_index
         /\ PutAtEnd(u, v).end_index = u.end_index + 1
         /\ PutAtEnd(u, v).values[u.end_index] = v
         /\ \A j \in 0..(C - 1) : j # u.end_index => PutAtEnd(u, v).values[j] = u.values[j]
<1>1. u.end_index \in 0..(C - 1) /\ u.end_index + 1 \in 0..C
  BY SlotsOfAUnit DEF Units
<1>2. QED
  BY <1>1 DEF PutAtEnd, Units

LEMMA PutAtFrontIs ==
  ASSUME NEW u \in Units, u.front_index > 0, NEW v \in Values
  PROVE  /\ PutAtFront(u, v) \in Units
         /\ PutAtFront(u, v).front_index = u.front_index - 1
         /\ PutAtFront(u, v).end_index = u.end_index
         /\ PutAtFront(u, v).values[u.front_index - 1] = v
         /\ \A j \in 0..(C - 1) : j # u.front_index - 1 => PutAtFront(u, v).values[j] = u.values[j]
<1>1. u.front_index - 1 \in 0..(C - 1) /\ u.front_index - 1 \in 0..C
  BY SlotsOfAUnit DEF Units
<1>2. QED
  BY <1>1 DEF PutAtFront, Units

-----------------------------------------------------------------------------
(* The invariant                                                           *)

(* Of two units or more, one at an end has items; all between are full.    *)
OneEndHasItems ==
  Len(units) > 1 => ~(IsDrained(units[1]) /\ IsDrained(units[Len(units)]))

Inv == OnlyEndsArePartial /\ OneEndHasItems

(* What Inv says of the units.                                             *)
LEMMA InvUnits ==
  ASSUME Inv
  PROVE  /\ units \in Seq(Units) /\ Len(units) \in Nat \ {0}
         /\ \A k \in 1..Len(units) :
              /\ units[k] \in Units
              /\ units[k].front_index \in 0..C /\ units[k].end_index \in 0..C
              /\ units[k].front_index <= units[k].end_index
              /\ k > 1 => units[k].front_index = 0
              /\ k < Len(units) => units[k].end_index = C
         /\ FrontUnit = units[1] /\ EndUnit = units[Len(units)]
<1>1. units \in Seq(Units) /\ units # <<>>
  BY DEF Inv, OnlyEndsArePartial, TypeOK, Units
<1>2. Len(units) \in Nat \ {0} /\ DOMAIN units = 1..Len(units)
  BY <1>1
<1>3. \A k \in 1..Len(units) : units[k] \in Units
  BY <1>1, <1>2
<1>4. \A k \in 1..Len(units) : units[k].front_index \in 0..C /\ units[k].end_index \in 0..C
  BY <1>3 DEF Units
<1>5. QED
  BY <1>1, <1>2, <1>3, <1>4 DEF Inv, OnlyEndsArePartial, FrontUnit, EndUnit, Last

(* The two ways of a push: into the last unit, or into a new one.          *)
PushedInside(v) ==
  /\ Len(units') = Len(units)
  /\ \A k \in 1..(Len(units) - 1) : units'[k] = units[k]
  /\ units[Len(units)].end_index < C
  /\ units'[Len(units)] \in Units
  /\ units'[Len(units)].front_index = units[Len(units)].front_index
  /\ units'[Len(units)].end_index = units[Len(units)].end_index + 1
  /\ units'[Len(units)].values[units[Len(units)].end_index] = v
  /\ \A j \in 0..(C - 1) :
       j # units[Len(units)].end_index => units'[Len(units)].values[j] = units[Len(units)].values[j]

PushedBehind(v) ==
  /\ Len(units') = Len(units) + 1
  /\ \A k \in 1..Len(units) : units'[k] = units[k]
  /\ units[Len(units)].end_index = C
  /\ units'[Len(units) + 1] \in Units
  /\ units'[Len(units) + 1].front_index = 0
  /\ units'[Len(units) + 1].end_index = 1
  /\ units'[Len(units) + 1].values[0] = v

LEMMA PushIs ==
  ASSUME Inv, NEW v \in Values, Push(v)
  PROVE  /\ units' \in Seq(Units) /\ free_count' \in Nat /\ answer' = Done
         /\ PushedInside(v) \/ PushedBehind(v)
<1> DEFINE n == Len(units)
<1>1. /\ units \in Seq(Units) /\ n \in Nat \ {0} /\ EndUnit = units[n] /\ units[n] \in Units
      /\ units[n].end_index \in 0..C /\ free_count \in Nat
  BY InvUnits DEF Inv, OnlyEndsArePartial, TypeOK
<1>2. answer' = Done /\ free_count' \in Nat
  BY <1>1 DEF Push, TakeUnit
<1>3. CASE EndUnit.end_index >= C
  <2> DEFINE u == PutAtEnd(Unit(0, 0), v)
  <2>1. units' = Append(units, u) /\ units[n].end_index = C
    BY <1>1, <1>3, SlotsOfAUnit DEF Push
  <2>2. Unit(0, 0) \in Units /\ Unit(0, 0).front_index = 0 /\ Unit(0, 0).end_index = 0
    BY UnitIs, SlotsOfAUnit
  <2>3. u \in Units /\ u.front_index = 0 /\ u.end_index = 1 /\ u.values[0] = v
    BY <2>2, PutAtEndIs, SlotsOfAUnit
  <2> HIDE DEF u
  <2>4. /\ units' \in Seq(Units) /\ Len(units') = n + 1 /\ units'[n + 1] = u
        /\ \A k \in 1..n : units'[k] = units[k]
    BY <1>1, <2>1, <2>3, AppendProperties
  <2>5. PushedBehind(v)
    BY <2>1, <2>3, <2>4 DEF PushedBehind
  <2>6. QED
    BY <1>2, <2>4, <2>5
<1>4. CASE ~(EndUnit.end_index >= C)
  <2> DEFINE u == PutAtEnd(units[n], v)
  <2>1. units' = [units EXCEPT ![n] = u] /\ units[n].end_index < C
    BY <1>1, <1>4, SlotsOfAUnit DEF Push
  <2>2. /\ u \in Units /\ u.front_index = units[n].front_index
        /\ u.end_index = units[n].end_index + 1 /\ u.values[units[n].end_index] = v
        /\ \A j \in 0..(C - 1) : j # units[n].end_index => u.values[j] = units[n].values[j]
    BY <1>1, <2>1, PutAtEndIs
  <2> HIDE DEF u
  <2>3. /\ units' \in Seq(Units) /\ Len(units') = n /\ units'[n] = u
        /\ \A k \in 1..(n - 1) : units'[k] = units[k]
    BY <1>1, <2>1, <2>2, ExceptSeq
  <2>4. PushedInside(v)
    BY <2>1, <2>2, <2>3 DEF PushedInside
  <2>5. QED
    BY <1>2, <2>3, <2>4
<1>5. QED
  BY <1>3, <1>4

(* The two ways of a push at the front.                                    *)
PushedFrontInside(v) ==
  /\ Len(units') = Len(units)
  /\ \A k \in 2..Len(units) : units'[k] = units[k]
  /\ units[1].front_index > 0
  /\ units'[1] \in Units
  /\ units'[1].front_index = units[1].front_index - 1
  /\ units'[1].end_index = units[1].end_index
  /\ units'[1].values[units[1].front_index - 1] = v
  /\ \A j \in 0..(C - 1) :
       j # units[1].front_index - 1 => units'[1].values[j] = units[1].values[j]

PushedBefore(v) ==
  /\ Len(units') = Len(units) + 1
  /\ \A k \in 1..Len(units) : units'[k + 1] = units[k]
  /\ units[1].front_index = 0
  /\ units'[1] \in Units
  /\ units'[1].front_index = C - 1
  /\ units'[1].end_index = C
  /\ units'[1].values[C - 1] = v

LEMMA PushFrontIs ==
  ASSUME Inv, NEW v \in Values, PushFront(v)
  PROVE  /\ units' \in Seq(Units) /\ free_count' \in Nat /\ answer' = Done
         /\ PushedFrontInside(v) \/ PushedBefore(v)
<1> DEFINE n == Len(units)
<1>1. /\ units \in Seq(Units) /\ n \in Nat \ {0} /\ FrontUnit = units[1] /\ units[1] \in Units
      /\ units[1].front_index \in 0..C /\ free_count \in Nat
  BY InvUnits DEF Inv, OnlyEndsArePartial, TypeOK
<1>2. answer' = Done /\ free_count' \in Nat
  BY <1>1 DEF PushFront, TakeUnit
<1>3. CASE FrontUnit.front_index < 1
  <2> DEFINE u == PutAtFront(Unit(C, C), v)
  <2>1. units' = <<u>> \o units /\ units[1].front_index = 0
    BY <1>1, <1>3, SlotsOfAUnit DEF PushFront
  <2>2. Unit(C, C) \in Units /\ Unit(C, C).front_index = C /\ Unit(C, C).end_index = C
    BY UnitIs, SlotsOfAUnit
  <2>3. u \in Units /\ u.front_index = C - 1 /\ u.end_index = C /\ u.values[C - 1] = v
    BY <2>2, PutAtFrontIs, SlotsOfAUnit
  <2> HIDE DEF u
  <2>4. <<u>> \in Seq(Units) /\ Len(<<u>>) = 1 /\ <<u>>[1] = u
    BY <2>3
  <2>5. /\ units' \in Seq(Units) /\ Len(units') = 1 + n
        /\ \A i \in 1..(1 + n) : units'[i] = IF i <= 1 THEN <<u>>[i] ELSE units[i - 1]
    BY <1>1, <2>1, <2>4, ConcatProperties
  <2>6. Len(units') = n + 1 /\ units'[1] = u /\ \A k \in 1..n : units'[k + 1] = units[k]
    <3>1. units'[1] = u
      BY <1>1, <2>4, <2>5
    <3>2. ASSUME NEW k \in 1..n PROVE units'[k + 1] = units[k]
      <4>1. k + 1 \in 1..(1 + n) /\ ~(k + 1 <= 1) /\ (k + 1) - 1 = k
        BY <1>1
      <4>2. QED
        BY <2>5, <4>1
    <3>3. QED
      BY <1>1, <2>5, <3>1, <3>2
  <2>7. PushedBefore(v)
    BY <2>1, <2>3, <2>6 DEF PushedBefore
  <2>8. QED
    BY <1>2, <2>5, <2>7
<1>4. CASE ~(FrontUnit.front_index < 1)
  <2> DEFINE u == PutAtFront(units[1], v)
  <2>1. units' = [units EXCEPT ![1] = u] /\ units[1].front_index > 0
    BY <1>1, <1>4 DEF PushFront
  <2>2. /\ u \in Units /\ u.front_index = units[1].front_index - 1
        /\ u.end_index = units[1].end_index /\ u.values[units[1].front_index - 1] = v
        /\ \A j \in 0..(C - 1) :
             j # units[1].front_index - 1 => u.values[j] = units[1].values[j]
    BY <1>1, <2>1, PutAtFrontIs
  <2> HIDE DEF u
  <2>3. /\ units' \in Seq(Units) /\ Len(units') = n /\ units'[1] = u
        /\ \A k \in 2..n : units'[k] = units[k]
    BY <1>1, <2>1, <2>2, ExceptSeq
  <2>4. PushedFrontInside(v)
    BY <2>1, <2>2, <2>3 DEF PushedFrontInside
  <2>5. QED
    BY <1>2, <2>3, <2>4
<1>5. QED
  BY <1>3, <1>4

(* The two ways of a pop: the last unit stays, or it goes with its item.   *)
PoppedInside ==
  /\ Len(units') = Len(units)
  /\ \A k \in 1..(Len(units) - 1) : units'[k] = units[k]
  /\ Len(units) > 1 => units[Len(units)].end_index > 1
  /\ units'[Len(units)] \in Units
  /\ units'[Len(units)].front_index = units[Len(units)].front_index
  /\ units'[Len(units)].end_index = units[Len(units)].end_index - 1
  /\ \A j \in 0..(C - 1) :
       j # units[Len(units)].end_index - 1 => units'[Len(units)].values[j] = units[Len(units)].values[j]

PoppedLast ==
  /\ Len(units) > 1
  /\ Len(units') = Len(units) - 1
  /\ \A k \in 1..(Len(units) - 1) : units'[k] = units[k]
  /\ units[Len(units)].end_index = 1

LEMMA PopIs ==
  ASSUME Inv, Pop
  PROVE  /\ units' \in Seq(Units) /\ free_count' \in Nat
         /\ units[Len(units)].front_index < units[Len(units)].end_index
         /\ answer' = units[Len(units)].values[units[Len(units)].end_index - 1]
         /\ answer' \in Values \cup {NoItem}
         /\ PoppedInside \/ PoppedLast
<1> DEFINE n == Len(units)
           e == units[n].end_index
<1>1. /\ units \in Seq(Units) /\ n \in Nat \ {0} /\ EndUnit = units[n] /\ units[n] \in Units
      /\ e \in 0..C /\ free_count \in Nat /\ units[n].front_index \in 0..C
  BY InvUnits DEF Inv, OnlyEndsArePartial, TypeOK
<1>2. units[n].front_index < e /\ e - 1 \in 0..(C - 1) /\ e - 1 \in 0..C
  BY <1>1, SlotsOfAUnit DEF Pop, IsDrained
<1>3. answer' = units[n].values[e - 1] /\ answer' \in Values \cup {NoItem}
  <2>1. answer' = units[n].values[e - 1]
    BY <1>1 DEF Pop
  <2>2. units[n].values \in [0..(C - 1) -> Values \cup {NoItem}]
    BY <1>1 DEF Units
  <2>3. QED
    BY <1>2, <2>1, <2>2
<1>4. CASE n > 1 /\ e - 1 < 1
  <2>1. units' = SubSeq(units, 1, n - 1) /\ free_count' = free_count + 1
    BY <1>1, <1>4 DEF Pop, Front
  <2>2. /\ units' \in Seq(Units) /\ Len(units') = n - 1
        /\ \A k \in 1..(n - 1) : units'[k] = units[k]
    BY <1>1, <1>4, <2>1
  <2>3. PoppedLast
    BY <1>1, <1>2, <1>4, <2>2 DEF PoppedLast
  <2>4. QED
    BY <1>1, <1>2, <1>3, <2>1, <2>2, <2>3
<1>5. CASE ~(n > 1 /\ e - 1 < 1)
  <2> DEFINE u == [units[n] EXCEPT !.end_index = e - 1, !.values[e - 1] = NoItem]
  <2>1. units' = [units EXCEPT ![n] = u] /\ free_count' = free_count
    BY <1>1, <1>5 DEF Pop
  <2>2. /\ u \in Units /\ u.front_index = units[n].front_index /\ u.end_index = e - 1
        /\ \A j \in 0..(C - 1) : j # e - 1 => u.values[j] = units[n].values[j]
    BY <1>1, <1>2 DEF Units
  <2> HIDE DEF u
  <2>3. /\ units' \in Seq(Units) /\ Len(units') = n /\ units'[n] = u
        /\ \A k \in 1..(n - 1) : units'[k] = units[k]
    BY <1>1, <2>1, <2>2, ExceptSeq
  <2>4. PoppedInside
    BY <1>1, <1>2, <1>5, <2>2, <2>3 DEF PoppedInside
  <2>5. QED
    BY <1>1, <1>2, <1>3, <2>1, <2>3, <2>4
<1>6. QED
  BY <1>4, <1>5

(* The two ways of a pop at the front.                                     *)
PoppedFrontInside ==
  /\ Len(units') = Len(units)
  /\ \A k \in 2..Len(units) : units'[k] = units[k]
  /\ Len(units) > 1 => units[1].front_index + 1 < C
  /\ units'[1] \in Units
  /\ units'[1].front_index = units[1].front_index + 1
  /\ units'[1].end_index = units[1].end_index
  /\ \A j \in 0..(C - 1) :
       j # units[1].front_index => units'[1].values[j] = units[1].values[j]

PoppedFirst ==
  /\ Len(units) > 1
  /\ Len(units') = Len(units) - 1
  /\ \A k \in 1..(Len(units) - 1) : units'[k] = units[k + 1]
  /\ units[1].front_index = C - 1

LEMMA PopFrontIs ==
  ASSUME Inv, PopFront
  PROVE  /\ units' \in Seq(Units) /\ free_count' \in Nat
         /\ units[1].front_index < units[1].end_index
         /\ answer' = units[1].values[units[1].front_index]
         /\ answer' \in Values \cup {NoItem}
         /\ PoppedFrontInside \/ PoppedFirst
<1> DEFINE n == Len(units)
           f == units[1].front_index
<1>1. /\ units \in Seq(Units) /\ n \in Nat \ {0} /\ FrontUnit = units[1] /\ units[1] \in Units
      /\ f \in 0..C /\ free_count \in Nat /\ units[1].end_index \in 0..C
  BY InvUnits DEF Inv, OnlyEndsArePartial, TypeOK
<1>2. f < units[1].end_index /\ f \in 0..(C - 1) /\ f + 1 \in 0..C
  BY <1>1, SlotsOfAUnit DEF PopFront, IsDrained
<1>3. answer' = units[1].values[f] /\ answer' \in Values \cup {NoItem}
  <2>1. answer' = units[1].values[f]
    BY <1>1 DEF PopFront
  <2>2. units[1].values \in [0..(C - 1) -> Values \cup {NoItem}]
    BY <1>1 DEF Units
  <2>3. QED
    BY <1>2, <2>1, <2>2
<1>4. CASE n > 1 /\ f + 1 >= C
  <2>1. units' = Tail(units) /\ free_count' = free_count + 1
    BY <1>1, <1>4 DEF PopFront
  <2>2. /\ units' \in Seq(Units) /\ Len(units') = n - 1
        /\ \A k \in 1..(n - 1) : units'[k] = units[k + 1]
    BY <1>1, <1>4, <2>1
  <2>3. PoppedFirst
    BY <1>1, <1>2, <1>4, <2>2, SlotsOfAUnit DEF PoppedFirst
  <2>4. QED
    BY <1>1, <1>2, <1>3, <2>1, <2>2, <2>3
<1>5. CASE ~(n > 1 /\ f + 1 >= C)
  <2> DEFINE u == [units[1] EXCEPT !.front_index = f + 1, !.values[f] = NoItem]
  <2>1. units' = [units EXCEPT ![1] = u] /\ free_count' = free_count
    BY <1>1, <1>5 DEF PopFront
  <2>2. /\ u \in Units /\ u.front_index = f + 1 /\ u.end_index = units[1].end_index
        /\ \A j \in 0..(C - 1) : j # f => u.values[j] = units[1].values[j]
    BY <1>1, <1>2 DEF Units
  <2> HIDE DEF u
  <2>3. /\ units' \in Seq(Units) /\ Len(units') = n /\ units'[1] = u
        /\ \A k \in 2..n : units'[k] = units[k]
    BY <1>1, <2>1, <2>2, ExceptSeq
  <2>4. PoppedFrontInside
    BY <1>1, <1>2, <1>5, <2>2, <2>3, SlotsOfAUnit DEF PoppedFrontInside
  <2>5. QED
    BY <1>1, <1>2, <1>3, <2>1, <2>3, <2>4
<1>6. QED
  BY <1>4, <1>5

-----------------------------------------------------------------------------
(* The invariant holds                                                     *)

LEMMA InvAfter ==
  ASSUME units' \in Seq(Units), Len(units') > 0, free_count' \in Nat,
         answer' \in Values \cup {NoItem, Done, NoMemory, Created},
         \A k \in 1..Len(units') :
            /\ units'[k].front_index <= units'[k].end_index
            /\ k > 1 => units'[k].front_index = 0
            /\ k < Len(units') => units'[k].end_index = C,
         Len(units') > 1 => \/ units'[1].front_index < units'[1].end_index
                            \/ units'[Len(units')].front_index < units'[Len(units')].end_index
  PROVE  Inv'
<1>1. TypeOK'
  BY DEF TypeOK, Units
<1>2. OnlyEndsArePartial'
  BY <1>1 DEF OnlyEndsArePartial
<1>3. OneEndHasItems'
  <2>1. SUFFICES ASSUME Len(units') > 1
                 PROVE  ~IsDrained(units'[1]) \/ ~IsDrained(units'[Len(units')])
    BY DEF OneEndHasItems
  <2>2. \A k \in {1, Len(units')} : units'[k].front_index \in Int /\ units'[k].end_index \in Int
    <3>1. \A k \in {1, Len(units')} : units'[k] \in Units
      BY <2>1, ElementOfSeq
    <3>2. QED
      BY <3>1, SlotsOfAUnit DEF Units
  <2>3. QED
    BY <2>1, <2>2 DEF IsDrained
<1>4. QED
  BY <1>2, <1>3 DEF Inv

(* A new queue.                                                            *)
LEMMA FirstUnitIs ==
  /\ FirstUnit \in Units /\ <<FirstUnit>> \in Seq(Units) /\ Len(<<FirstUnit>>) = 1
  /\ <<FirstUnit>>[1] = FirstUnit
  /\ FirstUnit.front_index = FirstUnit.end_index /\ FirstUnit.end_index \in 0..C
<1>1. C \div 2 \in 0..C
  BY SlotsOfAUnit
<1>2. FirstUnit \in Units /\ FirstUnit.front_index = C \div 2 /\ FirstUnit.end_index = C \div 2
  BY <1>1, UnitIs DEF FirstUnit
<1>3. QED
  BY <1>1, <1>2

LEMMA InitInv == Init => Inv
<1> SUFFICES ASSUME Init PROVE Inv
  OBVIOUS
<1>1. /\ units \in Seq(Units) /\ Len(units) = 1 /\ units # <<>>
      /\ units[1].front_index <= units[1].end_index
  BY FirstUnitIs, SlotsOfAUnit DEF Init
<1>2. TypeOK
  BY <1>1 DEF Init, TypeOK, Units
<1>3. QED
  BY <1>1, <1>2 DEF Inv, OnlyEndsArePartial, OneEndHasItems

LEMMA PushInv ==
  ASSUME Inv, NEW v \in Values, Push(v)
  PROVE  Inv'
<1> DEFINE n == Len(units)
<1>1. /\ units' \in Seq(Units) /\ free_count' \in Nat /\ answer' = Done
      /\ PushedInside(v) \/ PushedBehind(v)
  BY PushIs
<1>2. /\ n \in Nat \ {0}
      /\ \A k \in 1..n :
           /\ units[k].front_index \in 0..C /\ units[k].end_index \in 0..C
           /\ units[k].front_index <= units[k].end_index
           /\ k > 1 => units[k].front_index = 0
           /\ k < n => units[k].end_index = C
  BY InvUnits
<1>3. CASE PushedInside(v)
  <2>1. \A k \in 1..(n - 1) : units'[k] = units[k]
    BY <1>3 DEF PushedInside
  <2>2. /\ Len(units') = n /\ units[n].front_index \in Nat /\ units[n].end_index \in Nat
        /\ units'[n].front_index = units[n].front_index
        /\ units'[n].end_index = units[n].end_index + 1
        /\ units'[n].front_index < units'[n].end_index
    BY <1>2, <1>3, SlotsOfAUnit DEF PushedInside
  <2>3. \A k \in 1..n :
            /\ units'[k].front_index <= units'[k].end_index
            /\ k > 1 => units'[k].front_index = 0
            /\ k < n => units'[k].end_index = C
    <3>1. SUFFICES ASSUME NEW k \in 1..n
                   PROVE  /\ units'[k].front_index <= units'[k].end_index
                          /\ k > 1 => units'[k].front_index = 0
                          /\ k < n => units'[k].end_index = C
      OBVIOUS
    <3>2. CASE k = n
      BY <1>2, <2>2, <3>2
    <3>3. CASE k # n
      <4>1. k \in 1..(n - 1)
        BY <1>2, <3>3
      <4>2. QED
        BY <1>2, <2>1, <4>1
    <3>4. QED
      BY <3>2, <3>3
  <2>4. QED
    BY <1>1, <1>2, <2>2, <2>3, InvAfter
<1>4. CASE PushedBehind(v)
  <2>1. \A k \in 1..n : units'[k] = units[k]
    BY <1>4 DEF PushedBehind
  <2>2. /\ Len(units') = n + 1 /\ units[n].end_index = C
        /\ units'[n + 1].front_index = 0 /\ units'[n + 1].end_index = 1
    BY <1>4 DEF PushedBehind
  <2>3. \A k \in 1..(n + 1) :
            /\ units'[k].front_index <= units'[k].end_index
            /\ k > 1 => units'[k].front_index = 0
            /\ k < n + 1 => units'[k].end_index = C
    BY <1>2, <2>1, <2>2
  <2>4. QED
    BY <1>1, <1>2, <2>2, <2>3, InvAfter
<1>5. QED
  BY <1>1, <1>3, <1>4

LEMMA PushFrontInv ==
  ASSUME Inv, NEW v \in Values, PushFront(v)
  PROVE  Inv'
<1> DEFINE n == Len(units)
<1>1. /\ units' \in Seq(Units) /\ free_count' \in Nat /\ answer' = Done
      /\ PushedFrontInside(v) \/ PushedBefore(v)
  BY PushFrontIs
<1>2. /\ n \in Nat \ {0}
      /\ \A k \in 1..n :
           /\ units[k].front_index \in 0..C /\ units[k].end_index \in 0..C
           /\ units[k].front_index <= units[k].end_index
           /\ k > 1 => units[k].front_index = 0
           /\ k < n => units[k].end_index = C
  BY InvUnits
<1>3. CASE PushedFrontInside(v)
  <2>1. \A k \in 2..n : units'[k] = units[k]
    BY <1>3 DEF PushedFrontInside
  <2>2. /\ Len(units') = n /\ units[1].front_index \in Nat /\ units[1].end_index \in Nat
        /\ units'[1].front_index = units[1].front_index - 1
        /\ units'[1].end_index = units[1].end_index
        /\ units'[1].front_index < units'[1].end_index
    BY <1>2, <1>3, SlotsOfAUnit DEF PushedFrontInside
  <2>3. \A k \in 1..n :
            /\ units'[k].front_index <= units'[k].end_index
            /\ k > 1 => units'[k].front_index = 0
            /\ k < n => units'[k].end_index = C
    <3>1. SUFFICES ASSUME NEW k \in 1..n
                   PROVE  /\ units'[k].front_index <= units'[k].end_index
                          /\ k > 1 => units'[k].front_index = 0
                          /\ k < n => units'[k].end_index = C
      OBVIOUS
    <3>2. CASE k = 1
      BY <1>2, <2>2, <3>2
    <3>3. CASE k # 1
      <4>1. k \in 2..n
        BY <1>2, <3>3
      <4>2. QED
        BY <1>2, <2>1, <4>1
    <3>4. QED
      BY <3>2, <3>3
  <2>4. QED
    BY <1>1, <1>2, <2>2, <2>3, InvAfter
<1>4. CASE PushedBefore(v)
  <2>1. \A k \in 1..n : units'[k + 1] = units[k]
    BY <1>4 DEF PushedBefore
  <2>2. /\ Len(units') = n + 1 /\ units[1].front_index = 0
        /\ units'[1].front_index = C - 1 /\ units'[1].end_index = C
    BY <1>4 DEF PushedBefore
  <2>3. \A k \in 1..(n + 1) :
            /\ units'[k].front_index <= units'[k].end_index
            /\ k > 1 => units'[k].front_index = 0
            /\ k < n + 1 => units'[k].end_index = C
    <3>1. SUFFICES ASSUME NEW k \in 1..(n + 1)
                   PROVE  /\ units'[k].front_index <= units'[k].end_index
                          /\ k > 1 => units'[k].front_index = 0
                          /\ k < n + 1 => units'[k].end_index = C
      OBVIOUS
    <3>2. CASE k = 1
      BY <2>2, <3>2, SlotsOfAUnit
    <3>3. CASE k # 1
      <4>1. k - 1 \in 1..n /\ (k - 1) + 1 = k
        BY <1>2, <3>3
      <4>2. units'[k] = units[k - 1]
        BY <2>1, <4>1
      <4>3. k - 1 > 1 => units[k - 1].front_index = 0
        BY <1>2, <4>1
      <4>4. k - 1 = 1 => units[k - 1].front_index = 0
        BY <2>2
      <4>5. QED
        BY <1>2, <4>1, <4>2, <4>3, <4>4
    <3>4. QED
      BY <3>2, <3>3
  <2>4. QED
    BY <1>1, <1>2, <2>2, <2>3, InvAfter, SlotsOfAUnit
<1>5. QED
  BY <1>1, <1>3, <1>4

LEMMA PopInv ==
  ASSUME Inv, Pop
  PROVE  Inv'
<1> DEFINE n == Len(units)
<1>1. /\ units' \in Seq(Units) /\ free_count' \in Nat
      /\ units[n].front_index < units[n].end_index
      /\ answer' \in Values \cup {NoItem, Done, NoMemory, Created}
      /\ PoppedInside \/ PoppedLast
  BY PopIs
<1>2. /\ n \in Nat \ {0}
      /\ \A k \in 1..n :
           /\ units[k].front_index \in 0..C /\ units[k].end_index \in 0..C
           /\ units[k].front_index <= units[k].end_index
           /\ k > 1 => units[k].front_index = 0
           /\ k < n => units[k].end_index = C
  BY InvUnits
<1>3. CASE PoppedInside
  <2>1. \A k \in 1..(n - 1) : units'[k] = units[k]
    BY <1>3 DEF PoppedInside
  <2>2. /\ Len(units') = n /\ units[n].front_index \in Nat /\ units[n].end_index \in Nat
        /\ units'[n].front_index = units[n].front_index
        /\ units'[n].end_index = units[n].end_index - 1
        /\ units'[n].front_index <= units'[n].end_index
        /\ n > 1 => units'[n].front_index < units'[n].end_index
    BY <1>1, <1>2, <1>3, SlotsOfAUnit DEF PoppedInside
  <2>3. \A k \in 1..n :
            /\ units'[k].front_index <= units'[k].end_index
            /\ k > 1 => units'[k].front_index = 0
            /\ k < n => units'[k].end_index = C
    <3>1. SUFFICES ASSUME NEW k \in 1..n
                   PROVE  /\ units'[k].front_index <= units'[k].end_index
                          /\ k > 1 => units'[k].front_index = 0
                          /\ k < n => units'[k].end_index = C
      OBVIOUS
    <3>2. CASE k = n
      BY <1>2, <2>2, <3>2
    <3>3. CASE k # n
      <4>1. k \in 1..(n - 1)
        BY <1>2, <3>3
      <4>2. QED
        BY <1>2, <2>1, <4>1
    <3>4. QED
      BY <3>2, <3>3
  <2>4. QED
    BY <1>1, <1>2, <2>2, <2>3, InvAfter
<1>4. CASE PoppedLast
  <2>1. n > 1 /\ Len(units') = n - 1 /\ \A k \in 1..(n - 1) : units'[k] = units[k]
    BY <1>4 DEF PoppedLast
  <2>2. \A k \in 1..(n - 1) :
            /\ units'[k].front_index <= units'[k].end_index
            /\ k > 1 => units'[k].front_index = 0
            /\ k < n - 1 => units'[k].end_index = C
    BY <1>2, <2>1
  <2>3. n - 1 > 1 => units'[n - 1].front_index = 0 /\ units'[n - 1].end_index = C
    BY <1>2, <2>1
  <2>4. QED
    BY <1>1, <1>2, <2>1, <2>2, <2>3, InvAfter, SlotsOfAUnit
<1>5. QED
  BY <1>1, <1>3, <1>4

LEMMA PopFrontInv ==
  ASSUME Inv, PopFront
  PROVE  Inv'
<1> DEFINE n == Len(units)
<1>1. /\ units' \in Seq(Units) /\ free_count' \in Nat
      /\ units[1].front_index < units[1].end_index
      /\ answer' \in Values \cup {NoItem, Done, NoMemory, Created}
      /\ PoppedFrontInside \/ PoppedFirst
  BY PopFrontIs
<1>2. /\ n \in Nat \ {0}
      /\ \A k \in 1..n :
           /\ units[k].front_index \in 0..C /\ units[k].end_index \in 0..C
           /\ units[k].front_index <= units[k].end_index
           /\ k > 1 => units[k].front_index = 0
           /\ k < n => units[k].end_index = C
  BY InvUnits
<1>3. CASE PoppedFrontInside
  <2>1. \A k \in 2..n : units'[k] = units[k]
    BY <1>3 DEF PoppedFrontInside
  <2>2. /\ Len(units') = n /\ units[1].front_index \in Nat /\ units[1].end_index \in Nat
        /\ units'[1].front_index = units[1].front_index + 1
        /\ units'[1].end_index = units[1].end_index
        /\ units'[1].front_index <= units'[1].end_index
        /\ n > 1 => units'[1].front_index < units'[1].end_index
    BY <1>1, <1>2, <1>3, SlotsOfAUnit DEF PoppedFrontInside
  <2>3. \A k \in 1..n :
            /\ units'[k].front_index <= units'[k].end_index
            /\ k > 1 => units'[k].front_index = 0
            /\ k < n => units'[k].end_index = C
    <3>1. SUFFICES ASSUME NEW k \in 1..n
                   PROVE  /\ units'[k].front_index <= units'[k].end_index
                          /\ k > 1 => units'[k].front_index = 0
                          /\ k < n => units'[k].end_index = C
      OBVIOUS
    <3>2. CASE k = 1
      BY <1>2, <2>2, <3>2
    <3>3. CASE k # 1
      <4>1. k \in 2..n
        BY <1>2, <3>3
      <4>2. QED
        BY <1>2, <2>1, <4>1
    <3>4. QED
      BY <3>2, <3>3
  <2>4. QED
    BY <1>1, <1>2, <2>2, <2>3, InvAfter
<1>4. CASE PoppedFirst
  <2>1. n > 1 /\ Len(units') = n - 1 /\ \A k \in 1..(n - 1) : units'[k] = units[k + 1]
    BY <1>4 DEF PoppedFirst
  <2>2. ASSUME NEW k \in 1..(n - 1)
        PROVE  /\ units'[k].front_index <= units'[k].end_index
               /\ units'[k].front_index = 0
               /\ k < n - 1 => units'[k].end_index = C
    <3>1. k + 1 \in 1..n /\ k + 1 > 1 /\ units'[k] = units[k + 1] /\ (k < n - 1 => k + 1 < n)
      BY <1>2, <2>1
    <3>2. QED
      BY <1>2, <3>1
  <2>3. n - 1 > 1 => units'[1].front_index = 0 /\ units'[1].end_index = C
    BY <1>2, <2>2
  <2>4. QED
    BY <1>1, <1>2, <2>1, <2>2, <2>3, InvAfter, SlotsOfAUnit
<1>5. QED
  BY <1>1, <1>3, <1>4

LEMMA StepInv == Inv /\ [Next]_vars => Inv'
<1> SUFFICES ASSUME Inv, [Next]_vars PROVE Inv'
  OBVIOUS
<1>1. CASE \E v \in Values : Push(v)
  BY <1>1, PushInv
<1>2. CASE \E v \in Values : PushFront(v)
  BY <1>2, PushFrontInv
<1>3. CASE Pop
  BY <1>3, PopInv
<1>4. CASE PopFront
  BY <1>4, PopFrontInv
<1>5. CASE PushFails \/ PopMisses \/ PopFrontMisses \/ UNCHANGED vars
  <2>1. UNCHANGED <<units, free_count>> /\ answer' \in {NoItem, NoMemory, answer}
    BY <1>5 DEF PushFails, PopMisses, PopFrontMisses, Misses, vars
  <2>2. QED
    BY <2>1 DEF Inv, OnlyEndsArePartial, TypeOK, OneEndHasItems, IsDrained
<1>6. CASE Renew
  <2>1. units' = <<FirstUnit>> /\ free_count' = 0 /\ answer' = Created
    BY <1>6 DEF Renew
  <2>2. QED
    BY <2>1, FirstUnitIs, InvAfter, SlotsOfAUnit
<1>7. QED
  BY <1>1, <1>2, <1>3, <1>4, <1>5, <1>6 DEF Next

THEOREM Invariant == Spec => []Inv
BY InitInv, StepInv, PTL DEF Spec

(* Items never get stuck: where there are any, pop or popFront finds one,  *)
(* for units of any size, however the two ends have moved.                 *)
THEOREM OneEndGivesItem == Spec => []ItemsInReach
<1>1. ASSUME Inv PROVE ItemsInReach
  <2>1. SUFFICES ASSUME IsDrained(FrontUnit), IsDrained(EndUnit) PROVE Content = <<>>
    BY <1>1 DEF ItemsInReach, Inv
  <2>2. Len(units) = 1 /\ FrontUnit = units[1] /\ EndUnit = units[1]
    <3>1. Len(units) \in Nat \ {0} /\ FrontUnit = units[1] /\ EndUnit = units[Len(units)]
      BY <1>1, InvUnits
    <3>2. ~(Len(units) > 1)
      BY <1>1, <2>1, <3>1 DEF Inv, OneEndHasItems
    <3>3. Len(units) = 1
      BY <3>1, <3>2
    <3>4. QED
      BY <3>1, <3>3
  <2>3. units[1].front_index \in Int /\ units[1].end_index \in Int
    BY <1>1, <2>2, InvUnits, SlotsOfAUnit
  <2>4. EndSlot - FrontSlot <= 0 /\ EndSlot - FrontSlot \in Int
    BY <2>1, <2>2, <2>3, SlotsOfAUnit DEF IsDrained, EndSlot, FrontSlot
  <2>5. 1..(EndSlot - FrontSlot) = {}
    BY <2>4
  <2>6. QED
    BY <2>5 DEF Content
<1> QED
  BY <1>1, Invariant, PTL

-----------------------------------------------------------------------------
(* The items come out in the order of a queue                              *)

Item == Values \cup {NoItem}
Count == EndSlot - FrontSlot

(* The items, by the unit and the slot in it.                              *)
ContentForm ==
  /\ FrontSlot = units[1].front_index
  /\ EndSlot = (Len(units) - 1) * C + units[Len(units)].end_index
  /\ FrontSlot \in Nat /\ EndSlot \in Nat /\ Count \in Nat
  /\ Content \in Seq(Item) /\ Len(Content) = Count
  /\ \A i \in 1..Count, k \in 0..(Len(units) - 1), j \in 0..(C - 1) :
       FrontSlot + i - 1 = k * C + j => Content[i] = units[k + 1].values[j]

LEMMA InSlotIs ==
  ASSUME Inv, NEW k \in 0..(Len(units) - 1), NEW j \in 0..(C - 1)
  PROVE  InSlot(k * C + j) = units[k + 1].values[j] /\ units[k + 1].values[j] \in Item
<1>1. k \in Nat /\ k + 1 \in 1..Len(units)
  BY InvUnits
<1>2. InSlot(k * C + j) = units[1 + k].values[j]
  BY <1>1, SlotOf DEF InSlot
<1>3. units[k + 1] \in Units
  BY <1>1, InvUnits
<1>4. units[k + 1].values \in [0..(C - 1) -> Item]
  BY <1>3 DEF Units, Item
<1>5. 1 + k = k + 1
  BY <1>1
<1>6. QED
  BY <1>2, <1>4, <1>5

(* A slot with an item: the unit it is in, and where in it.                *)
LEMMA Covered ==
  ASSUME Inv, NEW m \in Nat, FrontSlot <= m, m < EndSlot
  PROVE  \E k \in 0..(Len(units) - 1), j \in 0..(C - 1) :
            /\ m = k * C + j
            /\ k = Len(units) - 1 => j < units[Len(units)].end_index
            /\ k = 0 => j >= units[1].front_index
<1> DEFINE k == m \div C
           j == m % C
           n == Len(units)
<1>1. k \in Nat /\ j \in 0..(C - 1) /\ m = k * C + j
  BY SlotSplit
<1>2. /\ n \in Nat \ {0} /\ EndUnit = units[n] /\ FrontUnit = units[1]
      /\ units[n].end_index \in 0..C /\ units[1].front_index \in 0..C
  BY InvUnits
<1>3. EndSlot = (n - 1) * C + units[n].end_index /\ FrontSlot = units[1].front_index
  BY <1>2 DEF EndSlot, FrontSlot
<1> HIDE DEF k, j
<1>4. C \in Nat /\ k * C \in Nat /\ (n - 1) * C \in Nat /\ n * C = (n - 1) * C + C
  BY <1>1, <1>2, SlotsOfAUnit, Neighbours
<1>5. ~(n - 1 < k)
  <2>1. SUFFICES ASSUME n - 1 < k PROVE FALSE
    OBVIOUS
  <2>2. n - 1 \in Int /\ k \in Int
    BY <1>1, <1>2
  <2>3. (n - 1) * C + C <= k * C
    BY <2>1, <2>2, UnitsBefore
  <2>4. m < (n - 1) * C + units[n].end_index
    BY <1>3
  <2> HIDE DEF n
  <2>5. QED
    BY <1>1, <1>2, <1>4, <2>3, <2>4
<1>6. k \in 0..(n - 1)
  BY <1>1, <1>2, <1>5
<1>7. ASSUME k = n - 1 PROVE j < units[n].end_index
  <2>1. k * C = (n - 1) * C
    BY <1>7
  <2>2. k * C + j < (n - 1) * C + units[n].end_index
    BY <1>1, <1>3
  <2>3. j \in Int /\ units[n].end_index \in Int /\ k * C \in Int
    BY <1>1, <1>2, <1>4
  <2>4. QED
    BY <2>1, <2>2, <2>3
<1>8. k = 0 => j >= units[1].front_index
  BY <1>1, <1>2, <1>3, <1>4
<1>9. QED
  BY <1>1, <1>6, <1>7, <1>8

LEMMA ContentIs == Inv => ContentForm
<1> SUFFICES ASSUME Inv PROVE ContentForm
  OBVIOUS
<1> DEFINE n == Len(units)
<1>1. /\ n \in Nat \ {0} /\ EndUnit = units[n] /\ FrontUnit = units[1]
      /\ units[n].end_index \in 0..C /\ units[1].front_index \in 0..C
      /\ units[1].front_index <= units[1].end_index
  BY InvUnits
<1>2. EndSlot = (n - 1) * C + units[n].end_index /\ FrontSlot = units[1].front_index
  BY <1>1 DEF EndSlot, FrontSlot
<1>3. FrontSlot \in Nat /\ EndSlot \in Nat /\ Count \in Nat
  <2>1. C \in Nat /\ FrontSlot \in 0..C /\ (n - 1) * C \in Nat /\ units[n].end_index \in Nat
    BY <1>1, <1>2, SlotsOfAUnit
  <2>2. n = 1 => FrontSlot <= EndSlot
    BY <1>1, <1>2, SlotsOfAUnit
  <2>3. n # 1 => C <= (n - 1) * C
    <3>1. SUFFICES ASSUME n # 1 PROVE C <= (n - 1) * C
      OBVIOUS
    <3>2. n - 1 \in Int /\ 0 \in Int /\ 0 < n - 1
      BY <1>1, <3>1
    <3>3. 0 * C + C <= (n - 1) * C
      BY <3>2, UnitsBefore
    <3>4. 0 * C = 0
      BY SlotsOfAUnit
    <3>5. QED
      BY <2>1, <3>3, <3>4
  <2>4. FrontSlot <= EndSlot
    BY <1>2, <2>1, <2>2, <2>3
  <2>5. QED
    BY <1>2, <2>1, <2>4 DEF Count
<1>4. \A i \in 1..Count : InSlot(FrontSlot + i - 1) \in Item
  <2>1. SUFFICES ASSUME NEW i \in 1..Count PROVE InSlot(FrontSlot + i - 1) \in Item
    OBVIOUS
  <2>2. FrontSlot + i - 1 \in Nat /\ FrontSlot <= FrontSlot + i - 1 /\ FrontSlot + i - 1 < EndSlot
    BY <1>3, <2>1 DEF Count
  <2>3. PICK k \in 0..(n - 1), j \in 0..(C - 1) : FrontSlot + i - 1 = k * C + j
    BY <2>2, Covered
  <2>4. QED
    BY <2>3, InSlotIs
<1>5. Content = [i \in 1..Count |-> InSlot(FrontSlot + i - 1)]
  BY DEF Content, Count
<1>6. Content \in Seq(Item) /\ Len(Content) = Count
  BY <1>3, <1>4, <1>5, IsASeq
<1>7. ASSUME NEW i \in 1..Count, NEW k \in 0..(n - 1), NEW j \in 0..(C - 1),
             FrontSlot + i - 1 = k * C + j
      PROVE  Content[i] = units[k + 1].values[j]
  <2>1. Content[i] = InSlot(k * C + j)
    BY <1>5, <1>7
  <2>2. QED
    BY <2>1, InSlotIs
<1>8. QED
  BY <1>2, <1>3, <1>6, <1>7 DEF ContentForm

(* Where an item is.                                                       *)
LEMMA ItemIs ==
  ASSUME Inv, NEW i \in 1..Count
  PROVE  \E k \in 0..(Len(units) - 1), j \in 0..(C - 1) :
            /\ FrontSlot + i - 1 = k * C + j
            /\ Content[i] = units[k + 1].values[j]
            /\ k = Len(units) - 1 => j < units[Len(units)].end_index
            /\ k = 0 => j >= units[1].front_index
<1>1. FrontSlot \in Nat /\ EndSlot \in Nat /\ Count \in Nat
  BY ContentIs DEF ContentForm
<1>2. FrontSlot + i - 1 \in Nat /\ FrontSlot <= FrontSlot + i - 1 /\ FrontSlot + i - 1 < EndSlot
  BY <1>1 DEF Count
<1>3. PICK k \in 0..(Len(units) - 1), j \in 0..(C - 1) :
            /\ FrontSlot + i - 1 = k * C + j
            /\ k = Len(units) - 1 => j < units[Len(units)].end_index
            /\ k = 0 => j >= units[1].front_index
  BY <1>2, Covered
<1>4. Content[i] = units[k + 1].values[j]
  BY <1>3, ContentIs DEF ContentForm
<1>5. QED
  BY <1>3, <1>4

LEMMA ContentAfter == Inv' => ContentForm'
BY ContentIs, PTL

LEMMA PushImplements ==
  ASSUME Inv, Inv', NEW v \in Values, Push(v)
  PROVE  S!Push(v)
<1>1. ContentForm /\ ContentForm'
  BY ContentIs, ContentAfter
<1>2. /\ Len(units) \in Nat \ {0} /\ units[Len(units)].end_index \in 0..C
      /\ units[1].front_index \in 0..C
  BY InvUnits
<1>3. PICK n \in Nat \ {0} : n = Len(units)
  BY <1>2
<1>4. PICK e \in 0..C, f \in 0..C : e = units[n].end_index /\ f = units[1].front_index
  BY <1>2, <1>3
<1>5. /\ FrontSlot = f /\ EndSlot = (n - 1) * C + e
      /\ FrontSlot' = units'[1].front_index
      /\ EndSlot' = (Len(units') - 1) * C + units'[Len(units')].end_index
  BY <1>1, <1>3, <1>4 DEF ContentForm
<1>6. (n - 1) * C \in Int /\ n * C = (n - 1) * C + C /\ C \in Nat /\ C > 1
  BY Neighbours, SlotsOfAUnit
<1>7. answer' = Done /\ (PushedInside(v) \/ PushedBehind(v))
  BY PushIs
<1>8. /\ FrontSlot' = f /\ EndSlot' = EndSlot + 1 /\ Len(units') \in Nat /\ Len(units') >= n
      /\ \A k \in 0..(n - 1), j \in 0..(C - 1) :
           k < n - 1 \/ j < e => units'[k + 1].values[j] = units[k + 1].values[j]
      /\ \E k \in 0..(Len(units') - 1), j \in 0..(C - 1) :
           EndSlot = k * C + j /\ units'[k + 1].values[j] = v
  <2>1. CASE PushedInside(v)
    <3>1. /\ Len(units') = n /\ e < C /\ units'[n].end_index = e + 1 /\ units'[n].values[e] = v
          /\ units'[n].front_index = units[n].front_index
          /\ \A k \in 1..(n - 1) : units'[k] = units[k]
          /\ \A j \in 0..(C - 1) : j # e => units'[n].values[j] = units[n].values[j]
      BY <1>3, <1>4, <2>1 DEF PushedInside
    <3>2. units'[1].front_index = f
      <4>1. n = 1 \/ 1 \in 1..(n - 1)
        BY <1>3
      <4>2. QED
        BY <1>4, <3>1, <4>1
    <3>3. FrontSlot' = f /\ EndSlot' = EndSlot + 1
      <4>1. EndSlot' = (n - 1) * C + (e + 1)
        BY <1>5, <3>1
      <4>2. EndSlot = (n - 1) * C + e /\ (n - 1) * C \in Int /\ e \in Int
        BY <1>4, <1>5, <1>6
      <4>3. EndSlot' = EndSlot + 1
        BY <4>1, <4>2
      <4>4. QED
        BY <1>5, <3>2, <4>3
    <3>4. ASSUME NEW k \in 0..(n - 1), NEW j \in 0..(C - 1), k < n - 1 \/ j < e
          PROVE  units'[k + 1].values[j] = units[k + 1].values[j]
      <4>1. k + 1 \in 1..(n - 1) \/ (k + 1 = n /\ j # e)
        BY <1>4, <1>6, <3>4
      <4>2. QED
        BY <3>1, <4>1
    <3>5. n - 1 \in 0..(n - 1) /\ e \in 0..(C - 1) /\ (n - 1) + 1 = n
      BY <1>4, <1>6, <3>1
    <3>6. QED
      BY <1>5, <3>1, <3>3, <3>4, <3>5
  <2>2. CASE PushedBehind(v)
    <3>1. /\ Len(units') = n + 1 /\ e = C /\ units'[n + 1].end_index = 1 /\ units'[n + 1].values[0] = v
          /\ \A k \in 1..n : units'[k] = units[k]
      BY <1>3, <1>4, <2>2 DEF PushedBehind
    <3>2. (n + 1) - 1 = n /\ n \in 0..n /\ 0 \in 0..(C - 1) /\ 1 \in 1..n /\ n * C = n * C + 0
      BY <1>6
    <3>3. FrontSlot' = f /\ EndSlot' = n * C + 1 /\ EndSlot = n * C
      BY <1>4, <1>5, <1>6, <3>1, <3>2
    <3>4. EndSlot' = EndSlot + 1
      BY <3>3
    <3>5. \A k \in 0..(n - 1) : units'[k + 1] = units[k + 1]
      BY <3>1
    <3>6. QED
      BY <3>1, <3>2, <3>3, <3>4, <3>5
  <2>3. QED
    BY <1>7, <2>1, <2>2
<1>9. PICK c \in Nat : /\ Count = c /\ Count' = c + 1 /\ f + (c + 1) - 1 = EndSlot
                       /\ Content \in Seq(Item) /\ Len(Content) = c
                       /\ Content' \in Seq(Item) /\ Len(Content') = c + 1
  <2>1. Count \in Nat /\ EndSlot \in Nat /\ Count = EndSlot - f /\ Count' = (EndSlot + 1) - f
    BY <1>1, <1>5, <1>8 DEF ContentForm, Count
  <2>2. Count' = Count + 1 /\ f + (Count + 1) - 1 = EndSlot
    BY <1>4, <1>6, <2>1
  <2>3. QED
    BY <1>1, <2>1, <2>2 DEF ContentForm
<1>10. Content'[c + 1] = v
  <2>1. PICK k \in 0..(Len(units') - 1), j \in 0..(C - 1) :
            EndSlot = k * C + j /\ units'[k + 1].values[j] = v
    BY <1>8
  <2>2. c + 1 \in 1..Count' /\ FrontSlot' + (c + 1) - 1 = k * C + j
    BY <1>8, <1>9, <2>1
  <2>3. QED
    BY <1>1, <2>1, <2>2 DEF ContentForm
<1>11. ASSUME NEW i \in 1..c PROVE Content'[i] = Content[i]
  <2>1. PICK k \in 0..(n - 1), j \in 0..(C - 1) :
            /\ FrontSlot + i - 1 = k * C + j
            /\ Content[i] = units[k + 1].values[j]
            /\ k = n - 1 => j < e
    BY <1>3, <1>4, <1>9, ItemIs
  <2>2. i \in 1..Count' /\ k \in 0..(Len(units') - 1) /\ FrontSlot' + i - 1 = k * C + j
    <3>1. i \in 1..(c + 1) /\ k \in 0..(Len(units') - 1)
      BY <1>8
    <3>2. FrontSlot' = FrontSlot
      BY <1>5, <1>8
    <3>3. QED
      BY <1>9, <2>1, <3>1, <3>2
  <2>3. Content'[i] = units'[k + 1].values[j]
    BY <1>1, <2>2 DEF ContentForm
  <2>4. k < n - 1 \/ j < e
    BY <2>1
  <2>5. QED
    BY <1>8, <2>1, <2>3, <2>4
<1>12. Content' = Append(Content, v)
  <2>1. v \in Item
    BY DEF Item
  <2>2. /\ Append(Content, v) \in Seq(Item) /\ Len(Append(Content, v)) = c + 1
        /\ \A i \in 1..c : Append(Content, v)[i] = Content[i]
        /\ Append(Content, v)[c + 1] = v
    BY <1>9, <2>1, AppendProperties
  <2>3. \A i \in 1..(c + 1) : Content'[i] = Append(Content, v)[i]
    BY <1>10, <1>11, <2>2
  <2>4. QED
    BY <1>9, <2>2, <2>3, SeqEqual
<1>13. QED
  BY <1>7, <1>12 DEF S!Push

LEMMA PushFrontImplements ==
  ASSUME Inv, Inv', NEW v \in Values, PushFront(v)
  PROVE  S!PushFront(v)
<1>1. ContentForm /\ ContentForm'
  BY ContentIs, ContentAfter
<1>2. /\ Len(units) \in Nat \ {0} /\ units[Len(units)].end_index \in 0..C
      /\ units[1].front_index \in 0..C
  BY InvUnits
<1>3. PICK n \in Nat \ {0} : n = Len(units)
  BY <1>2
<1>4. PICK e \in 0..C, f \in 0..C : e = units[n].end_index /\ f = units[1].front_index
  BY <1>2, <1>3
<1>5. /\ FrontSlot = f /\ EndSlot = (n - 1) * C + e
      /\ FrontSlot' = units'[1].front_index
      /\ EndSlot' = (Len(units') - 1) * C + units'[Len(units')].end_index
  BY <1>1, <1>3, <1>4 DEF ContentForm
<1>6. (n - 1) * C \in Int /\ n * C = (n - 1) * C + C /\ C \in Nat /\ C > 1
  BY Neighbours, SlotsOfAUnit
<1>7. answer' = Done /\ (PushedFrontInside(v) \/ PushedBefore(v))
  BY PushFrontIs
<1>8. PICK g \in 0..(C - 1), d \in {0, C} :
        /\ FrontSlot' = g /\ EndSlot' = EndSlot + d /\ g + 1 = f + d
        /\ Len(units') \in Nat \ {0}
        /\ units'[1].values[g] = v
        /\ \A k \in 0..(n - 1), j \in 0..(C - 1) :
             (k = 0 => j >= f) =>
                \E m \in 0..(Len(units') - 1) :
                   /\ m * C + j = k * C + j + d
                   /\ units'[m + 1].values[j] = units[k + 1].values[j]
  <2>1. CASE PushedFrontInside(v)
    <3>1. /\ Len(units') = n /\ f > 0 /\ units'[1].front_index = f - 1
          /\ units'[1].end_index = units[1].end_index /\ units'[1].values[f - 1] = v
          /\ \A k \in 2..n : units'[k] = units[k]
          /\ \A j \in 0..(C - 1) : j # f - 1 => units'[1].values[j] = units[1].values[j]
      BY <1>3, <1>4, <2>1 DEF PushedFrontInside
    <3>2. units'[n].end_index = e
      <4>1. n = 1 \/ n \in 2..n
        BY <1>3
      <4>2. QED
        BY <1>4, <3>1, <4>1
    <3>3. FrontSlot' = f - 1 /\ EndSlot' = EndSlot + 0 /\ f - 1 \in 0..(C - 1) /\ (f - 1) + 1 = f + 0
      <4>1. EndSlot' = (n - 1) * C + e
        BY <1>5, <3>1, <3>2
      <4>2. EndSlot = (n - 1) * C + e /\ e \in Int /\ EndSlot \in Int
        BY <1>4, <1>5, <1>6
      <4>3. EndSlot' = EndSlot + 0
        BY <4>1, <4>2
      <4>4. FrontSlot' = f - 1
        BY <1>5, <3>1
      <4>5. f - 1 \in 0..(C - 1) /\ (f - 1) + 1 = f + 0
        BY <1>6, <3>1
      <4>6. QED
        BY <4>3, <4>4, <4>5
    <3>4. ASSUME NEW k \in 0..(n - 1), NEW j \in 0..(C - 1), k = 0 => j >= f
          PROVE  /\ k \in 0..(Len(units') - 1) /\ k * C + j = k * C + j + 0
                 /\ units'[k + 1].values[j] = units[k + 1].values[j]
      <4>1. k + 1 \in 2..n \/ (k + 1 = 1 /\ j # f - 1)
        BY <1>4, <1>6, <3>4
      <4>2. k * C + j \in Int
        BY Neighbours
      <4>3. QED
        BY <3>1, <4>1, <4>2
    <3>5. QED
      BY <3>1, <3>3, <3>4
  <2>2. CASE PushedBefore(v)
    <3>1. /\ Len(units') = n + 1 /\ f = 0 /\ units'[1].front_index = C - 1
          /\ units'[1].values[C - 1] = v
          /\ \A k \in 1..n : units'[k + 1] = units[k]
      BY <1>3, <1>4, <2>2 DEF PushedBefore
    <3>2. EndSlot' = EndSlot + C
      <4>1. (n + 1) - 1 = n /\ n \in 1..n
        BY <1>3
      <4>2. EndSlot' = n * C + e
        BY <1>4, <1>5, <3>1, <4>1
      <4>3. EndSlot = (n - 1) * C + e /\ e \in Int /\ C \in Int
        BY <1>4, <1>5, <1>6
      <4>4. QED
        BY <1>6, <4>2, <4>3
    <3>3. FrontSlot' = C - 1 /\ C - 1 \in 0..(C - 1) /\ (C - 1) + 1 = f + C
      BY <1>5, <1>6, <3>1
    <3>4. ASSUME NEW k \in 0..(n - 1), NEW j \in 0..(C - 1)
          PROVE  /\ k + 1 \in 0..(Len(units') - 1) /\ (k + 1) * C + j = k * C + j + C
                 /\ units'[(k + 1) + 1].values[j] = units[k + 1].values[j]
      <4>1. k + 1 \in 1..n /\ k + 1 \in 0..n /\ (n + 1) - 1 = n
        OBVIOUS
      <4>2. (k + 1) * C = k * C + C /\ k * C \in Int
        BY Neighbours
      <4>3. (k + 1) * C + j = k * C + j + C
        BY <1>6, <4>2
      <4>4. QED
        BY <3>1, <4>1, <4>3
    <3>5. Len(units') \in Nat \ {0} /\ C \in {0, C}
      BY <3>1
    <3>6. ASSUME NEW k \in 0..(n - 1), NEW j \in 0..(C - 1)
          PROVE  \E m \in 0..(Len(units') - 1) :
                    /\ m * C + j = k * C + j + C
                    /\ units'[m + 1].values[j] = units[k + 1].values[j]
      BY <3>4
    <3>7. QED
      BY <3>1, <3>2, <3>3, <3>5, <3>6
  <2>3. QED
    BY <1>7, <2>1, <2>2
<1>9. PICK c \in Nat : /\ Count = c /\ Count' = c + 1
                       /\ Content \in Seq(Item) /\ Len(Content) = c
                       /\ Content' \in Seq(Item) /\ Len(Content') = c + 1
  <2>0. FrontSlot' = g /\ EndSlot' = EndSlot + d /\ g + 1 = f + d
    BY <1>8
  <2>1. Count \in Nat /\ EndSlot \in Nat /\ Count = EndSlot - f /\ Count' = EndSlot + d - g
    BY <1>1, <1>5, <2>0 DEF ContentForm, Count
  <2>2. Count' = Count + 1
    <3>1. d \in Int /\ g \in Int /\ f \in Int
      BY <1>4, <1>6
    <3>2. QED
      BY <2>0, <2>1, <3>1
  <2>3. QED
    BY <1>1, <2>1, <2>2 DEF ContentForm
<1>10. Content'[1] = v
  <2>1. 1 \in 1..Count' /\ 0 \in 0..(Len(units') - 1)
    BY <1>8, <1>9
  <2>2. FrontSlot' + 1 - 1 = 0 * C + g /\ 0 + 1 = 1
    BY <1>6, <1>8
  <2>3. Content'[1] = units'[0 + 1].values[g]
    BY <1>1, <2>1, <2>2 DEF ContentForm
  <2>4. QED
    BY <1>8, <2>2, <2>3
<1>11. ASSUME NEW i \in 1..c PROVE Content'[i + 1] = Content[i]
  <2>1. PICK k \in 0..(n - 1), j \in 0..(C - 1) :
            /\ FrontSlot + i - 1 = k * C + j
            /\ Content[i] = units[k + 1].values[j]
            /\ k = 0 => j >= f
    BY <1>3, <1>4, <1>9, ItemIs
  <2>2. PICK m \in 0..(Len(units') - 1) :
            /\ m * C + j = k * C + j + d
            /\ units'[m + 1].values[j] = units[k + 1].values[j]
    BY <1>8, <2>1
  <2>3. i + 1 \in 1..Count' /\ FrontSlot' + (i + 1) - 1 = m * C + j
    <3>1. i + 1 \in 1..(c + 1)
      OBVIOUS
    <3>2. g + (i + 1) - 1 = (f + i - 1) + d
      <4>1. d \in Int /\ g \in Int /\ f \in Int /\ i \in Int
        BY <1>4, <1>6
      <4>2. g + 1 = f + d
        BY <1>8
      <4>3. QED
        BY <4>1, <4>2
    <3>3. f + i - 1 = k * C + j
      BY <1>5, <2>1
    <3>4. QED
      BY <1>8, <1>9, <2>2, <3>1, <3>2, <3>3
  <2>4. Content'[i + 1] = units'[m + 1].values[j]
    BY <1>1, <2>3 DEF ContentForm
  <2>5. QED
    BY <2>1, <2>2, <2>4
<1>12. Content' = <<v>> \o Content
  <2>1. <<v>> \in Seq(Item) /\ Len(<<v>>) = 1 /\ <<v>>[1] = v
    BY DEF Item
  <2>2. /\ <<v>> \o Content \in Seq(Item) /\ Len(<<v>> \o Content) = 1 + c
        /\ \A i \in 1..(1 + c) :
             (<<v>> \o Content)[i] = IF i <= 1 THEN <<v>>[i] ELSE Content[i - 1]
    BY <1>9, <2>1, ConcatProperties
  <2>3. ASSUME NEW i \in 1..(c + 1) PROVE Content'[i] = (<<v>> \o Content)[i]
    <3>1. CASE i = 1
      BY <1>10, <2>1, <2>2, <3>1
    <3>2. CASE i # 1
      <4>1. i - 1 \in 1..c /\ (i - 1) + 1 = i /\ ~(i <= 1) /\ i \in 1..(1 + c)
        BY <3>2
      <4>2. Content'[i] = Content[i - 1]
        BY <1>11, <4>1
      <4>3. QED
        BY <2>2, <4>1, <4>2
    <3>3. QED
      BY <3>1, <3>2
  <2>4. Len(<<v>> \o Content) = c + 1
    BY <2>2
  <2>5. QED
    BY <1>9, <2>2, <2>3, <2>4, SeqEqual
<1>13. QED
  BY <1>7, <1>12 DEF S!PushFront

LEMMA PopImplements ==
  ASSUME Inv, Inv', Pop
  PROVE  S!Pop
<1>1. ContentForm /\ ContentForm'
  BY ContentIs, ContentAfter
<1>2. /\ Len(units) \in Nat \ {0} /\ units[Len(units)].end_index \in 0..C
      /\ units[1].front_index \in 0..C /\ units[Len(units)].front_index \in 0..C
  BY InvUnits
<1>3. PICK n \in Nat \ {0} : n = Len(units)
  BY <1>2
<1>4. PICK e \in 0..C, f \in 0..C : e = units[n].end_index /\ f = units[1].front_index
  BY <1>2, <1>3
<1>5. /\ FrontSlot = f /\ EndSlot = (n - 1) * C + e
      /\ FrontSlot' = units'[1].front_index
      /\ EndSlot' = (Len(units') - 1) * C + units'[Len(units')].end_index
  BY <1>1, <1>3, <1>4 DEF ContentForm
<1>6. (n - 1) * C \in Int /\ (n - 1) * C = ((n - 1) - 1) * C + C /\ C \in Nat /\ C > 1
  BY Neighbours, SlotsOfAUnit
<1>7. /\ answer' = units[n].values[e - 1] /\ units[n].front_index < e
      /\ PoppedInside \/ PoppedLast
  BY <1>3, <1>4, PopIs
<1>8. e > 0 /\ e - 1 \in 0..(C - 1)
  BY <1>2, <1>3, <1>4, <1>6, <1>7
<1>9. /\ FrontSlot' = f /\ EndSlot' = EndSlot - 1
      /\ \A k \in 0..(n - 1), j \in 0..(C - 1) :
           k * C + j < EndSlot - 1 /\ (k = n - 1 => j < e) =>
              /\ k \in 0..(Len(units') - 1)
              /\ units'[k + 1].values[j] = units[k + 1].values[j]
  <2>1. EndSlot - 1 = (n - 1) * C + (e - 1)
    BY <1>4, <1>5, <1>6
  <2>2. CASE PoppedInside
    <3>1. /\ Len(units') = n /\ units'[n].end_index = e - 1
          /\ units'[n].front_index = units[n].front_index
          /\ \A k \in 1..(n - 1) : units'[k] = units[k]
          /\ \A j \in 0..(C - 1) : j # e - 1 => units'[n].values[j] = units[n].values[j]
      BY <1>3, <1>4, <2>2 DEF PoppedInside
    <3>2. units'[1].front_index = f
      <4>1. n = 1 \/ 1 \in 1..(n - 1)
        BY <1>3
      <4>2. QED
        BY <1>4, <3>1, <4>1
    <3>3. EndSlot' = EndSlot - 1
      BY <1>5, <2>1, <3>1
    <3>4. ASSUME NEW k \in 0..(n - 1), NEW j \in 0..(C - 1), k * C + j < EndSlot - 1
          PROVE  /\ k \in 0..(Len(units') - 1)
                 /\ units'[k + 1].values[j] = units[k + 1].values[j]
      <4>1. CASE k = n - 1
        <5>1. (n - 1) * C + j < (n - 1) * C + (e - 1)
          BY <2>1, <3>4, <4>1
        <5>2. j # e - 1
          <6>1. (n - 1) * C \in Int /\ j \in Int /\ e \in Int
            BY <1>4, <1>6
          <6>2. QED
            BY <5>1, <6>1
        <5>3. k + 1 = n
          BY <4>1
        <5>4. QED
          BY <3>1, <5>2, <5>3
      <4>2. CASE k # n - 1
        <5>1. k + 1 \in 1..(n - 1)
          BY <4>2
        <5>2. QED
          BY <3>1, <5>1
      <4>3. QED
        BY <4>1, <4>2
    <3>5. QED
      BY <1>5, <3>2, <3>3, <3>4
  <2>3. CASE PoppedLast
    <3>1. /\ n > 1 /\ Len(units') = n - 1 /\ e = 1
          /\ \A k \in 1..(n - 1) : units'[k] = units[k]
      BY <1>3, <1>4, <2>3 DEF PoppedLast
    <3>2. units'[1].front_index = f
      BY <1>4, <3>1
    <3>3. units'[n - 1].end_index = C
      <4>1. n - 1 \in 1..n /\ n - 1 < n /\ n - 1 \in 1..(n - 1)
        BY <3>1
      <4>2. units[n - 1].end_index = C
        BY <1>3, <4>1, InvUnits
      <4>3. QED
        BY <3>1, <4>1, <4>2
    <3>4. EndSlot' = EndSlot - 1
      <4>1. EndSlot' = ((n - 1) - 1) * C + C
        BY <1>5, <3>1, <3>3
      <4>2. EndSlot - 1 = (n - 1) * C
        BY <1>6, <2>1, <3>1
      <4>3. QED
        BY <1>6, <4>1, <4>2
    <3>5. ASSUME NEW k \in 0..(n - 1), NEW j \in 0..(C - 1),
                 k * C + j < EndSlot - 1
          PROVE  /\ k \in 0..(Len(units') - 1)
                 /\ units'[k + 1].values[j] = units[k + 1].values[j]
      <4>1. k # n - 1
        <5>1. SUFFICES ASSUME k = n - 1 PROVE FALSE
          OBVIOUS
        <5>2. (n - 1) * C + j < (n - 1) * C + (e - 1)
          BY <2>1, <3>5, <5>1
        <5>3. e - 1 = 0
          BY <3>1
        <5>4. QED
          BY <1>6, <5>2, <5>3
      <4>2. k + 1 \in 1..(n - 1) /\ k \in 0..((n - 1) - 1)
        BY <4>1
      <4>3. QED
        BY <3>1, <4>2
    <3>6. QED
      BY <1>5, <3>2, <3>4, <3>5
  <2>4. QED
    BY <1>7, <2>2, <2>3
<1>10. PICK c \in Nat : /\ Count = c /\ Count' = c - 1 /\ c > 0 /\ f + c = EndSlot /\ EndSlot \in Nat
                        /\ Content \in Seq(Item) /\ Len(Content) = c
                        /\ Content' \in Seq(Item) /\ Len(Content') = c - 1
  <2>1. /\ Count \in Nat /\ EndSlot \in Nat /\ Count = EndSlot - f /\ Count' = (EndSlot - 1) - f
        /\ Count' \in Nat
    BY <1>1, <1>5, <1>9 DEF ContentForm, Count
  <2>2. Count' = Count - 1 /\ Count > 0 /\ f + Count = EndSlot
    BY <1>4, <1>6, <2>1
  <2>3. QED
    BY <1>1, <2>1, <2>2 DEF ContentForm
<1>11. Content[c] = answer'
  <2>1. c \in 1..Count /\ n - 1 \in 0..(Len(units) - 1) /\ (n - 1) + 1 = n
    BY <1>3, <1>10
  <2>2. FrontSlot + c - 1 = (n - 1) * C + (e - 1)
    <3>1. f + c - 1 = EndSlot - 1
      BY <1>4, <1>6, <1>10
    <3>2. EndSlot - 1 = (n - 1) * C + (e - 1)
      BY <1>4, <1>5, <1>6
    <3>3. QED
      BY <1>5, <3>1, <3>2
  <2>3. Content[c] = units[(n - 1) + 1].values[e - 1]
    BY <1>1, <1>8, <2>1, <2>2 DEF ContentForm
  <2>4. QED
    BY <1>7, <2>1, <2>3
<1>12. ASSUME NEW i \in 1..(c - 1) PROVE Content'[i] = Content[i]
  <2>0. i \in 1..c
    BY <1>10
  <2>1. PICK k \in 0..(n - 1), j \in 0..(C - 1) :
            /\ FrontSlot + i - 1 = k * C + j
            /\ Content[i] = units[k + 1].values[j]
            /\ k = n - 1 => j < e
    BY <1>3, <1>4, <1>10, <2>0, ItemIs
  <2>2. k * C + j < EndSlot - 1
    <3>1. f + i - 1 < EndSlot - 1
      BY <1>4, <1>6, <1>10
    <3>2. QED
      BY <1>5, <2>1, <3>1
  <2>3. /\ k \in 0..(Len(units') - 1)
        /\ units'[k + 1].values[j] = units[k + 1].values[j]
    BY <1>9, <2>1, <2>2
  <2>4. i \in 1..Count' /\ FrontSlot' + i - 1 = k * C + j
    BY <1>5, <1>9, <1>10, <2>1
  <2>5. Content'[i] = units'[k + 1].values[j]
    BY <1>1, <2>3, <2>4 DEF ContentForm
  <2>6. QED
    BY <2>1, <2>3, <2>5
<1>13. Content' = SubSeq(Content, 1, c - 1)
  <2>1. c - 1 \in Nat /\ \A i \in 1..(c - 1) : Content[i] \in Item
    BY <1>10, ElementOfSeq
  <2>2. /\ SubSeq(Content, 1, c - 1) \in Seq(Item)
        /\ Len(SubSeq(Content, 1, c - 1)) = c - 1
        /\ \A i \in 1..(c - 1) : SubSeq(Content, 1, c - 1)[i] = Content[i]
    BY <1>10, <2>1
  <2>3. QED
    BY <1>10, <1>12, <2>2, SeqEqual
<1>14. Content # <<>>
  BY <1>10
<1>15. QED
  BY <1>10, <1>11, <1>13, <1>14 DEF S!Pop

LEMMA PopFrontImplements ==
  ASSUME Inv, Inv', PopFront
  PROVE  S!PopFront
<1>1. ContentForm /\ ContentForm'
  BY ContentIs, ContentAfter
<1>2. /\ Len(units) \in Nat \ {0} /\ units[Len(units)].end_index \in 0..C
      /\ units[1].front_index \in 0..C /\ units[1].end_index \in 0..C
  BY InvUnits
<1>3. PICK n \in Nat \ {0} : n = Len(units)
  BY <1>2
<1>4. PICK e \in 0..C, f \in 0..C : e = units[n].end_index /\ f = units[1].front_index
  BY <1>2, <1>3
<1>5. /\ FrontSlot = f /\ EndSlot = (n - 1) * C + e
      /\ FrontSlot' = units'[1].front_index
      /\ EndSlot' = (Len(units') - 1) * C + units'[Len(units')].end_index
  BY <1>1, <1>3, <1>4 DEF ContentForm
<1>6. (n - 1) * C \in Int /\ (n - 1) * C = ((n - 1) - 1) * C + C /\ C \in Nat /\ C > 1
  BY Neighbours, SlotsOfAUnit
<1>7. /\ answer' = units[1].values[f] /\ f < units[1].end_index
      /\ PoppedFrontInside \/ PoppedFirst
  BY <1>3, <1>4, PopFrontIs
<1>8. f \in 0..(C - 1)
  BY <1>2, <1>3, <1>4, <1>6, <1>7
<1>9. PICK g \in 0..C, d \in {0, C} :
        /\ FrontSlot' = g /\ EndSlot' = EndSlot - d /\ g + d = f + 1
        /\ \A k \in 0..(n - 1), j \in 0..(C - 1) :
             k * C + j > f =>
                \E m \in 0..(Len(units') - 1) :
                   /\ m * C + j = k * C + j - d
                   /\ units'[m + 1].values[j] = units[k + 1].values[j]
  <2>1. CASE PoppedFrontInside
    <3>1. /\ Len(units') = n /\ units'[1].front_index = f + 1
          /\ units'[1].end_index = units[1].end_index
          /\ \A k \in 2..n : units'[k] = units[k]
          /\ \A j \in 0..(C - 1) : j # f => units'[1].values[j] = units[1].values[j]
      BY <1>3, <1>4, <2>1 DEF PoppedFrontInside
    <3>2. units'[n].end_index = e
      <4>1. n = 1 \/ n \in 2..n
        BY <1>3
      <4>2. QED
        BY <1>4, <3>1, <4>1
    <3>3. FrontSlot' = f + 1 /\ EndSlot' = EndSlot - 0 /\ f + 1 \in 0..C /\ (f + 1) + 0 = f + 1
      <4>1. EndSlot' = EndSlot /\ EndSlot \in Int
        BY <1>4, <1>5, <1>6, <3>1, <3>2
      <4>2. QED
        BY <1>5, <1>6, <1>8, <3>1, <4>1
    <3>4. ASSUME NEW k \in 0..(n - 1), NEW j \in 0..(C - 1), k * C + j > f
          PROVE  /\ k \in 0..(Len(units') - 1) /\ k * C + j = k * C + j - 0
                 /\ units'[k + 1].values[j] = units[k + 1].values[j]
      <4>1. k = 0 => k * C + j = j
        BY <1>6
      <4>2. k + 1 \in 2..n \/ (k + 1 = 1 /\ j # f)
        BY <1>8, <3>4, <4>1
      <4>3. k * C + j \in Int
        BY Neighbours
      <4>4. QED
        BY <3>1, <4>2, <4>3
    <3>5. QED
      BY <3>1, <3>3, <3>4
  <2>2. CASE PoppedFirst
    <3>1. /\ n > 1 /\ Len(units') = n - 1 /\ f = C - 1
          /\ \A k \in 1..(n - 1) : units'[k] = units[k + 1]
      BY <1>3, <1>4, <2>2 DEF PoppedFirst
    <3>2. units'[1].front_index = 0
      <4>1. 2 \in 1..n /\ 1 \in 1..(n - 1) /\ 1 + 1 = 2
        BY <3>1
      <4>2. units[2].front_index = 0
        BY <1>3, <4>1, InvUnits
      <4>3. QED
        BY <3>1, <4>1, <4>2
    <3>3. EndSlot' = EndSlot - C
      <4>1. n - 1 \in 1..(n - 1) /\ (n - 1) + 1 = n
        BY <3>1
      <4>2. EndSlot' = ((n - 1) - 1) * C + e
        BY <1>4, <1>5, <3>1, <4>1
      <4>3. EndSlot = (n - 1) * C + e /\ e \in Int /\ ((n - 1) - 1) * C \in Int
        BY <1>4, <1>5, <1>6, Neighbours
      <4>4. QED
        BY <1>6, <4>2, <4>3
    <3>4. 0 + C = f + 1 /\ 0 \in 0..C /\ FrontSlot' = 0
      BY <1>5, <1>6, <3>1, <3>2
    <3>5. ASSUME NEW k \in 0..(n - 1), NEW j \in 0..(C - 1), k * C + j > f
          PROVE  /\ k - 1 \in 0..(Len(units') - 1) /\ (k - 1) * C + j = k * C + j - C
                 /\ units'[(k - 1) + 1].values[j] = units[k + 1].values[j]
      <4>1. k # 0
        <5>1. k = 0 => k * C + j = j
          BY <1>6
        <5>2. QED
          BY <1>6, <3>1, <3>5, <5>1
      <4>2. k \in 1..(n - 1) /\ (k - 1) + 1 = k /\ k - 1 \in 0..((n - 1) - 1)
        BY <4>1
      <4>3. (k - 1) * C = k * C - C /\ k * C \in Int
        BY Neighbours
      <4>4. (k - 1) * C + j = k * C + j - C
        BY <1>6, <4>3
      <4>5. QED
        BY <3>1, <4>2, <4>4
    <3>6. QED
      BY <3>3, <3>4, <3>5
  <2>3. QED
    BY <1>7, <2>1, <2>2
<1>10. PICK c \in Nat : /\ Count = c /\ Count' = c - 1 /\ c > 0
                        /\ Content \in Seq(Item) /\ Len(Content) = c
                        /\ Content' \in Seq(Item) /\ Len(Content') = c - 1
  <2>0. FrontSlot' = g /\ EndSlot' = EndSlot - d /\ g + d = f + 1
    BY <1>9
  <2>1. /\ Count \in Nat /\ EndSlot \in Nat /\ Count = EndSlot - f /\ Count' = (EndSlot - d) - g
        /\ Count' \in Nat
    BY <1>1, <1>5, <2>0 DEF ContentForm, Count
  <2>2. Count' = Count - 1 /\ Count > 0
    <3>1. d \in Int /\ g \in Int /\ f \in Int
      BY <1>4, <1>6
    <3>2. QED
      BY <2>0, <2>1, <3>1
  <2>3. QED
    BY <1>1, <2>1, <2>2 DEF ContentForm
<1>11. Content[1] = answer'
  <2>1. 1 \in 1..Count /\ 0 \in 0..(Len(units) - 1) /\ 0 + 1 = 1
    BY <1>3, <1>10
  <2>2. FrontSlot + 1 - 1 = 0 * C + f
    BY <1>5, <1>6, <1>8
  <2>3. Content[1] = units[0 + 1].values[f]
    BY <1>1, <1>8, <2>1, <2>2 DEF ContentForm
  <2>4. QED
    BY <1>7, <2>1, <2>3
<1>12. ASSUME NEW i \in 1..(c - 1) PROVE Content'[i] = Content[i + 1]
  <2>0. i + 1 \in 1..c
    BY <1>10
  <2>1. PICK k \in 0..(n - 1), j \in 0..(C - 1) :
            /\ FrontSlot + (i + 1) - 1 = k * C + j
            /\ Content[i + 1] = units[k + 1].values[j]
    BY <1>3, <1>4, <1>10, <2>0, ItemIs
  <2>2. k * C + j > f
    <3>1. f + (i + 1) - 1 > f
      BY <1>4, <1>6, <1>10
    <3>2. QED
      BY <1>5, <2>1, <3>1
  <2>3. PICK m \in 0..(Len(units') - 1) :
            /\ m * C + j = k * C + j - d
            /\ units'[m + 1].values[j] = units[k + 1].values[j]
    BY <1>9, <2>2
  <2>4. i \in 1..Count' /\ FrontSlot' + i - 1 = m * C + j
    <3>1. g + i - 1 = (f + (i + 1) - 1) - d
      <4>1. d \in Int /\ g \in Int /\ f \in Int /\ i \in Int
        BY <1>4, <1>6
      <4>2. g + d = f + 1
        BY <1>9
      <4>3. QED
        BY <4>1, <4>2
    <3>2. f + (i + 1) - 1 = k * C + j
      BY <1>5, <2>1
    <3>3. i \in 1..Count' /\ FrontSlot' = g
      BY <1>9, <1>10
    <3>4. m * C + j = k * C + j - d
      BY <2>3
    <3>5. g + i - 1 = m * C + j
      <4>1. (f + (i + 1) - 1) - d = (k * C + j) - d
        BY <3>2
      <4>2. m * C + j = (k * C + j) - d
        <5>1. k * C \in Int /\ j \in Int /\ d \in Int
          BY <1>6, Neighbours
        <5>2. QED
          BY <3>4, <5>1
      <4>3. QED
        BY <3>1, <4>1, <4>2
    <3>6. QED
      BY <3>3, <3>5
  <2>5. Content'[i] = units'[m + 1].values[j]
    BY <1>1, <2>4 DEF ContentForm
  <2>6. QED
    BY <2>1, <2>3, <2>5
<1>13. Content # <<>>
  BY <1>10
<1>14. Content' = Tail(Content) /\ Head(Content) = Content[1]
  <2>1. /\ Tail(Content) \in Seq(Item) /\ Len(Tail(Content)) = c - 1
        /\ \A i \in 1..(c - 1) : Tail(Content)[i] = Content[i + 1]
    BY <1>10, <1>13, HeadTailProperties
  <2>2. Content' = Tail(Content)
    BY <1>10, <1>12, <2>1, SeqEqual
  <2>3. QED
    BY <1>10, <1>13, <2>2
<1>15. QED
  BY <1>11, <1>13, <1>14 DEF S!PopFront

LEMMA EmptyContent ==
  ASSUME units = <<FirstUnit>>
  PROVE  Content = <<>>
<1>1. FrontSlot = FirstUnit.front_index /\ EndSlot = 0 * C + FirstUnit.end_index
  BY FirstUnitIs DEF FrontSlot, EndSlot, FrontUnit, EndUnit, Last
<1>2. EndSlot - FrontSlot = 0
  BY <1>1, FirstUnitIs, SlotsOfAUnit
<1>3. 1..(EndSlot - FrontSlot) = {}
  BY <1>2
<1>4. QED
  BY <1>3 DEF Content

LEMMA EmptyAfter == (units = <<FirstUnit>>)' => (Content = <<>>)'
<1>1. units = <<FirstUnit>> => Content = <<>>
  BY EmptyContent
<1>2. QED
  BY <1>1, PTL

(* The queue gives every item once, at the end from which it is asked, in  *)
(* the order of the items: it is a sequence (ItemSequence), except that a  *)
(* pop may find nothing while there are items at the other end.            *)
THEOREM QueueKeepsOrder == Spec => ImplementsSequence
<1>1. Init => S!Init
  BY EmptyContent DEF Init, S!Init
<1>2. ASSUME Inv, Inv', [Next]_vars PROVE S!Next \/ UNCHANGED <<Content, answer>>
  <2>1. ASSUME NEW v \in Values, Push(v) PROVE S!Next
    BY <1>2, <2>1, PushImplements DEF S!Next
  <2>2. ASSUME NEW v \in Values, PushFront(v) PROVE S!Next
    BY <1>2, <2>2, PushFrontImplements DEF S!Next
  <2>3. CASE Pop
    BY <1>2, <2>3, PopImplements DEF S!Next
  <2>4. CASE PopFront
    BY <1>2, <2>4, PopFrontImplements DEF S!Next
  <2>5. CASE PushFails \/ PopMisses \/ PopFrontMisses
    <3>1. UNCHANGED units /\ answer' \in {NoItem, NoMemory}
      BY <2>5 DEF PushFails, PopMisses, PopFrontMisses, Misses
    <3>2. Content' = Content
      BY <3>1 DEF Content, FrontSlot, EndSlot, FrontUnit, EndUnit, InSlot
    <3>3. S!Miss
      BY <3>1, <3>2 DEF S!Miss
    <3>4. QED
      BY <3>3 DEF S!Next
  <2>6. CASE Renew
    <3>1. Content' = <<>> /\ answer' = Created
      BY <2>6, EmptyAfter DEF Renew
    <3>2. QED
      BY <3>1 DEF S!Renew, S!Next
  <2>7. CASE UNCHANGED vars
    BY <2>7 DEF vars, Content, FrontSlot, EndSlot, FrontUnit, EndUnit, InSlot
  <2>8. QED
    BY <1>2, <2>1, <2>2, <2>3, <2>4, <2>5, <2>6, <2>7 DEF Next
<1>3. Inv /\ Inv' /\ [Next]_vars => [S!Next]_<<Content, answer>>
  BY <1>2
<1> QED
  BY <1>1, <1>3, Invariant, PTL DEF Spec, ImplementsSequence, S!Spec

=============================================================================
