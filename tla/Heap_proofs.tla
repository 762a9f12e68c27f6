---------------------------- MODULE Heap_proofs ----------------------------
(***************************************************************************)
(* Proofs about Heap for every set of integers, every capacity and every   *)
(* LEAST_HEAP_SIZE of at least 10.                                         *)
(*                                                                         *)
(* No loop leaves the slots that hold values (IInv).  The rest speaks of   *)
(* Filled, the array with the value in motion in the hole: a parent is     *)
(* never larger than its child, except at the hole (Shape), the slots that *)
(* heapSort is done with are in order (Descending), and Filled changes     *)
(* only by an exchange of two slots while a loop runs (Exchanged), which   *)
(* keeps what the heap holds.                                              *)
(***************************************************************************)

EXTENDS Heap, FiniteSetTheorems, WellFoundedInduction, TLAPS

(* A value in motion is one of the heap's, and heapSort is at one of the   *)
(* slots in use.                                                           *)
InMotion ==
  /\ pc # "idle" => value \in Values
  /\ end_i >= 0 => end_i < base_used_length

IInv == Fits /\ InMotion

-----------------------------------------------------------------------------
(* Arithmetic                                                              *)

(* The array really grows, because it is never shorter than 10 slots.      *)
LEMMA ExpandedGrows ==
  ASSUME NEW size \in Nat, size >= 10
  PROVE  Expanded(size) \in Nat /\ Expanded(size) > size
BY DEF Expanded

(* A parent that is not negative is in front of its child.                 *)
LEMMA ParentBefore ==
  ASSUME NEW i \in Nat, ~(Parent(i) < 0)
  PROVE  Parent(i) \in Nat /\ Parent(i) <= i
BY DEF Parent

(* A child that is looked at is within the length.                         *)
LEMMA ChildWithin ==
  ASSUME NEW i \in Nat, length \in Nat, ~(Child(i) >= length)
  PROVE  Child(i) \in Nat /\ Child(i) < length
BY DEF Child, Left, Right

-----------------------------------------------------------------------------
(* A call stores its value and leaves the rest to a loop.                  *)

(* The slots before the hole loops begin: enough to know about a call.     *)
LEMMA InitInv == Init => IInv
BY HeapAssumption DEF Init, IInv, Fits, InMotion, Slots

LEMMA CallInv ==
  ASSUME IInv, Call
  PROVE  IInv'
<1> USE HeapAssumption DEF IInv, Fits, InMotion, Slots, Idle
<1>1. CASE AddFails
  BY <1>1 DEF AddFails, Loop
<1>2. ASSUME NEW v \in Values, addToHeap(v) PROVE IInv'
  BY <1>2 DEF addToHeap, ajustHeapAppend, Stop
<1>3. ASSUME NEW v \in Values, ExpandAndAdd(v) PROVE IInv'
  <2>1. Expanded(base_size) \in Nat /\ Expanded(base_size) > base_size
    BY ExpandedGrows
  <2>2. base_size' = Expanded(base_size) /\ base_used_length' = base_used_length + 1
    BY <1>3 DEF ExpandAndAdd
  <2>3. base_used_length = base_size
    BY <1>3 DEF ExpandAndAdd
  <2> HIDE DEF Idle
  <2>4. /\ base' \in [Slots(base_size') -> Values \cup {Unset}]
        /\ \A i \in Slots(base_used_length') : base'[i] \in Values
    BY <1>3, <2>1, <2>2, <2>3 DEF ExpandAndAdd
  <2>5. QED
    BY <1>3, <2>1, <2>2, <2>3, <2>4 DEF ExpandAndAdd, ajustHeapAppend, Stop
<1>4. ASSUME NEW v \in Values, replaceHeapTop(v) PROVE IInv'
  BY <1>4 DEF replaceHeapTop, ajustHeap, Stop
<1>5. CASE deleteHeapTop
  BY <1>5 DEF deleteHeapTop, ajustHeap, Stop
<1>6. CASE DeleteFails
  BY <1>6 DEF DeleteFails, Loop
<1>7. CASE getHeapTop
  BY <1>7 DEF getHeapTop, Loop
<1>8. CASE heapSort
  BY <1>8 DEF heapSort, Loop
<1>9. QED
  BY <1>1, <1>2, <1>3, <1>4, <1>5, <1>6, <1>7, <1>8 DEF Call

-----------------------------------------------------------------------------
(* The loops                                                               *)

(* Storing the value ends the loop.                                        *)
LEMMA SettleInv ==
  ASSUME IInv, pc # "idle", Settle,
         UNCHANGED <<base_size, base_used_length, end_i, answer>>
  PROVE  IInv'
BY HeapAssumption DEF IInv, Fits, InMotion, Slots, Settle, Stop

(* A move to another slot in use keeps the loop within them.               *)
LEMMA MoveInv ==
  ASSUME IInv, pc # "idle", NEW i \in Nat, i < base_used_length, Move(i),
         UNCHANGED <<base_size, base_used_length, end_i, answer>>
  PROVE  IInv'
BY HeapAssumption DEF IInv, Fits, InMotion, Slots, Move

LEMMA UpInv ==
  ASSUME IInv, Up
  PROVE  IInv'
<1>1. cur_idx \in Nat /\ cur_idx < base_used_length /\ base_used_length \in Nat
  BY DEF IInv, Fits, Up
<1>2. CASE Settle
  BY <1>2, SettleInv DEF Up
<1>3. CASE ~(Parent(cur_idx) < 0) /\ Move(Parent(cur_idx))
  BY <1>1, <1>3, ParentBefore, MoveInv DEF Up
<1>4. QED
  BY <1>2, <1>3 DEF Up

LEMMA DownInv ==
  ASSUME IInv, Down
  PROVE  IInv'
<1>1. /\ cur_idx \in Nat /\ length \in Nat
      /\ base_used_length \in Nat /\ length <= base_used_length
  BY DEF IInv, Fits, Down
<1>2. CASE Settle
  BY <1>2, SettleInv DEF Down
<1>3. CASE ~(Child(cur_idx) >= length) /\ Move(Child(cur_idx))
  BY <1>1, <1>3, ChildWithin, MoveInv DEF Down
<1>4. QED
  BY <1>2, <1>3 DEF Down

LEMMA SortInv ==
  ASSUME IInv, SortRound \/ Reverse
  PROVE  IInv'
<1> USE HeapAssumption DEF IInv, Fits, InMotion, Slots
<1>1. CASE SortRound
  BY <1>1 DEF SortRound, ajustHeap, Stop
<1>2. CASE Reverse
  BY <1>2 DEF Reverse, Loop
<1>3. QED
  BY <1>1, <1>2

-----------------------------------------------------------------------------

LEMMA Inductive == IInv /\ [Next]_vars => IInv'
<1>1. ASSUME IInv, UNCHANGED vars PROVE IInv'
  BY <1>1 DEF IInv, Fits, InMotion, vars
<1>2. QED
  BY <1>1, CallInv, UpInv, DownInv, SortInv DEF Next

(* The variables keep their types, and no loop of ajustHeap,               *)
(* ajustHeapAppend or heapSort reads or writes a slot that holds no value. *)
THEOREM StaysInside == Spec => []Fits
<1>1. IInv => Fits
  BY DEF IInv
<1>2. QED
  BY <1>1, InitInv, Inductive, PTL DEF Spec

-----------------------------------------------------------------------------
(* The order of an array F, the first n slots of which are the heap: every *)
(* value is at most its children.  While a value moves, the hole c may be  *)
(* wrong with its parent (UpShape) or with its children (DownShape), but   *)
(* the parent of the hole is right with the children of the hole.          *)

HeapShape(F, n) == \A i \in 1..(n - 1) : F[Parent(i)] <= F[i]

AroundHole(F, n, c) ==
  c > 0 => \A i \in 1..(n - 1) : Parent(i) = c => F[Parent(c)] <= F[i]

UpShape(F, n, c) ==
  /\ \A i \in 1..(n - 1) : i # c => F[Parent(i)] <= F[i]
  /\ AroundHole(F, n, c)

DownShape(F, n, c) ==
  /\ \A i \in 1..(n - 1) : Parent(i) # c => F[Parent(i)] <= F[i]
  /\ AroundHole(F, n, c)

(* G is F with the values of two slots exchanged.                          *)
Exchanged(F, G, n, a, b) ==
  /\ G[a] = F[b] /\ G[b] = F[a]
  /\ \A i \in 0..(n - 1) : i # a /\ i # b => G[i] = F[i]

Integers(F, n) == \A i \in 0..(n - 1) : F[i] \in Int

LEMMA ParentIs ==
  ASSUME NEW i \in Nat, i > 0
  PROVE  /\ Parent(i) \in Nat /\ Parent(i) < i
         /\ \A j \in Nat : Parent(i) = j <=> i = Left(j) \/ i = Right(j)
BY DEF Parent, Left, Right

LEMMA NoParent ==
  ASSUME NEW i \in Int, i < 1
  PROVE  Parent(i) < 0
BY DEF Parent

LEMMA MovesUp ==
  ASSUME NEW n \in Nat, NEW F, NEW G, Integers(F, n),
         NEW c \in 1..(n - 1), UpShape(F, n, c),
         Exchanged(F, G, n, c, Parent(c)), F[c] <= F[Parent(c)]
  PROVE  UpShape(G, n, Parent(c))
<1> DEFINE p == Parent(c)
<1>1. p \in Nat /\ p < c /\ p \in 0..(n - 1)
  BY ParentIs
<1>2. \A i \in 1..(n - 1) : Parent(i) \in 0..(n - 1) /\ Parent(i) < i
  BY ParentIs
<1>3. G[c] = F[p] /\ G[p] = F[c] /\ \A i \in 0..(n - 1) : i # c /\ i # p => G[i] = F[i]
  BY DEF Exchanged
<1>4. \A i \in 1..(n - 1) : i # c => F[Parent(i)] <= F[i]
  BY DEF UpShape
<1>5. \A i \in 1..(n - 1) : Parent(i) = c => F[p] <= F[i]
  BY DEF UpShape, AroundHole
<1>6. \A i \in 0..(n - 1) : F[i] \in Int
  BY DEF Integers
<1>7. Parent(c) = p /\ F[c] <= F[p]
  OBVIOUS
<1> HIDE DEF p
<1>8. ASSUME NEW i \in 1..(n - 1), i # p PROVE G[Parent(i)] <= G[i]
  <2>1. CASE i = c
    BY <1>1, <1>3, <1>7, <2>1
  <2>2. CASE i # c /\ Parent(i) = c
    <3>1. G[i] = F[i]
      BY <1>3, <1>8, <2>2
    <3>2. QED
      BY <1>3, <1>5, <2>2, <3>1
  <2>3. CASE i # c /\ Parent(i) = p
    <3>1. G[i] = F[i] /\ F[p] <= F[i] /\ G[Parent(i)] = F[c]
      BY <1>3, <1>4, <1>8, <2>3
    <3>2. F[p] \in Int /\ F[i] \in Int /\ F[c] \in Int
      BY <1>1, <1>6
    <3>3. QED
      BY <1>7, <3>1, <3>2
  <2>4. CASE i # c /\ Parent(i) # c /\ Parent(i) # p
    <3>1. G[i] = F[i] /\ G[Parent(i)] = F[Parent(i)]
      BY <1>2, <1>3, <1>8, <2>4
    <3>2. QED
      BY <1>4, <2>4, <3>1
  <2>5. QED
    BY <2>1, <2>2, <2>3, <2>4
<1>9. ASSUME p > 0, NEW i \in 1..(n - 1), Parent(i) = p PROVE G[Parent(p)] <= G[i]
  <2>1. p \in 1..(n - 1) /\ p # c
    BY <1>1, <1>9
  <2>2. Parent(p) \in 0..(n - 1) /\ Parent(p) < p
    BY <1>2, <2>1
  <2>3. G[Parent(p)] = F[Parent(p)] /\ F[Parent(p)] <= F[p]
    BY <1>1, <1>3, <1>4, <2>1, <2>2
  <2>4. F[p] <= G[i]
    <3>1. CASE i = c
      BY <1>1, <1>3, <1>6, <3>1
    <3>2. CASE i # c
      <4>1. i # p
        BY <1>2, <1>9
      <4>2. G[i] = F[i]
        BY <1>3, <3>2, <4>1
      <4>3. QED
        BY <1>4, <1>9, <3>2, <4>2
    <3>3. QED
      BY <3>1, <3>2
  <2>5. F[Parent(p)] \in Int /\ F[p] \in Int /\ G[i] \in Int
    <3>1. G[i] = F[c] \/ G[i] = F[p] \/ G[i] = F[i]
      BY <1>3
    <3>2. QED
      BY <1>1, <1>6, <2>2, <3>1
  <2>6. QED
    BY <2>3, <2>4, <2>5
<1>10. UpShape(G, n, p)
  BY <1>8, <1>9 DEF UpShape, AroundHole
<1>11. QED
  BY <1>10 DEF p

LEMMA MovesDown ==
  ASSUME NEW n \in Nat, NEW F, NEW G, Integers(F, n),
         NEW p \in 0..(n - 1), NEW c \in 1..(n - 1), Parent(c) = p, DownShape(F, n, p),
         Exchanged(F, G, n, p, c), F[c] <= F[p],
         \A i \in 1..(n - 1) : Parent(i) = p => F[c] <= F[i]
  PROVE  DownShape(G, n, c)
<1>1. p < c
  BY ParentIs
<1>2. \A i \in 1..(n - 1) : Parent(i) \in 0..(n - 1) /\ Parent(i) < i
  BY ParentIs
<1>3. G[c] = F[p] /\ G[p] = F[c] /\ \A i \in 0..(n - 1) : i # c /\ i # p => G[i] = F[i]
  BY DEF Exchanged
<1>4. \A i \in 1..(n - 1) : Parent(i) # p => F[Parent(i)] <= F[i]
  BY DEF DownShape
<1>5. p > 0 => F[Parent(p)] <= F[c]
  BY DEF DownShape, AroundHole
<1>6. ASSUME NEW i \in 1..(n - 1), Parent(i) # c PROVE G[Parent(i)] <= G[i]
  <2>1. CASE i = c
    BY <1>3, <2>1
  <2>2. CASE i # c /\ Parent(i) = p
    <3>1. i # p
      BY <1>2, <2>2
    <3>2. G[i] = F[i]
      BY <1>3, <2>2, <3>1
    <3>3. QED
      BY <1>3, <2>2, <3>2
  <2>3. CASE i = p
    <3>1. p > 0 /\ Parent(p) \in 0..(n - 1) /\ Parent(p) < p
      BY <1>2, <2>3
    <3>2. G[Parent(p)] = F[Parent(p)]
      BY <1>1, <1>3, <3>1
    <3>3. QED
      BY <1>3, <1>5, <2>3, <3>1, <3>2
  <2>4. CASE i # c /\ i # p /\ Parent(i) # p
    <3>1. G[i] = F[i] /\ G[Parent(i)] = F[Parent(i)]
      BY <1>2, <1>3, <1>6, <2>4
    <3>2. QED
      BY <1>4, <2>4, <3>1
  <2>5. QED
    BY <2>1, <2>2, <2>3, <2>4
<1>7. ASSUME NEW i \in 1..(n - 1), Parent(i) = c PROVE G[Parent(c)] <= G[i]
  <2>1. i # c /\ i # p
    BY <1>1, <1>2, <1>7
  <2>2. G[i] = F[i] /\ F[c] <= F[i]
    BY <1>1, <1>3, <1>4, <1>7, <2>1
  <2>3. QED
    BY <1>3, <2>2
<1>8. QED
  BY <1>6, <1>7 DEF DownShape, AroundHole

(* The top of a heap is a least value: otherwise take the first slot with  *)
(* a smaller value, whose parent is in front of it.                        *)
LEMMA TopIsLeast ==
  ASSUME NEW n \in Nat, NEW F, Integers(F, n), HeapShape(F, n)
  PROVE  \A i \in 0..(n - 1) : F[0] <= F[i]
<1> DEFINE Smaller == {i \in 0..(n - 1) : ~(F[0] <= F[i])}
<1>1. SUFFICES ASSUME Smaller # {} PROVE FALSE
  OBVIOUS
<1>2. Smaller \subseteq Nat
  OBVIOUS
<1>3. PICK i \in Smaller : \A j \in Smaller : ~(<<j, i>> \in OpToRel(<, Nat))
  BY <1>1, <1>2, WFMin, NatLessThanWellFounded
<1>4. \A j \in Smaller : ~(j < i)
  BY <1>2, <1>3 DEF OpToRel
<1>5. i \in 0..(n - 1) /\ ~(F[0] <= F[i]) /\ F[0] \in Int /\ F[i] \in Int
  <2>1. i \in 0..(n - 1) /\ ~(F[0] <= F[i]) /\ 0 \in 0..(n - 1)
    OBVIOUS
  <2>2. QED
    BY <2>1 DEF Integers
<1>6. i > 0
  BY <1>5
<1>7. Parent(i) \in 0..(n - 1) /\ Parent(i) < i /\ F[Parent(i)] <= F[i]
  BY <1>5, <1>6, ParentIs DEF HeapShape
<1>8. F[0] <= F[Parent(i)] /\ F[Parent(i)] \in Int
  BY <1>4, <1>7 DEF Integers
<1>9. QED
  BY <1>5, <1>7, <1>8

-----------------------------------------------------------------------------
(* The order of the heap                                                   *)

(* During heapSort the heap is in front of the slots that are in order.    *)
HeapLength ==
  IF end_i = -1 THEN base_used_length ELSE IF end_i >= 0 THEN end_i + 1 ELSE 0

Shape ==
  /\ pc = "idle" => HeapShape(Filled, HeapLength)
  /\ pc = "up" => UpShape(Filled, HeapLength, cur_idx)
  /\ pc = "down" => DownShape(Filled, HeapLength, cur_idx)

Descending ==
  \A j \in HeapLength..(base_used_length - 1) : \A i \in 0..j : Filled[j] <= Filled[i]

Places ==
  /\ end_i < base_used_length
  /\ pc = "up" => end_i = -1
  /\ pc = "down" => length = HeapLength /\ end_i # -2
  /\ pc # "idle" => cur_idx < HeapLength

OInv == IInv /\ Shape /\ Descending /\ Places

LEMMA LengthIs ==
  ASSUME IInv, Places
  PROVE  HeapLength \in Nat /\ HeapLength <= base_used_length
BY DEF IInv, Fits, Places, HeapLength

LEMMA FilledIs ==
  ASSUME IInv
  PROVE  /\ Filled \in [Slots(base_size) -> Values \cup {Unset}]
         /\ \A i \in Slots(base_used_length) :
               i \in Slots(base_size) /\ Filled[i] \in Values /\ Filled[i] \in Int
         /\ \A i \in Slots(base_size) : pc = "idle" \/ i # cur_idx => Filled[i] = base[i]
         /\ pc # "idle" => Filled[cur_idx] = value /\ cur_idx \in Slots(base_used_length)
<1>1. CASE pc = "idle"
  <2>1. Filled = base
    BY <1>1 DEF Filled
  <2>2. base \in [Slots(base_size) -> Values \cup {Unset}]
    BY DEF IInv, Fits
  <2>3. \A i \in Slots(base_used_length) : i \in Slots(base_size) /\ base[i] \in Values
    BY DEF IInv, Fits, Slots
  <2>4. QED
    BY <1>1, <2>1, <2>2, <2>3, HeapAssumption
<1>2. CASE pc # "idle"
  <2>1. cur_idx \in Slots(base_used_length) /\ cur_idx \in Slots(base_size) /\ value \in Values
    BY <1>2 DEF IInv, Fits, InMotion, Slots
  <2>2. Filled = [base EXCEPT ![cur_idx] = value]
    BY <1>2 DEF Filled
  <2>3. base \in [Slots(base_size) -> Values \cup {Unset}]
    BY DEF IInv, Fits
  <2>4. \A i \in Slots(base_used_length) : i \in Slots(base_size) /\ base[i] \in Values
    BY DEF IInv, Fits, Slots
  <2>5. Filled \in [Slots(base_size) -> Values \cup {Unset}]
        /\ \A i \in Slots(base_size) : Filled[i] = IF i = cur_idx THEN value ELSE base[i]
    BY <2>1, <2>2, <2>3
  <2>6. QED
    BY <1>2, <2>1, <2>4, <2>5, HeapAssumption
<1>3. QED
  BY <1>1, <1>2

LEMMA HeapIntegers ==
  ASSUME IInv, Places
  PROVE  Integers(Filled, HeapLength) /\ Integers(Filled, base_used_length)
BY LengthIs, FilledIs DEF Integers, Slots, IInv, Fits

(* The slots keep their values in a step of a loop, up to an exchange.     *)
LEMMA SettleKeeps ==
  ASSUME IInv, pc # "idle", Settle
  PROVE  Filled' = Filled /\ pc' = "idle"
BY DEF Settle, Stop, Filled

LEMMA MoveExchanges ==
  ASSUME IInv, pc # "idle", NEW i \in Slots(base_used_length), i # cur_idx, Move(i)
  PROVE  /\ Exchanged(Filled, Filled', base_used_length, cur_idx, i)
         /\ pc' = pc /\ cur_idx' = i
<1>1. /\ base' = [base EXCEPT ![cur_idx] = base[i]]
      /\ cur_idx' = i /\ pc' = pc /\ value' = value
  BY DEF Move
<1>2. Filled = [base EXCEPT ![cur_idx] = value] /\ Filled' = [base' EXCEPT ![i] = value]
  BY <1>1 DEF Filled
<1>3. base \in [Slots(base_size) -> Values \cup {Unset}]
  BY DEF IInv, Fits
<1>4. i \in Slots(base_size) /\ cur_idx \in Slots(base_size)
  BY FilledIs
<1>5. \A j \in 0..(base_used_length - 1) : j \in Slots(base_size)
  BY DEF IInv, Fits, Slots
<1>6. \A j \in Slots(base_size) :
        Filled'[j] = IF j = i THEN value ELSE IF j = cur_idx THEN base[i] ELSE base[j]
  BY <1>1, <1>2, <1>3, <1>4
<1>7. \A j \in Slots(base_size) : Filled[j] = IF j = cur_idx THEN value ELSE base[j]
  BY <1>2, <1>3, <1>4
<1>8. QED
  BY <1>1, <1>4, <1>5, <1>6, <1>7 DEF Exchanged

LEMMA ExchangeKeepsDescending ==
  ASSUME NEW n \in Nat, NEW m \in 0..n, NEW F, NEW G,
         \A j \in m..(n - 1) : \A i \in 0..j : F[j] <= F[i],
         NEW a \in 0..(m - 1), NEW b \in 0..(m - 1), Exchanged(F, G, n, a, b)
  PROVE  \A j \in m..(n - 1) : \A i \in 0..j : G[j] <= G[i]
<1>1. SUFFICES ASSUME NEW j \in m..(n - 1), NEW i \in 0..j PROVE G[j] <= G[i]
  OBVIOUS
<1>2. j \in 0..(n - 1) /\ i \in 0..(n - 1) /\ j # a /\ j # b /\ a \in 0..j /\ b \in 0..j
  OBVIOUS
<1>3. G[j] = F[j]
  BY <1>2 DEF Exchanged
<1>4. G[i] = F[a] \/ G[i] = F[b] \/ G[i] = F[i]
  BY <1>2 DEF Exchanged
<1>5. QED
  BY <1>2, <1>3, <1>4

-----------------------------------------------------------------------------
(* The loops keep the order.                                               *)

LEMMA SameLength ==
  ASSUME UNCHANGED <<base_used_length, end_i>>
  PROVE  HeapLength' = HeapLength
BY DEF HeapLength

LEMMA SettleOrder ==
  ASSUME OInv, pc # "idle", Settle, UNCHANGED <<base_size, base_used_length, end_i, answer>>,
         HeapShape(Filled, HeapLength)
  PROVE  OInv'
<1>1. Filled' = Filled /\ pc' = "idle" /\ HeapLength' = HeapLength /\ IInv'
  BY SettleKeeps, SameLength, SettleInv DEF OInv
<1>2. QED
  BY <1>1 DEF OInv, Shape, Descending, Places

LEMMA MoveOrder ==
  ASSUME OInv, pc # "idle", UNCHANGED <<base_size, base_used_length, end_i, answer>>,
         NEW i \in 0..(HeapLength - 1), i # cur_idx, Move(i),
         pc = "up" => UpShape(Filled', HeapLength, i),
         pc = "down" => DownShape(Filled', HeapLength, i)
  PROVE  OInv'
<1>1. HeapLength \in Nat /\ HeapLength <= base_used_length /\ base_used_length \in Nat
  BY LengthIs DEF OInv, IInv, Fits
<1>2. i \in Nat /\ i < base_used_length /\ i \in Slots(base_used_length)
  BY <1>1 DEF Slots
<1>3. IInv' /\ HeapLength' = HeapLength
  BY <1>2, MoveInv, SameLength DEF OInv
<1>4. /\ Exchanged(Filled, Filled', base_used_length, cur_idx, i)
      /\ pc' = pc /\ cur_idx' = i /\ length' = length
  BY <1>2, MoveExchanges DEF OInv, Move
<1>5. cur_idx \in 0..(HeapLength - 1)
  BY <1>1 DEF OInv, Places, IInv, Fits
<1>6. Descending'
  <2>1. HeapLength \in 0..base_used_length
    BY <1>1
  <2>2. \A j \in HeapLength..(base_used_length - 1) : \A k \in 0..j : Filled[j] <= Filled[k]
    BY DEF OInv, Descending
  <2>3. \A j \in HeapLength..(base_used_length - 1) : \A k \in 0..j : Filled'[j] <= Filled'[k]
    BY <1>1, <1>4, <1>5, <2>1, <2>2, ExchangeKeepsDescending
  <2>4. QED
    BY <1>3, <2>3 DEF Descending
<1>7. Shape'
  BY <1>3, <1>4 DEF Shape
<1>8. Places'
  BY <1>1, <1>3, <1>4 DEF OInv, Places
<1>9. QED
  BY <1>3, <1>6, <1>7, <1>8 DEF OInv

LEMMA UpOrder ==
  ASSUME OInv, Up
  PROVE  OInv'
<1> DEFINE n == HeapLength
<1>1. /\ n \in Nat /\ cur_idx \in 0..(n - 1) /\ UpShape(Filled, n, cur_idx)
      /\ n <= base_used_length /\ pc = "up" /\ Integers(Filled, n)
  BY LengthIs, HeapIntegers DEF OInv, Places, Shape, IInv, Fits, Up
<1>2. UNCHANGED <<base_size, base_used_length, end_i, answer>>
  BY DEF Up
<1>3. CASE cur_idx = 0
  <2>1. Settle
    BY <1>1, <1>3, NoParent DEF Up
  <2>2. HeapShape(Filled, n)
    BY <1>1, <1>3 DEF UpShape, HeapShape
  <2>3. QED
    BY <1>1, <1>2, <2>1, <2>2, SettleOrder
<1>4. CASE cur_idx > 0
  <2>1. cur_idx \in 1..(n - 1) /\ Parent(cur_idx) \in 0..(n - 1) /\ Parent(cur_idx) # cur_idx
    BY <1>1, <1>4, ParentIs
  <2>2. Filled[Parent(cur_idx)] = base[Parent(cur_idx)] /\ Filled[cur_idx] = value
        /\ Filled[Parent(cur_idx)] \in Int /\ Filled[cur_idx] \in Int
    BY <1>1, <2>1, FilledIs DEF OInv, Slots, Integers, IInv, Fits
  <2>3. CASE base[Parent(cur_idx)] < value
    <3>1. Settle
      BY <2>3 DEF Up
    <3>2. HeapShape(Filled, n)
      BY <1>1, <2>2, <2>3 DEF UpShape, HeapShape
    <3>3. QED
      BY <1>1, <1>2, <3>1, <3>2, SettleOrder
  <2>4. CASE ~(base[Parent(cur_idx)] < value)
    <3>1. Move(Parent(cur_idx))
      BY <2>1, <2>4 DEF Up
    <3>2. Filled[cur_idx] <= Filled[Parent(cur_idx)]
      BY <2>2, <2>4
    <3>3. Parent(cur_idx) \in Slots(base_used_length)
      BY <1>1, <2>1 DEF OInv, IInv, Fits, Slots
    <3>4. Exchanged(Filled, Filled', base_used_length, cur_idx, Parent(cur_idx))
      BY <1>1, <2>1, <3>1, <3>3, MoveExchanges DEF OInv
    <3>5. Exchanged(Filled, Filled', n, cur_idx, Parent(cur_idx))
      BY <1>1, <3>4 DEF Exchanged, OInv, IInv, Fits
    <3>6. UpShape(Filled', n, Parent(cur_idx))
      BY <1>1, <2>1, <3>2, <3>5, MovesUp
    <3>7. QED
      BY <1>1, <1>2, <2>1, <3>1, <3>6, MoveOrder
  <2>5. QED
    BY <2>3, <2>4
<1>5. QED
  BY <1>1, <1>3, <1>4

LEMMA ChildIs ==
  ASSUME OInv, pc = "down"
  PROVE  \/ /\ Child(cur_idx) >= length
            /\ \A i \in 1..(HeapLength - 1) : Parent(i) # cur_idx
         \/ /\ Child(cur_idx) \in 1..(HeapLength - 1) /\ Child(cur_idx) < length
            /\ Parent(Child(cur_idx)) = cur_idx /\ Child(cur_idx) # cur_idx
            /\ \A i \in 1..(HeapLength - 1) :
                  Parent(i) = cur_idx => Filled[Child(cur_idx)] <= Filled[i]
<1> DEFINE n == HeapLength
           c == cur_idx
<1>1. n \in Nat /\ length = n /\ c \in Nat /\ c < n /\ Integers(Filled, n)
  BY LengthIs, HeapIntegers DEF OInv, Places, IInv, Fits
<1>2. Left(c) \in Nat /\ Right(c) = Left(c) + 1 /\ Left(c) > c
  BY <1>1 DEF Left, Right
<1>3. \A i \in 1..(n - 1) : Parent(i) = c <=> i = Left(c) \/ i = Right(c)
  BY <1>1, ParentIs
<1>4. \A i \in 1..(n - 1) : i # c => Filled[i] = base[i]
  BY <1>1, LengthIs, FilledIs DEF OInv, Slots, IInv, Fits
<1>5. CASE Left(c) >= length
  <2>1. Child(c) >= length
    BY <1>1, <1>5 DEF Child
  <2>2. \A i \in 1..(n - 1) : Parent(i) # c
    BY <1>1, <1>2, <1>3, <1>5
  <2>3. QED
    BY <2>1, <2>2
<1>6. CASE ~(Left(c) >= length)
  <2>1. Left(c) \in 1..(n - 1) /\ Filled[Left(c)] = base[Left(c)] /\ Filled[Left(c)] \in Int
    BY <1>1, <1>2, <1>4, <1>6 DEF Integers
  <2>2. CASE Right(c) < length /\ base[Right(c)] < base[Left(c)]
    <3>1. Child(c) = Right(c)
      BY <1>6, <2>2 DEF Child
    <3>2. Right(c) \in 1..(n - 1) /\ Filled[Right(c)] = base[Right(c)] /\ Filled[Right(c)] \in Int
      BY <1>1, <1>2, <1>4, <2>2 DEF Integers
    <3>3. Filled[Right(c)] <= Filled[Left(c)]
      BY <2>1, <2>2, <3>2
    <3>4. QED
      BY <1>1, <1>2, <1>3, <2>2, <3>1, <3>2, <3>3
  <2>3. CASE ~(Right(c) < length /\ base[Right(c)] < base[Left(c)])
    <3>1. Child(c) = Left(c)
      BY <1>6, <2>3 DEF Child
    <3>2. ASSUME Right(c) \in 1..(n - 1) PROVE Filled[Left(c)] <= Filled[Right(c)]
      <4>1. Filled[Right(c)] = base[Right(c)] /\ Filled[Right(c)] \in Int /\ Right(c) < length
        BY <1>1, <1>2, <1>4, <3>2 DEF Integers
      <4>2. QED
        BY <2>1, <2>3, <4>1
    <3>3. Filled[Left(c)] <= Filled[Left(c)]
      BY <2>1
    <3>4. QED
      BY <1>1, <1>2, <1>3, <1>6, <2>1, <3>1, <3>2, <3>3
  <2>4. QED
    BY <2>2, <2>3
<1>7. QED
  BY <1>5, <1>6

LEMMA DownOrder ==
  ASSUME OInv, Down
  PROVE  OInv'
<1> DEFINE n == HeapLength
           c == Child(cur_idx)
<1>1. /\ n \in Nat /\ cur_idx \in 0..(n - 1) /\ DownShape(Filled, n, cur_idx)
      /\ n <= base_used_length /\ pc = "down" /\ Integers(Filled, n)
  BY LengthIs, HeapIntegers DEF OInv, Places, Shape, IInv, Fits, Down
<1>2. UNCHANGED <<base_size, base_used_length, end_i, answer>>
  BY DEF Down
<1>3. CASE c >= length /\ \A i \in 1..(n - 1) : Parent(i) # cur_idx
  <2>1. Settle
    BY <1>3 DEF Down
  <2>2. HeapShape(Filled, n)
    BY <1>1, <1>3 DEF DownShape, HeapShape
  <2>3. QED
    BY <1>1, <1>2, <2>1, <2>2, SettleOrder
<1>4. CASE /\ c \in 1..(n - 1) /\ c < length /\ Parent(c) = cur_idx /\ c # cur_idx
           /\ \A i \in 1..(n - 1) : Parent(i) = cur_idx => Filled[c] <= Filled[i]
  <2>1. c \in Slots(base_used_length) /\ c \in 0..(n - 1)
    BY <1>1, <1>4 DEF OInv, IInv, Fits, Slots
  <2>2. Filled[c] = base[c] /\ Filled[cur_idx] = value /\ Filled[c] \in Int /\ Filled[cur_idx] \in Int
    BY <1>1, <1>4, <2>1, FilledIs DEF OInv, Integers
  <2>3. ~(c >= length)
    BY <1>4 DEF OInv, IInv, Fits
  <2>4. CASE value < base[c]
    <3>1. Settle
      BY <2>4 DEF Down
    <3>2. ASSUME NEW i \in 1..(n - 1), Parent(i) = cur_idx PROVE Filled[cur_idx] <= Filled[i]
      <4>1. Filled[c] <= Filled[i] /\ Filled[i] \in Int
        BY <1>1, <1>4, <3>2 DEF Integers
      <4>2. QED
        BY <2>2, <2>4, <4>1
    <3>3. HeapShape(Filled, n)
      BY <1>1, <3>2 DEF DownShape, HeapShape
    <3>4. QED
      BY <1>1, <1>2, <3>1, <3>3, SettleOrder
  <2>5. CASE ~(value < base[c])
    <3>1. Move(c)
      BY <2>3, <2>5 DEF Down
    <3>2. Filled[c] <= Filled[cur_idx]
      BY <2>2, <2>5
    <3>3. Exchanged(Filled, Filled', base_used_length, cur_idx, c)
      BY <1>1, <1>4, <2>1, <3>1, MoveExchanges DEF OInv
    <3>4. Exchanged(Filled, Filled', n, cur_idx, c)
      BY <1>1, <3>3 DEF Exchanged, OInv, IInv, Fits
    <3> HIDE DEF c, n
    <3>5. DownShape(Filled', n, c)
      BY <1>1, <1>4, <3>2, <3>4, MovesDown
    <3>6. QED
      BY <1>1, <1>2, <1>4, <2>1, <3>1, <3>5, MoveOrder DEF n
  <2>6. QED
    BY <2>4, <2>5
<1>5. QED
  BY <1>1, <1>3, <1>4, ChildIs

-----------------------------------------------------------------------------
(* The calls and heapSort keep the order.                                  *)

(* The new value is in the last slot, and has to go up.                    *)
LEMMA Appended ==
  ASSUME OInv, Idle, IInv', NEW v \in Values,
         base_used_length' = base_used_length + 1, end_i' = end_i,
         base'[base_used_length] = v,
         \A i \in 0..(base_used_length - 1) : base'[i] = base[i],
         ajustHeapAppend(base_used_length', v)
  PROVE  OInv' /\ Filled' = base'
<1>1. PICK n \in Nat : n = base_used_length
  BY DEF OInv, IInv, Fits
<1>2. /\ HeapLength = n /\ HeapLength' = n + 1 /\ HeapShape(base, n) /\ end_i' = -1
      /\ base_used_length' = n + 1
  BY <1>1 DEF OInv, Shape, Idle, HeapLength, Filled
<1>3. /\ base' \in [Slots(base_size') -> Values \cup {Unset}]
      /\ base_size' \in Nat /\ n + 1 <= base_size'
  BY <1>2 DEF IInv, Fits
<1>4. \/ pc' = "idle" /\ n < 1
      \/ pc' = "up" /\ cur_idx' = n /\ value' = v
  BY <1>1, <1>2 DEF ajustHeapAppend, Stop
<1>5. Filled' = base'
  <2>1. n \in Slots(base_size')
    <3>1. PICK s \in Nat : s = base_size'
      BY <1>3
    <3>2. n + 1 <= s
      BY <1>3, <3>1
    <3>3. n \in 0..(s - 1)
      BY <3>2
    <3>4. QED
      BY <3>1, <3>3 DEF Slots
  <2>2. [base' EXCEPT ![n] = v] = base'
    BY <1>1, <1>3, <2>1
  <2>3. QED
    BY <1>4, <2>2 DEF Filled
<1>6. ASSUME NEW i \in 1..n, i # n PROVE base'[Parent(i)] <= base'[i]
  <2>1. i \in 1..(n - 1) /\ Parent(i) \in 0..(n - 1)
    BY <1>6, ParentIs
  <2>2. QED
    BY <1>1, <1>2, <2>1 DEF HeapShape
<1>7. \A i \in 1..n : Parent(i) # n
  BY ParentIs
<1>8. Shape'
  BY <1>2, <1>4, <1>5, <1>6, <1>7 DEF Shape, HeapShape, UpShape, AroundHole
<1>9. Descending'
  BY <1>2 DEF Descending
<1>10. Places'
  BY <1>2, <1>4 DEF Places
<1>11. QED
  BY <1>5, <1>8, <1>9, <1>10 DEF OInv

(* A value is stored at the top of a heap of m slots, and has to go down.  *)
LEMMA Topped ==
  ASSUME OInv, IInv', NEW m \in Nat, NEW v \in Values, HeapLength' = m,
         base'[0] = v, \A i \in 1..(m - 1) : base'[i] = base[i],
         HeapShape(base, m), ajustHeap(m, v)
  PROVE  /\ Shape' /\ Filled' = base'
         /\ \/ pc' = "idle"
            \/ pc' = "down" /\ cur_idx' = 0 /\ length' = m /\ m >= 2
<1>1. \/ pc' = "idle" /\ m < 2
      \/ pc' = "down" /\ cur_idx' = 0 /\ length' = m /\ value' = v /\ m >= 2
  BY DEF ajustHeap, Stop
<1>2. base' \in [Slots(base_size') -> Values \cup {Unset}] /\ 0 \in Slots(base_size')
  <2>1. /\ base' \in [Slots(base_size') -> Values \cup {Unset}]
        /\ base_size' \in Nat /\ base_size' >= LEAST_HEAP_SIZE
    BY DEF IInv, Fits
  <2>2. PICK s \in Nat : s = base_size'
    BY <2>1
  <2>3. s >= LEAST_HEAP_SIZE /\ LEAST_HEAP_SIZE \in Nat /\ LEAST_HEAP_SIZE >= 10
    BY <2>1, <2>2, HeapAssumption
  <2>4. 0 \in 0..(s - 1)
    BY <2>3
  <2>5. QED
    BY <2>1, <2>2, <2>4 DEF Slots
<1>3. Filled' = base'
  <2>1. [base' EXCEPT ![0] = v] = base'
    BY <1>2
  <2>2. QED
    BY <1>1, <2>1 DEF Filled
<1>4. ASSUME NEW i \in 1..(m - 1), Parent(i) # 0 PROVE base'[Parent(i)] <= base'[i]
  <2>1. Parent(i) \in 1..(m - 1)
    BY <1>4, ParentIs
  <2>2. QED
    BY <2>1 DEF HeapShape
<1>5. Shape'
  BY <1>1, <1>3, <1>4 DEF Shape, HeapShape, DownShape, AroundHole
<1>6. QED
  BY <1>1, <1>3, <1>5

LEMMA IdleIs ==
  ASSUME OInv, pc = "idle"
  PROVE  /\ Filled = base /\ HeapShape(base, HeapLength)
         /\ HeapLength \in Nat /\ HeapLength <= base_used_length
         /\ base_used_length \in Nat /\ Integers(base, base_used_length)
         /\ \A i \in 0..(base_used_length - 1) : base[i] \in Values
         /\ base \in [Slots(base_size) -> Values \cup {Unset}]
         /\ base_size \in Nat /\ 0 < base_size /\ base_used_length <= base_size
<1>1. Filled = base
  BY DEF Filled
<1>2. HeapLength \in Nat /\ HeapLength <= base_used_length
  BY LengthIs DEF OInv
<1>3. Integers(base, base_used_length)
  BY <1>1, HeapIntegers DEF OInv
<1>4. QED
  BY <1>1, <1>2, <1>3, HeapAssumption DEF OInv, Shape, IInv, Fits, Slots

LEMMA ReplaceOrder ==
  ASSUME OInv, NEW v \in Values, replaceHeapTop(v), IInv'
  PROVE  OInv' /\ Filled' = base'
<1>1. PICK n \in Nat : n = base_used_length
  BY DEF OInv, IInv, Fits
<1>2. /\ pc = "idle" /\ end_i = -1 /\ end_i' = -1 /\ HeapLength = n
      /\ base' = [base EXCEPT ![0] = v]
      /\ base_used_length' = IF n < 1 THEN 1 ELSE n
      /\ ajustHeap(base_used_length', v)
  BY <1>1 DEF replaceHeapTop, Idle, HeapLength
<1>3. PICK m \in Nat : m = base_used_length' /\ m >= 1 /\ HeapLength' = m /\ (m = n \/ m = 1)
  BY <1>2 DEF HeapLength
<1>4. 0 \in Slots(base_size) /\ base'[0] = v
      /\ \A i \in 1..(m - 1) : base'[i] = base[i]
  <2>1. 0 \in Slots(base_size) /\ \A i \in 1..(m - 1) : i \in Slots(base_size) /\ i # 0
    BY <1>1, <1>2, <1>3, IdleIs DEF Slots
  <2>2. QED
    BY <1>2, <2>1, IdleIs
<1>5. HeapShape(base, m)
  BY <1>2, <1>3, IdleIs DEF HeapShape
<1>6. /\ Shape' /\ Filled' = base'
      /\ pc' = "idle" \/ (pc' = "down" /\ cur_idx' = 0 /\ length' = m /\ m >= 2)
  BY <1>2, <1>3, <1>4, <1>5, Topped
<1>7. Descending'
  <2>1. base_used_length' = m /\ HeapLength' = m
    BY <1>3
  <2>2. QED
    BY <2>1 DEF Descending
<1>8. Places'
  BY <1>2, <1>3, <1>6 DEF Places
<1>9. QED
  BY <1>6, <1>7, <1>8 DEF OInv

LEMMA DeleteOrder ==
  ASSUME OInv, deleteHeapTop, IInv'
  PROVE  OInv' /\ Filled' = base'
<1>1. PICK n \in Nat : n = base_used_length
  BY DEF OInv, IInv, Fits
<1>2. /\ pc = "idle" /\ end_i = -1 /\ end_i' = -1 /\ HeapLength = n /\ n >= 1
      /\ base' = [base EXCEPT ![0] = base[n - 1]]
      /\ base_used_length' = n - 1
      /\ ajustHeap(base_used_length', base[n - 1])
  BY <1>1 DEF deleteHeapTop, Idle, HeapLength
<1>3. PICK m \in Nat : m = n - 1 /\ HeapLength' = m /\ base_used_length' = m
  BY <1>2 DEF HeapLength
<1>4. /\ base'[0] = base[n - 1] /\ base[n - 1] \in Values
      /\ \A i \in 1..(m - 1) : base'[i] = base[i]
  <2>1. 0 \in Slots(base_size) /\ \A i \in 1..(m - 1) : i \in Slots(base_size) /\ i # 0
    BY <1>1, <1>2, <1>3, IdleIs DEF Slots
  <2>2. QED
    BY <1>1, <1>2, <2>1, IdleIs
<1>5. HeapShape(base, m)
  BY <1>2, <1>3, IdleIs DEF HeapShape
<1>6. ajustHeap(m, base[n - 1])
  BY <1>2, <1>3
<1>7. /\ Shape' /\ Filled' = base'
      /\ pc' = "idle" \/ (pc' = "down" /\ cur_idx' = 0 /\ length' = m /\ m >= 2)
  BY <1>3, <1>4, <1>5, <1>6, Topped
<1>8. Descending'
  BY <1>3 DEF Descending
<1>9. Places'
  BY <1>2, <1>3, <1>7 DEF Places
<1>10. QED
  BY <1>7, <1>8, <1>9 DEF OInv

LEMMA SortRoundOrder ==
  ASSUME OInv, SortRound, IInv'
  PROVE  OInv' /\ Filled' = base'
<1>1. PICK n \in Nat : n = base_used_length
  BY DEF OInv, IInv, Fits
<1>2. PICK e \in Nat : e = end_i
  BY DEF SortRound, OInv, IInv, Fits
<1>3. /\ pc = "idle" /\ HeapLength = e + 1 /\ e < n /\ base_used_length' = n
      /\ base' = [base EXCEPT ![0] = base[e], ![e] = base[0]]
      /\ ajustHeap(e, base[e])
      /\ end_i' = IF e > 0 THEN e - 1 ELSE -2
  BY <1>1, <1>2 DEF SortRound, HeapLength, OInv, Places
<1>4. HeapLength' = e
  BY <1>3 DEF HeapLength
<1>5. /\ e \in Slots(base_size) /\ 0 \in Slots(base_size)
      /\ \A i \in 0..(n - 1) : i \in Slots(base_size)
  BY <1>1, <1>3, IdleIs DEF Slots
<1>6. /\ base'[e] = base[0] /\ base'[0] = base[e]
      /\ \A i \in 0..(n - 1) : i # 0 /\ i # e => base'[i] = base[i]
  BY <1>3, <1>5, IdleIs
<1>7. /\ base[e] \in Values /\ \A i \in 1..(e - 1) : base'[i] = base[i]
  <2>1. e \in 0..(n - 1) /\ \A i \in 1..(e - 1) : i \in 0..(n - 1) /\ i # 0 /\ i # e
    BY <1>3
  <2>2. QED
    BY <1>1, <1>3, <1>6, <2>1, IdleIs
<1>8. HeapShape(base, e + 1) /\ HeapShape(base, e)
  BY <1>3, IdleIs DEF HeapShape
<1>9. \A i \in 0..e : base[0] <= base[i]
  <2>1. Integers(base, e + 1)
    BY <1>1, <1>3, IdleIs DEF Integers
  <2>2. \A i \in 0..((e + 1) - 1) : base[0] <= base[i]
    BY <1>8, <2>1, TopIsLeast
  <2>3. QED
    BY <2>2
<1>10. /\ Shape' /\ Filled' = base'
       /\ pc' = "idle" \/ (pc' = "down" /\ cur_idx' = 0 /\ length' = e /\ e >= 2)
  BY <1>3, <1>4, <1>6, <1>7, <1>8, Topped
<1>11. \A j \in (e + 1)..(n - 1) : \A i \in 0..j : base[j] <= base[i]
  BY <1>1, <1>3, IdleIs DEF OInv, Descending
<1>12. ASSUME NEW j \in e..(n - 1), NEW i \in 0..j PROVE base'[j] <= base'[i]
  <2>1. i \in 0..(n - 1) /\ j \in 0..(n - 1) /\ e \in 0..j /\ 0 \in 0..j
    BY <1>3
  <2>2. base'[i] = base[0] \/ base'[i] = base[e] \/ base'[i] = base[i]
    BY <1>6, <2>1
  <2>3. CASE j = e
    BY <1>6, <1>9, <2>1, <2>2, <2>3
  <2>4. CASE j # e
    <3>1. j \in (e + 1)..(n - 1) /\ base'[j] = base[j]
      BY <1>6, <2>1, <2>4
    <3>2. base[j] <= base[0] /\ base[j] <= base[e] /\ base[j] <= base[i]
      BY <1>11, <2>1, <3>1
    <3>3. QED
      BY <2>2, <3>1, <3>2
  <2>5. QED
    BY <2>3, <2>4
<1>13. Descending'
  BY <1>3, <1>4, <1>10, <1>12 DEF Descending
<1>14. Places'
  BY <1>3, <1>4, <1>10 DEF Places
<1>15. QED
  BY <1>10, <1>13, <1>14 DEF OInv

(* What Reverse turns round is in descending order.                        *)
LEMMA ReverseIs ==
  ASSUME OInv, Reverse
  PROVE  /\ \A i, j \in 0..(base_used_length - 1) : i <= j => base'[i] <= base'[j]
         /\ \A i \in 0..(base_used_length - 1) : base'[i] = base[base_used_length - 1 - i]
         /\ UNCHANGED <<base_used_length, pc>> /\ end_i' = -1 /\ pc = "idle" /\ Filled' = base'
<1>1. PICK n \in Nat : n = base_used_length
  BY DEF OInv, IInv, Fits
<1>2. /\ pc = "idle" /\ end_i = -2 /\ end_i' = -1 /\ HeapLength = 0
      /\ UNCHANGED <<base_used_length, pc>>
      /\ base' = [i \in DOMAIN base |-> IF i < n THEN base[n - 1 - i] ELSE base[i]]
  BY <1>1 DEF Reverse, HeapLength, Loop
<1>3. Filled = base /\ Filled' = base'
  BY <1>2 DEF Filled
<1>4. \A i \in 0..(n - 1) : i \in DOMAIN base
  BY <1>1, <1>2, IdleIs DEF Slots
<1>5. \A i \in 0..(n - 1) : base'[i] = base[n - 1 - i]
  BY <1>2, <1>4
<1>6. \A j \in 0..(n - 1) : \A i \in 0..j : base[j] <= base[i]
  BY <1>1, <1>2, <1>3 DEF OInv, Descending
<1>7. ASSUME NEW i \in 0..(n - 1), NEW j \in 0..(n - 1), i <= j PROVE base'[i] <= base'[j]
  <2>1. n - 1 - i \in 0..(n - 1) /\ n - 1 - j \in 0..(n - 1 - i)
    BY <1>7
  <2>2. QED
    BY <1>5, <1>6, <2>1
<1>8. QED
  BY <1>1, <1>2, <1>3, <1>5, <1>7

LEMMA ReverseOrder ==
  ASSUME OInv, Reverse, IInv'
  PROVE  OInv'
<1>1. PICK n \in Nat : n = base_used_length
  BY DEF OInv, IInv, Fits
<1>2. HeapLength' = n /\ base_used_length' = n /\ pc' = "idle" /\ Filled' = base' /\ end_i' = -1
  BY <1>1, ReverseIs DEF HeapLength
<1>3. ASSUME NEW i \in 1..(n - 1) PROVE base'[Parent(i)] <= base'[i]
  BY <1>1, ParentIs, ReverseIs
<1>4. Shape'
  BY <1>2, <1>3 DEF Shape, HeapShape
<1>5. Descending' /\ Places'
  BY <1>2 DEF Descending, Places
<1>6. QED
  BY <1>4, <1>5 DEF OInv

LEMMA AddIs ==
  ASSUME OInv, IInv', NEW v \in Values, addToHeap(v) \/ ExpandAndAdd(v)
  PROVE  /\ OInv' /\ Filled = base /\ Filled' = base' /\ answer' = v
         /\ base_used_length' = base_used_length + 1
         /\ base'[base_used_length] = v
         /\ \A i \in 0..(base_used_length - 1) : base'[i] = base[i]
<1>1. /\ Idle /\ answer' = v /\ base_used_length' = base_used_length + 1 /\ end_i' = end_i
      /\ ajustHeapAppend(base_used_length', v) /\ Filled = base
  BY DEF addToHeap, ExpandAndAdd, Idle, Filled
<1>2. CASE addToHeap(v)
  <2>1. base_used_length \in Slots(base_size) /\ \A i \in 0..(base_used_length - 1) :
           i \in Slots(base_size) /\ i # base_used_length
    BY <1>2, IdleIs DEF addToHeap, Idle, Slots
  <2>2. /\ base'[base_used_length] = v
        /\ \A i \in 0..(base_used_length - 1) : base'[i] = base[i]
    BY <1>2, <2>1, IdleIs DEF addToHeap, Idle
  <2>3. QED
    BY <1>1, <2>2, Appended
<1>3. CASE ExpandAndAdd(v)
  <2>1. base_used_length \in Slots(base_size') /\ \A i \in 0..(base_used_length - 1) :
           i \in Slots(base_size') /\ i # base_used_length
    <3>1. /\ base_used_length \in Nat /\ base_used_length' = base_used_length + 1
          /\ base_used_length' <= base_size' /\ base_size' \in Nat
      BY <1>3 DEF ExpandAndAdd, OInv, IInv, Fits
    <3>2. PICK s \in Nat, n \in Nat : s = base_size' /\ n = base_used_length /\ n + 1 <= s
      BY <3>1
    <3>3. n + 1 <= s
      BY <3>2
    <3>4. n \in 0..(s - 1) /\ \A i \in 0..(n - 1) : i \in 0..(s - 1) /\ i # n
      BY <3>3
    <3>5. QED
      BY <3>2, <3>4 DEF Slots
  <2>2. base' = [[i \in Slots(base_size') |->
                    IF i < base_used_length THEN base[i] ELSE Unset]
                   EXCEPT ![base_used_length] = v]
    BY <1>3 DEF ExpandAndAdd
  <2>3. /\ base'[base_used_length] = v
        /\ \A i \in 0..(base_used_length - 1) : base'[i] = base[i]
    <3>1. base'[base_used_length] = v
      BY <2>1, <2>2
    <3>2. base_used_length \in Nat
      BY <1>3 DEF ExpandAndAdd, OInv, IInv, Fits
    <3>3. ASSUME NEW i \in 0..(base_used_length - 1) PROVE base'[i] = base[i]
      <4>1. i \in Slots(base_size') /\ i # base_used_length /\ i < base_used_length
        BY <2>1, <3>2
      <4>2. QED
        BY <2>2, <4>1
    <3>4. QED
      BY <3>1, <3>3
  <2>4. QED
    BY <1>1, <2>3, Appended
<1>4. QED
  BY <1>2, <1>3

LEMMA CallOrder ==
  ASSUME OInv, Call, IInv'
  PROVE  OInv'
<1>1. CASE AddFails \/ DeleteFails \/ getHeapTop
  BY <1>1 DEF AddFails, DeleteFails, getHeapTop, Loop, OInv, Shape, Descending, Places, Filled,
              HeapLength
<1>2. ASSUME NEW v \in Values, addToHeap(v) \/ ExpandAndAdd(v) PROVE OInv'
  BY <1>2, AddIs
<1>3. ASSUME NEW v \in Values, replaceHeapTop(v) PROVE OInv'
  BY <1>3, ReplaceOrder
<1>4. CASE deleteHeapTop
  BY <1>4, DeleteOrder
<1>5. CASE heapSort
  <2>1. /\ pc = "idle" /\ end_i = -1 /\ end_i' = base_used_length - 1
        /\ base_used_length \in Nat /\ base_used_length >= 2
        /\ UNCHANGED <<base, base_used_length, pc>>
    BY <1>5 DEF heapSort, Idle, Loop, OInv, IInv, Fits
  <2>2. HeapLength' = base_used_length /\ HeapLength = base_used_length
    BY <2>1 DEF HeapLength
  <2>3. Filled' = Filled
    BY <2>1 DEF Filled
  <2>4. QED
    BY <2>1, <2>2, <2>3 DEF OInv, Shape, Descending, Places
<1>6. QED
  BY <1>1, <1>2, <1>3, <1>4, <1>5 DEF Call

LEMMA OrderInductive == OInv /\ [Next]_vars => OInv'
<1>1. SUFFICES ASSUME OInv, [Next]_vars PROVE OInv'
  OBVIOUS
<1>2. IInv'
  BY <1>1, Inductive DEF OInv
<1>3. CASE UNCHANGED vars
  BY <1>1, <1>2, <1>3 DEF OInv, Shape, Descending, Places, Filled, HeapLength, vars
<1>4. QED
  BY <1>1, <1>2, <1>3, CallOrder, UpOrder, DownOrder, SortRoundOrder, ReverseOrder DEF Next

LEMMA InitOrder == Init => OInv
BY InitInv DEF Init, OInv, Shape, Descending, Places, HeapShape, HeapLength

LEMMA OrderHolds == Spec => []OInv
BY InitOrder, OrderInductive, PTL DEF Spec

(* heapSort leaves the values of every heap in ascending order.            *)
THEOREM HeapSorts == Spec => SortedAtEnd
<1>1. ASSUME OInv, Reverse
      PROVE  \A i \in 0..(base_used_length - 2) : base'[i] <= base'[i + 1]
  <2>1. base_used_length \in Nat
    BY <1>1 DEF OInv, IInv, Fits
  <2>2. QED
    BY <1>1, <2>1, ReverseIs
<1>2. OInv => [Reverse => \A i \in 0..(base_used_length - 2) : base'[i] <= base'[i + 1]]_vars
  BY <1>1
<1>3. QED
  BY <1>2, OrderHolds, PTL DEF SortedAtEnd

-----------------------------------------------------------------------------
(* How often a value is in the first n slots of an array                   *)

Where(F, n, v) == {i \in 0..(n - 1) : F[i] = v}
Count(F, n, v) == Cardinality(Where(F, n, v))

LEMMA CountIs ==
  ASSUME NEW n \in Nat, NEW F, NEW v
  PROVE  /\ IsFiniteSet(Where(F, n, v)) /\ Count(F, n, v) \in Nat
         /\ Count(F, n, v) > 0 <=> \E i \in 0..(n - 1) : F[i] = v
<1>1. IsFiniteSet(0..(n - 1)) /\ Where(F, n, v) \subseteq 0..(n - 1)
  BY FS_Interval DEF Where
<1>2. IsFiniteSet(Where(F, n, v))
  BY <1>1, FS_Subset
<1>3. Count(F, n, v) \in Nat /\ (Count(F, n, v) = 0 <=> Where(F, n, v) = {})
  BY <1>2, FS_CardinalityType, FS_EmptySet DEF Count
<1>4. Where(F, n, v) = {} <=> ~(\E i \in 0..(n - 1) : F[i] = v)
  BY DEF Where
<1>5. QED
  BY <1>2, <1>3, <1>4

LEMMA CountAgrees ==
  ASSUME NEW n \in Nat, NEW F, NEW G, NEW v, \A i \in 0..(n - 1) : G[i] = F[i]
  PROVE  Count(G, n, v) = Count(F, n, v)
<1>1. Where(G, n, v) = Where(F, n, v)
  BY DEF Where
<1>2. QED
  BY <1>1 DEF Count

(* Slots that change places.                                               *)
LEMMA CountPermuted ==
  ASSUME NEW n \in Nat, NEW F, NEW G, NEW v, NEW h \in [0..(n - 1) -> 0..(n - 1)],
         \A i \in 0..(n - 1) : h[h[i]] = i, \A i \in 0..(n - 1) : G[i] = F[h[i]]
  PROVE  Count(G, n, v) = Count(F, n, v)
<1> DEFINE S == Where(G, n, v)
           T == Where(F, n, v)
           g == [i \in S |-> h[i]]
<1>1. \A i \in S : i \in 0..(n - 1) /\ h[i] \in T
  BY DEF Where
<1>2. \A i \in T : i \in 0..(n - 1) /\ h[i] \in S
  BY DEF Where
<1>3. g \in [S -> T]
  BY <1>1
<1>4. \A i, j \in S : g[i] = g[j] => i = j
  <2>1. SUFFICES ASSUME NEW i \in S, NEW j \in S, h[i] = h[j] PROVE i = j
    OBVIOUS
  <2>2. h[h[i]] = i /\ h[h[j]] = j
    BY <1>1
  <2>3. QED
    BY <2>1, <2>2
<1>5. \A k \in T : \E i \in S : g[i] = k
  <2>1. SUFFICES ASSUME NEW k \in T PROVE h[k] \in S /\ g[h[k]] = k
    OBVIOUS
  <2>2. h[k] \in S /\ h[h[k]] = k
    BY <1>2
  <2>3. QED
    BY <2>2
<1> HIDE DEF g
<1>6. g \in Bijection(S, T)
  BY <1>3, <1>4, <1>5 DEF Bijection, Injection, IsInjective, Surjection
<1>7. ExistsBijection(S, T)
  BY <1>6 DEF ExistsBijection
<1>8. IsFiniteSet(S)
  BY CountIs
<1> HIDE DEF S, T
<1>9. Cardinality(T) = Cardinality(S)
  BY <1>7, <1>8, FS_Bijection
<1>10. QED
  BY <1>9 DEF Count, S, T

LEMMA CountExchanged ==
  ASSUME NEW n \in Nat, NEW F, NEW G, NEW v, NEW a \in 0..(n - 1), NEW b \in 0..(n - 1),
         Exchanged(F, G, n, a, b)
  PROVE  Count(G, n, v) = Count(F, n, v)
<1> DEFINE h == [i \in 0..(n - 1) |-> IF i = a THEN b ELSE IF i = b THEN a ELSE i]
<1>1. h \in [0..(n - 1) -> 0..(n - 1)]
  OBVIOUS
<1>2. \A i \in 0..(n - 1) : h[h[i]] = i
  OBVIOUS
<1>3. \A i \in 0..(n - 1) : G[i] = F[h[i]]
  BY DEF Exchanged
<1>4. PICK g \in [0..(n - 1) -> 0..(n - 1)] :
         (\A i \in 0..(n - 1) : g[g[i]] = i) /\ (\A i \in 0..(n - 1) : G[i] = F[g[i]])
  <2> HIDE DEF h
  <2>1. QED
    BY <1>1, <1>2, <1>3
<1> HIDE DEF h
<1>5. /\ n \in Nat /\ g \in [0..(n - 1) -> 0..(n - 1)]
      /\ \A i \in 0..(n - 1) : g[g[i]] = i
      /\ \A i \in 0..(n - 1) : G[i] = F[g[i]]
  BY <1>4
<1>6. QED
  BY ONLY <1>5, CountPermuted

LEMMA CountReversed ==
  ASSUME NEW n \in Nat, NEW F, NEW G, NEW v, \A i \in 0..(n - 1) : G[i] = F[n - 1 - i]
  PROVE  Count(G, n, v) = Count(F, n, v)
<1> DEFINE h == [i \in 0..(n - 1) |-> n - 1 - i]
<1>1. \A i \in 0..(n - 1) : n - 1 - i \in 0..(n - 1) /\ n - 1 - (n - 1 - i) = i
  OBVIOUS
<1>2. h \in [0..(n - 1) -> 0..(n - 1)] /\ \A i \in 0..(n - 1) : h[h[i]] = i
  BY <1>1
<1>3. \A i \in 0..(n - 1) : G[i] = F[h[i]]
  OBVIOUS
<1> HIDE DEF h
<1>4. QED
  BY <1>2, <1>3, CountPermuted

LEMMA CountAppended ==
  ASSUME NEW n \in Nat, NEW F, NEW G, NEW v, \A i \in 0..(n - 1) : G[i] = F[i]
  PROVE  Count(G, n + 1, v) = IF G[n] = v THEN Count(F, n, v) + 1 ELSE Count(F, n, v)
<1>1. Where(G, n + 1, v) = IF G[n] = v THEN Where(F, n, v) \cup {n} ELSE Where(F, n, v)
  <2>1. 0..((n + 1) - 1) = (0..(n - 1)) \cup {n}
    OBVIOUS
  <2>2. QED
    BY <2>1 DEF Where
<1>2. n \notin Where(F, n, v) /\ IsFiniteSet(Where(F, n, v))
  <2>1. IsFiniteSet(Where(F, n, v))
    BY CountIs
  <2>2. n \notin 0..(n - 1)
    OBVIOUS
  <2>3. QED
    BY <2>1, <2>2 DEF Where
<1>3. QED
  BY <1>1, <1>2, FS_AddElement DEF Count

(* The value of slot 0 is replaced.                                        *)
LEMMA CountReplaced ==
  ASSUME NEW n \in Nat, n > 0, NEW F, NEW G, NEW v, \A i \in 1..(n - 1) : G[i] = F[i]
  PROVE  Count(G, n, v) = Count(F, n, v) - (IF F[0] = v THEN 1 ELSE 0)
                                         + (IF G[0] = v THEN 1 ELSE 0)
<1> DEFINE R == Where(F, n, v) \ {0}
<1>1. 0 \in 0..(n - 1) /\ \A i \in 0..(n - 1) : i # 0 => i \in 1..(n - 1)
  OBVIOUS
<1>2. /\ Where(F, n, v) = IF F[0] = v THEN R \cup {0} ELSE R
      /\ Where(G, n, v) = IF G[0] = v THEN R \cup {0} ELSE R
  BY <1>1 DEF Where
<1>3. IsFiniteSet(R) /\ 0 \notin R
  BY CountIs, FS_RemoveElement
<1> HIDE DEF R
<1>4. Cardinality(R) \in Nat /\ Cardinality(R \cup {0}) = Cardinality(R) + 1
  BY <1>3, FS_AddElement, FS_CardinalityType
<1>5. QED
  BY <1>2, <1>4 DEF Count

-----------------------------------------------------------------------------
(* The heap is a bag.                                                      *)

LEMMA ContentIs == Content = [v \in Values |-> Count(Filled, base_used_length, v)]
BY DEF Content, Count, Where, Slots

LEMMA ContentAfter == Content' = [v \in Values |-> Count(Filled', base_used_length', v)]
BY DEF Content, Count, Where, Slots

LEMMA ContentKept ==
  ASSUME \A v \in Values : Count(Filled', base_used_length', v) = Count(Filled, base_used_length, v)
  PROVE  Content' = Content
BY ContentIs, ContentAfter

LEMMA FilledKept ==
  ASSUME Filled' = Filled, base_used_length' = base_used_length
  PROVE  Content' = Content
BY DEF Content

(* An empty heap holds nothing, and the top of another one is a least      *)
(* value of it.                                                            *)
LEMMA TopOfBag ==
  ASSUME OInv, Idle
  PROVE  /\ base_used_length = 0 => Content = P!Empty
         /\ base_used_length > 0 =>
               base[0] \in Values /\ P!IsLeast(base[0])
<1>1. PICK n \in Nat : n = base_used_length
  BY DEF OInv, IInv, Fits
<1>2. /\ HeapLength = n /\ Filled = base /\ HeapShape(base, n) /\ Integers(base, n)
      /\ \A i \in 0..(n - 1) : base[i] \in Values
  BY <1>1, IdleIs DEF Idle, HeapLength
<1>3. Content = [v \in Values |-> Count(base, n, v)]
  BY <1>1, <1>2, ContentIs
<1>4. ASSUME n = 0 PROVE Content = P!Empty
  <2>1. ASSUME NEW v \in Values PROVE Count(base, n, v) = 0
    BY <1>4, CountIs
  <2>2. QED
    BY <1>3, <2>1 DEF P!Empty
<1>5. ASSUME n > 0 PROVE base[0] \in Values /\ P!IsLeast(base[0])
  <2>1. 0 \in 0..(n - 1)
    BY <1>5
  <2>2. base[0] \in Values /\ Count(base, n, base[0]) > 0
    BY <1>2, <2>1, CountIs
  <2>3. ASSUME NEW w \in Values, Count(base, n, w) > 0 PROVE base[0] <= w
    <3>1. PICK i \in 0..(n - 1) : base[i] = w
      BY <2>3, CountIs
    <3>2. QED
      BY <1>2, <3>1, TopIsLeast
  <2>4. QED
    BY <1>3, <2>2, <2>3 DEF P!IsLeast
<1>6. QED
  BY <1>1, <1>4, <1>5

LEMMA LoopKeepsBag ==
  ASSUME OInv, Up \/ Down
  PROVE  UNCHANGED <<Content, answer>>
<1>1. pc # "idle" /\ UNCHANGED <<base_used_length, answer>>
  BY DEF Up, Down
<1>2. CASE Settle
  BY <1>1, <1>2, SettleKeeps, FilledKept DEF OInv
<1>3. ASSUME NEW i \in 0..(base_used_length - 1), i # cur_idx, Move(i) PROVE Content' = Content
  <2>1. i \in Slots(base_used_length) /\ cur_idx \in 0..(base_used_length - 1)
        /\ base_used_length \in Nat
    BY <1>1, FilledIs DEF OInv, Slots, IInv, Fits
  <2>2. Exchanged(Filled, Filled', base_used_length, cur_idx, i)
    BY <1>1, <1>3, <2>1, MoveExchanges DEF OInv
  <2>3. \A v \in Values : Count(Filled', base_used_length, v) = Count(Filled, base_used_length, v)
    BY <2>1, <2>2, CountExchanged
  <2>4. QED
    BY <1>1, <2>3, ContentKept
<1>4. \/ Settle
      \/ \E i \in 0..(base_used_length - 1) : i # cur_idx /\ Move(i)
  <2>1. /\ HeapLength \in Nat /\ HeapLength <= base_used_length /\ base_used_length \in Nat
        /\ cur_idx \in Nat /\ cur_idx < HeapLength
    BY <1>1, LengthIs DEF OInv, Places, IInv, Fits
  <2>2. CASE Up
    <3>1. CASE Settle
      BY <3>1
    <3>2. CASE ~(Parent(cur_idx) < 0) /\ Move(Parent(cur_idx))
      <4>1. cur_idx > 0
        BY <2>1, <3>2, NoParent
      <4>2. Parent(cur_idx) \in 0..(base_used_length - 1) /\ Parent(cur_idx) # cur_idx
        BY <2>1, <4>1, ParentIs
      <4>3. QED
        BY <3>2, <4>2
    <3>3. QED
      BY <2>2, <3>1, <3>2 DEF Up
  <2>3. CASE Down
    <3>1. CASE Settle
      BY <3>1
    <3>2. CASE ~(Child(cur_idx) >= length) /\ Move(Child(cur_idx))
      <4>1. Child(cur_idx) \in 1..(HeapLength - 1) /\ Child(cur_idx) # cur_idx
        BY <2>3, <3>2, ChildIs DEF Down
      <4>2. Child(cur_idx) \in 0..(base_used_length - 1)
        BY <2>1, <4>1
      <4>3. QED
        BY <3>2, <4>1, <4>2
    <3>3. QED
      BY <2>3, <3>1, <3>2 DEF Down
  <2>4. QED
    BY <2>2, <2>3
<1>5. QED
  BY <1>1, <1>2, <1>3, <1>4

LEMMA AddImplements ==
  ASSUME OInv, OInv', NEW v \in Values, addToHeap(v) \/ ExpandAndAdd(v)
  PROVE  P!Add(v)
<1>1. PICK n \in Nat : n = base_used_length
  BY DEF OInv, IInv, Fits
<1>2. /\ Filled = base /\ base_used_length' = n + 1 /\ answer' = v
      /\ \A i \in 0..(n - 1) : base'[i] = base[i]
      /\ base'[n] = v /\ Filled' = base'
  <2>1. IInv'
    BY DEF OInv
  <2>2. QED
    BY <1>1, <2>1, AddIs
<1>3. ASSUME NEW w \in Values
      PROVE  Count(base', n + 1, w) = IF w = v THEN Count(base, n, w) + 1 ELSE Count(base, n, w)
  BY <1>2, CountAppended
<1>4. /\ Content = [w \in Values |-> Count(base, n, w)]
      /\ Content' = [w \in Values |-> Count(base', n + 1, w)]
  BY <1>1, <1>2, ContentIs, ContentAfter
<1>5. Content' = P!Plus(Content, v)
  BY <1>3, <1>4 DEF P!Plus
<1>6. QED
  BY <1>2, <1>5 DEF P!Add

LEMMA ReplaceImplements ==
  ASSUME OInv, OInv', NEW v \in Values, replaceHeapTop(v)
  PROVE  P!ReplaceTop(v)
<1>1. PICK n \in Nat : n = base_used_length
  BY DEF OInv, IInv, Fits
<1>2. /\ Filled = base /\ Filled' = base' /\ answer' = v /\ Idle
      /\ base_used_length' = IF n < 1 THEN 1 ELSE n
      /\ base' = [base EXCEPT ![0] = v]
  BY <1>1, ReplaceOrder DEF replaceHeapTop, Idle, Filled, OInv
<1>3. 0 \in Slots(base_size) /\ \A i \in 1..(n - 1) : i \in Slots(base_size) /\ i # 0
  BY <1>1, <1>2, IdleIs DEF Slots, Idle
<1>4. base'[0] = v /\ \A i \in 1..(n - 1) : base'[i] = base[i]
  BY <1>2, <1>3, IdleIs DEF Idle
<1>5. Content = [w \in Values |-> Count(base, n, w)]
  BY <1>1, <1>2, ContentIs
<1>6. CASE n = 0
  <2>1. Content' = [w \in Values |-> Count(base', n + 1, w)]
    <3>1. base_used_length' = n + 1
      BY <1>2, <1>6
    <3>2. QED
      BY <1>2, <3>1, ContentAfter
  <2>2. ASSUME NEW w \in Values
        PROVE  Count(base', n + 1, w) = IF w = v THEN Count(base, n, w) + 1 ELSE Count(base, n, w)
    <3>1. base'[n] = v /\ \A i \in 0..(n - 1) : base'[i] = base[i]
      BY <1>4, <1>6
    <3>2. QED
      BY <3>1, CountAppended
  <2>3. Content' = P!Plus(Content, v)
    BY <1>5, <2>1, <2>2 DEF P!Plus
  <2>4. QED
    BY <1>1, <1>2, <1>6, <2>3, TopOfBag DEF P!ReplaceTop
<1>7. CASE n > 0
  <2>1. base[0] \in Values /\ P!IsLeast(base[0])
    BY <1>1, <1>2, <1>7, TopOfBag
  <2>2. Content' = [w \in Values |-> Count(base', n, w)]
    <3>1. base_used_length' = n
      BY <1>2, <1>7
    <3>2. QED
      BY <1>2, <3>1, ContentAfter
  <2>3. ASSUME NEW w \in Values
        PROVE  Count(base', n, w) = Count(base, n, w) - (IF base[0] = w THEN 1 ELSE 0)
                                                      + (IF v = w THEN 1 ELSE 0)
    BY <1>4, <1>7, CountReplaced
  <2>4. \A w \in Values : Count(base, n, w) \in Int
    BY CountIs
  <2>5. Content' = P!Plus(P!Minus(Content, base[0]), v)
    BY <1>5, <2>1, <2>2, <2>3, <2>4 DEF P!Plus, P!Minus
  <2>6. QED
    BY <1>2, <2>1, <2>5 DEF P!ReplaceTop
<1>8. QED
  BY <1>6, <1>7

LEMMA DeleteImplements ==
  ASSUME OInv, OInv', deleteHeapTop
  PROVE  P!DeleteTop
<1>1. PICK n \in Nat : n = base_used_length
  BY DEF OInv, IInv, Fits
<1>2. /\ Filled = base /\ Filled' = base' /\ answer' = base[0] /\ Idle /\ n > 0
      /\ base_used_length' = n - 1
      /\ base' = [base EXCEPT ![0] = base[n - 1]]
  BY <1>1, DeleteOrder DEF deleteHeapTop, Idle, Filled, OInv
<1>3. 0 \in Slots(base_size) /\ \A i \in 1..(n - 1) : i \in Slots(base_size) /\ i # 0
  BY <1>1, <1>2, IdleIs DEF Slots, Idle
<1>4. base'[0] = base[n - 1] /\ \A i \in 1..(n - 1) : base'[i] = base[i]
  BY <1>2, <1>3, IdleIs DEF Idle
<1>5. /\ Content = [w \in Values |-> Count(base, n, w)]
      /\ Content' = [w \in Values |-> Count(base', n - 1, w)]
  BY <1>1, <1>2, ContentIs, ContentAfter
<1> DEFINE G == [i \in 0..(n - 1) |-> IF i = 0 THEN base[n - 1]
                                      ELSE IF i = n - 1 THEN base[0] ELSE base[i]]
<1>6. /\ 0 \in 0..(n - 1) /\ n - 1 \in 0..(n - 1) /\ G[n - 1] = base[0]
      /\ Exchanged(base, G, n, 0, n - 1)
      /\ \A i \in 0..((n - 1) - 1) : G[i] = base'[i]
  <2>1. 0 \in 0..(n - 1) /\ n - 1 \in 0..(n - 1)
    BY <1>2
  <2>2. G[n - 1] = base[0] /\ G[0] = base[n - 1]
    BY <2>1
  <2>3. \A i \in 0..(n - 1) : i # 0 /\ i # n - 1 => G[i] = base[i]
    OBVIOUS
  <2>4. \A i \in 0..((n - 1) - 1) : G[i] = base'[i]
    BY <1>4
  <2> HIDE DEF G
  <2>5. QED
    BY <2>1, <2>2, <2>3, <2>4 DEF Exchanged
<1> HIDE DEF G
<1>7. ASSUME NEW w \in Values
      PROVE  /\ Count(base, n, w) = (IF w = base[0] THEN Count(base', n - 1, w) + 1
                                     ELSE Count(base', n - 1, w))
             /\ Count(base', n - 1, w) \in Nat
  <2>1. Count(G, n, w) = Count(base, n, w)
    BY <1>6, CountExchanged
  <2>2. PICK m \in Nat : m = n - 1 /\ m + 1 = n
    BY <1>2
  <2>3. \A i \in 0..(m - 1) : G[i] = base'[i]
    BY <1>6, <2>2
  <2>4. Count(G, m + 1, w) = IF G[m] = w THEN Count(base', m, w) + 1 ELSE Count(base', m, w)
    BY <2>3, CountAppended
  <2>5. QED
    BY <1>6, <2>1, <2>2, <2>4, CountIs
<1>8. base[0] \in Values /\ P!IsLeast(base[0])
  BY <1>1, <1>2, TopOfBag
<1>9. Content' = P!Minus(Content, base[0])
  BY <1>5, <1>7, <1>8 DEF P!Minus
<1>10. QED
  BY <1>2, <1>8, <1>9 DEF P!DeleteTop

LEMMA SortKeepsBag ==
  ASSUME OInv, OInv', SortRound \/ Reverse
  PROVE  UNCHANGED <<Content, answer>>
<1>1. PICK n \in Nat : n = base_used_length
  BY DEF OInv, IInv, Fits
<1>2. CASE SortRound
  <2>1. PICK e \in Nat : e = end_i
    BY <1>2 DEF SortRound, OInv, IInv, Fits
  <2>2. /\ pc = "idle" /\ e < n /\ base_used_length' = n /\ answer' = answer
        /\ base' = [base EXCEPT ![0] = base[e], ![e] = base[0]]
        /\ Filled = base /\ Filled' = base'
    BY <1>1, <1>2, <2>1, SortRoundOrder DEF SortRound, OInv, Places, Filled
  <2>3. e \in 0..(n - 1) /\ 0 \in 0..(n - 1) /\ \A i \in 0..(n - 1) : i \in Slots(base_size)
    BY <1>1, <2>2, IdleIs DEF Slots
  <2>4. Exchanged(base, base', n, 0, e)
    BY <2>2, <2>3, IdleIs DEF Exchanged
  <2>5. \A v \in Values : Count(base', n, v) = Count(base, n, v)
    BY <2>3, <2>4, CountExchanged
  <2>6. QED
    BY <1>1, <2>2, <2>5, ContentKept
<1>3. CASE Reverse
  <2>1. Filled = base /\ Filled' = base' /\ base_used_length' = n /\ answer' = answer
        /\ \A i \in 0..(n - 1) : base'[i] = base[n - 1 - i]
    BY <1>1, <1>3, ReverseIs DEF Filled, Reverse
  <2>2. \A v \in Values : Count(base', n, v) = Count(base, n, v)
    BY <2>1, CountReversed
  <2>3. QED
    BY <1>1, <2>1, <2>2, ContentKept
<1>4. QED
  BY <1>2, <1>3

LEMMA CallImplements ==
  ASSUME OInv, OInv', Call
  PROVE  P!Next \/ UNCHANGED <<Content, answer>>
<1>1. CASE AddFails
  <2>1. UNCHANGED Content /\ answer' = Memory
    BY <1>1 DEF AddFails, Loop, Content, Filled
  <2>2. QED
    BY <2>1 DEF P!AddFails, P!Next
<1>2. ASSUME NEW v \in Values, addToHeap(v) \/ ExpandAndAdd(v) PROVE P!Next
  BY <1>2, AddImplements DEF P!Next
<1>3. ASSUME NEW v \in Values, replaceHeapTop(v) PROVE P!Next
  BY <1>3, ReplaceImplements DEF P!Next
<1>4. CASE deleteHeapTop
  BY <1>4, DeleteImplements DEF P!Next
<1>5. CASE DeleteFails
  <2>1. UNCHANGED Content /\ answer' = NoSuchIndex /\ base_used_length = 0 /\ Idle
    BY <1>5 DEF DeleteFails, Loop, Content, Filled, OInv, IInv, Fits
  <2>2. QED
    BY <2>1, TopOfBag DEF P!NoTop, P!Next
<1>6. CASE getHeapTop
  <2>1. /\ UNCHANGED Content /\ Idle /\ base_used_length \in Nat
        /\ answer' = IF base_used_length <= 0 THEN NoSuchIndex ELSE base[0]
    BY <1>6 DEF getHeapTop, Loop, Content, Filled, OInv, IInv, Fits
  <2>2. CASE base_used_length = 0
    BY <2>1, <2>2, TopOfBag DEF P!NoTop, P!Next
  <2>3. CASE base_used_length > 0
    BY <2>1, <2>3, TopOfBag DEF P!GetTop, P!Next
  <2>4. QED
    BY <2>1, <2>2, <2>3
<1>7. CASE heapSort
  BY <1>7 DEF heapSort, Loop, Content, Filled, Idle
<1>8. QED
  BY <1>1, <1>2, <1>3, <1>4, <1>5, <1>6, <1>7 DEF Call

(* The heap holds a bag of values: a call adds, removes or replaces one of *)
(* them, the loops, an expansion and heapSort keep every value as often as *)
(* it was there, and the top is a least one.                               *)
THEOREM HeapIsBag == Spec => ImplementsBag
<1>1. Init => P!Init
  <2>1. SUFFICES ASSUME Init PROVE P!Init
    OBVIOUS
  <2>2. OInv /\ Idle /\ base_used_length = 0 /\ answer = Memory
    BY <2>1, InitOrder DEF Init, Idle
  <2>3. QED
    BY <2>2, TopOfBag DEF P!Init
<1>2. ASSUME OInv, OInv', [Next]_vars PROVE [P!Next]_(P!vars)
  <2>1. P!Next \/ UNCHANGED <<Content, answer>>
    <3>1. CASE UNCHANGED vars
      BY <3>1 DEF vars, Content, Filled
    <3>2. QED
      BY <1>2, <3>1, CallImplements, LoopKeepsBag, SortKeepsBag DEF Next
  <2>2. QED
    BY <2>1 DEF P!vars
<1>3. QED
  BY <1>1, <1>2, OrderHolds, PTL DEF Spec, ImplementsBag, P!Spec

=============================================================================
