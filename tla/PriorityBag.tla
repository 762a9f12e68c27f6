---------------------------- MODULE PriorityBag ----------------------------
(***************************************************************************)
(* What a heap promises: it holds a bag of values and gives back a least   *)
(* one.  The array heap of heap.c (module Heap) implements it.             *)
(***************************************************************************)

EXTENDS Integers

CONSTANTS Values, Memory, NoSuchIndex

VARIABLES
  content,   (* how many there are of each value                           *)
  answer     (* the value the last call returned, or its error             *)

vars == <<content, answer>>

Empty == [v \in Values |-> 0]

IsLeast(v) == content[v] > 0 /\ \A w \in Values : content[w] > 0 => v <= w

Plus(c, v)  == [c EXCEPT ![v] = @ + 1]
Minus(c, v) == [c EXCEPT ![v] = @ - 1]

Init == content = Empty /\ answer = Memory

Add(v) == content' = Plus(content, v) /\ answer' = v

AddFails == answer' = Memory /\ UNCHANGED content

DeleteTop ==
  \E v \in Values : IsLeast(v) /\ content' = Minus(content, v) /\ answer' = v

GetTop == \E v \in Values : IsLeast(v) /\ answer' = v /\ UNCHANGED content

NoTop == content = Empty /\ answer' = NoSuchIndex /\ UNCHANGED content

(* The least value gives way to v; an empty heap just gets v.              *)
ReplaceTop(v) ==
  /\ \/ content = Empty /\ content' = Plus(content, v)
     \/ \E w \in Values : IsLeast(w) /\ content' = Plus(Minus(content, w), v)
  /\ answer' = v

Next ==
  \/ \E v \in Values : Add(v) \/ ReplaceTop(v)
  \/ AddFails \/ DeleteTop \/ GetTop \/ NoTop

Spec == Init /\ [][Next]_vars

=============================================================================
