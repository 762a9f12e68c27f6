---------------------------- MODULE ItemSequence ----------------------------
(***************************************************************************)
(* What a double-ended queue promises, except that a pop may find nothing  *)
(* in a queue that is not empty (Miss): the queue of base_dequeue.c        *)
(* (module DeQueue) does that, but it never gives a wrong item.            *)
(***************************************************************************)

EXTENDS Integers, Sequences

CONSTANTS Values, NoItem, Done, NoMemory, Created

VARIABLES
  content,   (* the items, front first                                     *)
  answer     (* of the last operation: the item of a pop, NoItem if it
                found nothing, Done after a push, NoMemory if it failed     *)

Init  == content = <<>> /\ answer = Created
Renew == content' = <<>> /\ answer' = Created

Push(v)      == content' = Append(content, v) /\ answer' = Done
PushFront(v) == content' = <<v>> \o content   /\ answer' = Done

Pop ==
  /\ content # <<>>
  /\ answer' = content[Len(content)]
  /\ content' = SubSeq(content, 1, Len(content) - 1)

PopFront ==
  /\ content # <<>>
  /\ answer' = Head(content)
  /\ content' = Tail(content)

Miss == answer' \in {NoItem, NoMemory} /\ UNCHANGED content

Next ==
  \/ \E v \in Values : Push(v) \/ PushFront(v)
  \/ Pop
  \/ PopFront
  \/ Miss
  \/ Renew

Spec == Init /\ [][Next]_<<content, answer>>

=============================================================================
