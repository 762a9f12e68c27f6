----------------------------- MODULE Dictionary -----------------------------
(***************************************************************************)
(* What a sequential map from keys to values promises.  The red-black tree *)
(* of rbtree.c (module RBTree) implements it.                              *)
(***************************************************************************)

CONSTANTS Keys, Values, Absent

VARIABLES
  content,   (* the value of each key, or Absent                           *)
  answer     (* what the last call returned                                *)

vars == <<content, answer>>

Init ==
  /\ content = [k \in Keys |-> Absent]
  /\ answer = "none"

(* A key that is there gets the new value.                                 *)
Insert(k, v) ==
  /\ content' = [content EXCEPT ![k] = v]
  /\ answer' = "done"

InsertFails ==
  /\ answer' = "memory"
  /\ UNCHANGED content

Remove(k) ==
  /\ content' = [content EXCEPT ![k] = Absent]
  /\ answer' = "done"

Search(k) ==
  /\ answer' = IF content[k] = Absent THEN "missing" ELSE content[k]
  /\ UNCHANGED content

Clear ==
  /\ content' = [k \in Keys |-> Absent]
  /\ answer' = "done"

Next ==
  \/ \E k \in Keys : Remove(k) \/ Search(k) \/ \E v \in Values : Insert(k, v)
  \/ InsertFails
  \/ Clear

Spec == Init /\ [][Next]_vars

=============================================================================
