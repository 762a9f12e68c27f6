------------------------------- MODULE RBTree -------------------------------
(***************************************************************************)
(* The left-leaning red-black tree of base/rbtree.c, used by one thread at *)
(* a time.  A subtree is the record of its root node, which holds the left *)
(* and the right subtree, or Nil for NULL.  Every function that returns a  *)
(* node_p is the operator from the subtree it is given to the one that     *)
(* takes its place.                                                        *)
(*                                                                         *)
(* The file is compiled without USE_234_TREE.  Rotations of a missing      *)
(* child have no value here, as they fail an assertion in the code.        *)
(***************************************************************************)

EXTENDS Integers, FiniteSets

CONSTANTS
  Keys,     (* integers, in the order of cmp_func_p                        *)
  Values,
  Absent,
  Pairs     (* bound: the keys and values that are inserted                *)

(* Assumed by TreeTeardown.                                                *)
RBTreeAssumption ==
  /\ Keys \subseteq Int /\ Absent \notin Values
  /\ Pairs \subseteq Keys \X Values

VARIABLES
  root,     (* root_p                                                      *)
  answer    (* what the last call returned                                 *)

vars == <<root, answer>>

Nil == <<>>

(* initRBNode and insertIntoRBTree: a new node is red.                     *)
NewNode(k, v) == [red |-> TRUE, key |-> k, value |-> v, left |-> Nil, right |-> Nil]

IsRed(n) == n # Nil /\ n.red

-----------------------------------------------------------------------------
(* Rotations and colours                                                   *)

rotateLeft(n) ==
  [n.right EXCEPT !.red = n.red,
                  !.left = [n EXCEPT !.right = n.right.left, !.red = TRUE]]

(* Mutant of rotateRight: the colours stay where they were.                *)
rotateRightKeepingColours(n) ==
  [n.left EXCEPT !.right = [n EXCEPT !.left = n.left.right]]

rotateRight(n) ==
  [n.left EXCEPT !.red = n.red,
                 !.right = [n EXCEPT !.left = n.left.right, !.red = TRUE]]

Flip(n) == IF n = Nil THEN Nil ELSE [n EXCEPT !.red = ~@]

colorFlip(n) ==
  [n EXCEPT !.red = ~@, !.left = Flip(@), !.right = Flip(@)]

(* The three repairs on the way up, in this order.                         *)
LeanLeft(n)  == IF IsRed(n.right) THEN rotateLeft(n) ELSE n
LeanRight(n) == IF IsRed(n.left) /\ IsRed(n.left.left) THEN rotateRight(n) ELSE n
Split(n)     == IF IsRed(n.left) /\ IsRed(n.right) THEN colorFlip(n) ELSE n

fixUp(n) == Split(LeanRight(LeanLeft(n)))

-----------------------------------------------------------------------------
(* Insertion: like fixUp, but a node with two red children is only split.  *)

FixInserted(n) ==
  Split(LeanRight(IF IsRed(n.left) THEN n ELSE LeanLeft(n)))

RECURSIVE insertRBNode(_, _)
insertRBNode(n, new) ==
  IF n = Nil THEN new
  ELSE FixInserted(
         CASE new.key = n.key -> [n EXCEPT !.value = new.value]
           [] new.key < n.key -> [n EXCEPT !.left = insertRBNode(@, new)]
           [] new.key > n.key -> [n EXCEPT !.right = insertRBNode(@, new)])

-----------------------------------------------------------------------------
(* Removal                                                                 *)

RECURSIVE getMin(_)
getMin(n) == IF n.left = Nil THEN n ELSE getMin(n.left)

moveRedLeft(n) ==
  LET f == colorFlip(n)
  IN  IF f.right # Nil /\ IsRed(f.right.left)
      THEN colorFlip(rotateLeft([f EXCEPT !.right = rotateRight(@)]))
      ELSE f

moveRedRight(n) ==
  IF n.left = Nil \/ n.right = Nil THEN n
  ELSE LET f == colorFlip(n)
       IN  IF IsRed(f.left.left) THEN colorFlip(rotateRight(f)) ELSE f

(* Neither the child nor its left child is red: the way down needs a red   *)
(* node there.                                                             *)
TwoBlacks(n) == ~IsRed(n) /\ ~IsRed(n.left)

RECURSIVE deleteMin(_)
deleteMin(n) ==
  IF n.left = Nil THEN Nil
  ELSE LET m == IF TwoBlacks(n.left) THEN moveRedLeft(n) ELSE n
       IN  fixUp([m EXCEPT !.left = deleteMin(@)])

(* Mutant of RedToRight: nothing is done.                                  *)
RedStays(n) == n

RedToRight(n) == IF IsRed(n.left) THEN rotateRight(n) ELSE n

(* The node that is freed in place is assumed to have no left child (line  *)
(* 510); here a left child would be lost.                                  *)
RECURSIVE deleteRBNode(_, _)
deleteRBNode(n, k) ==
  IF n = Nil THEN Nil
  ELSE IF k < n.key
  THEN LET m == IF n.left # Nil /\ TwoBlacks(n.left) THEN moveRedLeft(n) ELSE n
       IN  fixUp([m EXCEPT !.left = deleteRBNode(@, k)])
  ELSE LET r == RedToRight(n)
           m == IF TwoBlacks(r.right) THEN moveRedRight(r) ELSE r
       IN  IF r.right = Nil
           THEN IF k = r.key THEN Nil ELSE fixUp(r)
           ELSE IF k = m.key
           THEN LET min == getMin(m.right)
                IN  fixUp([m EXCEPT !.key = min.key, !.value = min.value,
                                    !.right = deleteMin(@)])
           ELSE fixUp([m EXCEPT !.right = deleteRBNode(@, k)])

-----------------------------------------------------------------------------

Init ==
  /\ root = Nil
  /\ answer = "none"

insertIntoRBTree(k, v) ==
  /\ root' = insertRBNode(root, NewNode(k, v))
  /\ answer' = "done"

(* allocRBNode fails.                                                      *)
InsertFails ==
  /\ answer' = "memory"
  /\ UNCHANGED root

(* A key that is not there is no error.                                    *)
removeFromRBTree(k) ==
  /\ LET r == deleteRBNode(root, k)
     IN  root' = IF r = Nil THEN Nil ELSE [r EXCEPT !.red = FALSE]
  /\ answer' = "done"

RECURSIVE Lookup(_, _)
Lookup(n, k) ==
  CASE n = Nil   -> Nil
    [] k < n.key -> Lookup(n.left, k)
    [] k > n.key -> Lookup(n.right, k)
    [] OTHER     -> n

searchRBTree(k) ==
  /\ LET n == Lookup(root, k)
     IN  answer' = IF n = Nil THEN "missing" ELSE n.value
  /\ UNCHANGED root

Next ==
  \/ \E k \in Keys :
        \/ removeFromRBTree(k)
        \/ searchRBTree(k)
  \/ \E p \in Pairs : insertIntoRBTree(p[1], p[2])
  \/ InsertFails

Spec == Init /\ [][Next]_vars

-----------------------------------------------------------------------------
(* Properties                                                              *)

RECURSIVE Subtrees(_)
Subtrees(n) == IF n = Nil THEN {} ELSE {n} \cup Subtrees(n.left) \cup Subtrees(n.right)

TypeOK ==
  /\ \A n \in Subtrees(root) :
        /\ DOMAIN n = {"red", "key", "value", "left", "right"}
        /\ n.red \in BOOLEAN /\ n.key \in Keys /\ n.value \in Values
  /\ answer \in Values \cup {"none", "done", "memory", "missing"}

(* The black nodes on the way from n to every missing child, as a set.     *)
RECURSIVE BlackHeights(_)
BlackHeights(n) ==
  IF n = Nil THEN {0}
  ELSE {h + (IF n.red THEN 0 ELSE 1) : h \in BlackHeights(n.left) \cup BlackHeights(n.right)}

(* Every way down meets the same number of black nodes, no node has a red  *)
(* one on its right, and no red node a red child (the colour of the root   *)
(* is not kept), after every insertion and removal, also of keys that are  *)
(* not there.  This bounds the height by twice the logarithm of the size.  *)
Balanced ==
  /\ TypeOK
  /\ Cardinality(BlackHeights(root)) = 1
  /\ \A n \in Subtrees(root) :
        ~IsRed(n.right) /\ (n # root /\ n.red => ~IsRed(n.left))

(* The tree is a map: a removal takes out its key and no other, although   *)
(* it rearranges the tree on its way down and moves the successor into the *)
(* place of the node, and a search finds what was inserted last.           *)
D == INSTANCE Dictionary WITH
       content <- [k \in Keys |->
                     LET n == Lookup(root, k) IN IF n = Nil THEN Absent ELSE n.value]

ImplementsDictionary == D!Spec

=============================================================================
