---------------------------- MODULE TreeTeardown ----------------------------
(***************************************************************************)
(* The red-black tree (RBTree) and the queue (DeQueue, queue.c) it is      *)
(* destroyed with: freeRBTreeNodes of base/rbtree.c walks the tree breadth *)
(* first, with a queue of the nodes whose children it has yet to see, and  *)
(* gives up where a call of the queue fails.  All of it is one thread's.   *)
(*                                                                         *)
(* A node in the queue is named by its key, which no other node has.       *)
(***************************************************************************)

EXTENDS DeQueue

CONSTANTS
  Keys, TreeValues, Absent, Pairs     (* of RBTree; Values are Keys here   *)

CONSTANT
  Probes    (* bound: the items that are pushed outside of the walk        *)

VARIABLES
  root, tree_answer,  (* of RBTree                                         *)
  at,                 (* where freeRBTreeNodes is; "rest" outside of it    *)
  node,               (* the key of node_p                                 *)
  freed,              (* how often the node of a key was put in the free
                         list                                              *)
  failed              (* a malloc of this walk has failed                  *)

treeVars  == <<root, tree_answer>>
queueVars == vars
walkVars  == <<at, node, freed, failed>>
allVars   == <<treeVars, queueVars, walkVars>>

T == INSTANCE RBTree WITH Values <- TreeValues, answer <- tree_answer

ASSUME TreeTeardownAssumption ==
  /\ Values = Keys /\ Probes \subseteq Keys
  /\ T!RBTreeAssumption

NoneFreed == [k \in Keys |-> 0]

TeardownInit ==
  /\ T!Init
  /\ Init
  /\ at = "rest" /\ node = NoItem /\ freed = NoneFreed /\ failed = FALSE

-----------------------------------------------------------------------------
(* Calls outside of destroyRBTree.  Other users' queues have nothing to do *)
(* with the tree: their calls are explored before its first call.          *)

TreeCall ==
  /\ at = "rest" /\ answer = Created
  /\ T!Next
  /\ UNCHANGED <<queueVars, walkVars>>

QueueCall ==
  /\ at = "rest" /\ tree_answer = "none"
  /\ \/ \E v \in Probes : Push(v) \/ PushFront(v)
     \/ PushFails
     \/ Pop
     \/ PopFront
     \/ PopMisses
     \/ PopFrontMisses
  /\ UNCHANGED <<treeVars, walkVars>>

-----------------------------------------------------------------------------
(* destroyRBTree                                                           *)

Return(f) == at' = "end" /\ failed' = f

(* Trees are destroyed after a removal or an insertion (bound: a search    *)
(* leaves the tree as it is).                                              *)
Start ==
  /\ at = "rest" /\ tree_answer = "done"
  /\ \/ root # T!Nil /\ at' = "enqueue" /\ UNCHANGED failed
     \/ root = T!Nil /\ Return(FALSE)
     \/ root # T!Nil /\ Return(TRUE)       (* createQueue has no memory     *)
  /\ UNCHANGED <<treeVars, queueVars, node, freed>>

(* enQueue, or the return where it has no memory.                          *)
enQueue(n, next) ==
  \/ Push(n.key) /\ at' = next /\ UNCHANGED failed
  \/ PushFails /\ Return(TRUE)

EnqueueRoot ==
  /\ at = "enqueue"
  /\ enQueue(root, "test")
  /\ UNCHANGED <<treeVars, node, freed>>

(* The test of the loop and deQueue, which may find no item.               *)
Dequeue ==
  /\ at = "test"
  /\ ~isDeQueueEmpty
  /\ \/ PopFront /\ at' = "left" /\ node' = answer' /\ UNCHANGED failed
     \/ PopFrontMisses /\ Return(FALSE) /\ UNCHANGED node
  /\ UNCHANGED <<treeVars, freed>>

LoopEnds ==
  /\ at = "test"
  /\ isDeQueueEmpty
  /\ Return(FALSE)
  /\ UNCHANGED <<treeVars, queueVars, node, freed>>

node_p == T!Lookup(root, node)

EnqueueLeft ==
  /\ at = "left"
  /\ IF node_p.left # T!Nil THEN enQueue(node_p.left, "right")
     ELSE at' = "right" /\ UNCHANGED <<queueVars, failed>>
  /\ UNCHANGED <<treeVars, node, freed>>

EnqueueRight ==
  /\ at = "right"
  /\ IF node_p.right # T!Nil THEN enQueue(node_p.right, "free")
     ELSE at' = "free" /\ UNCHANGED <<queueVars, failed>>
  /\ UNCHANGED <<treeVars, node, freed>>

FreeNode ==
  /\ at = "free"
  /\ freed' = [freed EXCEPT ![node] = @ + 1]
  /\ at' = "test"
  /\ UNCHANGED <<treeVars, queueVars, node, failed>>

(* Nothing is left of the tree and of the queue; others follow.            *)
Finish ==
  /\ at = "end"
  /\ root' = T!Nil /\ tree_answer' = "done"
  /\ Renew
  /\ at' = "rest" /\ node' = NoItem /\ freed' = NoneFreed /\ failed' = FALSE

TeardownNext ==
  \/ TreeCall
  \/ QueueCall
  \/ Start
  \/ EnqueueRoot
  \/ Dequeue
  \/ LoopEnds
  \/ EnqueueLeft
  \/ EnqueueRight
  \/ FreeNode
  \/ Finish

TeardownSpec == TeardownInit /\ [][TeardownNext]_allVars

-----------------------------------------------------------------------------
(* Properties                                                              *)

Lost == {k \in Keys : T!Lookup(root, k) # T!Nil /\ freed[k] = 0}

(* destroyRBTree puts no node in the free list twice and, as long as malloc *)
(* gives memory, at most one node is not put there: the deepest level has  *)
(* it to itself, its father was in the last slot of the only unit, and     *)
(* deQueue does not find it (NotEmptyGivesItem of DeQueue).  It takes the  *)
(* balance of the tree: nowhere else but at the root, which is not in the  *)
(* last slot, is the queue down to one item with more nodes to follow.     *)
AtMostOneLost ==
  /\ \A k \in Keys : freed[k] <= 1
  /\ at = "end" /\ ~failed =>
        Cardinality(Lost) <= 1 /\ \A k \in Lost : T!Lookup(root, k).left = T!Nil

(* The tree stays a left-leaning red-black tree: see RBTree.               *)
Balanced == at = "rest" => T!Balanced

(* Up to its destruction the tree is a map: see RBTree.  The properties of *)
(* DeQueue, ItemsInReach and ImplementsSequence, are checked with these.   *)
ImplementsDictionary == T!ImplementsDictionary

=============================================================================
