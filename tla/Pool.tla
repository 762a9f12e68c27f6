-------------------------------- MODULE Pool --------------------------------
(***************************************************************************)
(* What an item allocator promises: an item is in the pool, in the hands   *)
(* of one thread, or not made yet.  The lock-free free lists built from    *)
(* the macros of common/block_alloc_helper.h are checked against it        *)
(* (module FreeList).                                                      *)
(***************************************************************************)

CONSTANTS
  Threads,
  Items,
  Blocks,           (* items come from malloc in blocks                    *)
  ItemsOf(_),       (* the items of a block                                *)
  InPool, NotMade   (* owners of the items that no thread owns             *)

VARIABLE owner      (* who has each item                                   *)

Init == owner = [i \in Items |-> NotMade]

Take(t, i) ==
  /\ owner[i] = InPool
  /\ owner' = [owner EXCEPT ![i] = t]

GiveBack(t, i) ==
  /\ owner[i] = t
  /\ owner' = [owner EXCEPT ![i] = InPool]

(* A whole block enters the pool at once.                                  *)
Grow(b) ==
  /\ \A i \in ItemsOf(b) : owner[i] = NotMade
  /\ owner' = [i \in Items |-> IF i \in ItemsOf(b) THEN InPool ELSE owner[i]]

Next ==
  \/ \E t \in Threads, i \in Items : Take(t, i) \/ GiveBack(t, i)
  \/ \E b \in Blocks : Grow(b)

Spec == Init /\ [][Next]_owner

=============================================================================
