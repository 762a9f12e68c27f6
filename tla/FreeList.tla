------------------------------ MODULE FreeList ------------------------------
(***************************************************************************)
(* The lock-free free lists made with the macros of                        *)
(* common/block_alloc_helper.h: queue nodes, error records, tree nodes and *)
(* hash items come from them.  The head word of the list is a pointer with *)
(* a mark bit.  A thread that takes an item marks the head first, which    *)
(* keeps every other thread off the list until it stores the new head; so  *)
(* the next pointer it reads in between is the right one.  An item is put  *)
(* back by one compare-and-swap.  When the list is empty a thread mallocs  *)
(* a block of items under an int lock and links it in.                     *)
(*                                                                         *)
(* resource_queue.c and page_manager.c hold a copy of this code that also  *)
(* marks the head while it links a block (MarkToLink).                     *)
(*                                                                         *)
(* One action is one access to memory that other threads access.           *)
(***************************************************************************)

EXTENDS Integers, FiniteSets

CONSTANTS
  Threads,
  Blocks,      (* bound: the blocks malloc may return                      *)
  BlockSize,   (* items in a block                                         *)
  NULL,
  MarkToLink,  (* is the list of the kind that marks its head to grow?     *)
  MaxHeld,     (* bound: items a thread holds at a time                    *)
  Links        (* bound: the pointers a thread stores in an item it has    *)

Items == Blocks \X (1..BlockSize)

ItemsOf(b) == {i \in Items : i[1] = b}

Pointers == Items \cup {NULL}

ASSUME FreeListAssumption ==
  /\ IsFiniteSet(Threads)
  /\ BlockSize \in Nat \ {0}
  /\ MaxHeld \in Nat
  /\ MarkToLink \in BOOLEAN
  /\ NULL \notin Items
  /\ Links \subseteq Pointers
  /\ {"list", "heap"} \cap Threads = {}

VARIABLES
  free_list,   (* the head word: its pointer ...                           *)
  marked,      (* ... and its mark bit                                     *)
  next,        (* the next pointer of each item                            *)
  lock,        (* the int lock under which the list grows                  *)
  made,        (* the blocks that were malloced                            *)
  owner,       (* the thread that has an item, "list" or "heap"            *)
  pc,
  item,        (* the local item_p: being taken, put back or linked last   *)
  next_item    (* the local next_item_p: a pointer read earlier            *)

vars == <<free_list, marked, next, lock, made, owner, pc, item, next_item>>

Head == <<free_list, marked>>
Locals == <<item, next_item>>

PCs == {"idle", "take", "take_mark", "take_next", "take_done",
        "put", "put_link", "put_done",
        "block_lock", "block_check", "link", "link_mark", "link_last", "link_done",
        "unlock", "unlock_failed", "aborted"}

Init ==
  /\ free_list = NULL
  /\ marked = FALSE
  /\ next = [i \in Items |-> NULL]
  /\ lock = 0
  /\ made = {}
  /\ owner = [i \in Items |-> "heap"]
  /\ pc = [t \in Threads |-> "idle"]
  /\ item = [t \in Threads |-> NULL]
  /\ next_item = [t \in Threads |-> NULL]

-----------------------------------------------------------------------------

At(t, place) == pc[t] = place

GoTo(t, place) == pc' = [pc EXCEPT ![t] = place]

(* The operation of t returns, its locals are gone.                        *)
Return(t) ==
  /\ GoTo(t, "idle")
  /\ item' = [item EXCEPT ![t] = NULL]
  /\ next_item' = [next_item EXCEPT ![t] = NULL]

Held(t) == {i \in Items : owner[i] = t}

(* compare_and_swap_bool of the head word.                                 *)
HeadIs(p, m) == free_list = p /\ marked = m

SetHead(p, m) == free_list' = p /\ marked' = m

-----------------------------------------------------------------------------
(* BAH_ALLOC_FROM_FREE_LIST                                                *)

Alloc(t) ==
  /\ At(t, "idle")
  /\ Cardinality(Held(t)) < MaxHeld
  /\ GoTo(t, "take")
  /\ UNCHANGED <<Head, next, lock, made, owner, Locals>>

(* The head is read again and again until it is not marked.                *)
TakeRead(t) ==
  /\ At(t, "take")
  /\ ~marked
  /\ item' = [item EXCEPT ![t] = free_list]
  /\ GoTo(t, IF free_list = NULL THEN "block_lock" ELSE "take_mark")
  /\ UNCHANGED <<Head, next, lock, made, owner, next_item>>

(* Mutant of TakeMark: a store in place of the compare-and-swap.           *)
TakeMarkByStore(t) ==
  /\ At(t, "take_mark")
  /\ SetHead(item[t], TRUE)
  /\ GoTo(t, "take_next")
  /\ UNCHANGED <<next, lock, made, owner, Locals>>

TakeMark(t) ==
  /\ At(t, "take_mark")
  /\ IF HeadIs(item[t], FALSE)
     THEN SetHead(item[t], TRUE) /\ GoTo(t, "take_next")
     ELSE UNCHANGED Head /\ GoTo(t, "take")
  /\ UNCHANGED <<next, lock, made, owner, Locals>>

TakeNext(t) ==
  /\ At(t, "take_next")
  /\ next_item' = [next_item EXCEPT ![t] = next[item[t]]]
  /\ GoTo(t, "take_done")
  /\ UNCHANGED <<Head, next, lock, made, owner, item>>

(* The second compare-and-swap must succeed: assert(false) otherwise.      *)
TakeDone(t) ==
  /\ At(t, "take_done")
  /\ IF HeadIs(item[t], TRUE)
     THEN /\ SetHead(next_item[t], FALSE)
          /\ owner' = [owner EXCEPT ![item[t]] = t]
          /\ Return(t)
     ELSE UNCHANGED <<Head, owner, Locals>> /\ GoTo(t, "aborted")
  /\ UNCHANGED <<next, lock, made>>

-----------------------------------------------------------------------------
(* BAH_FREE_TO_FREE_LIST                                                   *)

Free(t) ==
  /\ At(t, "idle")
  /\ \E i \in Held(t) : item' = [item EXCEPT ![t] = i]
  /\ GoTo(t, "put")
  /\ UNCHANGED <<Head, next, lock, made, owner, next_item>>

PutRead(t) ==
  /\ At(t, "put")
  /\ ~marked
  /\ next_item' = [next_item EXCEPT ![t] = free_list]
  /\ GoTo(t, "put_link")
  /\ UNCHANGED <<Head, next, lock, made, owner, item>>

PutLink(t) ==
  /\ At(t, "put_link")
  /\ next' = [next EXCEPT ![item[t]] = next_item[t]]
  /\ GoTo(t, "put_done")
  /\ UNCHANGED <<Head, lock, made, owner, Locals>>

(* Mutants of PutDone: a store in place of the compare-and-swap; a         *)
(* comparison that overlooks the mark.                                     *)
PutDoneByStore(t) ==
  /\ At(t, "put_done")
  /\ SetHead(item[t], FALSE)
  /\ owner' = [owner EXCEPT ![item[t]] = "list"]
  /\ Return(t)
  /\ UNCHANGED <<next, lock, made>>

PutDoneIgnoringMark(t) ==
  /\ At(t, "put_done")
  /\ IF free_list = next_item[t]
     THEN /\ SetHead(item[t], FALSE)
          /\ owner' = [owner EXCEPT ![item[t]] = "list"]
          /\ Return(t)
     ELSE UNCHANGED <<Head, owner, Locals>> /\ GoTo(t, "put")
  /\ UNCHANGED <<next, lock, made>>

PutDone(t) ==
  /\ At(t, "put_done")
  /\ IF HeadIs(next_item[t], FALSE)
     THEN /\ SetHead(item[t], FALSE)
          /\ owner' = [owner EXCEPT ![item[t]] = "list"]
          /\ Return(t)
     ELSE UNCHANGED <<Head, owner, Locals>> /\ GoTo(t, "put")
  /\ UNCHANGED <<next, lock, made>>

(* The owner of an item links it where it likes: next_p also links queue   *)
(* nodes into the lists of their queue.                                    *)
Use(t) ==
  /\ At(t, "idle")
  /\ \E i \in Held(t), p \in Links : next' = [next EXCEPT ![i] = p]
  /\ UNCHANGED <<Head, lock, made, owner, pc, Locals>>

-----------------------------------------------------------------------------
(* BAH_LOCK_AND_ALLOC_BLOCK and the function it calls                      *)

BlockLock(t) ==
  /\ At(t, "block_lock")
  /\ lock = 0
  /\ lock' = 1
  /\ GoTo(t, "block_check")
  /\ UNCHANGED <<Head, next, made, owner, Locals>>

NotEmpty(t) ==
  /\ At(t, "block_check")
  /\ ~HeadIs(NULL, FALSE)
  /\ GoTo(t, "unlock")
  /\ UNCHANGED <<Head, next, lock, made, owner, Locals>>

MallocFails(t) ==
  /\ At(t, "block_check")
  /\ HeadIs(NULL, FALSE)
  /\ GoTo(t, "unlock_failed")
  /\ UNCHANGED <<Head, next, lock, made, owner, Locals>>

(* The block malloc returns: any new one, and which makes no difference.   *)
IsNextBlock(b) == b \notin made /\ b = CHOOSE c \in Blocks \ made : TRUE

(* Mutant of Malloc: the list is not looked at again under the lock.       *)
MallocUnchecked(t, b) ==
  /\ At(t, "block_check")
  /\ IsNextBlock(b)
  /\ made' = made \cup {b}
  /\ next' = [i \in Items |->
                IF i[1] # b THEN next[i]
                ELSE IF i[2] = BlockSize THEN NULL
                ELSE <<b, i[2] + 1>>]
  /\ item' = [item EXCEPT ![t] = <<b, BlockSize>>]
  /\ GoTo(t, "link")
  /\ UNCHANGED <<Head, lock, owner, next_item>>

(* BAH_LINK_BLOCK chains the items of the new block.                       *)
Malloc(t, b) ==
  /\ At(t, "block_check")
  /\ HeadIs(NULL, FALSE)
  /\ IsNextBlock(b)
  /\ made' = made \cup {b}
  /\ next' = [i \in Items |->
                IF i[1] # b THEN next[i]
                ELSE IF i[2] = BlockSize THEN NULL
                ELSE <<b, i[2] + 1>>]
  /\ item' = [item EXCEPT ![t] = <<b, BlockSize>>]
  /\ GoTo(t, "link")
  /\ UNCHANGED <<Head, lock, owner, next_item>>

(* BAH_LINK_FREE_LIST                                                      *)
LinkRead(t) ==
  /\ At(t, "link")
  /\ ~marked
  /\ next_item' = [next_item EXCEPT ![t] = free_list]
  /\ GoTo(t, IF MarkToLink THEN "link_mark" ELSE "link_last")
  /\ UNCHANGED <<Head, next, lock, made, owner, item>>

LinkMark(t) ==
  /\ At(t, "link_mark")
  /\ IF HeadIs(next_item[t], FALSE)
     THEN SetHead(next_item[t], TRUE) /\ GoTo(t, "link_last")
     ELSE UNCHANGED Head /\ GoTo(t, "link")
  /\ UNCHANGED <<next, lock, made, owner, Locals>>

LinkLast(t) ==
  /\ At(t, "link_last")
  /\ next' = [next EXCEPT ![item[t]] = next_item[t]]
  /\ GoTo(t, "link_done")
  /\ UNCHANGED <<Head, lock, made, owner, Locals>>

(* The copies that mark the head assert that the compare-and-swap succeeds. *)
LinkDone(t) ==
  /\ At(t, "link_done")
  /\ LET b == item[t][1]
     IN  IF HeadIs(next_item[t], MarkToLink)
         THEN /\ SetHead(<<b, 1>>, FALSE)
              /\ owner' = [i \in Items |-> IF i \in ItemsOf(b) THEN "list" ELSE owner[i]]
              /\ GoTo(t, "unlock")
         ELSE /\ UNCHANGED <<Head, owner>>
              /\ GoTo(t, IF MarkToLink THEN "aborted" ELSE "link")
  /\ UNCHANGED <<next, lock, made, Locals>>

(* Mutant of Unlock: another attempt at the lock, not at the list.         *)
UnlockWithoutRetake(t) ==
  /\ \/ At(t, "unlock") /\ GoTo(t, "block_lock") /\ UNCHANGED Locals
     \/ At(t, "unlock_failed") /\ Return(t)
  /\ lock' = 0
  /\ UNCHANGED <<Head, next, made, owner>>

(* unlock_int and another attempt, or, when malloc failed, no item.        *)
Unlock(t) ==
  /\ \/ At(t, "unlock") /\ GoTo(t, "take") /\ UNCHANGED Locals
     \/ At(t, "unlock_failed") /\ Return(t)
  /\ lock' = 0
  /\ UNCHANGED <<Head, next, made, owner>>

-----------------------------------------------------------------------------

Step(t) ==
  \/ TakeRead(t) \/ TakeMark(t) \/ TakeNext(t) \/ TakeDone(t)
  \/ PutRead(t) \/ PutLink(t) \/ PutDone(t)
  \/ BlockLock(t) \/ NotEmpty(t) \/ MallocFails(t)
  \/ \E b \in Blocks : Malloc(t, b)
  \/ LinkRead(t) \/ LinkMark(t) \/ LinkLast(t) \/ LinkDone(t)
  \/ Unlock(t)

Next == \E t \in Threads : Step(t) \/ Alloc(t) \/ Free(t) \/ Use(t)

Spec == Init /\ [][Next]_vars

(* Every thread that is inside an operation keeps being scheduled.         *)
FairSpec == Spec /\ \A t \in Threads : WF_vars(Step(t))

-----------------------------------------------------------------------------
(* Properties                                                              *)

TypeOK ==
  /\ free_list \in Pointers
  /\ marked \in BOOLEAN
  /\ next \in [Items -> Pointers]
  /\ lock \in {0, 1}
  /\ made \subseteq Blocks
  /\ owner \in [Items -> Threads \cup {"list", "heap"}]
  /\ pc \in [Threads -> PCs]
  /\ item \in [Threads -> Pointers]
  /\ next_item \in [Threads -> Pointers]

P == INSTANCE Pool WITH InPool <- "list", NotMade <- "heap"

(* The list is an atomic pool for its callers: no item is handed to two    *)
(* threads, although takers race with each other and with put-backs of the *)
(* very items they looked at (the ABA problem).                            *)
ImplementsPool == P!Spec

ClosedUnderNext(S) == \A i \in S : next[i] # NULL => next[i] \in S

(* The items that can be reached from the head: those in every set that    *)
(* holds the head and is closed under next.                                *)
Reachable ==
  {i \in Items :
     \A S \in SUBSET Items :
        free_list \in S \cup {NULL} /\ ClosedUnderNext(S) => i \in S}

(* The list holds exactly the items that nobody has: none is lost by a     *)
(* race and none is linked while a thread uses it.                         *)
NoItemLost == Reachable = {i \in Items : owner[i] = "list"}

(* The assertions after the second compare-and-swap hold                   *)
(* (block_alloc_helper.h:72, resource_queue.c:374 and :410).               *)
NeverAborts == \A t \in Threads : pc[t] # "aborted"

(* A block is malloced only when every item is in some thread's hands, so  *)
(* the memory stays within one block of the greatest demand, however many  *)
(* threads found the list empty at the same time.                          *)
MemoryBounded ==
  made # {} =>
    Cardinality(made) * BlockSize
      <= MaxHeld * Cardinality(Threads) - 1 + BlockSize

Completes(t) == pc[t] # "idle" /\ pc'[t] = "idle"

(* Whenever a thread is inside an operation, operations keep completing,   *)
(* its own or another's: waiting for the mark and for the block lock never *)
(* stops everybody.                                                        *)
OperationsComplete ==
  \A t \in Threads :
     []<>(pc[t] = "idle") \/ []<><<\E u \in Threads : Completes(u)>>_vars

=============================================================================
