--------------------------- MODULE FreeList_proofs ---------------------------
(***************************************************************************)
(* Proofs about FreeList for any number of threads, blocks and items, for  *)
(* both ways of linking a new block.                                       *)
(*                                                                         *)
(* The argument does not speak of the list as a sequence.  The items whose *)
(* owner is the list are closed under next, no two of them have the same   *)
(* successor, and none of them has the head as its successor (ListShape).  *)
(* That is enough to take the head away: its successor is in the list and  *)
(* becomes a head with no predecessor.  The marks and the locals keep what *)
(* a thread read true until it uses it (Markers, Takers, Putters,          *)
(* Linkers).                                                               *)
(*                                                                         *)
(* The list is the least set that has the head and is closed under next    *)
(* (AllReached).  How much is malloced is a count: no item is in the list  *)
(* when a block is, so each has a thread, which has room for few.          *)
(***************************************************************************)

EXTENDS FreeList, FiniteSetTheorems, FunctionTheorems, TLAPS

ListItems == {i \in Items : owner[i] = "list"}

ListShape ==
  /\ free_list # NULL => free_list \in ListItems
  /\ \A i \in ListItems :
        next[i] # NULL => next[i] \in ListItems /\ next[i] # free_list
  /\ \A i, j \in ListItems : next[i] = next[j] /\ next[i] # NULL => i = j

(* The threads that set the mark and did not remove it yet.                *)
TakeMarked(t) == pc[t] \in {"take_next", "take_done"}
LinkMarked(t) == MarkToLink /\ pc[t] \in {"link_last", "link_done"}
Marked(t) == TakeMarked(t) \/ LinkMarked(t)

Markers ==
  /\ \A t \in Threads : Marked(t) => marked
  /\ \A t \in Threads : TakeMarked(t) => free_list = item[t]
  /\ \A t \in Threads : LinkMarked(t) => free_list = next_item[t]
  /\ \A t, u \in Threads : Marked(t) /\ Marked(u) => t = u

Takers ==
  \A t \in Threads :
     /\ pc[t] \in {"take_mark", "take_next", "take_done"} => item[t] \in Items
     /\ pc[t] = "take_done" => next_item[t] = next[item[t]]

Putters ==
  \A t \in Threads :
     /\ pc[t] \in {"put", "put_link", "put_done"} =>
           item[t] \in Items /\ owner[item[t]] = t
     /\ pc[t] = "put_done" => next_item[t] = next[item[t]]

InBlockSection(t) ==
  pc[t] \in {"block_check", "link", "link_mark", "link_last", "link_done",
             "unlock", "unlock_failed"}

Linking(t) == pc[t] \in {"link", "link_mark", "link_last", "link_done"}

BlockLocked ==
  /\ \A t \in Threads : InBlockSection(t) => lock = 1
  /\ \A t, u \in Threads : InBlockSection(t) /\ InBlockSection(u) => t = u

(* A block being linked is a chain that nobody else knows.                 *)
Linkers ==
  /\ \A i \in Items : i[1] \notin made => owner[i] = "heap"
  /\ \A t \in Threads : Linking(t) =>
        /\ item[t] \in Items
        /\ item[t][1] \in made
        /\ item[t][2] = BlockSize
        /\ \A i \in ItemsOf(item[t][1]) :
              /\ owner[i] = "heap"
              /\ i # item[t] => next[i] = <<i[1], i[2] + 1>>
  /\ \A t \in Threads : pc[t] = "link_done" => next[item[t]] = next_item[t]

IInv ==
  /\ TypeOK
  /\ NeverAborts
  /\ ListShape
  /\ Markers
  /\ Takers
  /\ Putters
  /\ BlockLocked
  /\ Linkers

-----------------------------------------------------------------------------

LEMMA InitInv == Init => IInv
<1>1. NULL \notin Items /\ BlockSize \in Nat \ {0}
  BY FreeListAssumption
<1>. QED
  BY <1>1
  DEF Init, IInv, TypeOK, Pointers, PCs, NeverAborts, ListShape, ListItems, Markers, Marked,
      TakeMarked, LinkMarked, Takers, Putters, BlockLocked, InBlockSection, Linkers, Linking

LEMMA StepInv == ASSUME IInv, [Next]_vars PROVE IInv'
<1> USE DEF IInv, At, GoTo, Return, Head, Locals, HeadIs, SetHead
<1>0. /\ "list" \notin Threads /\ "heap" \notin Threads
      /\ NULL \notin Items
      /\ BlockSize \in Nat \ {0} /\ MarkToLink \in BOOLEAN
      /\ Links \subseteq Pointers
  BY FreeListAssumption
<1>1. ASSUME NEW t \in Threads, Alloc(t) PROVE IInv'
  <2>1. TypeOK' /\ NeverAborts'
    BY <1>1 DEF Alloc, TypeOK, PCs, Pointers, NeverAborts, Held
  <2>2. ListShape'
    BY <1>1 DEF Alloc, TypeOK, ListShape, ListItems, Takers, Putters, Held, Pointers
  <2>3. Markers'
    BY <1>1 DEF Alloc, TypeOK, Markers, Marked, TakeMarked, LinkMarked
  <2>4. Takers' /\ Putters'
    BY <1>1 DEF Alloc, TypeOK, Takers, Putters, Held, Pointers, Markers, Marked, TakeMarked, LinkMarked, ListShape, ListItems
  <2>5. BlockLocked'
    BY <1>1 DEF Alloc, TypeOK, BlockLocked, InBlockSection
  <2>6. Linkers'
    BY <1>1 DEF Alloc, TypeOK, Linkers, Linking, ItemsOf, Putters, Takers, Held, BlockLocked, InBlockSection, Items
  <2>7. QED
    BY <2>1, <2>2, <2>3, <2>4, <2>5, <2>6
<1>2. ASSUME NEW t \in Threads, TakeRead(t) PROVE IInv'
  <2>1. TypeOK' /\ NeverAborts'
    BY <1>2 DEF TakeRead, TypeOK, PCs, Pointers, NeverAborts, Held
  <2>2. ListShape'
    BY <1>2 DEF TakeRead, TypeOK, ListShape, ListItems, Takers, Putters, Held, Pointers
  <2>3. Markers'
    BY <1>2 DEF TakeRead, TypeOK, Markers, Marked, TakeMarked, LinkMarked
  <2>4. Takers' /\ Putters'
    BY <1>2 DEF TakeRead, TypeOK, Takers, Putters, Held, Pointers, Markers, Marked, TakeMarked, LinkMarked, ListShape, ListItems
  <2>5. BlockLocked'
    BY <1>2 DEF TakeRead, TypeOK, BlockLocked, InBlockSection
  <2>6. Linkers'
    BY <1>2 DEF TakeRead, TypeOK, Linkers, Linking, ItemsOf, Putters, Takers, Held, BlockLocked, InBlockSection, Items
  <2>7. QED
    BY <2>1, <2>2, <2>3, <2>4, <2>5, <2>6
<1>3. ASSUME NEW t \in Threads, TakeMark(t) PROVE IInv'
  <2>1. TypeOK' /\ NeverAborts'
    BY <1>3 DEF TakeMark, TypeOK, PCs, Pointers, NeverAborts, Held
  <2>2. ListShape'
    BY <1>3 DEF TakeMark, TypeOK, ListShape, ListItems, Takers, Putters, Held, Pointers
  <2>3. Markers'
    BY <1>3 DEF TakeMark, TypeOK, Markers, Marked, TakeMarked, LinkMarked
  <2>4. Takers' /\ Putters'
    BY <1>3 DEF TakeMark, TypeOK, Takers, Putters, Held, Pointers, Markers, Marked, TakeMarked, LinkMarked, ListShape, ListItems
  <2>5. BlockLocked'
    BY <1>3 DEF TakeMark, TypeOK, BlockLocked, InBlockSection
  <2>6. Linkers'
    BY <1>3 DEF TakeMark, TypeOK, Linkers, Linking, ItemsOf, Putters, Takers, Held, BlockLocked, InBlockSection, Items
  <2>7. QED
    BY <2>1, <2>2, <2>3, <2>4, <2>5, <2>6
<1>4. ASSUME NEW t \in Threads, TakeNext(t) PROVE IInv'
  <2>1. TypeOK' /\ NeverAborts'
    <3>1. item[t] \in Items
      BY <1>4 DEF TakeNext, Takers
    <3>2. QED
      BY <1>4, <3>1 DEF TakeNext, TypeOK, PCs, Pointers, NeverAborts
  <2>2. ListShape'
    BY <1>4 DEF TakeNext, TypeOK, ListShape, ListItems, Takers, Putters, Held, Pointers
  <2>3. Markers'
    BY <1>4 DEF TakeNext, TypeOK, Markers, Marked, TakeMarked, LinkMarked
  <2>4. Takers' /\ Putters'
    BY <1>4 DEF TakeNext, TypeOK, Takers, Putters, Held, Pointers, Markers, Marked, TakeMarked, LinkMarked, ListShape, ListItems
  <2>5. BlockLocked'
    BY <1>4 DEF TakeNext, TypeOK, BlockLocked, InBlockSection
  <2>6. Linkers'
    BY <1>4 DEF TakeNext, TypeOK, Linkers, Linking, ItemsOf, Putters, Takers, Held, BlockLocked, InBlockSection, Items
  <2>7. QED
    BY <2>1, <2>2, <2>3, <2>4, <2>5, <2>6
<1>5. ASSUME NEW t \in Threads, TakeDone(t) PROVE IInv'
  <2>1. /\ pc[t] = "take_done" /\ marked
        /\ item[t] \in ListItems
        /\ free_list = item[t]
        /\ next_item[t] = next[item[t]]
    BY <1>5, <1>0 DEF TakeDone, Takers, Markers, Marked, TakeMarked, ListShape
  <2>2. /\ free_list' = next[item[t]] /\ marked' = FALSE
        /\ owner' = [owner EXCEPT ![item[t]] = t]
        /\ pc' = [pc EXCEPT ![t] = "idle"]
        /\ item' = [item EXCEPT ![t] = NULL]
        /\ next_item' = [next_item EXCEPT ![t] = NULL]
        /\ UNCHANGED <<next, lock, made>>
    BY <1>5, <2>1 DEF TakeDone
  <2>3. ListItems' = ListItems \ {item[t]}
    BY <1>0, <2>1, <2>2 DEF TypeOK, ListItems
  <2>4. TypeOK' /\ NeverAborts'
    BY <2>1, <2>2 DEF TypeOK, PCs, Pointers, NeverAborts, ListItems
  <2>5. ListShape'
    BY <2>1, <2>2, <2>3 DEF ListShape
  <2>6. Markers'
    BY <2>1, <2>2 DEF TypeOK, Markers, Marked, TakeMarked, LinkMarked
  <2>7. Takers' /\ Putters'
    BY <1>0, <2>1, <2>2 DEF TypeOK, Takers, Putters, ListItems
  <2>8. BlockLocked'
    BY <2>1, <2>2 DEF TypeOK, BlockLocked, InBlockSection
  <2>9. Linkers'
    <3>1. owner[item[t]] # "heap" /\ item[t] \in Items
      BY <2>1 DEF ListItems
    <3>2. \A i \in Items : owner[i] = "heap" => owner'[i] = "heap"
      BY <2>2, <3>1 DEF TypeOK
    <3>3. QED
      BY <2>1, <2>2, <3>2 DEF TypeOK, Linkers, Linking, ItemsOf
  <2>10. QED
    BY <2>4, <2>5, <2>6, <2>7, <2>8, <2>9
<1>6. ASSUME NEW t \in Threads, Free(t) PROVE IInv'
  <2>1. TypeOK' /\ NeverAborts'
    BY <1>6 DEF Free, TypeOK, PCs, Pointers, NeverAborts, Held
  <2>2. ListShape'
    BY <1>6 DEF Free, TypeOK, ListShape, ListItems, Takers, Putters, Held, Pointers
  <2>3. Markers'
    BY <1>6 DEF Free, TypeOK, Markers, Marked, TakeMarked, LinkMarked
  <2>4. Takers' /\ Putters'
    BY <1>6 DEF Free, TypeOK, Takers, Putters, Held, Pointers, Markers, Marked, TakeMarked, LinkMarked, ListShape, ListItems
  <2>5. BlockLocked'
    BY <1>6 DEF Free, TypeOK, BlockLocked, InBlockSection
  <2>6. Linkers'
    BY <1>6 DEF Free, TypeOK, Linkers, Linking, ItemsOf, Putters, Takers, Held, BlockLocked, InBlockSection, Items
  <2>7. QED
    BY <2>1, <2>2, <2>3, <2>4, <2>5, <2>6
<1>7. ASSUME NEW t \in Threads, PutRead(t) PROVE IInv'
  <2>1. TypeOK' /\ NeverAborts'
    BY <1>7 DEF PutRead, TypeOK, PCs, Pointers, NeverAborts, Held
  <2>2. ListShape'
    BY <1>7 DEF PutRead, TypeOK, ListShape, ListItems, Takers, Putters, Held, Pointers
  <2>3. Markers'
    BY <1>7 DEF PutRead, TypeOK, Markers, Marked, TakeMarked, LinkMarked
  <2>4. Takers' /\ Putters'
    BY <1>7 DEF PutRead, TypeOK, Takers, Putters, Held, Pointers, Markers, Marked, TakeMarked, LinkMarked, ListShape, ListItems
  <2>5. BlockLocked'
    BY <1>7 DEF PutRead, TypeOK, BlockLocked, InBlockSection
  <2>6. Linkers'
    BY <1>7 DEF PutRead, TypeOK, Linkers, Linking, ItemsOf, Putters, Takers, Held, BlockLocked, InBlockSection, Items
  <2>7. QED
    BY <2>1, <2>2, <2>3, <2>4, <2>5, <2>6
<1>8. ASSUME NEW t \in Threads, PutLink(t) PROVE IInv'
  <2>1. /\ pc[t] = "put_link" /\ item[t] \in Items /\ owner[item[t]] = t
        /\ next' = [next EXCEPT ![item[t]] = next_item[t]]
        /\ pc' = [pc EXCEPT ![t] = "put_done"]
        /\ UNCHANGED <<Head, lock, made, owner, Locals>>
    BY <1>8 DEF PutLink, Putters
  <2>2. \A i \in Items : owner[i] # t => next'[i] = next[i]
    BY <2>1 DEF TypeOK
  <2>3. TypeOK' /\ NeverAborts'
    BY <2>1 DEF TypeOK, PCs, NeverAborts
  <2>4. ListShape'
    BY <1>0, <2>1, <2>2 DEF ListShape, ListItems
  <2>5. Markers' /\ BlockLocked'
    BY <2>1 DEF TypeOK, Markers, Marked, TakeMarked, LinkMarked, BlockLocked, InBlockSection
  <2>6. Takers'
    <3>1. \A u \in Threads : pc[u] = "take_done" => item[u] \in Items /\ owner[item[u]] # t
      BY <1>0 DEF Takers, Markers, Marked, TakeMarked, ListShape, ListItems
    <3>2. QED
      BY <2>1, <2>2, <3>1 DEF TypeOK, Takers
  <2>7. Putters'
    BY <2>1, <2>2 DEF TypeOK, Putters
  <2>8. Linkers'
    <3>1. \A u \in Threads : Linking(u) =>
             \A i \in ItemsOf(item[u][1]) : owner[i] # t /\ i \in Items
      BY <1>0 DEF Linkers, ItemsOf
    <3>2. \A u \in Threads : Linking(u) => item[u] \in ItemsOf(item[u][1])
      BY DEF Linkers, ItemsOf
    <3>3. \A u \in Threads : Linking(u)' <=> Linking(u)
      BY <2>1 DEF TypeOK, Linking
    <3>4. \A u \in Threads : (pc[u] = "link_done")' <=> pc[u] = "link_done"
      BY <2>1 DEF TypeOK
    <3> HIDE DEF Linking
    <3>5. QED
      BY <2>1, <2>2, <3>1, <3>2, <3>3, <3>4 DEF Linkers, ItemsOf, Linking
  <2>9. QED
    BY <2>3, <2>4, <2>5, <2>6, <2>7, <2>8
<1>9. ASSUME NEW t \in Threads, PutDone(t) PROVE IInv'
  <2>1. pc[t] = "put_done" /\ item[t] \in Items /\ owner[item[t]] = t /\ next_item[t] = next[item[t]]
    BY <1>9 DEF PutDone, Putters
  <2>2. CASE HeadIs(next_item[t], FALSE)
    <3>1. /\ free_list = next[item[t]] /\ ~marked
          /\ free_list' = item[t] /\ marked' = FALSE
          /\ owner' = [owner EXCEPT ![item[t]] = "list"]
          /\ pc' = [pc EXCEPT ![t] = "idle"]
          /\ item' = [item EXCEPT ![t] = NULL]
          /\ next_item' = [next_item EXCEPT ![t] = NULL]
          /\ UNCHANGED <<next, lock, made>>
      BY <1>9, <2>1, <2>2 DEF PutDone, TypeOK
    <3>2. ListItems' = ListItems \cup {item[t]} /\ item[t] \notin ListItems
      BY <1>0, <2>1, <3>1 DEF TypeOK, ListItems
    <3>3. TypeOK' /\ NeverAborts'
      BY <2>1, <3>1 DEF TypeOK, PCs, Pointers, NeverAborts
    <3>4. ListShape'
      BY <2>1, <3>1, <3>2 DEF ListShape
    <3>5. Markers'
      BY <2>1, <3>1 DEF TypeOK, Markers, Marked, TakeMarked, LinkMarked
    <3>6. Takers' /\ Putters'
      BY <2>1, <3>1 DEF TypeOK, Takers, Putters
    <3>7. BlockLocked'
      BY <2>1, <3>1 DEF TypeOK, BlockLocked, InBlockSection
    <3>8. Linkers'
      <4>1. \A i \in Items : owner[i] = "heap" => owner'[i] = "heap"
        BY <1>0, <2>1, <3>1 DEF TypeOK
      <4>2. QED
        BY <2>1, <3>1, <4>1 DEF TypeOK, Linkers, Linking, ItemsOf
    <3>9. QED
      BY <3>3, <3>4, <3>5, <3>6, <3>7, <3>8
  <2>3. CASE ~HeadIs(next_item[t], FALSE)
    <3>1. pc' = [pc EXCEPT ![t] = "put"] /\ UNCHANGED <<Head, next, lock, made, owner, Locals>>
      BY <1>9, <2>3 DEF PutDone
    <3>2. TypeOK' /\ NeverAborts' /\ ListShape'
      BY <3>1 DEF TypeOK, PCs, NeverAborts, ListShape, ListItems
    <3>3. Markers' /\ Takers' /\ Putters'
      BY <2>1, <3>1 DEF TypeOK, Markers, Marked, TakeMarked, LinkMarked, Takers, Putters
    <3>4. BlockLocked' /\ Linkers'
      BY <2>1, <3>1 DEF TypeOK, BlockLocked, InBlockSection, Linkers, Linking, ItemsOf
    <3>5. QED
      BY <3>2, <3>3, <3>4
  <2>4. QED
    BY <2>2, <2>3
<1>10. ASSUME NEW t \in Threads, Use(t) PROVE IInv'
  <2>1. PICK k \in Held(t), p \in Pointers : next' = [next EXCEPT ![k] = p]
    BY <1>0, <1>10 DEF Use
  <2>2. /\ pc[t] = "idle" /\ k \in Items /\ owner[k] = t
        /\ UNCHANGED <<Head, lock, made, owner, pc, Locals>>
    BY <1>10, <2>1 DEF Use, Held
  <2>3. \A i \in Items : owner[i] # t => next'[i] = next[i]
    BY <2>1, <2>2 DEF TypeOK
  <2>4. TypeOK' /\ NeverAborts'
    BY <2>1, <2>2 DEF TypeOK, NeverAborts, Pointers
  <2>5. ListShape'
    BY <1>0, <2>2, <2>3 DEF ListShape, ListItems
  <2>6. Markers' /\ BlockLocked'
    BY <2>2 DEF Markers, Marked, TakeMarked, LinkMarked, BlockLocked, InBlockSection
  <2>7. Takers'
    <3>1. \A u \in Threads : pc[u] = "take_done" => item[u] \in Items /\ owner[item[u]] # t
      BY <1>0 DEF Takers, Markers, Marked, TakeMarked, ListShape, ListItems
    <3>2. QED
      BY <2>2, <2>3, <3>1 DEF Takers
  <2>8. Putters'
    BY <2>2, <2>3 DEF Putters
  <2>9. Linkers'
    <3>1. \A u \in Threads : Linking(u) =>
             \A i \in ItemsOf(item[u][1]) : owner[i] # t /\ i \in Items
      BY <1>0 DEF Linkers, ItemsOf
    <3>2. \A u \in Threads : Linking(u) => item[u] \in ItemsOf(item[u][1])
      BY DEF Linkers, ItemsOf
    <3>3. QED
      BY <2>2, <2>3, <3>1, <3>2 DEF Linkers, Linking, ItemsOf
  <2>10. QED
    BY <2>4, <2>5, <2>6, <2>7, <2>8, <2>9
<1>11. ASSUME NEW t \in Threads, BlockLock(t) PROVE IInv'
  <2>1. TypeOK' /\ NeverAborts'
    BY <1>11 DEF BlockLock, TypeOK, PCs, Pointers, NeverAborts, Held
  <2>2. ListShape'
    BY <1>11 DEF BlockLock, TypeOK, ListShape, ListItems, Takers, Putters, Held, Pointers
  <2>3. Markers'
    BY <1>11 DEF BlockLock, TypeOK, Markers, Marked, TakeMarked, LinkMarked
  <2>4. Takers' /\ Putters'
    BY <1>11 DEF BlockLock, TypeOK, Takers, Putters, Held, Pointers, Markers, Marked, TakeMarked, LinkMarked, ListShape, ListItems
  <2>5. BlockLocked'
    BY <1>11 DEF BlockLock, TypeOK, BlockLocked, InBlockSection
  <2>6. Linkers'
    BY <1>11 DEF BlockLock, TypeOK, Linkers, Linking, ItemsOf, Putters, Takers, Held, BlockLocked, InBlockSection, Items
  <2>7. QED
    BY <2>1, <2>2, <2>3, <2>4, <2>5, <2>6
<1>12. ASSUME NEW t \in Threads, NotEmpty(t) PROVE IInv'
  <2>1. TypeOK' /\ NeverAborts'
    BY <1>12 DEF NotEmpty, TypeOK, PCs, Pointers, NeverAborts, Held
  <2>2. ListShape'
    BY <1>12 DEF NotEmpty, TypeOK, ListShape, ListItems, Takers, Putters, Held, Pointers
  <2>3. Markers'
    BY <1>12 DEF NotEmpty, TypeOK, Markers, Marked, TakeMarked, LinkMarked
  <2>4. Takers' /\ Putters'
    BY <1>12 DEF NotEmpty, TypeOK, Takers, Putters, Held, Pointers, Markers, Marked, TakeMarked, LinkMarked, ListShape, ListItems
  <2>5. BlockLocked'
    BY <1>12 DEF NotEmpty, TypeOK, BlockLocked, InBlockSection
  <2>6. Linkers'
    BY <1>12 DEF NotEmpty, TypeOK, Linkers, Linking, ItemsOf, Putters, Takers, Held, BlockLocked, InBlockSection, Items
  <2>7. QED
    BY <2>1, <2>2, <2>3, <2>4, <2>5, <2>6
<1>13. ASSUME NEW t \in Threads, MallocFails(t) PROVE IInv'
  <2>1. TypeOK' /\ NeverAborts'
    BY <1>13 DEF MallocFails, TypeOK, PCs, Pointers, NeverAborts, Held
  <2>2. ListShape'
    BY <1>13 DEF MallocFails, TypeOK, ListShape, ListItems, Takers, Putters, Held, Pointers
  <2>3. Markers'
    BY <1>13 DEF MallocFails, TypeOK, Markers, Marked, TakeMarked, LinkMarked
  <2>4. Takers' /\ Putters'
    BY <1>13 DEF MallocFails, TypeOK, Takers, Putters, Held, Pointers, Markers, Marked, TakeMarked, LinkMarked, ListShape, ListItems
  <2>5. BlockLocked'
    BY <1>13 DEF MallocFails, TypeOK, BlockLocked, InBlockSection
  <2>6. Linkers'
    BY <1>13 DEF MallocFails, TypeOK, Linkers, Linking, ItemsOf, Putters, Takers, Held, BlockLocked, InBlockSection, Items
  <2>7. QED
    BY <2>1, <2>2, <2>3, <2>4, <2>5, <2>6
<1>14. ASSUME NEW t \in Threads, NEW b \in Blocks, Malloc(t, b) PROVE IInv'
  <2>1. /\ pc[t] = "block_check" /\ b \notin made
        /\ made' = made \cup {b}
        /\ next' = [i \in Items |-> IF i[1] # b THEN next[i]
                                   ELSE IF i[2] = BlockSize THEN NULL
                                   ELSE <<b, i[2] + 1>>]
        /\ item' = [item EXCEPT ![t] = <<b, BlockSize>>]
        /\ pc' = [pc EXCEPT ![t] = "link"]
        /\ UNCHANGED <<Head, lock, owner, next_item>>
    BY <1>14 DEF Malloc, IsNextBlock
  <2>2. \A i \in Items : i[1] = b => owner[i] = "heap"
    BY <2>1 DEF Linkers
  <2>3. \A i \in Items : i[1] # b => next'[i] = next[i]
    BY <2>1
  <2>4. <<b, BlockSize>> \in Items /\ <<b, BlockSize>>[1] = b /\ <<b, BlockSize>>[2] = BlockSize
    BY <1>0 DEF Items
  <2>5. TypeOK' /\ NeverAborts'
    <3>1. ASSUME NEW i \in Items, i[1] = b, i[2] # BlockSize PROVE <<b, i[2] + 1>> \in Items
      BY <1>0, <3>1 DEF Items
    <3>2. next' \in [Items -> Pointers]
      BY <2>1, <3>1 DEF TypeOK, Pointers
    <3>3. item' \in [Threads -> Pointers]
      BY <2>1, <2>4 DEF TypeOK, Pointers
    <3>4. QED
      BY <2>1, <3>2, <3>3 DEF TypeOK, PCs, NeverAborts
  <2>6. ListShape'
    BY <1>0, <2>1, <2>2, <2>3 DEF ListShape, ListItems
  <2>7. Markers' /\ BlockLocked'
    BY <2>1 DEF TypeOK, Markers, Marked, TakeMarked, LinkMarked, BlockLocked, InBlockSection
  <2>8. Takers'
    <3>1. \A u \in Threads : pc[u] = "take_done" => item[u] \in Items /\ owner[item[u]] # "heap"
      BY <1>0 DEF Takers, Markers, Marked, TakeMarked, ListShape, ListItems
    <3>2. QED
      BY <2>1, <2>2, <2>3, <3>1 DEF TypeOK, Takers
  <2>9. Putters'
    <3>1. \A u \in Threads : pc[u] \in {"put", "put_link", "put_done"} => owner[item[u]] # "heap"
      BY <1>0 DEF Putters
    <3>2. QED
      BY <2>1, <2>2, <2>3, <3>1 DEF TypeOK, Putters
  <2>10. Linkers'
    <3>1. \A u \in Threads : u # t => ~Linking(u)
      BY <2>1 DEF BlockLocked, InBlockSection, Linking
    <3>2. \A u \in Threads : Linking(u)' => u = t
      BY <2>1, <3>1 DEF TypeOK, Linking
    <3>3. item'[t] = <<b, BlockSize>> /\ pc'[t] = "link"
      BY <2>1 DEF TypeOK
    <3>4. \A i \in Items : i[1] \notin made' => owner'[i] = "heap"
      BY <2>1 DEF Linkers
    <3>5. ASSUME NEW i \in Items, i[1] = b, i # <<b, BlockSize>>
          PROVE  owner'[i] = "heap" /\ next'[i] = <<i[1], i[2] + 1>>
      <4>1. i[2] # BlockSize
        BY <3>5 DEF Items
      <4>2. QED
        BY <2>1, <2>2, <3>5, <4>1
    <3>6. owner'[<<b, BlockSize>>] = "heap"
      BY <2>1, <2>2, <2>4
    <3>7. \A u \in Threads : pc'[u] # "link_done"
      BY <2>1, <3>1 DEF TypeOK, Linking
    <3>8. QED
      BY <2>1, <2>4, <3>2, <3>3, <3>4, <3>5, <3>6, <3>7 DEF Linkers, ItemsOf
  <2>11. QED
    BY <2>5, <2>6, <2>7, <2>8, <2>9, <2>10
<1>15. ASSUME NEW t \in Threads, LinkRead(t) PROVE IInv'
  <2>1. TypeOK' /\ NeverAborts'
    BY <1>15 DEF LinkRead, TypeOK, PCs, Pointers, NeverAborts, Held
  <2>2. ListShape'
    BY <1>15 DEF LinkRead, TypeOK, ListShape, ListItems, Takers, Putters, Held, Pointers
  <2>3. Markers'
    BY <1>15 DEF LinkRead, TypeOK, Markers, Marked, TakeMarked, LinkMarked
  <2>4. Takers' /\ Putters'
    BY <1>15 DEF LinkRead, TypeOK, Takers, Putters, Held, Pointers, Markers, Marked, TakeMarked, LinkMarked, ListShape, ListItems
  <2>5. BlockLocked'
    BY <1>15 DEF LinkRead, TypeOK, BlockLocked, InBlockSection
  <2>6. Linkers'
    BY <1>15 DEF LinkRead, TypeOK, Linkers, Linking, ItemsOf, Putters, Takers, Held, BlockLocked, InBlockSection, Items
  <2>7. QED
    BY <2>1, <2>2, <2>3, <2>4, <2>5, <2>6
<1>16. ASSUME NEW t \in Threads, LinkMark(t) PROVE IInv'
  <2>1. TypeOK' /\ NeverAborts'
    BY <1>16 DEF LinkMark, TypeOK, PCs, Pointers, NeverAborts, Held
  <2>2. ListShape'
    BY <1>16 DEF LinkMark, TypeOK, ListShape, ListItems, Takers, Putters, Held, Pointers
  <2>3. Markers'
    BY <1>16 DEF LinkMark, TypeOK, Markers, Marked, TakeMarked, LinkMarked
  <2>4. Takers' /\ Putters'
    BY <1>16 DEF LinkMark, TypeOK, Takers, Putters, Held, Pointers, Markers, Marked, TakeMarked, LinkMarked, ListShape, ListItems
  <2>5. BlockLocked'
    BY <1>16 DEF LinkMark, TypeOK, BlockLocked, InBlockSection
  <2>6. Linkers'
    BY <1>16 DEF LinkMark, TypeOK, Linkers, Linking, ItemsOf, Putters, Takers, Held, BlockLocked, InBlockSection, Items
  <2>7. QED
    BY <2>1, <2>2, <2>3, <2>4, <2>5, <2>6
<1>17. ASSUME NEW t \in Threads, LinkLast(t) PROVE IInv'
  <2>1. /\ pc[t] = "link_last" /\ item[t] \in Items /\ owner[item[t]] = "heap"
        /\ next' = [next EXCEPT ![item[t]] = next_item[t]]
        /\ pc' = [pc EXCEPT ![t] = "link_done"]
        /\ UNCHANGED <<Head, lock, made, owner, Locals>>
    BY <1>17 DEF LinkLast, Linkers, Linking, ItemsOf
  <2>2. \A i \in Items : i # item[t] => next'[i] = next[i]
    BY <2>1 DEF TypeOK
  <2>3. TypeOK' /\ NeverAborts'
    BY <2>1 DEF TypeOK, PCs, NeverAborts
  <2>4. ListShape'
    BY <1>0, <2>1, <2>2 DEF ListShape, ListItems
  <2>5. Markers' /\ BlockLocked'
    BY <2>1 DEF TypeOK, Markers, Marked, TakeMarked, LinkMarked, BlockLocked, InBlockSection
  <2>6. Takers'
    <3>1. \A u \in Threads : pc[u] = "take_done" => item[u] \in Items /\ owner[item[u]] # "heap"
      BY <1>0 DEF Takers, Markers, Marked, TakeMarked, ListShape, ListItems
    <3>2. QED
      BY <2>1, <2>2, <3>1 DEF TypeOK, Takers
  <2>7. Putters'
    <3>1. \A u \in Threads : pc[u] \in {"put", "put_link", "put_done"} => owner[item[u]] # "heap"
      BY <1>0 DEF Putters
    <3>2. QED
      BY <2>1, <2>2, <3>1 DEF TypeOK, Putters
  <2>8. Linkers'
    <3>1. \A u \in Threads : Linking(u) => u = t
      BY <2>1 DEF BlockLocked, InBlockSection, Linking
    <3>2. \A u \in Threads : Linking(u)' => u = t
      BY <2>1, <3>1 DEF TypeOK, Linking
    <3>3. Linking(t) /\ next'[item[t]] = next_item[t]
      BY <2>1 DEF Linking, TypeOK
    <3>4. \A u \in Threads : pc'[u] = "link_done" => u = t
      BY <3>2 DEF Linking
    <3>5. QED
      BY <2>1, <2>2, <3>2, <3>3, <3>4 DEF Linkers, ItemsOf
  <2>9. QED
    BY <2>3, <2>4, <2>5, <2>6, <2>7, <2>8
<1>18. ASSUME NEW t \in Threads, LinkDone(t) PROVE IInv'
  <2> DEFINE b == item[t][1]
  <2>1. /\ pc[t] = "link_done" /\ Linking(t) /\ InBlockSection(t)
        /\ item[t] \in ItemsOf(b)
        /\ item[t][2] = BlockSize
        /\ \A i \in ItemsOf(b) : owner[i] = "heap" /\ (i # item[t] => next[i] = <<b, i[2] + 1>>)
        /\ next[item[t]] = next_item[t]
    BY <1>18 DEF LinkDone, Linkers, Linking, ItemsOf, InBlockSection
  <2>2. \A u \in Threads : InBlockSection(u) => u = t
    BY <2>1 DEF BlockLocked
  <2>3. CASE HeadIs(next_item[t], MarkToLink)
    <3>1. /\ free_list' = <<b, 1>> /\ marked' = FALSE
          /\ owner' = [i \in Items |-> IF i \in ItemsOf(b) THEN "list" ELSE owner[i]]
          /\ pc' = [pc EXCEPT ![t] = "unlock"]
          /\ UNCHANGED <<next, lock, made, Locals>>
          /\ free_list = next[item[t]]
          /\ marked = MarkToLink
      BY <1>18, <2>1, <2>3 DEF LinkDone, TypeOK
    <3>2. ItemsOf(b) \subseteq Items /\ <<b, 1>> \in ItemsOf(b)
      BY <1>0, <2>1 DEF Items, ItemsOf
    <3>3. ListItems' = ListItems \cup ItemsOf(b) /\ ListItems \cap ItemsOf(b) = {}
      BY <2>1, <3>1, <3>2 DEF ListItems
    <3>4. TypeOK' /\ NeverAborts'
      BY <3>1, <3>2 DEF TypeOK, PCs, Pointers, NeverAborts
    <3>5. ListShape'
      <4>1. ASSUME NEW i \in ItemsOf(b), i # item[t]
            PROVE  next[i] = <<b, i[2] + 1>> /\ next[i] \in ItemsOf(b) /\ next[i] # <<b, 1>>
        <5>1. i = <<b, i[2]>> /\ i[2] \in 1..BlockSize /\ item[t] = <<b, BlockSize>> /\ b \in Blocks
          BY <2>1 DEF Items, ItemsOf
        <5>2. i[2] + 1 \in 1..BlockSize /\ i[2] + 1 # 1
          BY <1>0, <4>1, <5>1
        <5>3. QED
          BY <2>1, <4>1, <5>1, <5>2 DEF Items, ItemsOf
      <4>2. ASSUME NEW i \in ItemsOf(b), NEW j \in ItemsOf(b), i # item[t], j # item[t],
                   next[i] = next[j]
            PROVE  i = j
        <5>1. i[2] \in Int /\ j[2] \in Int /\ i = <<b, i[2]>> /\ j = <<b, j[2]>>
          BY DEF Items, ItemsOf
        <5>2. i[2] + 1 = j[2] + 1
          BY <2>1, <4>2
        <5>3. QED
          BY <5>1, <5>2
      <4>3. free_list' \in ListItems'
        BY <3>1, <3>2, <3>3
      <4>4. \A i \in ListItems : next[i] # NULL => next[i] \in ListItems /\ next[i] # next[item[t]]
        BY <3>1 DEF ListShape
      <4>5. next[item[t]] # NULL => next[item[t]] \in ListItems
        BY <3>1 DEF ListShape
      <4>6. \A i \in ListItems' : next'[i] # NULL => next'[i] \in ListItems' /\ next'[i] # free_list'
        BY <3>1, <3>2, <3>3, <4>1, <4>4, <4>5
      <4>7. \A i, j \in ListItems' : next'[i] = next'[j] /\ next'[i] # NULL => i = j
        <5>1. \A i, j \in ListItems : next[i] = next[j] /\ next[i] # NULL => i = j
          BY DEF ListShape
        <5>2. QED
          BY <2>1, <3>1, <3>3, <4>1, <4>2, <4>4, <4>5, <5>1
      <4>8. QED
        BY <4>3, <4>6, <4>7 DEF ListShape
    <3>6. Markers'
      <4>1. \A u \in Threads : ~Marked(u)'
        BY <2>1, <3>1 DEF TypeOK, Markers, Marked, TakeMarked, LinkMarked
      <4>2. QED
        BY <4>1 DEF Markers, Marked
    <3>7. Takers'
      BY <3>1 DEF TypeOK, Takers
    <3>8. Putters'
      <4>1. \A u \in Threads : pc[u] \in {"put", "put_link", "put_done"} =>
               item[u] \in Items \ ItemsOf(b)
        BY <1>0, <2>1 DEF Putters
      <4>2. QED
        BY <3>1, <4>1 DEF TypeOK, Putters
    <3>9. BlockLocked'
      BY <2>1, <3>1 DEF TypeOK, BlockLocked, InBlockSection
    <3>10. Linkers'
      <4>1. \A u \in Threads : ~Linking(u)' /\ pc'[u] # "link_done"
        BY <2>2, <3>1 DEF TypeOK, Linking, InBlockSection
      <4>2. \A i \in Items : i[1] \notin made' => i \notin ItemsOf(b)
        BY <2>1, <3>1 DEF Linkers, ItemsOf
      <4>3. QED
        BY <3>1, <4>1, <4>2 DEF Linkers
    <3>11. QED
      BY <3>4, <3>5, <3>6, <3>7, <3>8, <3>9, <3>10
  <2>4. CASE ~HeadIs(next_item[t], MarkToLink)
    <3>1. ~MarkToLink
      BY <1>0, <2>1, <2>4 DEF Markers, Marked, LinkMarked, TypeOK
    <3>2. pc' = [pc EXCEPT ![t] = "link"] /\ UNCHANGED <<Head, next, lock, made, owner, Locals>>
      BY <1>18, <2>4, <3>1 DEF LinkDone
    <3>3. TypeOK' /\ NeverAborts' /\ ListShape'
      BY <3>2 DEF TypeOK, PCs, NeverAborts, ListShape, ListItems
    <3>4. Markers' /\ Takers' /\ Putters'
      BY <2>1, <3>2 DEF TypeOK, Markers, Marked, TakeMarked, LinkMarked, Takers, Putters
    <3>5. BlockLocked' /\ Linkers'
      BY <2>1, <3>2 DEF TypeOK, BlockLocked, InBlockSection, Linkers, Linking, ItemsOf
    <3>6. QED
      BY <3>3, <3>4, <3>5
  <2>5. QED
    BY <2>3, <2>4
<1>19. ASSUME NEW t \in Threads, Unlock(t) PROVE IInv'
  <2>1. TypeOK' /\ NeverAborts'
    BY <1>19 DEF Unlock, TypeOK, PCs, Pointers, NeverAborts, Held
  <2>2. ListShape'
    BY <1>19 DEF Unlock, TypeOK, ListShape, ListItems, Takers, Putters, Held, Pointers
  <2>3. Markers'
    BY <1>19 DEF Unlock, TypeOK, Markers, Marked, TakeMarked, LinkMarked
  <2>4. Takers' /\ Putters'
    BY <1>19 DEF Unlock, TypeOK, Takers, Putters, Held, Pointers, Markers, Marked, TakeMarked, LinkMarked, ListShape, ListItems
  <2>5. BlockLocked'
    BY <1>19 DEF Unlock, TypeOK, BlockLocked, InBlockSection
  <2>6. Linkers'
    BY <1>19 DEF Unlock, TypeOK, Linkers, Linking, ItemsOf, Putters, Takers, Held, BlockLocked, InBlockSection, Items
  <2>7. QED
    BY <2>1, <2>2, <2>3, <2>4, <2>5, <2>6
<1>20. CASE UNCHANGED vars
  <2>1. TypeOK' /\ NeverAborts' /\ ListShape' /\ Markers' /\ Takers'
    BY <1>20 DEF vars, TypeOK, NeverAborts, ListShape, ListItems, Markers, Marked, TakeMarked,
               LinkMarked, Takers
  <2>2. Putters' /\ BlockLocked' /\ Linkers'
    BY <1>20 DEF vars, Putters, BlockLocked, InBlockSection, Linkers, Linking, ItemsOf
  <2>3. QED
    BY <2>1, <2>2
<1>21. QED
  BY <1>1, <1>2, <1>3, <1>4, <1>5, <1>6, <1>7, <1>8, <1>9, <1>10, <1>11, <1>12, <1>13, <1>14, <1>15, <1>16, <1>17, <1>18, <1>19, <1>20
  DEF Next, Step
-----------------------------------------------------------------------------

(* Every set of numbers up to N has a least one.                           *)
LEMMA LeastNumber ==
  ASSUME NEW N \in Nat, NEW T \in SUBSET (1..N), T # {}
  PROVE  \E x \in T : \A y \in T : x <= y
<1> DEFINE R == StrictSubsetOrdering(1..N)
           Below == {1..k : k \in T}
<1>1. IsFiniteSet(1..N) /\ \A k \in T : 1..k \in SUBSET (1..N)
  BY FS_Interval
<1>2. IsWellFoundedOn(R, SUBSET (1..N))
  BY <1>1, FS_StrictSubsetOrderingWellFounded, FS_FiniteSubsetsOfFinite
<1>3. Below \subseteq SUBSET (1..N) /\ Below # {}
  BY <1>1
<1> HIDE DEF R
<1>4. PICK U \in Below : \A V \in Below : <<V, U>> \notin R
  BY <1>2, <1>3, WFMin
<1>5. PICK x \in T : U = 1..x
  BY <1>4
<1>6. ASSUME NEW y \in T, ~(x <= y) PROVE FALSE
  <2>1. x \in Nat /\ y \in Nat /\ x >= 1 /\ y < x
    BY <1>6
  <2>2. 1..y \subseteq 1..x /\ x \in 1..x /\ x \notin 1..y
    BY <2>1
  <2>3. <<1..y, U>> \in R
    BY <1>1, <1>5, <2>2 DEF R, StrictSubsetOrdering
  <2>4. QED
    BY <1>4, <2>3
<1>7. QED
  BY <1>6

(* Who has the first item of a chained block has all of them.              *)
LEMMA ChainReached ==
  ASSUME NEW b \in Blocks, NEW S \in SUBSET Items, ClosedUnderNext(S), <<b, 1>> \in S,
         \A i \in ItemsOf(b) : i[2] # BlockSize => next[i] = <<b, i[2] + 1>>
  PROVE  ItemsOf(b) \subseteq S
<1> DEFINE T == {k \in 1..BlockSize : <<b, k>> \notin S}
<1>1. BlockSize \in Nat \ {0} /\ NULL \notin Items
  BY FreeListAssumption
<1>2. T = {}
  <2>1. SUFFICES ASSUME T # {} PROVE FALSE
    OBVIOUS
  <2>2. PICK x \in T : \A y \in T : x <= y
    <3>1. T \in SUBSET (1..BlockSize) /\ BlockSize \in Nat
      BY <1>1
    <3> HIDE DEF T
    <3>2. QED
      BY <2>1, <3>1, LeastNumber
  <2>3. x \in 2..BlockSize
    BY <1>1
  <2>4. x - 1 \in 1..BlockSize /\ x - 1 # BlockSize /\ x - 1 \notin T
    BY <1>1, <2>2, <2>3
  <2>5. <<b, x - 1>> \in S /\ <<b, x - 1>> \in ItemsOf(b)
    BY <2>4 DEF ItemsOf, Items
  <2>6. next[<<b, x - 1>>] = <<b, x>>
    BY <2>3, <2>4, <2>5
  <2>7. <<b, x>> \in S
    BY <1>1, <2>3, <2>5, <2>6 DEF ClosedUnderNext, Items
  <2>8. QED
    BY <2>7
<1>3. QED
  BY <1>2 DEF ItemsOf, Items

-----------------------------------------------------------------------------
(* The list again, as what the head leads to, and how much is malloced     *)

(* A part of the list that holds the head and all its successors is the    *)
(* whole list.                                                             *)
AllReached ==
  \A S \in SUBSET ListItems :
     free_list \in S \cup {NULL} /\ ClosedUnderNext(S) => S = ListItems

(* Of the blocks that were malloced, the one being linked is nobody's.     *)
MadeOwned ==
  \A i \in Items : i[1] \in made /\ owner[i] = "heap" =>
     \E t \in Threads : Linking(t) /\ item[t][1] = i[1]

(* A thread that is taking an item has room for it.                        *)
Taking(t) == pc[t] \notin {"idle", "put", "put_link", "put_done", "aborted"}

HeldBounded ==
  \A t \in Threads :
     /\ IsFiniteSet(Held(t)) /\ Cardinality(Held(t)) <= MaxHeld
     /\ Taking(t) => Cardinality(Held(t)) < MaxHeld

MadeBounded == IsFiniteSet(made) /\ MemoryBounded

LEMMA InitMore == Init => AllReached /\ MadeOwned /\ HeldBounded /\ MadeBounded
<1> SUFFICES ASSUME Init PROVE AllReached /\ MadeOwned /\ HeldBounded /\ MadeBounded
  OBVIOUS
<1>1. MaxHeld \in Nat /\ "heap" \notin Threads
  BY FreeListAssumption
<1>2. AllReached /\ MadeOwned
  BY DEF Init, AllReached, MadeOwned, ListItems
<1>3. \A t \in Threads : Held(t) = {}
  BY <1>1 DEF Init, Held
<1>4. HeldBounded
  BY <1>1, <1>3, FS_EmptySet DEF HeldBounded, Taking, Init
<1>5. MadeBounded
  BY FS_EmptySet DEF MadeBounded, MemoryBounded, Init
<1>6. QED
  BY <1>2, <1>4, <1>5

(* The list, when neither its head nor a successor in it changes.          *)
LEMMA ListUntouched ==
  ASSUME IInv, AllReached, UNCHANGED <<free_list, owner>>,
         \A i \in ListItems : next'[i] = next[i]
  PROVE  AllReached'
<1>1. ListItems' = ListItems
  BY DEF ListItems
<1>2. ASSUME NEW S \in SUBSET ListItems, ClosedUnderNext(S)' PROVE ClosedUnderNext(S)
  BY <1>2 DEF ClosedUnderNext
<1>3. QED
  BY <1>1, <1>2 DEF AllReached

LEMMA StepReached == ASSUME IInv, AllReached, [Next]_vars PROVE AllReached'
<1> USE DEF At, GoTo, Return, Head, Locals, HeadIs, SetHead
<1>0. /\ "list" \notin Threads /\ "heap" \notin Threads /\ NULL \notin Items
      /\ BlockSize \in Nat \ {0} /\ MarkToLink \in BOOLEAN
      /\ TypeOK
  BY FreeListAssumption DEF IInv
<1>1. ASSUME NEW t \in Threads, TakeDone(t), HeadIs(item[t], TRUE) PROVE AllReached'
  <2> DEFINE h == item[t]
  <2>1. h \in ListItems /\ free_list = h /\ next_item[t] = next[h] /\ h \in Items
    BY <1>0, <1>1 DEF TakeDone, IInv, Takers, ListShape, ListItems
  <2>2. free_list' = next[h] /\ next' = next /\ owner' = [owner EXCEPT ![h] = t]
    BY <1>1, <2>1 DEF TakeDone
  <2>3. ListItems' = ListItems \ {h}
    BY <1>0, <2>1, <2>2 DEF TypeOK, ListItems
  <2>4. ASSUME NEW S \in SUBSET ListItems', free_list' \in S \cup {NULL}, ClosedUnderNext(S)'
        PROVE  S = ListItems'
    <3>1. S \cup {h} \in SUBSET ListItems /\ ClosedUnderNext(S \cup {h})
      BY <2>1, <2>2, <2>3, <2>4 DEF ClosedUnderNext
    <3>2. S \cup {h} = ListItems
      BY <2>1, <3>1 DEF AllReached
    <3>3. QED
      BY <2>3, <3>2
  <2>5. QED
    BY <2>4 DEF AllReached
<1>2. ASSUME NEW t \in Threads, PutDone(t), HeadIs(next_item[t], FALSE) PROVE AllReached'
  <2> DEFINE i == item[t]
  <2>1. i \in Items /\ i \notin ListItems /\ next[i] = free_list
    BY <1>0, <1>2 DEF PutDone, IInv, Putters, ListItems
  <2>2. free_list' = i /\ next' = next /\ owner' = [owner EXCEPT ![i] = "list"]
    BY <1>2 DEF PutDone
  <2>3. ListItems' = ListItems \cup {i}
    BY <1>0, <2>1, <2>2 DEF TypeOK, ListItems
  <2>4. ASSUME NEW S \in SUBSET ListItems', free_list' \in S \cup {NULL}, ClosedUnderNext(S)'
        PROVE  S = ListItems'
    <3>1. S \ {i} \in SUBSET ListItems
      BY <2>3
    <3>2. i \in S
      BY <1>0, <2>1, <2>2, <2>4
    <3>3. free_list \in (S \ {i}) \cup {NULL}
      BY <1>0, <2>1, <2>2, <2>4, <3>2 DEF ClosedUnderNext, IInv, ListShape
    <3>4. ClosedUnderNext(S \ {i})
      BY <2>1, <2>2, <2>4, <3>1 DEF ClosedUnderNext, IInv, ListShape
    <3>5. S \ {i} = ListItems
      BY <3>1, <3>3, <3>4 DEF AllReached
    <3>6. QED
      BY <2>3, <3>2, <3>5
  <2>5. QED
    BY <2>4 DEF AllReached
<1>3. ASSUME NEW t \in Threads, LinkDone(t), HeadIs(next_item[t], MarkToLink)
      PROVE  AllReached'
  <2> DEFINE b == item[t][1]
  <2>1. /\ b \in Blocks /\ item[t] = <<b, BlockSize>> /\ item[t] \in ItemsOf(b)
        /\ \A i \in ItemsOf(b) : /\ owner[i] = "heap"
                                 /\ i[2] # BlockSize => next[i] = <<b, i[2] + 1>>
        /\ next[item[t]] = free_list
    BY <1>0, <1>3 DEF LinkDone, IInv, Linkers, Linking, Items, ItemsOf
  <2>2. /\ free_list' = <<b, 1>> /\ next' = next
        /\ owner' = [i \in Items |-> IF i \in ItemsOf(b) THEN "list" ELSE owner[i]]
    BY <1>3 DEF LinkDone
  <2>3. ListItems' = ListItems \cup ItemsOf(b)
    BY <2>2 DEF ListItems, ItemsOf
  <2>4. ListItems \cap ItemsOf(b) = {}
    BY <2>1 DEF ListItems
  <2>5. ASSUME NEW S \in SUBSET ListItems', free_list' \in S \cup {NULL}, ClosedUnderNext(S)'
        PROVE  S = ListItems'
    <3>1. <<b, 1>> \in Items /\ S \in SUBSET Items
      BY <1>0, <2>1 DEF Items, ListItems
    <3>2. <<b, 1>> \in S /\ ClosedUnderNext(S)
      BY <1>0, <2>2, <2>5, <3>1 DEF ClosedUnderNext
    <3>3. ItemsOf(b) \subseteq S
      BY <2>1, <3>1, <3>2, ChainReached
    <3>4. free_list \in (S \cap ListItems) \cup {NULL}
      BY <2>1, <3>2, <3>3 DEF ClosedUnderNext, IInv, ListShape
    <3>5. ClosedUnderNext(S \cap ListItems)
      BY <3>2 DEF ClosedUnderNext, IInv, ListShape
    <3>6. S \cap ListItems = ListItems
      BY <3>4, <3>5 DEF AllReached
    <3>7. QED
      BY <2>3, <3>3, <3>6
  <2>6. QED
    BY <2>5 DEF AllReached
<1>4. ASSUME NEW t \in Threads, PutLink(t) PROVE AllReached'
  <2>1. item[t] \notin ListItems
    BY <1>0, <1>4 DEF PutLink, IInv, Putters, ListItems
  <2>2. QED
    BY <1>0, <1>4, <2>1, ListUntouched DEF PutLink, TypeOK, ListItems
<1>5. ASSUME NEW t \in Threads, Use(t) PROVE AllReached'
  BY <1>0, <1>5, ListUntouched DEF Use, Held, TypeOK, ListItems
<1>6. ASSUME NEW t \in Threads, NEW b \in Blocks, Malloc(t, b) PROVE AllReached'
  <2>1. \A i \in ListItems : i[1] # b
    BY <1>6 DEF Malloc, IsNextBlock, IInv, Linkers, ListItems
  <2>2. QED
    BY <1>6, <2>1, ListUntouched DEF Malloc, ListItems
<1>7. ASSUME NEW t \in Threads, LinkLast(t) PROVE AllReached'
  <2>1. item[t] \notin ListItems
    BY <1>7 DEF LinkLast, IInv, Linkers, Linking, ListItems, ItemsOf
  <2>2. QED
    BY <1>0, <1>7, <2>1, ListUntouched DEF LinkLast, TypeOK, ListItems
<1>8. ASSUME NEW t \in Threads, TakeMark(t) PROVE AllReached'
  BY <1>8, ListUntouched DEF TakeMark
<1>9. ASSUME NEW t \in Threads, LinkMark(t) PROVE AllReached'
  BY <1>9, ListUntouched DEF LinkMark
<1>10. ASSUME UNCHANGED <<free_list, next, owner>> PROVE AllReached'
  BY <1>10, ListUntouched
<1>11. QED
  BY <1>1, <1>2, <1>3, <1>4, <1>5, <1>6, <1>7, <1>8, <1>9, <1>10
  DEF Next, Step, vars, Alloc, Free, TakeRead, TakeNext, TakeDone, PutRead, PutDone,
      BlockLock, NotEmpty, MallocFails, LinkRead, LinkDone, Unlock

LEMMA StepOwned == ASSUME IInv, MadeOwned, [Next]_vars PROVE MadeOwned'
<1> USE DEF At, GoTo, Return, Head, Locals, HeadIs, SetHead
<1>0. "list" \notin Threads /\ "heap" \notin Threads /\ TypeOK
  BY FreeListAssumption DEF IInv
<1>1. ASSUME UNCHANGED <<owner, made>>,
             \A t \in Threads : Linking(t) => Linking(t)' /\ item'[t] = item[t]
      PROVE  MadeOwned'
  BY <1>1 DEF MadeOwned
<1>2. ASSUME NEW t \in Threads, TakeDone(t) PROVE MadeOwned'
  <2>1. \A i \in Items : owner'[i] = "heap" => owner[i] = "heap"
    BY <1>0, <1>2 DEF TakeDone, TypeOK
  <2>2. \A u \in Threads : Linking(u) => Linking(u)' /\ item'[u] = item[u]
    BY <1>0, <1>2 DEF TakeDone, TypeOK, Linking
  <2>3. QED
    BY <1>2, <2>1, <2>2 DEF TakeDone, MadeOwned
<1>3. ASSUME NEW t \in Threads, PutDone(t) PROVE MadeOwned'
  <2>1. \A i \in Items : owner'[i] = "heap" => owner[i] = "heap"
    BY <1>0, <1>3 DEF PutDone, TypeOK
  <2>2. \A u \in Threads : Linking(u) => Linking(u)' /\ item'[u] = item[u]
    BY <1>0, <1>3 DEF PutDone, TypeOK, Linking
  <2>3. QED
    BY <1>3, <2>1, <2>2 DEF PutDone, MadeOwned
<1>4. ASSUME NEW t \in Threads, NEW b \in Blocks, Malloc(t, b) PROVE MadeOwned'
  <2>1. \A u \in Threads : ~Linking(u)
    BY <1>4 DEF Malloc, IInv, BlockLocked, InBlockSection, Linking
  <2>2. Linking(t)' /\ item'[t][1] = b
    BY <1>0, <1>4 DEF Malloc, Linking, TypeOK
  <2>3. QED
    BY <1>4, <2>1, <2>2 DEF Malloc, MadeOwned
<1>5. ASSUME NEW t \in Threads, LinkDone(t) PROVE MadeOwned'
  <2>1. \A u \in Threads : Linking(u) => u = t
    BY <1>5 DEF LinkDone, IInv, BlockLocked, InBlockSection, Linking
  <2>2. CASE HeadIs(next_item[t], MarkToLink)
    BY <1>5, <2>1, <2>2 DEF LinkDone, MadeOwned, ItemsOf
  <2>3. CASE ~HeadIs(next_item[t], MarkToLink)
    <3>1. ~MarkToLink
      BY <1>5, <2>3, FreeListAssumption DEF LinkDone, IInv, Markers, Marked, LinkMarked
    <3>2. QED
      BY <1>0, <1>1, <1>5, <2>1, <2>3, <3>1 DEF LinkDone, Linking, TypeOK
  <2>4. QED
    BY <2>2, <2>3
<1>6. ASSUME NEW t \in Threads, Step(t) \/ Alloc(t) \/ Free(t) \/ Use(t),
             ~TakeDone(t), ~PutDone(t), ~LinkDone(t), \A b \in Blocks : ~Malloc(t, b)
      PROVE  MadeOwned'
  <2>1. UNCHANGED <<owner, made>>
    BY <1>6
    DEF Step, Alloc, Free, Use, TakeRead, TakeMark, TakeNext, PutRead, PutLink, BlockLock,
        NotEmpty, MallocFails, LinkRead, LinkMark, LinkLast, Unlock
  <2>2. \A u \in Threads : Linking(u) => Linking(u)' /\ item'[u] = item[u]
    BY <1>0, <1>6
    DEF Step, Alloc, Free, Use, TakeRead, TakeMark, TakeNext, PutRead, PutLink, BlockLock,
        NotEmpty, MallocFails, LinkRead, LinkMark, LinkLast, Unlock, TypeOK, Linking
  <2>3. QED
    BY <1>1, <2>1, <2>2
<1>7. QED
  BY <1>1, <1>2, <1>3, <1>4, <1>5, <1>6 DEF Next, vars, Linking

LEMMA StepHeld == ASSUME IInv, HeldBounded, [Next]_vars PROVE HeldBounded'
<1> USE DEF At, GoTo, Return, Head, Locals, HeadIs, SetHead
<1>0. /\ "list" \notin Threads /\ "heap" \notin Threads /\ MaxHeld \in Nat
      /\ MarkToLink \in BOOLEAN /\ TypeOK
  BY FreeListAssumption DEF IInv
<1>1. ASSUME UNCHANGED owner, \A t \in Threads : Taking(t)' => Taking(t) PROVE HeldBounded'
  BY <1>1 DEF HeldBounded, Held
<1>2. ASSUME NEW t \in Threads, TakeDone(t) PROVE HeldBounded'
  <2> DEFINE h == item[t]
  <2>1. HeadIs(h, TRUE) /\ owner[h] = "list" /\ h \in Items
    BY <1>0, <1>2, FreeListAssumption
    DEF TakeDone, IInv, Takers, Markers, Marked, TakeMarked, ListShape, ListItems, TypeOK
  <2>2. owner' = [owner EXCEPT ![h] = t] /\ pc' = [pc EXCEPT ![t] = "idle"]
    BY <1>2, <2>1 DEF TakeDone
  <2>3. Held(t)' = Held(t) \cup {h} /\ h \notin Held(t)
    BY <1>0, <2>1, <2>2 DEF Held, TypeOK
  <2>4. \A u \in Threads \ {t} : Held(u)' = Held(u)
    BY <1>0, <2>1, <2>2 DEF Held, TypeOK
  <2>5. IsFiniteSet(Held(t)) /\ Cardinality(Held(t)) < MaxHeld /\ Cardinality(Held(t)) \in Nat
    BY <1>2, FS_CardinalityType DEF TakeDone, HeldBounded, Taking
  <2>6. IsFiniteSet(Held(t)') /\ Cardinality(Held(t)') <= MaxHeld
    <3>1. /\ IsFiniteSet(Held(t) \cup {h})
          /\ Cardinality(Held(t) \cup {h}) = Cardinality(Held(t)) + 1
      BY <2>3, <2>5, FS_AddElement
    <3>2. QED
      BY <1>0, <2>3, <2>5, <3>1
  <2>7. ~Taking(t)' /\ \A u \in Threads \ {t} : Taking(u)' => Taking(u)
    BY <1>0, <2>2 DEF Taking, TypeOK
  <2>8. QED
    BY <2>4, <2>6, <2>7 DEF HeldBounded
<1>3. ASSUME NEW t \in Threads, PutDone(t) PROVE HeldBounded'
  <2>1. \A u \in Threads : Taking(u)' => Taking(u)
    BY <1>0, <1>3 DEF PutDone, Taking, TypeOK
  <2>2. \A u \in Threads : Held(u)' \subseteq Held(u)
    BY <1>0, <1>3 DEF PutDone, Held, TypeOK
  <2>3. ASSUME NEW u \in Threads
        PROVE  /\ IsFiniteSet(Held(u)') /\ Cardinality(Held(u)') <= MaxHeld
               /\ Taking(u)' => Cardinality(Held(u)') < MaxHeld
    <3>1. /\ IsFiniteSet(Held(u)') /\ Cardinality(Held(u)') <= Cardinality(Held(u))
          /\ Cardinality(Held(u)') \in Nat /\ Cardinality(Held(u)) \in Nat
      BY <2>2, FS_Subset, FS_CardinalityType DEF HeldBounded
    <3>2. QED
      BY <1>0, <2>1, <3>1 DEF HeldBounded
  <2>4. QED
    BY <2>3 DEF HeldBounded
<1>4. ASSUME NEW t \in Threads, LinkDone(t) PROVE HeldBounded'
  <2>1. \A u \in Threads : Held(u)' = Held(u)
    BY <1>0, <1>4 DEF LinkDone, IInv, Linkers, Linking, Held, ItemsOf
  <2>2. \A u \in Threads : Taking(u)' => Taking(u)
    BY <1>0, <1>4 DEF LinkDone, Taking, TypeOK
  <2>3. QED
    BY <2>1, <2>2 DEF HeldBounded
<1>5. ASSUME NEW t \in Threads, Alloc(t) PROVE HeldBounded'
  BY <1>0, <1>5 DEF Alloc, HeldBounded, Held, Taking, TypeOK
<1>6. ASSUME NEW t \in Threads, Step(t) \/ Free(t) \/ Use(t),
             ~TakeDone(t), ~PutDone(t), ~LinkDone(t)
      PROVE  HeldBounded'
  <2>1. UNCHANGED owner
    BY <1>6
    DEF Step, Free, Use, TakeRead, TakeMark, TakeNext, PutRead, PutLink, BlockLock,
        NotEmpty, MallocFails, Malloc, LinkRead, LinkMark, LinkLast, Unlock
  <2>2. \A u \in Threads : Taking(u)' => Taking(u)
    BY <1>0, <1>6
    DEF Step, Free, Use, TakeRead, TakeMark, TakeNext, PutRead, PutLink, BlockLock,
        NotEmpty, MallocFails, Malloc, LinkRead, LinkMark, LinkLast, Unlock, Taking, TypeOK
  <2>3. QED
    BY <1>1, <2>1, <2>2
<1>7. QED
  BY <1>1, <1>2, <1>3, <1>4, <1>5, <1>6 DEF Next, vars, Taking

(* When the list is found empty under the lock, the threads have all items *)
(* of all blocks, and the one that asks has room for one more.             *)
LEMMA AllInHands ==
  ASSUME IInv, AllReached, MadeOwned, HeldBounded, IsFiniteSet(made),
         NEW t \in Threads, At(t, "block_check"), HeadIs(NULL, FALSE)
  PROVE  Cardinality(made) * BlockSize <= MaxHeld * Cardinality(Threads) - 1
<1> DEFINE MadeItems == made \X (1..BlockSize)
           Room(u) == IF u = t THEN 1..(MaxHeld - 1) ELSE 1..MaxHeld
           place == [u \in Threads |-> CHOOSE f : f \in Injection(Held(u), Room(u))]
           seat == [i \in MadeItems |-> <<owner[i], place[owner[i]][i]>>]
           Seats == (Threads \X (1..MaxHeld)) \ {<<t, MaxHeld>>}
<1>0. /\ IsFiniteSet(Threads) /\ MaxHeld \in Nat /\ BlockSize \in Nat \ {0}
      /\ NULL \notin Items /\ TypeOK
  BY FreeListAssumption DEF IInv
<1>1. ListItems = {}
  <2>1. {} \in SUBSET ListItems /\ ClosedUnderNext({}) /\ free_list \in {} \cup {NULL}
    BY DEF ClosedUnderNext, HeadIs
  <2>2. QED
    BY <2>1 DEF AllReached
<1>2. \A u \in Threads : ~Linking(u)
  BY DEF At, IInv, BlockLocked, InBlockSection, Linking
<1>3. ASSUME NEW i \in MadeItems PROVE i \in Items /\ owner[i] \in Threads /\ i \in Held(owner[i])
  <2>1. i \in Items /\ i[1] \in made
    BY <1>0 DEF TypeOK, Items
  <2>2. owner[i] # "list" /\ owner[i] # "heap"
    BY <1>1, <1>2, <2>1 DEF ListItems, MadeOwned
  <2>3. QED
    BY <1>0, <2>1, <2>2 DEF TypeOK, Held
<1>4. ASSUME NEW u \in Threads PROVE place[u] \in Injection(Held(u), Room(u))
  <2>1. IsFiniteSet(Held(u)) /\ Cardinality(Held(u)) \in Nat
    BY FS_CardinalityType DEF HeldBounded
  <2>2. PICK g : g \in Bijection(Held(u), 1..Cardinality(Held(u)))
    BY <2>1, FS_CardinalityType, Fun_ExistsBijSymmetric DEF ExistsBijection
  <2>3. Cardinality(Held(u)) <= MaxHeld /\ (u = t => Cardinality(Held(u)) <= MaxHeld - 1)
    BY <1>0, <2>1 DEF HeldBounded, Taking, At
  <2>4. 1..Cardinality(Held(u)) \subseteq Room(u)
    BY <1>0, <2>1, <2>3
  <2>5. g \in Injection(Held(u), Room(u))
    BY <2>2, <2>4 DEF Bijection, Injection
  <2>6. QED
    BY <2>5
<1>5. seat \in Injection(MadeItems, Seats)
  <2>1. ASSUME NEW i \in MadeItems PROVE seat[i] \in Seats
    <3>1. place[owner[i]] \in Injection(Held(owner[i]), Room(owner[i])) /\ i \in Held(owner[i])
      BY <1>3, <1>4
    <3>2. place[owner[i]][i] \in Room(owner[i])
      BY <3>1 DEF Injection, IsInjective
    <3>3. QED
      BY <1>0, <1>3, <3>2
  <2>2. ASSUME NEW i \in MadeItems, NEW j \in MadeItems, seat[i] = seat[j] PROVE i = j
    <3>1. /\ seat[i][1] = owner[i] /\ seat[i][2] = place[owner[i]][i]
          /\ seat[j][1] = owner[j] /\ seat[j][2] = place[owner[j]][j]
      OBVIOUS
    <3> HIDE DEF seat, place
    <3>2. owner[i] = owner[j] /\ place[owner[i]][i] = place[owner[i]][j]
      BY <2>2, <3>1
    <3>3. i \in Held(owner[i]) /\ j \in Held(owner[i]) /\ owner[i] \in Threads
      BY <1>3, <3>2
    <3>4. place[owner[i]] \in Injection(Held(owner[i]), Room(owner[i]))
      BY <1>4, <3>3
    <3>5. QED
      BY <3>2, <3>3, <3>4 DEF Injection, IsInjective
  <2>3. seat \in [MadeItems -> Seats]
    BY <2>1
  <2> HIDE DEF seat, MadeItems, Seats
  <2>4. QED
    BY <2>2, <2>3 DEF Injection, IsInjective
<1>6. /\ IsFiniteSet(MadeItems)
      /\ Cardinality(MadeItems) = Cardinality(made) * BlockSize
  <2>1. IsFiniteSet(1..BlockSize) /\ Cardinality(1..BlockSize) = BlockSize
    BY <1>0, FS_Interval
  <2>2. QED
    BY <2>1, FS_Product
<1>7. /\ IsFiniteSet(Seats)
      /\ Cardinality(Seats) = MaxHeld * Cardinality(Threads) - 1
  <2>1. IsFiniteSet(1..MaxHeld) /\ Cardinality(1..MaxHeld) = MaxHeld
    BY <1>0, FS_Interval
  <2>2. /\ IsFiniteSet(Threads \X (1..MaxHeld))
        /\ Cardinality(Threads \X (1..MaxHeld)) = Cardinality(Threads) * MaxHeld
    BY <1>0, <2>1, FS_Product
  <2>3. MaxHeld >= 1
    BY <1>0, FS_CardinalityType DEF HeldBounded, Taking, At
  <2>4. <<t, MaxHeld>> \in Threads \X (1..MaxHeld)
    BY <1>0, <2>3
  <2>5. Cardinality(Seats) = Cardinality(Threads) * MaxHeld - 1 /\ IsFiniteSet(Seats)
    BY <2>2, <2>4, FS_RemoveElement
  <2>6. Cardinality(Threads) \in Nat
    BY <1>0, FS_CardinalityType
  <2>7. QED
    BY <1>0, <2>5, <2>6
<1>8. Cardinality(MadeItems) <= Cardinality(Seats)
  <2> HIDE DEF seat, MadeItems, Seats
  <2>1. QED
    BY <1>5, <1>7, FS_Injection
<1>9. QED
  BY <1>6, <1>7, <1>8

LEMMA StepMade ==
  ASSUME IInv, AllReached, MadeOwned, HeldBounded, MadeBounded, [Next]_vars
  PROVE  MadeBounded'
<1>1. ASSUME NEW t \in Threads, NEW b \in Blocks, Malloc(t, b) PROVE MadeBounded'
  <2>1. made' = made \cup {b} /\ b \notin made
    BY <1>1 DEF Malloc, IsNextBlock
  <2>2. Cardinality(made) * BlockSize <= MaxHeld * Cardinality(Threads) - 1
    BY <1>1, AllInHands DEF Malloc, MadeBounded
  <2>3. /\ IsFiniteSet(made') /\ Cardinality(made') = Cardinality(made) + 1
        /\ Cardinality(made) \in Nat
    BY <2>1, FS_AddElement, FS_CardinalityType DEF MadeBounded
  <2>4. /\ BlockSize \in Nat /\ MaxHeld \in Nat /\ Cardinality(Threads) \in Nat
    BY FreeListAssumption, FS_CardinalityType
  <2>5. Cardinality(made') * BlockSize = Cardinality(made) * BlockSize + BlockSize
    BY <2>3, <2>4
  <2> DEFINE x == Cardinality(made) * BlockSize
             y == MaxHeld * Cardinality(Threads)
  <2>6. x \in Nat /\ y \in Nat
    BY <2>3, <2>4
  <2>7. x + BlockSize <= y - 1 + BlockSize
    <3> HIDE DEF x, y
    <3>1. x <= y - 1
      BY <2>2 DEF x, y
    <3>2. QED
      BY <2>4, <2>6, <3>1
  <2>8. QED
    BY <2>3, <2>5, <2>7 DEF MadeBounded, MemoryBounded
<1>2. ASSUME NEW t \in Threads, Step(t) \/ Alloc(t) \/ Free(t) \/ Use(t),
             \A b \in Blocks : ~Malloc(t, b)
      PROVE  made' = made
  BY <1>2
  DEF Step, Alloc, Free, Use, TakeRead, TakeMark, TakeNext, TakeDone, PutRead, PutLink,
      PutDone, BlockLock, NotEmpty, MallocFails, LinkRead, LinkMark, LinkLast, LinkDone, Unlock
<1>3. QED
  BY <1>1, <1>2 DEF Next, vars, MadeBounded, MemoryBounded

(* What callers see of a step: an item changes hands, or nothing.          *)
LEMMA StepRefines == ASSUME IInv, [Next]_vars PROVE [P!Next]_owner
<1> USE DEF IInv, At, GoTo, Return, Head, Locals, HeadIs, SetHead
<1>0. NULL \notin Items
  BY FreeListAssumption
<1>1. ASSUME NEW t \in Threads, TakeDone(t) PROVE P!Next
  <2>1. item[t] \in Items /\ owner[item[t]] = "list" /\ HeadIs(item[t], TRUE)
    BY <1>0, <1>1 DEF TakeDone, Takers, Markers, Marked, TakeMarked, ListShape, ListItems
  <2>2. owner' = [owner EXCEPT ![item[t]] = t]
    BY <1>1, <2>1 DEF TakeDone
  <2>3. QED
    BY <2>1, <2>2 DEF P!Next, P!Take
<1>2. ASSUME NEW t \in Threads, PutDone(t) PROVE [P!Next]_owner
  <2>1. item[t] \in Items /\ owner[item[t]] = t
    BY <1>2 DEF PutDone, Putters
  <2>2. CASE HeadIs(next_item[t], FALSE)
    BY <1>2, <2>1, <2>2 DEF PutDone, P!Next, P!GiveBack
  <2>3. CASE ~HeadIs(next_item[t], FALSE)
    BY <1>2, <2>3 DEF PutDone
  <2>4. QED
    BY <2>2, <2>3
<1>3. ASSUME NEW t \in Threads, LinkDone(t) PROVE [P!Next]_owner
  <2> DEFINE b == item[t][1]
  <2>1. b \in Blocks /\ \A i \in ItemsOf(b) : owner[i] = "heap"
    BY <1>3 DEF LinkDone, Linkers, Linking, Items
  <2>2. CASE HeadIs(next_item[t], MarkToLink)
    <3>1. owner' = [i \in Items |-> IF i \in ItemsOf(b) THEN "list" ELSE owner[i]]
      BY <1>3, <2>2 DEF LinkDone
    <3>2. QED
      BY <2>1, <3>1 DEF P!Next, P!Grow
  <2>3. CASE ~HeadIs(next_item[t], MarkToLink)
    BY <1>3, <2>3 DEF LinkDone
  <2>4. QED
    BY <2>2, <2>3
<1>4. ASSUME NEW t \in Threads, Step(t) \/ Alloc(t) \/ Free(t) \/ Use(t),
             ~TakeDone(t), ~PutDone(t), ~LinkDone(t)
      PROVE  UNCHANGED owner
  BY <1>4
  DEF Step, Alloc, Free, Use, TakeRead, TakeMark, TakeNext, PutRead, PutLink, BlockLock,
      NotEmpty, MallocFails, Malloc, LinkRead, LinkMark, LinkLast, Unlock
<1>5. QED
  BY <1>1, <1>2, <1>3, <1>4 DEF Next, vars

(* The type of every variable, in every reachable state.                   *)
THEOREM TypeCorrect == Spec => []TypeOK
<1>1. IInv => TypeOK
  BY DEF IInv
<1>2. QED
  BY <1>1, InitInv, StepInv, PTL DEF Spec

(* The assertions behind the compare-and-swaps cannot fail.                *)
THEOREM NoAbort == Spec => []NeverAborts
<1>1. IInv => NeverAborts
  BY DEF IInv
<1>2. QED
  BY <1>1, InitInv, StepInv, PTL DEF Spec

(* The free list implements the atomic pool: no item is ever handed to two *)
(* threads, and no item leaves the list but into the hands of one.         *)
THEOREM Implementation == Spec => ImplementsPool
<1>1. Init => P!Init
  BY DEF Init, P!Init
<1>2. QED
  BY <1>1, InitInv, StepInv, StepRefines, PTL DEF Spec, ImplementsPool, P!Spec

(* The list is what the head leads to: no race loses an item, and none     *)
(* links an item that a thread has.                                        *)
THEOREM ListComplete == Spec => []NoItemLost
<1>1. IInv /\ AllReached => NoItemLost
  <2> SUFFICES ASSUME IInv, AllReached PROVE NoItemLost
    OBVIOUS
  <2>1. ListItems \subseteq Items /\ ClosedUnderNext(ListItems)
        /\ free_list \in ListItems \cup {NULL}
    BY DEF ClosedUnderNext, IInv, ListShape, ListItems
  <2>2. Reachable \subseteq ListItems
    BY <2>1 DEF Reachable
  <2>3. ASSUME NEW S \in SUBSET Items, free_list \in S \cup {NULL}, ClosedUnderNext(S)
        PROVE  ListItems \subseteq S
    <3>1. ClosedUnderNext(S \cap ListItems) /\ free_list \in (S \cap ListItems) \cup {NULL}
      BY <2>1, <2>3 DEF ClosedUnderNext
    <3>2. S \cap ListItems = ListItems
      BY <3>1 DEF AllReached
    <3>3. QED
      BY <3>2
  <2>4. ListItems \subseteq Reachable
    BY <2>1, <2>3 DEF Reachable
  <2>5. QED
    BY <2>2, <2>4 DEF NoItemLost, ListItems
<1>2. QED
  BY <1>1, InitInv, StepInv, InitMore, StepReached, PTL DEF Spec

(* The memory stays within one block of the greatest demand, for any       *)
(* number of threads: two that find the list empty malloc one block.       *)
THEOREM MemoryStaysBounded == Spec => []MemoryBounded
<1>1. MadeBounded => MemoryBounded
  BY DEF MadeBounded
<1>2. QED
  BY <1>1, InitInv, StepInv, InitMore, StepReached, StepOwned, StepHeld, StepMade, PTL DEF Spec

=============================================================================
