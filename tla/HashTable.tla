----------------------------- MODULE HashTable -----------------------------
(***************************************************************************)
(* The hash table of base/base_hash.c.  A table has two bases, arrays of   *)
(* entries; an entry is a list of nodes under a readers/writer lock, and   *)
(* every node has such a lock too, which findAndLockInHashTable hands to   *)
(* its caller.  When a removal has met a long list, an insert starts a     *)
(* rehash: from then on every call first moves some nodes from the current *)
(* base to the other one, until the item count of the current base is 0.   *)
(*                                                                         *)
(* The locks are the atomic ones that RWLock implements (module RWMutex).  *)
(* A section under a lock that no other thread can look into is one        *)
(* action; the walks that no lock protects go one node at a time.  A       *)
(* second rehash cannot start, because is_rehashing is never reset.        *)
(***************************************************************************)

EXTENDS Integers, Sequences, FiniteSetsExt

CONSTANTS
  Threads,
  Keys, Values,
  Hash,          (* Hash[k]: hash_func_p of key k                          *)
  NULL,
  Nodes,         (* bound: the nodes malloc provides                       *)
  FirstNode,     (* the first of them in the free list ...                 *)
  NextNode,      (* ... and the one after each                             *)
  Ops,           (* Ops[t]: the operations the program of thread t calls   *)
  reserve_entries,  (* the entries createHashTable is asked for            *)
  LEAST_HASH_ENTRIES, COLLISION_COUNT_THRESHOLD,
  REHASH_STEPS, REHASH_RETRY,
  MaxLateCalls,  (* bound: the calls that begin after a rehash was started *)
  CountMod       (* count_t is unsigned: 0..(CountMod - 1)                 *)

OpNames == {"insert", "find", "find_lock", "update", "remove", "map"}
Modes   == {"read", "write"}

(* The entries of the first base, and of the second once a rehash starts.  *)
FirstSize ==
  IF reserve_entries < LEAST_HASH_ENTRIES THEN LEAST_HASH_ENTRIES ELSE reserve_entries
SecondSize == 2 * LEAST_HASH_ENTRIES

MaxSize == IF FirstSize < SecondSize THEN SecondSize ELSE FirstSize

Bases   == {1, 2}
Entries == Bases \X (0..(MaxSize - 1))

ASSUME HashTableAssumption ==
  /\ NULL \notin Nodes \cup Keys \cup Values \cup Threads
  /\ IsFiniteSet(Threads) /\ IsFiniteSet(Nodes) /\ Nodes \cap Entries = {}
  /\ Hash \in [Keys -> Nat]
  /\ Ops \in [Threads -> SUBSET OpNames]
  /\ reserve_entries \in Nat
  /\ LEAST_HASH_ENTRIES \in Nat \ {0} /\ COLLISION_COUNT_THRESHOLD \in Nat
  /\ MaxLateCalls \in Nat
  /\ REHASH_STEPS \in Nat /\ REHASH_RETRY \in Nat
  /\ CountMod \in Nat /\ CountMod > Cardinality(Nodes)

(* createHashTable links all nodes of the area, one after the other.       *)
ASSUME AreaAssumption ==
  /\ FirstNode \in Nodes /\ NextNode \in [Nodes -> Nodes \cup {NULL}]
  /\ \A S \in SUBSET Nodes :
        FirstNode \in S /\ (\A n \in S : NextNode[n] \in S \cup {NULL}) => S = Nodes
  /\ \E place \in [Nodes -> 1..Cardinality(Nodes)] :
        \A n \in Nodes : NextNode[n] # NULL => place[NextNode[n]] > place[n]

(* What a caller may ask; NULL where the operation has no such argument.   *)
NoCall == [op |-> "none", key |-> NULL, value |-> NULL, mode |-> "read"]

Calls ==
  [op : {"insert", "update"}, key : Keys, value : Values, mode : {"read"}]
  \cup [op : {"find", "remove"}, key : Keys, value : {NULL}, mode : {"read"}]
  \cup [op : {"find_lock"}, key : Keys, value : {NULL}, mode : Modes]
  \cup [op : {"map"}, key : {NULL}, value : {NULL}, mode : Modes]

VARIABLES
  current_base, rehash_insert_base,   (* 1 or 2; 0 is no base              *)
  size,             (* entries of each base                                *)
  is_rehashing, rehash_pos,
  rehash_lock,      (* the thread that has it, or NULL                     *)
  update_lock,      (* of each base: is it taken by a rehash?              *)
  head,             (* head_p of each entry                                *)
  list_length,
  items_count,      (* of each base                                        *)
  collision_count,  (* of each base: has it left 0?                        *)
  node,             (* key, value and next_p of each node                  *)
  free_list,
  locks,            (* who holds the lock of which entry or node, and how  *)
  rehash,           (* the locals of rehashNSteps                          *)
  pc, call, local,  (* where each thread is, its arguments, its locals     *)
  answer,           (* what its call returns to each thread, "none" before  *)
  late_calls        (* how many calls began after a rehash was started     *)

Table  == <<current_base, rehash_insert_base, size, is_rehashing, rehash_pos>>
Lists  == <<head, list_length, node, free_list>>
Counts == <<items_count, collision_count>>
Sync   == <<locks, update_lock, rehash_lock, rehash>>

vars == <<Table, Lists, Counts, Sync, pc, call, local, answer, late_calls>>

PCs == {"idle", "aborted", "rehash", "insert_base", "bases", "search", "item",
        "alloc", "head", "walk", "link", "count", "start", "forget",
        "return", "map", "map_head", "map_item",
        "round", "round_update", "round_node", "round_target", "round_link", "round_end"}

(* "then" is where the thread goes on after doRehash.                      *)
NoLocals ==
  [bases |-> <<>>, insert_base |-> 0, new_node |-> NULL, p |-> NULL,
   pos |-> 0, change_collision |-> FALSE, then |-> "idle"]

NoRehash == [i |-> 0, retry |-> 0, entry |-> <<>>, node |-> NULL]

Init ==
  /\ current_base = 1 /\ rehash_insert_base = 0
  /\ size = <<FirstSize, 0>>
  /\ is_rehashing = FALSE /\ rehash_pos = 0
  /\ rehash_lock = NULL
  /\ update_lock = <<FALSE, FALSE>>
  /\ head = [e \in Entries |-> NULL]
  /\ list_length = [e \in Entries |-> 0]
  /\ items_count = <<0, 0>> /\ collision_count = <<FALSE, FALSE>>
  /\ node = [n \in Nodes |-> [key |-> NULL, value |-> NULL, next |-> NextNode[n]]]
  /\ free_list = FirstNode
  /\ locks = {}
  /\ rehash = NoRehash
  /\ pc = [t \in Threads |-> "idle"]
  /\ call = [t \in Threads |-> NoCall]
  /\ local = [t \in Threads |-> NoLocals]
  /\ answer = [t \in Threads |-> "none"]
  /\ late_calls = 0

-----------------------------------------------------------------------------

At(t, place) == pc[t] = place

GoTo(t, place) == pc' = [pc EXCEPT ![t] = place]

(* What is left to do is to return a to the caller.                        *)
Return(t, a) ==
  /\ GoTo(t, "return")
  /\ local' = [local EXCEPT ![t] = NoLocals]
  /\ answer' = [answer EXCEPT ![t] = a]

(* The readers/writer locks.                                               *)
MayLock(l, mode) ==
  \A x \in locks : x[1] = l => mode = "read" /\ x[3] = "read"

Locked(l, t, mode) == <<l, t, mode>>

EntryOf(b, k) == <<b, Hash[k] % size[b]>>

(* The nodes of the list that begins at p: the least set that has p and is *)
(* closed under next.                                                      *)
OnTheWay(p) ==
  IF p = NULL THEN {}
  ELSE {n \in Nodes : \A S \in SUBSET Nodes :
          p \in S /\ (\A m \in S : node[m].next \in S \cup {NULL}) => n \in S}

Linked(e) == OnTheWay(head[e])

(* The first node of entry e with key k, or NULL.                          *)
Find(e, k) ==
  LET hits == {n \in Linked(e) : node[n].key = k}
  IN  IF hits = {} THEN NULL ELSE CHOOSE n \in hits : hits \subseteq OnTheWay(n)

CountUp(n)   == (n + 1) % CountMod
CountDown(n) == (n - 1) % CountMod

-----------------------------------------------------------------------------
(* The beginning of every call.  A caller that has a locked item gives it  *)
(* back before it calls the table again.                                   *)

Call(t) ==
  /\ At(t, "idle") /\ local[t].p = NULL
  /\ IF is_rehashing
     THEN late_calls < MaxLateCalls /\ late_calls' = late_calls + 1
     ELSE UNCHANGED late_calls
  /\ \E c \in Calls :
        /\ c.op \in Ops[t]
        /\ call' = [call EXCEPT ![t] = c]
        /\ local' = [local EXCEPT ![t].then = IF c.op = "insert" THEN "insert_base" ELSE "bases"]
  /\ GoTo(t, "rehash")
  /\ UNCHANGED <<Table, Lists, Counts, Sync, answer>>

Returns(t) ==
  /\ At(t, "return")
  /\ GoTo(t, "idle")
  /\ call' = [call EXCEPT ![t] = NoCall]
  /\ answer' = [answer EXCEPT ![t] = "none"]
  /\ UNCHANGED <<Table, Lists, Counts, Sync, local>>

unlockHashTableItem(t) ==
  /\ At(t, "idle") /\ local[t].p # NULL
  /\ locks' = {x \in locks : x[2] # t}
  /\ local' = [local EXCEPT ![t] = NoLocals]
  /\ UNCHANGED <<Table, Lists, Counts, update_lock, rehash_lock, rehash, pc, call, answer>>

(* doRehash, and back to where it was called from.  rehashNSteps begins by *)
(* asserting that its position is in the current base.                     *)
EnterRehash(t) ==
  /\ At(t, "rehash")
  /\ IF is_rehashing /\ rehash_lock = NULL
     THEN /\ rehash_lock' = t
          /\ GoTo(t, IF rehash_pos < size[current_base] THEN "round" ELSE "aborted")
     ELSE UNCHANGED rehash_lock /\ GoTo(t, local[t].then)
  /\ UNCHANGED <<Table, Lists, Counts, locks, update_lock, rehash, call, local, answer>>

InsertBase(t) ==
  /\ At(t, "insert_base")
  /\ local' = [local EXCEPT
       ![t].insert_base = IF is_rehashing THEN rehash_insert_base ELSE current_base,
       ![t].then = "bases"]
  /\ GoTo(t, "rehash")
  /\ UNCHANGED <<Table, Lists, Counts, Sync, call, answer>>

(* Where to look: the bases are read before any entry is locked.           *)
ReadBases(t) ==
  /\ At(t, "bases")
  /\ local' = [local EXCEPT ![t].bases =
       IF is_rehashing THEN <<current_base, rehash_insert_base>> ELSE <<current_base>>]
  /\ GoTo(t, CASE call[t].op = "map" -> "map"
               [] local[t].new_node # NULL -> "walk"
               [] OTHER -> "search")
  /\ UNCHANGED <<Table, Lists, Counts, Sync, call, answer>>

-----------------------------------------------------------------------------
(* findAndDo with the entry locked, and the search of removeFromHashTable. *)

HeadMode(t) == IF call[t].op = "remove" THEN "write" ELSE "read"

(* The entry that is searched, and the node with the key in it.            *)
Entry(t) == EntryOf(local[t].bases[1], call[t].key)

SearchMisses(t) ==
  /\ At(t, "search")
  /\ MayLock(Entry(t), HeadMode(t))
  /\ Find(Entry(t), call[t].key) = NULL
  /\ IF Len(local[t].bases) > 1
     THEN /\ local' = [local EXCEPT ![t].bases = Tail(@)]
          /\ UNCHANGED <<pc, answer>>
     ELSE IF call[t].op = "insert"
     THEN GoTo(t, "alloc") /\ UNCHANGED <<local, answer>>
     ELSE Return(t, "missing")
  /\ UNCHANGED <<Table, Lists, Counts, Sync, call>>

(* find, and the first search of insert, are over when the key is found.   *)
SearchAnswers(t) ==
  /\ At(t, "search") /\ call[t].op \in {"find", "insert"}
  /\ MayLock(Entry(t), "read")
  /\ LET n == Find(Entry(t), call[t].key)
     IN  /\ n # NULL
         /\ Return(t, IF call[t].op = "find" THEN node[n].value ELSE "duplicate")
  /\ UNCHANGED <<Table, Lists, Counts, Sync, call>>

(* The others keep the entry locked and wait for the lock of the node.     *)
SearchFinds(t) ==
  /\ At(t, "search") /\ call[t].op \in {"find_lock", "update", "remove"}
  /\ MayLock(Entry(t), HeadMode(t))
  /\ LET n == Find(Entry(t), call[t].key)
     IN  /\ n # NULL
         /\ local' = [local EXCEPT ![t].p = n]
  /\ locks' = locks \cup {Locked(Entry(t), t, HeadMode(t))}
  /\ GoTo(t, "item")
  /\ UNCHANGED <<Table, Lists, Counts, update_lock, rehash_lock, rehash, call, answer>>

(* findAndLockInHashTable returns with the node locked.                    *)
LockItem(t) ==
  /\ At(t, "item") /\ call[t].op = "find_lock"
  /\ MayLock(local[t].p, call[t].mode)
  /\ locks' = (locks \ {Locked(Entry(t), t, "read")})
              \cup {Locked(local[t].p, t, call[t].mode)}
  /\ GoTo(t, "return")
  /\ local' = [local EXCEPT ![t] = [NoLocals EXCEPT !.p = local[t].p]]
  /\ answer' = [answer EXCEPT ![t] = node[local[t].p].value]
  /\ UNCHANGED <<Table, Lists, Counts, update_lock, rehash_lock, rehash, call>>

UpdateItem(t) ==
  /\ At(t, "item") /\ call[t].op = "update"
  /\ MayLock(local[t].p, "write")
  /\ node' = [node EXCEPT ![local[t].p].value = call[t].value]
  /\ locks' = locks \ {Locked(Entry(t), t, "read")}
  /\ Return(t, "done")
  /\ UNCHANGED <<Table, head, list_length, free_list, Counts,
                 update_lock, rehash_lock, rehash, call>>

(* The list of entry e without node n.                                     *)
Unlink(e, n) ==
  /\ head' = [head EXCEPT ![e] = IF @ = n THEN node[n].next ELSE @]
  /\ node' = [x \in Nodes |->
                IF x \in Linked(e) /\ node[x].next = n
                THEN [node[x] EXCEPT !.next = node[n].next] ELSE node[x]]
  /\ list_length' = [list_length EXCEPT ![e] = CountDown(@)]

(* Mutant of UnlinkItem: the lock of the node is not waited for.           *)
UnlinkLockedItem(t) ==
  /\ At(t, "item") /\ call[t].op = "remove"
  /\ Unlink(Entry(t), local[t].p)
  /\ local' = [local EXCEPT ![t].change_collision =
                 list_length[Entry(t)] > COLLISION_COUNT_THRESHOLD]
  /\ locks' = locks \ {Locked(Entry(t), t, "write")}
  /\ answer' = [answer EXCEPT ![t] = "done"]
  /\ GoTo(t, "forget")
  /\ UNCHANGED <<Table, free_list, Counts, update_lock, rehash_lock, rehash, call>>

UnlinkItem(t) ==
  /\ At(t, "item") /\ call[t].op = "remove"
  /\ MayLock(local[t].p, "write")
  /\ Unlink(Entry(t), local[t].p)
  /\ local' = [local EXCEPT ![t].change_collision =
                 list_length[Entry(t)] > COLLISION_COUNT_THRESHOLD]
  /\ locks' = locks \ {Locked(Entry(t), t, "write")}
  /\ answer' = [answer EXCEPT ![t] = "done"]
  /\ GoTo(t, "forget")
  /\ UNCHANGED <<Table, free_list, Counts, update_lock, rehash_lock, rehash, call>>

FreeNode(n) ==
  /\ node' = [node EXCEPT ![n].next = free_list]
  /\ free_list' = n

(* The counts of the base, and the node goes to the free list.             *)
ForgetItem(t) ==
  LET b == local[t].bases[1]
  IN  /\ At(t, "forget")
      /\ ~update_lock[b]
      /\ items_count' = [items_count EXCEPT ![b] = CountDown(@)]
      /\ collision_count' = [collision_count EXCEPT ![b] = @ \/ local[t].change_collision]
      /\ FreeNode(local[t].p)
      /\ Return(t, "done")
      /\ UNCHANGED <<Table, head, list_length, Sync, call>>

-----------------------------------------------------------------------------
(* insertToHashTableImp after its first search                             *)

AllocNode(t) ==
  /\ At(t, "alloc")
  /\ free_list # NULL
  /\ local' = [local EXCEPT ![t].new_node = free_list]
  /\ free_list' = node[free_list].next
  /\ node' = [node EXCEPT ![free_list] =
                [key |-> call[t].key, value |-> call[t].value, next |-> NULL]]
  /\ GoTo(t, "head")
  /\ UNCHANGED <<Table, head, list_length, Counts, Sync, call, answer>>

AllocFails(t) ==
  /\ At(t, "alloc")
  /\ free_list = NULL
  /\ Return(t, "memory")
  /\ UNCHANGED <<Table, Lists, Counts, Sync, call>>

InsertEntry(t) == EntryOf(local[t].insert_base, call[t].key)

(* Mutant of LockHead: the second search is left out.                      *)
LockHeadOnly(t) ==
  /\ At(t, "head")
  /\ MayLock(InsertEntry(t), "write")
  /\ locks' = locks \cup {Locked(InsertEntry(t), t, "write")}
  /\ GoTo(t, "link")
  /\ UNCHANGED <<Table, Lists, Counts, update_lock, rehash_lock, rehash, call, local, answer>>

(* The key is searched again, which begins with a doRehash.                *)
LockHead(t) ==
  /\ At(t, "head")
  /\ MayLock(InsertEntry(t), "write")
  /\ locks' = locks \cup {Locked(InsertEntry(t), t, "write")}
  /\ GoTo(t, "rehash")
  /\ UNCHANGED <<Table, Lists, Counts, update_lock, rehash_lock, rehash, call, local, answer>>

(* This search locks no entry.  It goes through the list node by node: of  *)
(* the other base, nothing keeps a node from being moved, or freed and     *)
(* used again, while the search is at it.                                  *)
WalkList(t) ==
  /\ At(t, "walk") /\ local[t].pos = 0
  /\ local' = [local EXCEPT ![t].p = head[Entry(t)], ![t].pos = 1]
  /\ UNCHANGED <<Table, Lists, Counts, Sync, pc, call, answer>>

WalkOn(t) ==
  /\ At(t, "walk") /\ local[t].pos = 1
  /\ local[t].p # NULL
  /\ node[local[t].p].key # call[t].key
  /\ local' = [local EXCEPT ![t].p = node[@].next]
  /\ UNCHANGED <<Table, Lists, Counts, Sync, pc, call, answer>>

WalkEnds(t) ==
  /\ At(t, "walk") /\ local[t].pos = 1
  /\ local[t].p = NULL
  /\ local' = [local EXCEPT ![t].bases = Tail(@), ![t].pos = 0]
  /\ IF Len(local[t].bases) > 1 THEN UNCHANGED pc ELSE GoTo(t, "link")
  /\ UNCHANGED <<Table, Lists, Counts, Sync, call, answer>>

(* Mutant of WalkFinds: the new node is not freed.                         *)
WalkFindsKeepingNode(t) ==
  /\ At(t, "walk") /\ local[t].pos = 1
  /\ local[t].p # NULL
  /\ node[local[t].p].key = call[t].key
  /\ locks' = locks \ {Locked(InsertEntry(t), t, "write")}
  /\ Return(t, "duplicate")
  /\ UNCHANGED <<Table, Lists, Counts, update_lock, rehash_lock, rehash, call>>

WalkFinds(t) ==
  /\ At(t, "walk") /\ local[t].pos = 1
  /\ local[t].p # NULL
  /\ node[local[t].p].key = call[t].key
  /\ locks' = locks \ {Locked(InsertEntry(t), t, "write")}
  /\ FreeNode(local[t].new_node)
  /\ Return(t, "duplicate")
  /\ UNCHANGED <<Table, head, list_length, Counts, update_lock, rehash_lock, rehash, call>>

LinkNode(t) ==
  LET e == InsertEntry(t)
  IN  /\ At(t, "link")
      /\ node' = [node EXCEPT ![local[t].new_node].next = head[e]]
      /\ head' = [head EXCEPT ![e] = local[t].new_node]
      /\ list_length' = [list_length EXCEPT ![e] = CountUp(@)]
      /\ locks' = locks \ {Locked(e, t, "write")}
      /\ answer' = [answer EXCEPT ![t] = "done"]
      /\ GoTo(t, "count")
      /\ UNCHANGED <<Table, free_list, Counts, update_lock, rehash_lock, rehash, call, local>>

(* collision_count / items_count > REHASH_RATIO.  Nothing ever increments  *)
(* collision_count.  Once a removal has decremented it below 0 it is near  *)
(* 2^64, and the ratio above any REHASH_RATIO less than 1.                 *)
WantsRehash(b) == collision_count[b]

CountItem(t) ==
  LET b == local[t].insert_base
  IN  /\ At(t, "count")
      /\ ~update_lock[b]
      /\ items_count' = [items_count EXCEPT ![b] = CountUp(@)]
      /\ IF WantsRehash(b)
         THEN GoTo(t, "start") /\ UNCHANGED <<local, answer>>
         ELSE Return(t, "done")
      /\ UNCHANGED <<Table, Lists, collision_count, Sync, call>>

(* The other base gets its entries: twice LEAST_HASH_ENTRIES, however many *)
(* the first one has.                                                      *)
StartRehash(t) ==
  /\ At(t, "start") /\ ~is_rehashing
  /\ rehash_insert_base' = 3 - current_base
  /\ size' = [size EXCEPT ![3 - current_base] =
                2 * (IF @ < LEAST_HASH_ENTRIES THEN LEAST_HASH_ENTRIES ELSE @)]
  /\ rehash_pos' = 0
  /\ is_rehashing' = TRUE
  /\ Return(t, "done")
  /\ UNCHANGED <<current_base, Lists, Counts, Sync, call>>

(* The insert fails when the entries cannot be had, with the item in.      *)
StartFails(t) ==
  /\ At(t, "start") /\ ~is_rehashing
  /\ rehash_insert_base' = 3 - current_base
  /\ Return(t, "memory")
  /\ UNCHANGED <<current_base, size, is_rehashing, rehash_pos, Lists, Counts, Sync, call>>

(* Another thread was faster, or has rehash_lock and is about to be.       *)
AlreadyStarted(t) ==
  /\ At(t, "start")
  /\ is_rehashing \/ \E u \in Threads \ {t} : At(u, "start")
  /\ Return(t, "done")
  /\ UNCHANGED <<Table, Lists, Counts, Sync, call>>

(* The threads that are about to count an item of base b in or out.        *)
InsertsAt(b) == {t \in Threads : pc[t] = "count" /\ local[t].insert_base = b}
RemovesAt(b) == {t \in Threads : pc[t] = "forget" /\ local[t].bases[1] = b}

-----------------------------------------------------------------------------
(* mapHashTable                                                            *)

(* The bases are over, or the base at hand counts no items and is skipped. *)
MapBase(t) ==
  /\ At(t, "map")
  /\ IF local[t].bases = <<>> THEN Return(t, "done")
     ELSE IF items_count[local[t].bases[1]] > 0
     THEN GoTo(t, "map_head") /\ UNCHANGED <<local, answer>>
     ELSE local' = [local EXCEPT ![t].bases = Tail(@)] /\ UNCHANGED <<pc, answer>>
  /\ UNCHANGED <<Table, Lists, Counts, Sync, call>>

MapEntry(t) == <<local[t].bases[1], local[t].pos>>

MapHead(t) ==
  /\ At(t, "map_head")
  /\ MayLock(MapEntry(t), "read")
  /\ locks' = locks \cup {Locked(MapEntry(t), t, "read")}
  /\ local' = [local EXCEPT ![t].p = head[MapEntry(t)]]
  /\ GoTo(t, "map_item")
  /\ UNCHANGED <<Table, Lists, Counts, update_lock, rehash_lock, rehash, call, answer>>

(* map_func_p is called with the node locked.  When it fails the rest of   *)
(* the list is left out, but the next entries are not, and their results   *)
(* replace the error.                                                      *)
MapItem(t) ==
  /\ At(t, "map_item")
  /\ local[t].p # NULL
  /\ MayLock(local[t].p, call[t].mode)
  /\ \/ /\ local' = [local EXCEPT ![t].p = node[@].next]
        /\ answer' = [answer EXCEPT ![t] = "none"]
     \/ /\ local' = [local EXCEPT ![t].p = NULL]
        /\ answer' = [answer EXCEPT ![t] = "callback"]
  /\ UNCHANGED <<Table, Lists, Counts, Sync, pc, call>>

MapLeave(t) ==
  /\ At(t, "map_item")
  /\ local[t].p = NULL
  /\ locks' = locks \ {Locked(MapEntry(t), t, "read")}
  /\ IF local[t].pos + 1 < size[local[t].bases[1]]
     THEN /\ local' = [local EXCEPT ![t].pos = @ + 1]
          /\ GoTo(t, "map_head")
          /\ UNCHANGED answer
     ELSE IF answer[t] = "callback"
     THEN Return(t, "callback")
     ELSE /\ local' = [local EXCEPT ![t].pos = 0, ![t].bases = Tail(@)]
          /\ GoTo(t, "map")
          /\ UNCHANGED answer
  /\ UNCHANGED <<Table, Lists, Counts, update_lock, rehash_lock, rehash, call>>

-----------------------------------------------------------------------------
(* rehashNSteps, by the thread that has rehash_lock                        *)

(* One more failed attempt at a lock.                                      *)
Retry(t, place) ==
  /\ rehash' = [rehash EXCEPT !.retry = @ + 1]
  /\ GoTo(t, place)

(* A search takes and gives back the lock of its entry in one action here; *)
(* a try may come in between.                                              *)
Searched(e) == \E t \in Threads : At(t, "search") /\ Entry(t) = e

Continues ==
  rehash_pos < size[current_base] /\ rehash.i < REHASH_STEPS /\ rehash.retry < REHASH_RETRY

NextEntry == <<current_base, rehash_pos>>

Round(t) ==
  /\ At(t, "round") /\ Continues
  /\ MayLock(NextEntry, "write")
  /\ locks' = locks \cup {Locked(NextEntry, t, "write")}
  /\ rehash' = [rehash EXCEPT !.entry = NextEntry]
  /\ GoTo(t, "round_update")
  /\ UNCHANGED <<Table, Lists, Counts, update_lock, rehash_lock, call, local, answer>>

RoundFails(t) ==
  /\ At(t, "round") /\ Continues
  /\ ~MayLock(NextEntry, "write") \/ Searched(NextEntry)
  /\ Retry(t, "round")
  /\ UNCHANGED <<Table, Lists, Counts, locks, update_lock, rehash_lock, call, local, answer>>

LeaveRehash(t) ==
  /\ At(t, "round")
  /\ ~Continues
  /\ rehash' = NoRehash
  /\ rehash_lock' = NULL
  /\ GoTo(t, local[t].then)
  /\ UNCHANGED <<Table, Lists, Counts, locks, update_lock, call, local, answer>>

RoundUpdate(t) ==
  /\ At(t, "round_update")
  /\ update_lock' = [update_lock EXCEPT ![current_base] = TRUE]
  /\ GoTo(t, "round_node")
  /\ UNCHANGED <<Table, Lists, Counts, locks, rehash_lock, rehash, call, local, answer>>

(* The try of update_lock comes while an insert or a removal counts.       *)
RoundUpdateFails(t) ==
  /\ At(t, "round_update")
  /\ InsertsAt(current_base) \cup RemovesAt(current_base) # {}
  /\ locks' = locks \ {Locked(rehash.entry, t, "write")}
  /\ rehash' = [rehash EXCEPT !.retry = @ + 1, !.entry = <<>>]
  /\ GoTo(t, "round")
  /\ UNCHANGED <<Table, Lists, Counts, update_lock, rehash_lock, call, local, answer>>

(* Mutant of NextPos: the position may be one behind the last entry.       *)
NextPosOrEnd == IF rehash_pos + 1 > size[current_base] THEN 0 ELSE rehash_pos + 1

(* The next entry, the first after the last.                               *)
NextPos == (rehash_pos + 1) % size[current_base]

(* An empty entry is left for the next one.                                *)
RoundNode(t) ==
  /\ At(t, "round_node")
  /\ LET n == head[rehash.entry]
     IN  IF n = NULL
         THEN /\ rehash_pos' = NextPos
              /\ GoTo(t, "round_end")
              /\ UNCHANGED <<locks, rehash>>
         ELSE /\ IF MayLock(n, "write")
                 THEN /\ locks' = locks \cup {Locked(n, t, "write")}
                      /\ rehash' = [rehash EXCEPT !.node = n]
                      /\ GoTo(t, "round_target")
                 ELSE Retry(t, "round_end") /\ UNCHANGED locks
              /\ UNCHANGED rehash_pos
  /\ UNCHANGED <<current_base, rehash_insert_base, size, is_rehashing, Lists, Counts,
                 update_lock, rehash_lock, call, local, answer>>

TargetEntry == EntryOf(rehash_insert_base, node[rehash.node].key)

(* The node leaves its old list, whose lock is given back before the node  *)
(* is in the new one.                                                      *)
RoundUnlink(t) ==
  /\ At(t, "round_target")
  /\ MayLock(TargetEntry, "write")
  /\ head' = [head EXCEPT ![rehash.entry] = node[rehash.node].next]
  /\ list_length' = [list_length EXCEPT ![rehash.entry] = CountDown(@)]
  /\ locks' = (locks \ {Locked(rehash.entry, t, "write")})
              \cup {Locked(TargetEntry, t, "write")}
  /\ rehash' = [rehash EXCEPT !.retry = 0]
  /\ GoTo(t, "round_link")
  /\ UNCHANGED <<Table, node, free_list, Counts, update_lock, rehash_lock, call, local, answer>>

RoundGivesUp(t) ==
  /\ At(t, "round_target")
  /\ ~MayLock(TargetEntry, "write") \/ Searched(TargetEntry)
  /\ locks' = locks \ {Locked(rehash.node, t, "write")}
  /\ rehash' = [rehash EXCEPT !.node = NULL]
  /\ GoTo(t, "round_end")
  /\ UNCHANGED <<Table, Lists, Counts, update_lock, rehash_lock, call, local, answer>>

(* Mutants of RoundLink: the length of the new list, or the count of the   *)
(* old base, is forgotten.                                                 *)
RoundLinkWithoutLength(t) ==
  LET n == rehash.node
  IN  /\ At(t, "round_link")
      /\ node' = [node EXCEPT ![n].next = head[TargetEntry]]
      /\ head' = [head EXCEPT ![TargetEntry] = n]
      /\ items_count' = [items_count EXCEPT ![current_base] = CountDown(@)]
      /\ locks' = locks \ {Locked(TargetEntry, t, "write"), Locked(n, t, "write")}
      /\ rehash' = [rehash EXCEPT !.node = NULL]
      /\ GoTo(t, "round_end")
      /\ UNCHANGED <<Table, list_length, free_list, collision_count,
                     update_lock, rehash_lock, call, local, answer>>

RoundLinkWithoutCount(t) ==
  LET n == rehash.node
  IN  /\ At(t, "round_link")
      /\ node' = [node EXCEPT ![n].next = head[TargetEntry]]
      /\ head' = [head EXCEPT ![TargetEntry] = n]
      /\ list_length' = [list_length EXCEPT ![TargetEntry] = CountUp(@)]
      /\ locks' = locks \ {Locked(TargetEntry, t, "write"), Locked(n, t, "write")}
      /\ rehash' = [rehash EXCEPT !.node = NULL]
      /\ GoTo(t, "round_end")
      /\ UNCHANGED <<Table, free_list, Counts, update_lock, rehash_lock, call, local, answer>>

(* The node enters the new list.  Only the old base counts it out.         *)
RoundLink(t) ==
  LET n == rehash.node
  IN  /\ At(t, "round_link")
      /\ node' = [node EXCEPT ![n].next = head[TargetEntry]]
      /\ head' = [head EXCEPT ![TargetEntry] = n]
      /\ list_length' = [list_length EXCEPT ![TargetEntry] = CountUp(@)]
      /\ items_count' = [items_count EXCEPT ![current_base] = CountDown(@)]
      /\ locks' = locks \ {Locked(TargetEntry, t, "write"), Locked(n, t, "write")}
      /\ rehash' = [rehash EXCEPT !.node = NULL]
      /\ GoTo(t, "round_end")
      /\ UNCHANGED <<Table, free_list, collision_count, update_lock, rehash_lock,
                     call, local, answer>>

(* The other base becomes the current one, and the loop ends, when the     *)
(* current one counts no items.                                            *)
RoundEnd(t) ==
  /\ At(t, "round_end")
  /\ IF items_count[current_base] < 1
     THEN /\ current_base' = rehash_insert_base
          /\ rehash' = [rehash EXCEPT !.i = REHASH_STEPS, !.entry = <<>>]
     ELSE /\ rehash' = [rehash EXCEPT !.i = @ + 1, !.entry = <<>>]
          /\ UNCHANGED current_base
  /\ update_lock' = [update_lock EXCEPT ![current_base] = FALSE]
  /\ locks' = locks \ {Locked(rehash.entry, t, "write")}
  /\ GoTo(t, "round")
  /\ UNCHANGED <<rehash_insert_base, size, is_rehashing, rehash_pos, Lists, Counts,
                 rehash_lock, call, local, answer>>

-----------------------------------------------------------------------------

Step(t) ==
  \/ Returns(t) \/ unlockHashTableItem(t) \/ EnterRehash(t) \/ InsertBase(t) \/ ReadBases(t)
  \/ SearchMisses(t) \/ SearchAnswers(t) \/ SearchFinds(t)
  \/ LockItem(t) \/ UpdateItem(t) \/ UnlinkItem(t) \/ ForgetItem(t)
  \/ AllocNode(t) \/ AllocFails(t) \/ LockHead(t)
  \/ WalkList(t) \/ WalkOn(t) \/ WalkEnds(t) \/ WalkFinds(t)
  \/ LinkNode(t) \/ CountItem(t) \/ StartRehash(t) \/ StartFails(t) \/ AlreadyStarted(t)
  \/ MapBase(t) \/ MapHead(t) \/ MapItem(t) \/ MapLeave(t)
  \/ Round(t) \/ RoundFails(t) \/ LeaveRehash(t)
  \/ RoundUpdate(t) \/ RoundUpdateFails(t) \/ RoundNode(t)
  \/ RoundUnlink(t) \/ RoundGivesUp(t) \/ RoundLink(t) \/ RoundEnd(t)

Running == \A t \in Threads : pc[t] # "aborted"

(* The program ends by an abort, or when it has made its last call.        *)
Done ==
  /\ Running => /\ late_calls = MaxLateCalls
                /\ \A t \in Threads : At(t, "idle") /\ local[t].p = NULL
  /\ UNCHANGED vars

Next ==
  \/ Running /\ \E t \in Threads : Call(t) \/ (Step(t) /\ UNCHANGED late_calls)
  \/ Done

Spec == Init /\ [][Next]_vars

-----------------------------------------------------------------------------
(* Properties                                                              *)

Counted == 0..(CountMod - 1)

(* No base, one, or two of B.                                              *)
BaseLists(B) == {<<>>} \cup {<<b>> : b \in B} \cup B \X B

NodeContents ==
  [key : Keys \cup {NULL}, value : Values \cup {NULL}, next : Nodes \cup {NULL}]

RehashLocals ==
  [i : 0..(REHASH_STEPS + 1), retry : 0..REHASH_RETRY,
   entry : Entries \cup {<<>>}, node : Nodes \cup {NULL}]

CallLocals ==
  [bases : BaseLists(Bases), insert_base : Bases \cup {0}, new_node : Nodes \cup {NULL},
   p : Nodes \cup {NULL}, pos : 0..MaxSize,
   change_collision : BOOLEAN, then : PCs]

Answers == Values \cup {"none", "done", "missing", "duplicate", "memory", "callback"}

TypeOK ==
  /\ current_base \in Bases /\ rehash_insert_base \in Bases \cup {0}
  /\ size \in [Bases -> Nat] /\ is_rehashing \in BOOLEAN
  /\ rehash_pos \in 0..(MaxSize - 1)
  /\ rehash_lock \in Threads \cup {NULL} /\ update_lock \in [Bases -> BOOLEAN]
  /\ head \in [Entries -> Nodes \cup {NULL}]
  /\ list_length \in [Entries -> Counted]
  /\ items_count \in [Bases -> Counted] /\ collision_count \in [Bases -> BOOLEAN]
  /\ node \in [Nodes -> NodeContents] /\ free_list \in Nodes \cup {NULL}
  /\ locks \subseteq ((Entries \cup Nodes) \X Threads \X Modes)
  /\ rehash \in RehashLocals
  /\ pc \in [Threads -> PCs] /\ call \in [Threads -> Calls \cup {NoCall}]
  /\ local \in [Threads -> CallLocals] /\ answer \in [Threads -> Answers]
  /\ late_calls \in Nat

(* The nodes that one thread works on outside of every list.               *)
Private(t) ==
  (IF pc[t] = "count" \/ pc[t] = "start" THEN {} ELSE {local[t].new_node} \ {NULL})
  \cup (IF pc[t] = "forget" THEN {local[t].p} ELSE {})
  \cup (IF pc[t] = "round_link" THEN {rehash.node} ELSE {})

(* A node is in one list, in the free list, or in the hands of one thread; *)
(* none is lost.  Removals, moves and inserts that failed race with        *)
(* searches that lock nothing, in both bases.                              *)
NodesInOnePlace ==
  LET linked == [e \in Entries |-> Linked(e)]
      free   == OnTheWay(free_list)
  IN  \A n \in Nodes :
         Cardinality({e \in Entries : n \in linked[e]})
           + Cardinality({t \in Threads : n \in Private(t)})
           + Cardinality(free \cap {n}) = 1

(* Types hold, the length of a list, which decides when to rehash, is      *)
(* right, and a key is in the entry its hash says, also after the entries  *)
(* have doubled.                                                           *)
EntriesRight ==
  /\ TypeOK
  /\ \A e \in Entries :
        LET linked == Linked(e)
        IN  /\ list_length[e] = Cardinality(linked)
            /\ \A n \in linked : e = EntryOf(e[1], node[n].key)

(* A caller that found and locked an item keeps it: it is neither removed, *)
(* moved, changed nor freed before unlockHashTableItem.                    *)
Held(t) == IF pc[t] \in {"return", "idle"} THEN local[t].p ELSE NULL

LockedItemsStay ==
  [][\A t \in Threads :
        LET n == Held(t)
        IN  n # NULL /\ Held(t)' = n =>
              /\ node'[n].key = node[n].key /\ node'[n].value = node[n].value
              /\ \A e \in Entries : n \in Linked(e) => n \in Linked(e)']_vars

(* items_count of the first base, whose end lets the rehash switch the     *)
(* bases: the linked nodes, less those of inserts that have not counted    *)
(* yet, and more those of removals and of a move that still count.         *)
MovesFrom(b) == {t \in Threads : pc[t] = "round_link" /\ rehash.entry[1] = b}

CountsMatch ==
  items_count[1] =
    (Cardinality(UNION {Linked(e) : e \in {x \in Entries : x[1] = 1}})
       - Cardinality(InsertsAt(1)) + Cardinality(RemovesAt(1)) + Cardinality(MovesFrom(1)))
    % CountMod

(* Up to the first rehash the table is an atomic map.                      *)
Content(k) ==
  LET n == Find(EntryOf(1, k), k) IN IF n = NULL THEN NULL ELSE node[n].value

Status(t) ==
  CASE pc[t] = "idle" -> "idle"
    [] pc[t] \in {"count", "start", "forget", "return"} -> "done"
    [] OTHER -> "called"

M == INSTANCE HashMap WITH
       Absent  <- NULL,
       content <- [k \in Keys |-> Content(k)],
       status  <- [t \in Threads |-> Status(t)],
       answer  <- [t \in Threads |-> IF Status(t) = "called" THEN "none" ELSE answer[t]]

(* Every call takes effect at one moment, although searches, inserts,      *)
(* removals and updates lock one entry each and look twice.  This ends     *)
(* with the first rehash, see the README.                                  *)
MapUntilRehash == M!Init /\ [][is_rehashing' \/ M!Next]_(M!vars)

(* rehashNSteps goes on "until no data in current_base_p" (base_hash.c:377), *)
(* and then switches the bases.                                            *)
SwitchesWhenEmpty ==
  [][current_base' # current_base =>
       \A e \in Entries : e[1] = current_base => head[e] = NULL]_vars

(* rehashNSteps asserts that rehash_pos is in the current base             *)
(* (base_hash.c:293).  It stays where it was when the bases are switched,  *)
(* and the second base may be the smaller one.                             *)
RehashPosInBase == Running

=============================================================================
