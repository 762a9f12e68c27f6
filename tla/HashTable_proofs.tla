------------------------- MODULE HashTable_proofs -------------------------
(***************************************************************************)
(* Proofs about HashTable for any number of threads, keys and nodes, any   *)
(* hash function, and any settings of the rehash.                          *)
(*                                                                         *)
(* A list is the least set of nodes that has the first one and is closed   *)
(* under next (Way), and it has no circle (Straight).  Four lemmas say     *)
(* what a step can do to it: Pushed, Popped, TakenOut and WayKept.  What   *)
(* a thread does outside of the locks of an entry then has to leave the    *)
(* lists alone, and IInv says why it does:                                 *)
(*   TableRight, Flow, Looks: the bases and entries a thread works on      *)
(*     exist and stay the same ones while it does;                         *)
(*   Exclusive, Claims: what a thread relies on it has locked, and an      *)
(*     insert that moves nodes leaves the entry it has locked alone;       *)
(*   Rehashing: one thread moves nodes, always the head of its entry, and  *)
(*     never out of the second base;                                       *)
(*   Found: nodes that were found are where they were found;               *)
(*   NoCircles, Apart: every node is in one list, the free list included,  *)
(*     or in the hands of one thread;                                      *)
(*   Keyed, Valued: the keys fit the entries, and items have values;       *)
(*   Lengths, CountsMatch: the counts, CountsMatch modulo CountMod.        *)
(* They are proved together: which nodes a step moves depends on the locks *)
(* and the locals, and what a thread holds depends on the lists.           *)
(*                                                                         *)
(* The refinement of HashMap holds up to the first rehash and needs one    *)
(* more invariant, OneBase: what a second search has passed has another    *)
(* key than the one it looks for, so a key is in its list once.            *)
(***************************************************************************)

EXTENDS HashTable, FiniteSetTheorems, TLAPS

(* Where a thread is in rehashNSteps, in one of its rounds, and in doRehash. *)
Moving == {"round_update", "round_node", "round_target", "round_link", "round_end"}
Rounds == {"aborted", "round"} \cup Moving
Inside == {"rehash"} \cup Rounds

(* The bases that have entries, whose number stays.                        *)
KnownBases == IF is_rehashing THEN {1, 2} ELSE {1}

(* The bases: a rehash can only go from the first to the second.           *)
TableRight ==
  /\ size[1] = FirstSize
  /\ size[2] = IF is_rehashing THEN SecondSize ELSE 0
  /\ is_rehashing => rehash_insert_base = 2
  /\ current_base \in KnownBases
  /\ rehash_pos < size[current_base] \/ SecondSize < FirstSize
  /\ rehash_lock # NULL => is_rehashing

(* What the code has done and what it has yet to do when t is at a place.  *)
Flow(t) ==
  /\ pc[t] \notin {"idle", "return"} => call[t] \in Calls
  /\ pc[t] \in {"idle", "return"} => local[t].new_node = NULL /\ local[t].insert_base = 0
  /\ pc[t] \in Inside => local[t].then \in {"insert_base", "bases"}
  /\ pc[t] \in {"bases", "search", "alloc", "head"} => local[t].then = "bases"
  /\ pc[t] = "insert_base" \/ (pc[t] \in Inside /\ local[t].then = "insert_base") =>
        call[t].op = "insert" /\ local[t].new_node = NULL
  /\ call[t].op = "insert" /\ local[t].insert_base = 0 =>
        \/ pc[t] \in {"idle", "return", "insert_base"}
        \/ pc[t] \in Inside /\ local[t].then = "insert_base"
  /\ pc[t] = "search" => call[t].op # "map"
  /\ pc[t] \in {"alloc", "head", "walk", "link", "count", "start"} \/ local[t].new_node # NULL =>
        call[t].op = "insert"
  /\ pc[t] \in {"head", "walk", "link", "count", "start"} => local[t].new_node # NULL
  /\ pc[t] \in {"search", "alloc", "item", "forget"} => local[t].new_node = NULL
  /\ pc[t] \in {"item", "forget"} => local[t].p # NULL
  /\ pc[t] = "item" => call[t].op \in {"find_lock", "update", "remove"}
  /\ pc[t] = "forget" => call[t].op = "remove"
  /\ pc[t] \in {"map", "map_head", "map_item"} => call[t].op = "map"

(* The bases it looks into are known, and of a map so are the entries.     *)
Looks(t) ==
  /\ local[t].bases \in BaseLists(KnownBases)
  /\ local[t].insert_base \in KnownBases \cup {0}
  /\ pc[t] \in {"search", "item", "forget", "walk", "map_head", "map_item"} =>
        local[t].bases # <<>>
  /\ pc[t] \notin {"walk", "map_head", "map_item"} => local[t].pos = 0
  /\ pc[t] = "walk" => local[t].pos \in {0, 1}
  /\ pc[t] \in {"map_head", "map_item"} => local[t].pos < size[local[t].bases[1]]

(* An insert that has locked its entry.                                    *)
Inserting(t) == local[t].new_node # NULL /\ pc[t] \notin {"head", "count", "start"}

(* The locks that t relies on.                                             *)
Claims(t) ==
  /\ Inserting(t) => Locked(InsertEntry(t), t, "write") \in locks
  /\ pc[t] = "item" => Locked(Entry(t), t, HeadMode(t)) \in locks
  /\ Held(t) # NULL => \E m \in Modes : Locked(Held(t), t, m) \in locks
  /\ pc[t] \in {"round_update", "round_node", "round_target"} =>
        Locked(rehash.entry, t, "write") \in locks
  /\ pc[t] \in {"round_target", "round_link"} => Locked(rehash.node, t, "write") \in locks
  /\ Inserting(t) /\ pc[t] \in Moving => rehash.entry # InsertEntry(t)
  /\ Inserting(t) /\ pc[t] = "round_link" => TargetEntry # InsertEntry(t)

(* A lock that more than one has is a read lock of all of them.            *)
Exclusive ==
  \A x, y \in locks : x[1] = y[1] /\ x # y => x[3] = "read" /\ y[3] = "read"

(* What rehashNSteps knows when t is in it.                                *)
Rehashing(t) ==
  /\ pc[t] \in Rounds <=> rehash_lock = t
  /\ pc[t] = "aborted" => SecondSize < FirstSize
  /\ pc[t] \in {"round_update", "round_node"} => rehash.retry < REHASH_RETRY
  /\ pc[t] \in Moving =>
        rehash.i < REHASH_STEPS /\ rehash.entry \in Entries /\ rehash.entry[1] = current_base
  /\ pc[t] = "round_target" => rehash.node = head[rehash.entry] /\ rehash.node # NULL
  /\ pc[t] = "round_link" =>
        rehash.node # NULL /\ rehash.node # local[t].new_node /\ current_base = 1

(* The nodes that t has found stay where they are.                         *)
Found(t) ==
  /\ pc[t] = "item" => local[t].p \in Linked(Entry(t))
  /\ Held(t) # NULL => \E e \in Entries : Held(t) \in Linked(e)

(* Where a list begins: at an entry, or at the head of the free list.      *)
Free  == <<0, 0>>
Spots == Entries \cup {Free}

First(s) == IF s[1] = 0 THEN free_list ELSE head[s]
List(s)  == OnTheWay(First(s))

(* No node is behind itself.                                               *)
NoCircles == \A s \in Spots : \A n \in List(s) : n \notin OnTheWay(node[n].next)

(* Every node is in one list or in the hands of one thread.                *)
Apart ==
  /\ \A r, s \in Spots : r # s => List(r) \cap List(s) = {}
  /\ \A t \in Threads : \A s \in Spots : Private(t) \cap List(s) = {}
  /\ \A t, u \in Threads : t # u => Private(t) \cap Private(u) = {}
  /\ \A n \in Nodes :
        (\E s \in Spots : n \in List(s)) \/ (\E t \in Threads : n \in Private(t))

(* A node of an entry has a key that belongs there, and the node of an     *)
(* insert has its key.                                                     *)
Keyed ==
  /\ \A e \in Entries : \A n \in Linked(e) :
        /\ e[1] \in KnownBases
        /\ node[n].key \in Keys /\ e = EntryOf(e[1], node[n].key)
  /\ \A t \in Threads : \A n \in Private(t) : node[n].key \in Keys
  /\ \A t \in Threads : local[t].new_node \in Private(t) => node[local[t].new_node].key = call[t].key

(* A node that has had a key has a value.                                  *)
Valued == \A n \in Nodes : node[n].key \in Keys => node[n].value \in Values

(* list_length is the length of the list.                                  *)
Lengths == \A e \in Entries : list_length[e] = Cardinality(Linked(e))

(* The inductive invariant.                                                *)
IInv ==
  /\ TypeOK /\ TableRight /\ Exclusive
  /\ \A t \in Threads : Flow(t) /\ Looks(t) /\ Claims(t) /\ Rehashing(t) /\ Found(t)
  /\ NoCircles /\ Apart /\ Keyed /\ Valued /\ Lengths /\ CountsMatch

-----------------------------------------------------------------------------
(* Lists                                                                   *)

(* OnTheWay for any contents F of the nodes.                               *)
Way(F, p) ==
  IF p = NULL THEN {}
  ELSE {n \in Nodes : \A S \in SUBSET Nodes :
          p \in S /\ (\A m \in S : F[m].next \in S \cup {NULL}) => n \in S}

(* Every node has a successor or is a last one.                            *)
Links(F) == \A n \in Nodes : F[n].next \in Nodes \cup {NULL}

(* No node behind p is behind itself.                                      *)
Straight(F, p) == \A n \in Way(F, p) : n \notin Way(F, F[n].next)

(* The lists of the entries, and the free list.                            *)
LEMMA SpotsAre ==
  /\ \A e \in Entries : e \in Spots /\ e # Free /\ First(e) = head[e] /\ List(e) = Linked(e)
  /\ Free \in Spots /\ First(Free) = free_list /\ List(Free) = OnTheWay(free_list)
BY DEF Spots, Entries, Bases, Free, First, List, Linked

(* The lists of the model are ways through its nodes.                      *)
LEMMA OnTheWayIs == \A p : OnTheWay(p) = Way(node, p)
BY DEF OnTheWay, Way

(* A way is the least set of its kind.                                     *)
LEMMA WayLeast ==
  ASSUME NEW F, NEW p, NEW S \in SUBSET Nodes, p \in S \cup {NULL},
         \A m \in S : F[m].next \in S \cup {NULL}
  PROVE  Way(F, p) \subseteq S
BY DEF Way

(* A way is a set of its kind.                                             *)
LEMMA WayIs ==
  ASSUME NEW F, Links(F), NEW p \in Nodes \cup {NULL}
  PROVE  /\ Way(F, p) \in SUBSET Nodes
         /\ p # NULL => p \in Way(F, p)
         /\ \A m \in Way(F, p) : F[m].next \in Way(F, p) \cup {NULL}
BY DEF Way, Links

(* What is behind a node of a way is in the way.                           *)
LEMMA WayWithin ==
  ASSUME NEW F, Links(F), NEW p \in Nodes \cup {NULL}, NEW q \in Way(F, p) \cup {NULL}
  PROVE  Way(F, q) \subseteq Way(F, p)
BY WayIs, WayLeast

(* A way is its first node and the way behind it.                          *)
LEMMA WayStep ==
  ASSUME NEW F, Links(F), NEW p \in Nodes
  PROVE  Way(F, p) = Way(F, F[p].next) \cup {p}
<1> DEFINE q == F[p].next
           S == Way(F, q) \cup {p}
<1>1. p # NULL /\ q \in Nodes \cup {NULL}
  BY HashTableAssumption DEF Links
<1>2. S \in SUBSET Nodes /\ p \in S /\ \A m \in S : F[m].next \in S \cup {NULL}
  BY <1>1, WayIs
<1>3. Way(F, p) \subseteq S
  <2> HIDE DEF q, S
  <2>1. QED
    BY <1>2, WayLeast
<1>4. p \in Way(F, p) /\ q \in Way(F, p) \cup {NULL}
  BY <1>1, WayIs
<1>5. Way(F, q) \subseteq Way(F, p)
  BY <1>4, WayWithin
<1>6. QED
  BY <1>3, <1>4, <1>5

(* A list does not change with the nodes outside of it.                    *)
LEMMA WayKept ==
  ASSUME NEW F, NEW G, Links(F), Links(G), NEW p \in Nodes \cup {NULL},
         \A n \in Way(F, p) : G[n].next = F[n].next
  PROVE  Way(G, p) = Way(F, p)
<1>1. Way(G, p) \subseteq Way(F, p)
  <2>1. Way(F, p) \in SUBSET Nodes /\ p \in Way(F, p) \cup {NULL}
        /\ \A m \in Way(F, p) : G[m].next \in Way(F, p) \cup {NULL}
    BY WayIs
  <2>2. QED
    BY <2>1, WayLeast
<1>2. Way(F, p) \subseteq Way(G, p)
  <2>1. Way(G, p) \in SUBSET Nodes /\ p \in Way(G, p) \cup {NULL}
        /\ \A m \in Way(G, p) : F[m].next \in Way(G, p) \cup {NULL}
    BY <1>1, WayIs
  <2>2. QED
    BY <2>1, WayLeast
<1>3. QED
  BY <1>1, <1>2

(* The same, and it still has no circle.                                   *)
LEMMA StraightKept ==
  ASSUME NEW F, NEW G, Links(F), Links(G), NEW p \in Nodes \cup {NULL},
         \A n \in Way(F, p) : G[n].next = F[n].next, Straight(F, p)
  PROVE  Way(G, p) = Way(F, p) /\ Straight(G, p)
<1>1. Way(G, p) = Way(F, p)
  BY WayKept
<1>2. ASSUME NEW n \in Way(F, p) PROVE n \notin Way(G, G[n].next)
  <2>1. PICK q \in Way(F, p) \cup {NULL} : q = F[n].next /\ q = G[n].next
    BY <1>2, WayIs
  <2>2. Way(F, q) \subseteq Way(F, p) /\ q \in Nodes \cup {NULL}
    BY <2>1, WayIs, WayWithin
  <2>3. Way(G, q) = Way(F, q)
    BY <2>2, WayKept
  <2>4. QED
    BY <1>2, <2>1, <2>3 DEF Straight
<1>3. QED
  BY <1>1, <1>2 DEF Straight

(* A node from outside is put at the front.                                *)
LEMMA Pushed ==
  ASSUME NEW F, NEW G, Links(F), Links(G), NEW p \in Nodes \cup {NULL}, Straight(F, p),
         NEW z \in Nodes, z \notin Way(F, p), G[z].next = p,
         \A n \in Nodes \ {z} : G[n].next = F[n].next
  PROVE  Way(G, z) = Way(F, p) \cup {z} /\ Straight(G, z)
<1>1. \A n \in Way(F, p) : G[n].next = F[n].next
  BY WayIs
<1>2. Way(G, p) = Way(F, p) /\ Straight(G, p)
  BY <1>1, StraightKept
<1>3. Way(G, z) = Way(G, p) \cup {z}
  BY WayStep
<1>4. QED
  BY <1>2, <1>3 DEF Straight

(* The first node is taken away.                                           *)
LEMMA Popped ==
  ASSUME NEW F, Links(F), NEW p \in Nodes, Straight(F, p)
  PROVE  Way(F, F[p].next) = Way(F, p) \ {p} /\ Straight(F, F[p].next)
<1>1. Way(F, p) = Way(F, F[p].next) \cup {p}
  BY WayStep
<1>2. p \notin Way(F, F[p].next)
  BY <1>1 DEF Straight
<1>3. QED
  BY <1>1, <1>2 DEF Straight

(* A node is taken out of a list: its predecessor gets its successor.      *)
LEMMA TakenOut ==
  ASSUME NEW F, NEW G, Links(F), Links(G), NEW p \in Nodes \cup {NULL}, Straight(F, p),
         NEW z \in Way(F, p),
         \A n \in Way(F, p) : G[n].next = IF F[n].next = z THEN F[z].next ELSE F[n].next,
         NEW q, q = IF p = z THEN F[z].next ELSE p
  PROVE  Way(G, q) = Way(F, p) \ {z} /\ Straight(G, q)
<1>1. z \in Nodes /\ Way(F, p) \in SUBSET Nodes /\ z # NULL
  BY WayIs, HashTableAssumption
<1>2. F[z].next # z /\ F[z].next \in Way(F, p) \cup {NULL}
  BY <1>1, WayIs DEF Straight
(* Of every node behind p but z, the way is what it was without z.         *)
<1>3. ASSUME NEW r \in Way(F, p) \cup {NULL}, r # z
      PROVE  Way(G, r) = Way(F, r) \ {z}
  <2>1. r \in Nodes \cup {NULL} /\ Way(F, r) \subseteq Way(F, p)
    BY <1>1, WayWithin
  <2>2. Way(G, r) \subseteq Way(F, r) \ {z}
    <3> DEFINE S == Way(F, r) \ {z}
    <3>1. S \in SUBSET Nodes /\ r \in S \cup {NULL}
      BY <1>3, <2>1, WayIs
    <3>2. ASSUME NEW m \in S PROVE G[m].next \in S \cup {NULL}
      <4>1. F[m].next \in Way(F, r) \cup {NULL}
        BY <2>1, WayIs
      <4>2. CASE F[m].next # z
        BY <2>1, <4>1, <4>2
      <4>3. CASE F[m].next = z
        <5>1. z \in Way(F, r)
          BY <1>1, <4>1, <4>3
        <5>2. F[z].next \in S \cup {NULL}
          BY <1>2, <2>1, <5>1, WayIs
        <5>3. QED
          BY <2>1, <4>3, <5>2
      <4>4. QED
        BY <4>2, <4>3
    <3> HIDE DEF S
    <3>3. Way(G, r) \subseteq S
      BY <3>1, <3>2, WayLeast
    <3>4. QED
      BY <3>3 DEF S
  <2>3. Way(F, r) \ {z} \subseteq Way(G, r)
    <3>1. Way(G, r) \in SUBSET Nodes /\ r \in Way(G, r) \cup {NULL}
          /\ \A m \in Way(G, r) : G[m].next \in Way(G, r) \cup {NULL}
      BY <2>1, WayIs
    <3>2. CASE \E m \in Way(G, r) : F[m].next = z
      <4> DEFINE S == Way(G, r) \cup {z}
      <4>1. PICK m \in Way(G, r) : F[m].next = z
        BY <3>2
      <4>2. F[z].next \in Way(G, r) \cup {NULL}
        BY <2>1, <2>2, <3>1, <4>1
      <4>3. \A n \in S : F[n].next \in S \cup {NULL}
        BY <2>1, <2>2, <3>1, <4>2
      <4>4. S \in SUBSET Nodes /\ r \in S \cup {NULL}
        BY <1>1, <3>1
      <4> HIDE DEF S
      <4>5. Way(F, r) \subseteq S
        BY <4>3, <4>4, WayLeast
      <4>6. QED
        BY <4>5 DEF S
    <3>3. CASE ~\E m \in Way(G, r) : F[m].next = z
      <4>1. \A m \in Way(G, r) : F[m].next \in Way(G, r) \cup {NULL}
        BY <2>1, <2>2, <3>1, <3>3
      <4>2. QED
        BY <3>1, <4>1, WayLeast
    <3>4. QED
      BY <3>2, <3>3
  <2>4. QED
    BY <2>2, <2>3
<1>4. Way(G, q) = Way(F, p) \ {z}
  <2>1. CASE p # z
    <3>1. p \in Way(F, p) \cup {NULL}
      BY WayIs
    <3>2. QED
      BY <1>3, <2>1, <3>1
  <2>2. CASE p = z
    <3>1. Way(F, q) = Way(F, p) \ {p}
      BY <1>1, <2>2, Popped
    <3>2. Way(G, q) = Way(F, q) \ {z}
      BY <1>2, <1>3, <2>2
    <3>3. QED
      BY <2>2, <3>1, <3>2
  <2>3. QED
    BY <2>1, <2>2
<1>5. ASSUME NEW n \in Way(F, p), n # z PROVE n \notin Way(G, G[n].next)
  <2>1. PICK r : r = G[n].next
    OBVIOUS
  <2>2. r \in Way(F, p) \cup {NULL} /\ r # z
    <3>1. F[n].next \in Way(F, p) \cup {NULL}
      BY WayIs
    <3>2. r = IF F[n].next = z THEN F[z].next ELSE F[n].next
      BY <2>1
    <3>3. QED
      BY <1>2, <3>1, <3>2
  <2>3. Way(G, r) = Way(F, r) \ {z}
    BY <1>3, <2>2
  <2>4. n \notin Way(F, F[n].next)
    BY DEF Straight
  <2>5. CASE F[n].next # z
    BY <2>1, <2>3, <2>4, <2>5
  <2>6. CASE F[n].next = z
    <3>1. Way(F, z) = Way(F, F[z].next) \cup {z}
      BY <1>1, WayStep
    <3>2. r = F[z].next
      BY <2>1, <2>6
    <3>3. QED
      BY <2>1, <2>3, <2>4, <2>6, <3>1, <3>2
  <2>7. QED
    BY <2>5, <2>6
<1>6. QED
  BY <1>4, <1>5 DEF Straight

-----------------------------------------------------------------------------
(* A step of one thread leaves the others alone.                           *)

(* A step of t.                                                            *)
Moves(t) == Call(t) \/ Step(t)

USE DEF At, GoTo, Table, Lists, Counts, Sync

(* The places, locals and arguments of the other threads stay.             *)
LEMMA OthersStay ==
  ASSUME TypeOK, NEW t \in Threads, Moves(t)
  PROVE  \A u \in Threads : u # t =>
            pc'[u] = pc[u] /\ local'[u] = local[u] /\ call'[u] = call[u]
<1>1. CASE Call(t)
  BY <1>1 DEF Call, TypeOK
<1>2. CASE Returns(t)
  BY <1>2 DEF Returns, TypeOK
<1>3. CASE unlockHashTableItem(t)
  BY <1>3 DEF unlockHashTableItem, TypeOK
<1>4. CASE EnterRehash(t)
  BY <1>4 DEF EnterRehash, TypeOK
<1>5. CASE InsertBase(t)
  BY <1>5 DEF InsertBase, TypeOK
<1>6. CASE ReadBases(t)
  BY <1>6 DEF ReadBases, TypeOK
<1>7. CASE SearchMisses(t)
  BY <1>7 DEF SearchMisses, Return, TypeOK
<1>8. CASE SearchAnswers(t)
  BY <1>8 DEF SearchAnswers, Return, TypeOK
<1>9. CASE SearchFinds(t)
  BY <1>9 DEF SearchFinds, TypeOK
<1>10. CASE LockItem(t)
  BY <1>10 DEF LockItem, TypeOK
<1>11. CASE UpdateItem(t)
  BY <1>11 DEF UpdateItem, Return, TypeOK
<1>12. CASE UnlinkItem(t)
  BY <1>12 DEF UnlinkItem, TypeOK
<1>13. CASE ForgetItem(t)
  BY <1>13 DEF ForgetItem, Return, TypeOK
<1>14. CASE AllocNode(t)
  BY <1>14 DEF AllocNode, TypeOK
<1>15. CASE AllocFails(t)
  BY <1>15 DEF AllocFails, Return, TypeOK
<1>16. CASE LockHead(t)
  BY <1>16 DEF LockHead, TypeOK
<1>17. CASE WalkList(t)
  BY <1>17 DEF WalkList, TypeOK
<1>18. CASE WalkOn(t)
  BY <1>18 DEF WalkOn, TypeOK
<1>19. CASE WalkEnds(t)
  BY <1>19 DEF WalkEnds, TypeOK
<1>20. CASE WalkFinds(t)
  BY <1>20 DEF WalkFinds, Return, TypeOK
<1>21. CASE LinkNode(t)
  BY <1>21 DEF LinkNode, TypeOK
<1>22. CASE CountItem(t)
  BY <1>22 DEF CountItem, Return, TypeOK
<1>23. CASE StartRehash(t)
  BY <1>23 DEF StartRehash, Return, TypeOK
<1>24. CASE StartFails(t)
  BY <1>24 DEF StartFails, Return, TypeOK
<1>25. CASE AlreadyStarted(t)
  BY <1>25 DEF AlreadyStarted, Return, TypeOK
<1>26. CASE MapBase(t)
  BY <1>26 DEF MapBase, Return, TypeOK
<1>27. CASE MapHead(t)
  BY <1>27 DEF MapHead, TypeOK
<1>28. CASE MapItem(t)
  BY <1>28 DEF MapItem, TypeOK
<1>29. CASE MapLeave(t)
  BY <1>29 DEF MapLeave, Return, TypeOK
<1>30. CASE Round(t)
  BY <1>30 DEF Round, TypeOK
<1>31. CASE RoundFails(t)
  BY <1>31 DEF RoundFails, Retry, TypeOK
<1>32. CASE LeaveRehash(t)
  BY <1>32 DEF LeaveRehash, TypeOK
<1>33. CASE RoundUpdate(t)
  BY <1>33 DEF RoundUpdate, TypeOK
<1>34. CASE RoundUpdateFails(t)
  BY <1>34 DEF RoundUpdateFails, TypeOK
<1>35. CASE RoundNode(t)
  BY <1>35 DEF RoundNode, NextPos, Retry, TypeOK
<1>36. CASE RoundUnlink(t)
  BY <1>36 DEF RoundUnlink, TypeOK
<1>37. CASE RoundGivesUp(t)
  BY <1>37 DEF RoundGivesUp, TypeOK
<1>38. CASE RoundLink(t)
  BY <1>38 DEF RoundLink, TypeOK
<1>39. CASE RoundEnd(t)
  BY <1>39 DEF RoundEnd, TypeOK
<1>40. QED
  BY <1>1, <1>2, <1>3, <1>4, <1>5, <1>6, <1>7, <1>8, <1>9, <1>10, <1>11, <1>12, <1>13, <1>14,
     <1>15, <1>16, <1>17, <1>18, <1>19, <1>20, <1>21, <1>22, <1>23, <1>24, <1>25, <1>26, <1>27,
     <1>28, <1>29, <1>30, <1>31, <1>32, <1>33, <1>34, <1>35, <1>36, <1>37, <1>38, <1>39 DEF
     Moves, Step

(* Which steps change what.                                                *)

LEMMA Changes ==
  ASSUME NEW t \in Threads, Moves(t)
  PROVE  /\ \/ UNCHANGED <<Table>> \/ StartRehash(t) \/ StartFails(t) \/ RoundNode(t)
            \/ RoundEnd(t)
         /\ \/ UNCHANGED <<Lists>> \/ UpdateItem(t) \/ UnlinkItem(t) \/ ForgetItem(t)
            \/ AllocNode(t) \/ WalkFinds(t) \/ LinkNode(t) \/ RoundUnlink(t) \/ RoundLink(t)
         /\ \/ UNCHANGED <<Counts>> \/ ForgetItem(t) \/ CountItem(t) \/ RoundLink(t)
         /\ \/ UNCHANGED <<locks>> \/ unlockHashTableItem(t) \/ SearchFinds(t)
            \/ LockItem(t) \/ UpdateItem(t) \/ UnlinkItem(t) \/ LockHead(t) \/ WalkFinds(t)
            \/ LinkNode(t) \/ MapHead(t) \/ MapLeave(t) \/ Round(t) \/ RoundUpdateFails(t)
            \/ RoundNode(t) \/ RoundUnlink(t) \/ RoundGivesUp(t) \/ RoundLink(t)
            \/ RoundEnd(t)
         /\ \/ UNCHANGED <<rehash>> \/ RoundFails(t) \/ LeaveRehash(t) \/ Round(t)
            \/ RoundUpdateFails(t) \/ RoundNode(t) \/ RoundUnlink(t) \/ RoundGivesUp(t)
            \/ RoundLink(t) \/ RoundEnd(t)
         /\ \/ UNCHANGED <<rehash_lock>> \/ EnterRehash(t) \/ LeaveRehash(t)
         /\ \/ UNCHANGED <<update_lock>> \/ RoundUpdate(t) \/ RoundEnd(t)
<1>1. CASE Call(t)
  BY <1>1 DEF Call
<1>2. CASE Returns(t)
  BY <1>2 DEF Returns
<1>3. CASE unlockHashTableItem(t)
  BY <1>3 DEF unlockHashTableItem
<1>4. CASE EnterRehash(t)
  BY <1>4 DEF EnterRehash
<1>5. CASE InsertBase(t)
  BY <1>5 DEF InsertBase
<1>6. CASE ReadBases(t)
  BY <1>6 DEF ReadBases
<1>7. CASE SearchMisses(t)
  BY <1>7 DEF SearchMisses, Return
<1>8. CASE SearchAnswers(t)
  BY <1>8 DEF SearchAnswers, Return
<1>9. CASE SearchFinds(t)
  BY <1>9 DEF SearchFinds
<1>10. CASE LockItem(t)
  BY <1>10 DEF LockItem
<1>11. CASE UpdateItem(t)
  BY <1>11 DEF UpdateItem, Return
<1>12. CASE UnlinkItem(t)
  BY <1>12 DEF UnlinkItem
<1>13. CASE ForgetItem(t)
  BY <1>13 DEF ForgetItem, Return
<1>14. CASE AllocNode(t)
  BY <1>14 DEF AllocNode
<1>15. CASE AllocFails(t)
  BY <1>15 DEF AllocFails, Return
<1>16. CASE LockHead(t)
  BY <1>16 DEF LockHead
<1>17. CASE WalkList(t)
  BY <1>17 DEF WalkList
<1>18. CASE WalkOn(t)
  BY <1>18 DEF WalkOn
<1>19. CASE WalkEnds(t)
  BY <1>19 DEF WalkEnds
<1>20. CASE WalkFinds(t)
  BY <1>20 DEF WalkFinds, Return
<1>21. CASE LinkNode(t)
  BY <1>21 DEF LinkNode
<1>22. CASE CountItem(t)
  BY <1>22 DEF CountItem, Return
<1>23. CASE StartRehash(t)
  BY <1>23 DEF StartRehash, Return
<1>24. CASE StartFails(t)
  BY <1>24 DEF StartFails, Return
<1>25. CASE AlreadyStarted(t)
  BY <1>25 DEF AlreadyStarted, Return
<1>26. CASE MapBase(t)
  BY <1>26 DEF MapBase, Return
<1>27. CASE MapHead(t)
  BY <1>27 DEF MapHead
<1>28. CASE MapItem(t)
  BY <1>28 DEF MapItem
<1>29. CASE MapLeave(t)
  BY <1>29 DEF MapLeave, Return
<1>30. CASE Round(t)
  BY <1>30 DEF Round
<1>31. CASE RoundFails(t)
  BY <1>31 DEF RoundFails, Retry
<1>32. CASE LeaveRehash(t)
  BY <1>32 DEF LeaveRehash
<1>33. CASE RoundUpdate(t)
  BY <1>33 DEF RoundUpdate
<1>34. CASE RoundUpdateFails(t)
  BY <1>34 DEF RoundUpdateFails
<1>35. CASE RoundNode(t)
  BY <1>35 DEF RoundNode, NextPos, Retry
<1>36. CASE RoundUnlink(t)
  BY <1>36 DEF RoundUnlink
<1>37. CASE RoundGivesUp(t)
  BY <1>37 DEF RoundGivesUp
<1>38. CASE RoundLink(t)
  BY <1>38 DEF RoundLink
<1>39. CASE RoundEnd(t)
  BY <1>39 DEF RoundEnd
<1>40. QED
  BY <1>1, <1>2, <1>3, <1>4, <1>5, <1>6, <1>7, <1>8, <1>9, <1>10, <1>11, <1>12, <1>13, <1>14,
     <1>15, <1>16, <1>17, <1>18, <1>19, <1>20, <1>21, <1>22, <1>23, <1>24, <1>25, <1>26, <1>27,
     <1>28, <1>29, <1>30, <1>31, <1>32, <1>33, <1>34, <1>35, <1>36, <1>37, <1>38, <1>39 DEF
     Moves, Step

(* The steps that change the bases.                                        *)
LEMMA TableMoves ==
  ASSUME NEW t \in Threads, Moves(t)
  PROVE  \/ UNCHANGED <<Table>> \/ StartRehash(t) \/ StartFails(t) \/ RoundNode(t)
         \/ RoundEnd(t)
BY Changes

(* The steps that change nodes, heads, lengths or the free list.           *)
LEMMA ListsMove ==
  ASSUME NEW t \in Threads, Moves(t)
  PROVE  \/ UNCHANGED <<Lists>> \/ UpdateItem(t) \/ UnlinkItem(t) \/ ForgetItem(t)
         \/ AllocNode(t) \/ WalkFinds(t) \/ LinkNode(t) \/ RoundUnlink(t) \/ RoundLink(t)
BY Changes

(* The steps that count items.                                             *)
LEMMA CountsMove ==
  ASSUME NEW t \in Threads, Moves(t)
  PROVE  \/ UNCHANGED <<Counts>> \/ ForgetItem(t) \/ CountItem(t) \/ RoundLink(t)
BY Changes

(* The steps that lock or unlock.                                          *)
LEMMA LocksMove ==
  ASSUME NEW t \in Threads, Moves(t)
  PROVE  \/ UNCHANGED <<locks>> \/ unlockHashTableItem(t) \/ SearchFinds(t) \/ LockItem(t)
         \/ UpdateItem(t) \/ UnlinkItem(t) \/ LockHead(t) \/ WalkFinds(t) \/ LinkNode(t)
         \/ MapHead(t) \/ MapLeave(t) \/ Round(t) \/ RoundUpdateFails(t) \/ RoundNode(t)
         \/ RoundUnlink(t) \/ RoundGivesUp(t) \/ RoundLink(t) \/ RoundEnd(t)
BY Changes

(* The steps of rehashNSteps that change its locals.                       *)
LEMMA RehashMoves ==
  ASSUME NEW t \in Threads, Moves(t)
  PROVE  \/ UNCHANGED <<rehash>> \/ RoundFails(t) \/ LeaveRehash(t) \/ Round(t)
         \/ RoundUpdateFails(t) \/ RoundNode(t) \/ RoundUnlink(t) \/ RoundGivesUp(t)
         \/ RoundLink(t) \/ RoundEnd(t)
BY Changes

(* The steps that take and give back rehash_lock.                          *)
LEMMA RehashLockMoves ==
  ASSUME NEW t \in Threads, Moves(t)
  PROVE  \/ UNCHANGED <<rehash_lock>> \/ EnterRehash(t) \/ LeaveRehash(t)
BY Changes

(* The steps that take and give back an update_lock.                       *)
LEMMA UpdateLockMoves ==
  ASSUME NEW t \in Threads, Moves(t)
  PROVE  \/ UNCHANGED <<update_lock>> \/ RoundUpdate(t) \/ RoundEnd(t)
BY Changes

(* A base has an entry, and none is larger than Entries allows.            *)
LEMMA SizesAre ==
  /\ FirstSize \in Nat /\ FirstSize > 0 /\ FirstSize <= MaxSize
  /\ SecondSize \in Nat /\ SecondSize > 0 /\ SecondSize <= MaxSize
  /\ LEAST_HASH_ENTRIES \in Nat \ {0} /\ SecondSize = 2 * LEAST_HASH_ENTRIES
  /\ MaxSize \in Nat /\ MaxSize > 0
BY HashTableAssumption DEF FirstSize, SecondSize, MaxSize

(* A key has an entry in every base that exists.                           *)
LEMMA EntryIs ==
  ASSUME TypeOK, TableRight, NEW b \in KnownBases, NEW k \in Keys
  PROVE  EntryOf(b, k) \in Entries /\ EntryOf(b, k)[1] = b
<1>1. b \in Bases /\ size[b] \in Nat /\ size[b] > 0 /\ size[b] <= MaxSize
  BY SizesAre DEF TypeOK, TableRight, KnownBases, Bases
<1>2. PICK h \in Nat : h = Hash[k]
  BY HashTableAssumption
<1>3. h % size[b] \in 0..(size[b] - 1)
  BY <1>1
<1>4. h % size[b] \in 0..(MaxSize - 1)
  BY <1>1, <1>3, SizesAre
<1>5. QED
  BY <1>1, <1>2, <1>4 DEF EntryOf, Entries

(* A rehash adds the second base; the entries of a known base stay.        *)
LEMMA TableKept ==
  ASSUME TypeOK, TableRight, NEW t \in Threads, Rehashing(t), Moves(t)
  PROVE  /\ TableRight'
         /\ KnownBases \subseteq KnownBases'
         /\ \A b \in KnownBases : size'[b] = size[b]
<1>1. rehash_lock' # NULL => is_rehashing
  <2>1. CASE UNCHANGED rehash_lock
    BY <2>1 DEF TableRight
  <2>2. CASE EnterRehash(t)
    BY <2>2 DEF EnterRehash, TableRight
  <2>3. CASE LeaveRehash(t)
    BY <2>3 DEF LeaveRehash
  <2>4. QED
    BY <2>1, <2>2, <2>3, RehashLockMoves
<1>2. CASE UNCHANGED <<Table>>
  BY <1>1, <1>2 DEF TableRight, KnownBases
<1>3. CASE StartRehash(t)
  <2>1. current_base = 1 /\ ~is_rehashing /\ is_rehashing' /\ rehash_insert_base' = 2
        /\ current_base' = 1 /\ rehash_pos' = 0 /\ size[2] = 0
    BY <1>3 DEF StartRehash, TableRight, KnownBases
  <2>2. size' = [size EXCEPT ![2] = SecondSize]
    <3>1. 3 - current_base = 2 /\ size[2] < LEAST_HASH_ENTRIES
      BY <2>1, SizesAre
    <3>2. size' = [size EXCEPT ![2] = 2 * LEAST_HASH_ENTRIES]
      BY <1>3, <3>1 DEF StartRehash
    <3>3. QED
      BY <3>2 DEF SecondSize
  <2>3. size'[1] = FirstSize /\ size'[2] = SecondSize
    BY <2>2 DEF TypeOK, Bases, TableRight
  <2>4. QED
    BY <2>1, <2>3, SizesAre DEF TableRight, KnownBases
<1>4. CASE StartFails(t)
  BY <1>1, <1>4 DEF StartFails, TableRight, KnownBases
<1>5. CASE RoundNode(t)
  <2>1. rehash_pos' < size[current_base] \/ SecondSize < FirstSize
    <3>1. CASE rehash_pos' = rehash_pos
      BY <3>1 DEF TableRight
    <3>2. CASE rehash_pos' = (rehash_pos + 1) % size[current_base]
      <4>1. size[current_base] \in Nat /\ size[current_base] > 0 /\ rehash_pos + 1 \in Nat
        BY SizesAre DEF TypeOK, TableRight, KnownBases, Bases
      <4>2. QED
        BY <3>2, <4>1
    <3>3. QED
      BY <1>5, <3>1, <3>2 DEF RoundNode, NextPos
  <2>2. QED
    BY <1>1, <1>5, <2>1 DEF RoundNode, NextPos, TableRight, KnownBases
<1>6. CASE RoundEnd(t)
  <2>1. is_rehashing
    BY <1>6, HashTableAssumption DEF RoundEnd, Rehashing, Rounds, Moving, TableRight
  <2>2. current_base' = current_base \/ current_base' = 2
    BY <1>6, <2>1 DEF RoundEnd, TableRight, KnownBases
  <2>3. rehash_pos < SecondSize \/ SecondSize < FirstSize
    <3>1. rehash_pos \in Nat /\ (current_base = 1 \/ current_base = 2)
      BY DEF TypeOK, Bases
    <3>2. QED
      BY <2>1, <3>1, SizesAre DEF TableRight
  <2>4. QED
    BY <1>1, <1>6, <2>1, <2>2, <2>3 DEF RoundEnd, TableRight, KnownBases
<1>7. QED
  BY <1>2, <1>3, <1>4, <1>5, <1>6, TableMoves

-----------------------------------------------------------------------------
(* Where the threads are                                                   *)

(* What lists bases of B lists bases of a larger set.                      *)
LEMMA BaseListsGrow ==
  ASSUME NEW B, NEW C, B \subseteq C
  PROVE  BaseLists(B) \subseteq BaseLists(C)
BY DEF BaseLists

(* The first of the bases and the rest of them.                            *)
LEMMA BaseListIs ==
  ASSUME NEW B, NEW list \in BaseLists(B)
  PROVE  /\ list # <<>> => list[1] \in B /\ Tail(list) \in BaseLists(B)
         /\ Len(list) \in Nat
         /\ Len(list) > 1 => Tail(list) # <<>>
<1>1. ASSUME list = <<>> PROVE Len(list) = 0
  BY <1>1
<1>2. ASSUME NEW b \in B, list = <<b>>
      PROVE  Tail(list) = <<>> /\ list[1] \in B /\ Len(list) = 1
  BY <1>2
<1>3. ASSUME NEW b \in B, NEW c \in B, list = <<b, c>>
      PROVE  Tail(list) = <<c>> /\ list[1] \in B /\ Len(list) = 2
  BY <1>3
<1>4. \/ list = <<>>
      \/ \E b \in B : list = <<b>>
      \/ \E b, c \in B : list = <<b, c>>
  BY DEF BaseLists
<1>5. <<>> \in BaseLists(B) /\ \A c \in B : <<c>> \in BaseLists(B) /\ <<c>> # <<>>
  BY DEF BaseLists
<1>6. CASE list = <<>>
  BY <1>1, <1>6
<1>7. CASE \E b \in B : list = <<b>>
  BY <1>2, <1>5, <1>7
<1>8. CASE \E b, c \in B : list = <<b, c>>
  BY <1>3, <1>5, <1>8
<1>9. QED
  BY <1>4, <1>6, <1>7, <1>8

(* The fields of the locals between calls.                                 *)
LEMMA NoLocalsIs ==
  /\ NoLocals.bases = <<>> /\ NoLocals.insert_base = 0 /\ NoLocals.new_node = NULL
  /\ NoLocals.p = NULL /\ NoLocals.pos = 0
BY DEF NoLocals

(* Return resets the locals.                                               *)
LEMMA Returned ==
  ASSUME TypeOK, NEW t \in Threads, NEW a, Return(t, a)
  PROVE  pc'[t] = "return" /\ local'[t] = NoLocals /\ answer'[t] = a
BY DEF TypeOK, Return

(* The bases that the other threads look into still exist.                 *)
LEMMA LooksOfOthers ==
  ASSUME NEW u \in Threads, Looks(u), pc'[u] = pc[u], local'[u] = local[u],
         KnownBases \subseteq KnownBases', \A b \in KnownBases : size'[b] = size[b]
  PROVE  Looks(u)'
<1>1. local[u].bases \in BaseLists(KnownBases')
  BY BaseListsGrow DEF Looks
<1>2. local[u].bases # <<>> => local[u].bases[1] \in KnownBases
  BY BaseListIs DEF Looks
<1>3. QED
  BY <1>1, <1>2 DEF Looks

(* Flow of the thread that takes the step.                                 *)
LEMMA FlowKept ==
  ASSUME TypeOK, TableRight, NEW t \in Threads, Flow(t), Moves(t)
  PROVE  Flow(t)'
<1>1. CASE Call(t)
  BY <1>1 DEF Call, TypeOK, Flow, Inside, Rounds, Moving
<1>2. CASE Returns(t)
  <2>1. pc'[t] = "idle" /\ local' = local
    BY <1>2 DEF Returns, TypeOK
  <2>2. QED
    BY <1>2, <2>1 DEF Returns, Flow, Inside, Rounds, Moving
<1>3. CASE unlockHashTableItem(t)
  <2>1. pc'[t] = "idle" /\ local'[t] = NoLocals
    BY <1>3 DEF unlockHashTableItem, TypeOK
  <2>2. QED
    BY <2>1, NoLocalsIs DEF Flow, Inside, Rounds, Moving
<1>4. CASE EnterRehash(t)
  BY <1>4 DEF EnterRehash, TypeOK, Flow, Inside, Rounds, Moving
<1>5. CASE InsertBase(t)
  <2>1. (IF is_rehashing THEN rehash_insert_base ELSE current_base) # 0
    BY DEF TypeOK, TableRight, Bases
  <2>2. QED
    BY <1>5, <2>1 DEF InsertBase, TypeOK, Flow, Inside, Rounds, Moving
<1>6. CASE ReadBases(t)
  BY <1>6 DEF ReadBases, TypeOK, Flow, Inside, Rounds, Moving
<1>7. CASE SearchMisses(t)
  <2>1. ASSUME Return(t, "missing") PROVE Flow(t)'
    BY <2>1, NoLocalsIs, Returned DEF Flow, Inside, Rounds, Moving
  <2>2. CASE Len(local[t].bases) > 1
    <3>1. pc' = pc /\ call' = call /\ local'[t].new_node = local[t].new_node
          /\ local'[t].insert_base = local[t].insert_base /\ local'[t].then = local[t].then
      BY <1>7, <2>2 DEF SearchMisses, TypeOK, CallLocals
    <3>2. QED
      BY <1>7, <3>1 DEF SearchMisses, Flow, Inside, Rounds, Moving
  <2>3. CASE ~(Len(local[t].bases) > 1) /\ call[t].op = "insert"
    BY <1>7, <2>3 DEF SearchMisses, TypeOK, Flow, Inside, Rounds, Moving
  <2>4. QED
    BY <1>7, <2>1, <2>2, <2>3 DEF SearchMisses
<1>8. CASE SearchAnswers(t)
  <2>1. \E a : Return(t, a)
    BY <1>8 DEF SearchAnswers
  <2>2. QED
    BY <2>1, NoLocalsIs, Returned DEF Flow, Inside, Rounds, Moving
<1>9. CASE SearchFinds(t)
  BY <1>9 DEF SearchFinds, TypeOK, Flow, Inside, Rounds, Moving
<1>10. CASE LockItem(t)
  <2>1. pc'[t] = "return" /\ local'[t].new_node = NULL /\ local'[t].insert_base = 0
    BY <1>10 DEF LockItem, TypeOK, NoLocals
  <2>2. QED
    BY <2>1 DEF Flow, Inside, Rounds, Moving
<1>11. CASE UpdateItem(t)
  <2>1. \E a : Return(t, a)
    BY <1>11 DEF UpdateItem
  <2>2. QED
    BY <2>1, NoLocalsIs, Returned DEF Flow, Inside, Rounds, Moving
<1>12. CASE UnlinkItem(t)
  BY <1>12 DEF UnlinkItem, TypeOK, Flow, Inside, Rounds, Moving
<1>13. CASE ForgetItem(t)
  <2>1. \E a : Return(t, a)
    BY <1>13 DEF ForgetItem
  <2>2. QED
    BY <2>1, NoLocalsIs, Returned DEF Flow, Inside, Rounds, Moving
<1>14. CASE AllocNode(t)
  BY <1>14 DEF AllocNode, TypeOK, Flow, Inside, Rounds, Moving
<1>15. CASE AllocFails(t)
  <2>1. \E a : Return(t, a)
    BY <1>15 DEF AllocFails
  <2>2. QED
    BY <2>1, NoLocalsIs, Returned DEF Flow, Inside, Rounds, Moving
<1>16. CASE LockHead(t)
  BY <1>16 DEF LockHead, TypeOK, Flow, Inside, Rounds, Moving
<1>17. CASE WalkList(t)
  BY <1>17 DEF WalkList, TypeOK, Flow, Inside, Rounds, Moving
<1>18. CASE WalkOn(t)
  BY <1>18 DEF WalkOn, TypeOK, Flow, Inside, Rounds, Moving
<1>19. CASE WalkEnds(t)
  BY <1>19 DEF WalkEnds, TypeOK, Flow, Inside, Rounds, Moving
<1>20. CASE WalkFinds(t)
  <2>1. \E a : Return(t, a)
    BY <1>20 DEF WalkFinds
  <2>2. QED
    BY <2>1, NoLocalsIs, Returned DEF Flow, Inside, Rounds, Moving
<1>21. CASE LinkNode(t)
  BY <1>21 DEF LinkNode, TypeOK, Flow, Inside, Rounds, Moving
<1>22. CASE CountItem(t)
  <2>1. ASSUME Return(t, "done") PROVE Flow(t)'
    BY <2>1, NoLocalsIs, Returned DEF Flow, Inside, Rounds, Moving
  <2>2. QED
    BY <1>22, <2>1 DEF CountItem, TypeOK, Flow, Inside, Rounds, Moving
<1>23. CASE StartRehash(t)
  <2>1. \E a : Return(t, a)
    BY <1>23 DEF StartRehash
  <2>2. QED
    BY <2>1, NoLocalsIs, Returned DEF Flow, Inside, Rounds, Moving
<1>24. CASE StartFails(t)
  <2>1. \E a : Return(t, a)
    BY <1>24 DEF StartFails
  <2>2. QED
    BY <2>1, NoLocalsIs, Returned DEF Flow, Inside, Rounds, Moving
<1>25. CASE AlreadyStarted(t)
  <2>1. \E a : Return(t, a)
    BY <1>25 DEF AlreadyStarted
  <2>2. QED
    BY <2>1, NoLocalsIs, Returned DEF Flow, Inside, Rounds, Moving
<1>26. CASE MapBase(t)
  <2>1. ASSUME Return(t, "done") PROVE Flow(t)'
    BY <2>1, NoLocalsIs, Returned DEF Flow, Inside, Rounds, Moving
  <2>2. CASE local[t].bases # <<>>
    <3>1. pc'[t] \in {"map", "map_head"} /\ call' = call /\ local'[t].new_node = local[t].new_node
          /\ local'[t].insert_base = local[t].insert_base /\ local'[t].then = local[t].then
      BY <1>26, <2>2 DEF MapBase, TypeOK, CallLocals
    <3>2. QED
      BY <1>26, <3>1 DEF MapBase, Flow, Inside, Rounds, Moving
  <2>3. QED
    BY <1>26, <2>1, <2>2 DEF MapBase
<1>27. CASE MapHead(t)
  BY <1>27 DEF MapHead, TypeOK, Flow, Inside, Rounds, Moving
<1>28. CASE MapItem(t)
  <2>1. pc' = pc /\ call' = call /\ local'[t].new_node = local[t].new_node
        /\ local'[t].insert_base = local[t].insert_base /\ local'[t].then = local[t].then
    BY <1>28 DEF MapItem, TypeOK, CallLocals
  <2>2. QED
    BY <1>28, <2>1 DEF MapItem, Flow, Inside, Rounds, Moving
<1>29. CASE MapLeave(t)
  <2>1. ASSUME Return(t, "callback") PROVE Flow(t)'
    BY <2>1, NoLocalsIs, Returned DEF Flow, Inside, Rounds, Moving
  <2>2. CASE local[t].pos + 1 < size[local[t].bases[1]] \/ answer[t] # "callback"
    <3>1. pc'[t] \in {"map", "map_head"} /\ call' = call /\ local'[t].new_node = local[t].new_node
          /\ local'[t].insert_base = local[t].insert_base /\ local'[t].then = local[t].then
      BY <1>29, <2>2 DEF MapLeave, TypeOK, CallLocals
    <3>2. QED
      BY <1>29, <3>1 DEF MapLeave, Flow, Inside, Rounds, Moving
  <2>3. QED
    BY <1>29, <2>1, <2>2 DEF MapLeave
<1>30. CASE Round(t)
  BY <1>30 DEF Round, TypeOK, Flow, Inside, Rounds, Moving
<1>31. CASE RoundFails(t)
  BY <1>31 DEF RoundFails, Retry, TypeOK, Flow, Inside, Rounds, Moving
<1>32. CASE LeaveRehash(t)
  BY <1>32 DEF LeaveRehash, TypeOK, Flow, Inside, Rounds, Moving
<1>33. CASE RoundUpdate(t)
  BY <1>33 DEF RoundUpdate, TypeOK, Flow, Inside, Rounds, Moving
<1>34. CASE RoundUpdateFails(t)
  BY <1>34 DEF RoundUpdateFails, TypeOK, Flow, Inside, Rounds, Moving
<1>35. CASE RoundNode(t)
  BY <1>35 DEF RoundNode, NextPos, Retry, TypeOK, Flow, Inside, Rounds, Moving
<1>36. CASE RoundUnlink(t)
  BY <1>36 DEF RoundUnlink, TypeOK, Flow, Inside, Rounds, Moving
<1>37. CASE RoundGivesUp(t)
  BY <1>37 DEF RoundGivesUp, TypeOK, Flow, Inside, Rounds, Moving
<1>38. CASE RoundLink(t)
  BY <1>38 DEF RoundLink, TypeOK, Flow, Inside, Rounds, Moving
<1>39. CASE RoundEnd(t)
  BY <1>39 DEF RoundEnd, TypeOK, Flow, Inside, Rounds, Moving
<1>40. QED
  BY <1>1, <1>2, <1>3, <1>4, <1>5, <1>6, <1>7, <1>8, <1>9, <1>10, <1>11, <1>12, <1>13, <1>14,
     <1>15, <1>16, <1>17, <1>18, <1>19, <1>20, <1>21, <1>22, <1>23, <1>24, <1>25, <1>26, <1>27,
     <1>28, <1>29, <1>30, <1>31, <1>32, <1>33, <1>34, <1>35, <1>36, <1>37, <1>38, <1>39 DEF
     Moves, Step

(* Looks of the thread that takes the step.                                *)
LEMMA LooksKept ==
  ASSUME TypeOK, TableRight, NEW t \in Threads, Flow(t), Looks(t), Rehashing(t), Moves(t)
  PROVE  Looks(t)'
<1> DEFINE L == BaseLists(KnownBases')
<1>a. /\ KnownBases \subseteq KnownBases' /\ KnownBases' \subseteq Bases
      /\ local[t].insert_base \in KnownBases' \cup {0}
  BY TableKept DEF Looks, KnownBases, Bases
<1>b. local[t].bases \in L /\ <<>> \in L /\ \A l \in L : Len(l) \in Nat /\ (l # <<>> => Tail(l) \in L)
  <2>1. BaseLists(KnownBases) \subseteq L
    BY <1>a, BaseListsGrow
  <2>2. QED
    BY <2>1, BaseListIs DEF Looks, BaseLists
<1>c. local[t].bases # <<>> => /\ size'[local[t].bases[1]] = size[local[t].bases[1]]
                                /\ size[local[t].bases[1]] > 0
  <2>1. \A b \in KnownBases : size'[b] = size[b] /\ size[b] > 0
    BY TableKept, SizesAre DEF TableRight, KnownBases
  <2>2. QED
    BY <2>1, BaseListIs DEF Looks
<1> HIDE DEF L
<1>1. CASE Call(t)
  BY <1>a, <1>b, <1>c, <1>1 DEF Call, TypeOK, Looks, L, CallLocals
<1>2. CASE Returns(t)
  BY <1>a, <1>b, <1>c, <1>2 DEF Returns, TypeOK, Looks, L, CallLocals
<1>3. CASE unlockHashTableItem(t)
  <2>1. pc'[t] = "idle" /\ local'[t] = NoLocals
    BY <1>3 DEF unlockHashTableItem, TypeOK
  <2>2. QED
    BY <2>1, <1>a, <1>b, NoLocalsIs DEF Looks, L
<1>4. CASE EnterRehash(t)
  <2>1. pc'[t] \in {"round", "aborted", "insert_base", "bases"} /\ local' = local
    BY <1>4 DEF EnterRehash, TypeOK, Flow, Inside, Rounds, Moving
  <2>2. QED
    BY <1>4, <2>1, <1>a, <1>b DEF EnterRehash, Looks, L
<1>5. CASE InsertBase(t)
  <2>1. (IF is_rehashing THEN rehash_insert_base ELSE current_base) \in KnownBases'
    BY <1>5, <1>a DEF InsertBase, KnownBases, TableRight
  <2>2. QED
    BY <1>5, <1>a, <1>b, <2>1 DEF InsertBase, TypeOK, Looks, L, CallLocals
<1>6. CASE ReadBases(t)
  <2>1. (IF is_rehashing THEN <<current_base, rehash_insert_base>> ELSE <<current_base>>) \in L \ {<<>>}
    BY <1>6 DEF ReadBases, L, KnownBases, BaseLists, TableRight
  <2>2. PICK bases \in L \ {<<>>} :
           bases = IF is_rehashing THEN <<current_base, rehash_insert_base>> ELSE <<current_base>>
    BY <2>1
  <2>3. local'[t].bases = bases
        /\ local'[t].insert_base = local[t].insert_base /\ local'[t].pos = local[t].pos
    BY <1>6, <2>2 DEF ReadBases, TypeOK, CallLocals
  <2>4. pc'[t] \in {"map", "walk", "search"} /\ local[t].pos = 0
    BY <1>6 DEF ReadBases, TypeOK, Looks
  <2>5. QED
    BY <1>a, <2>2, <2>3, <2>4 DEF Looks, L
<1>7. CASE SearchMisses(t)
  <2>1. ASSUME Return(t, "missing") PROVE Looks(t)'
    BY <2>1, <1>a, <1>b, NoLocalsIs, Returned DEF Looks, L
  <2>2. CASE Len(local[t].bases) > 1
    <3>1. Tail(local[t].bases) \in L /\ Tail(local[t].bases) # <<>>
      BY <1>7, <1>b, <2>2, BaseListIs DEF Looks, L, SearchMisses
    <3>2. pc' = pc /\ local'[t].bases = Tail(local[t].bases)
          /\ local'[t].insert_base = local[t].insert_base /\ local'[t].pos = local[t].pos
      BY <1>7, <2>2 DEF SearchMisses, TypeOK, CallLocals
    <3>3. QED
      BY <1>7, <1>a, <3>1, <3>2 DEF Looks, SearchMisses, L
  <2>3. CASE ~(Len(local[t].bases) > 1) /\ call[t].op = "insert"
    BY <1>7, <1>a, <1>b, <2>3 DEF SearchMisses, TypeOK, Looks, L
  <2>4. QED
    BY <1>7, <2>1, <2>2, <2>3 DEF SearchMisses
<1>8. CASE SearchAnswers(t)
  <2>1. \E a : Return(t, a)
    BY <1>8 DEF SearchAnswers
  <2>2. QED
    BY <2>1, <1>a, <1>b, NoLocalsIs, Returned DEF Looks, L
<1>9. CASE SearchFinds(t)
  BY <1>a, <1>b, <1>c, <1>9 DEF SearchFinds, TypeOK, Looks, L, CallLocals
<1>10. CASE LockItem(t)
  <2>1. pc'[t] = "return" /\ local'[t].bases = <<>> /\ local'[t].insert_base = 0
        /\ local'[t].pos = 0
    BY <1>10 DEF LockItem, TypeOK, NoLocals
  <2>2. QED
    BY <2>1, <1>a, <1>b DEF Looks, L
<1>11. CASE UpdateItem(t)
  <2>1. \E a : Return(t, a)
    BY <1>11 DEF UpdateItem
  <2>2. QED
    BY <2>1, <1>a, <1>b, NoLocalsIs, Returned DEF Looks, L
<1>12. CASE UnlinkItem(t)
  BY <1>a, <1>b, <1>c, <1>12 DEF UnlinkItem, TypeOK, Looks, L, CallLocals
<1>13. CASE ForgetItem(t)
  <2>1. \E a : Return(t, a)
    BY <1>13 DEF ForgetItem
  <2>2. QED
    BY <2>1, <1>a, <1>b, NoLocalsIs, Returned DEF Looks, L
<1>14. CASE AllocNode(t)
  BY <1>a, <1>b, <1>c, <1>14 DEF AllocNode, TypeOK, Looks, L, CallLocals
<1>15. CASE AllocFails(t)
  <2>1. \E a : Return(t, a)
    BY <1>15 DEF AllocFails
  <2>2. QED
    BY <2>1, <1>a, <1>b, NoLocalsIs, Returned DEF Looks, L
<1>16. CASE LockHead(t)
  BY <1>a, <1>b, <1>c, <1>16 DEF LockHead, TypeOK, Looks, L, CallLocals
<1>17. CASE WalkList(t)
  BY <1>a, <1>b, <1>c, <1>17 DEF WalkList, TypeOK, Looks, L, CallLocals
<1>18. CASE WalkOn(t)
  BY <1>a, <1>b, <1>c, <1>18 DEF WalkOn, TypeOK, Looks, L, CallLocals
<1>19. CASE WalkEnds(t)
  <2>1. Tail(local[t].bases) \in L /\ (Len(local[t].bases) > 1 => Tail(local[t].bases) # <<>>)
    BY <1>19, <1>b, BaseListIs DEF Looks, L, WalkEnds
  <2>2. local'[t].bases = Tail(local[t].bases)
        /\ local'[t].insert_base = local[t].insert_base /\ local'[t].pos = 0
    BY <1>19 DEF WalkEnds, TypeOK, CallLocals
  <2>3. pc'[t] = IF Len(local[t].bases) > 1 THEN "walk" ELSE "link"
    BY <1>19 DEF WalkEnds, TypeOK
  <2>4. QED
    BY <1>a, <2>1, <2>2, <2>3 DEF Looks, L
<1>20. CASE WalkFinds(t)
  <2>1. \E a : Return(t, a)
    BY <1>20 DEF WalkFinds
  <2>2. QED
    BY <2>1, <1>a, <1>b, NoLocalsIs, Returned DEF Looks, L
<1>21. CASE LinkNode(t)
  BY <1>a, <1>b, <1>c, <1>21 DEF LinkNode, TypeOK, Looks, L, CallLocals
<1>22. CASE CountItem(t)
  <2>1. ASSUME Return(t, "done") PROVE Looks(t)'
    BY <2>1, <1>a, <1>b, NoLocalsIs, Returned DEF Looks, L
  <2>2. QED
    BY <1>22, <1>a, <1>b, <2>1 DEF CountItem, TypeOK, Looks, L
<1>23. CASE StartRehash(t)
  <2>1. \E a : Return(t, a)
    BY <1>23 DEF StartRehash
  <2>2. QED
    BY <2>1, <1>a, <1>b, NoLocalsIs, Returned DEF Looks, L
<1>24. CASE StartFails(t)
  <2>1. \E a : Return(t, a)
    BY <1>24 DEF StartFails
  <2>2. QED
    BY <2>1, <1>a, <1>b, NoLocalsIs, Returned DEF Looks, L
<1>25. CASE AlreadyStarted(t)
  <2>1. \E a : Return(t, a)
    BY <1>25 DEF AlreadyStarted
  <2>2. QED
    BY <2>1, <1>a, <1>b, NoLocalsIs, Returned DEF Looks, L
<1>26. CASE MapBase(t)
  <2>1. ASSUME Return(t, "done") PROVE Looks(t)'
    BY <2>1, <1>a, <1>b, NoLocalsIs, Returned DEF Looks, L
  <2>2. CASE local[t].bases # <<>> /\ items_count[local[t].bases[1]] > 0
    BY <1>26, <1>a, <1>b, <1>c, <2>2 DEF MapBase, TypeOK, Looks, L
  <2>3. CASE local[t].bases # <<>> /\ ~(items_count[local[t].bases[1]] > 0)
    <3>1. Tail(local[t].bases) \in L
      BY <1>b, <2>3
    <3>2. pc' = pc /\ local'[t].bases = Tail(local[t].bases)
          /\ local'[t].insert_base = local[t].insert_base /\ local'[t].pos = local[t].pos
      <4>1. PICK l : l = Tail(local[t].bases)
        OBVIOUS
      <4>2. pc' = pc /\ local' = [local EXCEPT ![t].bases = l]
        BY <1>26, <2>3, <4>1 DEF MapBase
      <4>3. QED
        BY <4>1, <4>2 DEF TypeOK, CallLocals
    <3>3. QED
      BY <1>26, <1>a, <3>1, <3>2 DEF Looks, MapBase, L
  <2>4. QED
    BY <1>26, <2>1, <2>2, <2>3 DEF MapBase
<1>27. CASE MapHead(t)
  BY <1>a, <1>b, <1>c, <1>27 DEF MapHead, TypeOK, Looks, L, CallLocals
<1>28. CASE MapItem(t)
  <2>1. pc' = pc /\ local'[t].bases = local[t].bases
        /\ local'[t].insert_base = local[t].insert_base /\ local'[t].pos = local[t].pos
    BY <1>28 DEF MapItem, TypeOK, CallLocals
  <2>2. QED
    BY <1>28, <1>a, <1>b, <1>c, <2>1 DEF MapItem, Looks, L
<1>29. CASE MapLeave(t)
  <2>1. ASSUME Return(t, "callback") PROVE Looks(t)'
    BY <2>1, <1>a, <1>b, NoLocalsIs, Returned DEF Looks, L
  <2>2. CASE local[t].pos + 1 < size[local[t].bases[1]]
    <3>1. pc'[t] = "map_head" /\ local'[t].bases = local[t].bases
          /\ local'[t].insert_base = local[t].insert_base /\ local'[t].pos = local[t].pos + 1
      BY <1>29, <2>2 DEF MapLeave, TypeOK, CallLocals
    <3>2. QED
      BY <1>29, <1>a, <1>b, <1>c, <2>2, <3>1 DEF Looks, MapLeave, L
  <2>3. CASE ~(local[t].pos + 1 < size[local[t].bases[1]]) /\ answer[t] # "callback"
    <3>1. Tail(local[t].bases) \in L
      BY <1>29, <1>b DEF Looks, MapLeave
    <3>2. pc'[t] = "map" /\ local'[t].bases = Tail(local[t].bases)
          /\ local'[t].insert_base = local[t].insert_base /\ local'[t].pos = 0
      <4>1. PICK l : l = Tail(local[t].bases)
        OBVIOUS
      <4>2. GoTo(t, "map") /\ local' = [local EXCEPT ![t].pos = 0, ![t].bases = l]
        BY <1>29, <2>3, <4>1 DEF MapLeave
      <4>3. QED
        BY <4>1, <4>2 DEF TypeOK, CallLocals
    <3>3. QED
      BY <1>a, <3>1, <3>2 DEF Looks, L
  <2>4. QED
    BY <1>29, <2>1, <2>2, <2>3 DEF MapLeave
<1>30. CASE Round(t)
  BY <1>a, <1>b, <1>c, <1>30 DEF Round, TypeOK, Looks, L, CallLocals
<1>31. CASE RoundFails(t)
  BY <1>a, <1>b, <1>c, <1>31 DEF RoundFails, Retry, TypeOK, Looks, L, CallLocals
<1>32. CASE LeaveRehash(t)
  <2>1. pc'[t] \in {"round", "aborted", "insert_base", "bases"} /\ local' = local
    BY <1>32 DEF LeaveRehash, TypeOK, Flow, Inside, Rounds, Moving
  <2>2. QED
    BY <1>32, <2>1, <1>a, <1>b DEF LeaveRehash, Looks, L
<1>33. CASE RoundUpdate(t)
  BY <1>a, <1>b, <1>c, <1>33 DEF RoundUpdate, TypeOK, Looks, L, CallLocals
<1>34. CASE RoundUpdateFails(t)
  BY <1>a, <1>b, <1>c, <1>34 DEF RoundUpdateFails, TypeOK, Looks, L, CallLocals
<1>35. CASE RoundNode(t)
  BY <1>a, <1>b, <1>c, <1>35 DEF RoundNode, NextPos, Retry, TypeOK, Looks, L, CallLocals
<1>36. CASE RoundUnlink(t)
  BY <1>a, <1>b, <1>c, <1>36 DEF RoundUnlink, TypeOK, Looks, L, CallLocals
<1>37. CASE RoundGivesUp(t)
  BY <1>a, <1>b, <1>c, <1>37 DEF RoundGivesUp, TypeOK, Looks, L, CallLocals
<1>38. CASE RoundLink(t)
  BY <1>a, <1>b, <1>c, <1>38 DEF RoundLink, TypeOK, Looks, L, CallLocals
<1>39. CASE RoundEnd(t)
  BY <1>a, <1>b, <1>c, <1>39 DEF RoundEnd, TypeOK, Looks, L, CallLocals
<1>40. QED
  BY <1>1, <1>2, <1>3, <1>4, <1>5, <1>6, <1>7, <1>8, <1>9, <1>10, <1>11, <1>12, <1>13, <1>14,
     <1>15, <1>16, <1>17, <1>18, <1>19, <1>20, <1>21, <1>22, <1>23, <1>24, <1>25, <1>26, <1>27,
     <1>28, <1>29, <1>30, <1>31, <1>32, <1>33, <1>34, <1>35, <1>36, <1>37, <1>38, <1>39 DEF
     Moves, Step

(* By which step a place is reached.                                       *)
LEMMA Arrivals ==
  ASSUME TypeOK, NEW t \in Threads, Flow(t), Moves(t)
  PROVE  /\ pc'[t] = "item" => SearchFinds(t)
         /\ pc'[t] = "forget" => UnlinkItem(t)
         /\ pc'[t] = "count" => LinkNode(t)
         /\ pc'[t] = "round_update" => Round(t)
         /\ pc'[t] = "round_node" => RoundUpdate(t)
         /\ pc'[t] = "round_target" => RoundNode(t)
         /\ pc'[t] = "round_link" => RoundUnlink(t)
         /\ pc'[t] \in Rounds => pc[t] \in Rounds \/ EnterRehash(t)
         /\ pc'[t] = "aborted" => EnterRehash(t)
         /\ Held(t)' # NULL => LockItem(t) \/ Returns(t)
<1>1. CASE Call(t)
  BY <1>1 DEF Call, TypeOK, Rounds, Moving, Held
<1>2. CASE Returns(t)
  BY <1>2 DEF Returns, TypeOK, Rounds, Moving, Held
<1>3. CASE unlockHashTableItem(t)
  <2>1. pc'[t] = "idle" /\ local'[t] = NoLocals
    BY <1>3 DEF unlockHashTableItem, TypeOK
  <2>2. QED
    BY <2>1, NoLocalsIs DEF Rounds, Moving, Held
<1>4. CASE EnterRehash(t)
  BY <1>4 DEF EnterRehash, TypeOK, Flow, Inside, Rounds, Moving, Held
<1>5. CASE InsertBase(t)
  BY <1>5 DEF InsertBase, TypeOK, Rounds, Moving, Held
<1>6. CASE ReadBases(t)
  BY <1>6 DEF ReadBases, TypeOK, Rounds, Moving, Held
<1>7. CASE SearchMisses(t)
  <2>1. Return(t, "missing") \/ pc'[t] \in {"search", "alloc", "start", "map", "map_head"}
    BY <1>7 DEF SearchMisses, TypeOK
  <2>2. QED
    BY <2>1, NoLocalsIs, Returned DEF Rounds, Moving, Held
<1>8. CASE SearchAnswers(t)
  <2>1. \E a : Return(t, a)
    BY <1>8 DEF SearchAnswers
  <2>2. QED
    BY <2>1, NoLocalsIs, Returned DEF Rounds, Moving, Held
<1>9. CASE SearchFinds(t)
  BY <1>9 DEF SearchFinds, TypeOK, Rounds, Moving, Held
<1>10. CASE LockItem(t)
  BY <1>10 DEF LockItem, TypeOK, Rounds, Moving, Held
<1>11. CASE UpdateItem(t)
  <2>1. \E a : Return(t, a)
    BY <1>11 DEF UpdateItem
  <2>2. QED
    BY <2>1, NoLocalsIs, Returned DEF Rounds, Moving, Held
<1>12. CASE UnlinkItem(t)
  BY <1>12 DEF UnlinkItem, TypeOK, Rounds, Moving, Held
<1>13. CASE ForgetItem(t)
  <2>1. \E a : Return(t, a)
    BY <1>13 DEF ForgetItem
  <2>2. QED
    BY <2>1, NoLocalsIs, Returned DEF Rounds, Moving, Held
<1>14. CASE AllocNode(t)
  BY <1>14 DEF AllocNode, TypeOK, Rounds, Moving, Held
<1>15. CASE AllocFails(t)
  <2>1. \E a : Return(t, a)
    BY <1>15 DEF AllocFails
  <2>2. QED
    BY <2>1, NoLocalsIs, Returned DEF Rounds, Moving, Held
<1>16. CASE LockHead(t)
  BY <1>16 DEF LockHead, TypeOK, Rounds, Moving, Held
<1>17. CASE WalkList(t)
  BY <1>17 DEF WalkList, TypeOK, Rounds, Moving, Held
<1>18. CASE WalkOn(t)
  BY <1>18 DEF WalkOn, TypeOK, Rounds, Moving, Held
<1>19. CASE WalkEnds(t)
  BY <1>19 DEF WalkEnds, TypeOK, Rounds, Moving, Held
<1>20. CASE WalkFinds(t)
  <2>1. \E a : Return(t, a)
    BY <1>20 DEF WalkFinds
  <2>2. QED
    BY <2>1, NoLocalsIs, Returned DEF Rounds, Moving, Held
<1>21. CASE LinkNode(t)
  BY <1>21 DEF LinkNode, TypeOK, Rounds, Moving, Held
<1>22. CASE CountItem(t)
  <2>1. Return(t, "done") \/ pc'[t] \in {"search", "alloc", "start", "map", "map_head"}
    BY <1>22 DEF CountItem, TypeOK
  <2>2. QED
    BY <2>1, NoLocalsIs, Returned DEF Rounds, Moving, Held
<1>23. CASE StartRehash(t)
  <2>1. \E a : Return(t, a)
    BY <1>23 DEF StartRehash
  <2>2. QED
    BY <2>1, NoLocalsIs, Returned DEF Rounds, Moving, Held
<1>24. CASE StartFails(t)
  <2>1. \E a : Return(t, a)
    BY <1>24 DEF StartFails
  <2>2. QED
    BY <2>1, NoLocalsIs, Returned DEF Rounds, Moving, Held
<1>25. CASE AlreadyStarted(t)
  <2>1. \E a : Return(t, a)
    BY <1>25 DEF AlreadyStarted
  <2>2. QED
    BY <2>1, NoLocalsIs, Returned DEF Rounds, Moving, Held
<1>26. CASE MapBase(t)
  <2>1. Return(t, "done") \/ pc'[t] \in {"search", "alloc", "start", "map", "map_head"}
    BY <1>26 DEF MapBase, TypeOK
  <2>2. QED
    BY <2>1, NoLocalsIs, Returned DEF Rounds, Moving, Held
<1>27. CASE MapHead(t)
  BY <1>27 DEF MapHead, TypeOK, Rounds, Moving, Held
<1>28. CASE MapItem(t)
  BY <1>28 DEF MapItem, TypeOK, Rounds, Moving, Held
<1>29. CASE MapLeave(t)
  <2>1. Return(t, "callback") \/ pc'[t] \in {"search", "alloc", "start", "map", "map_head"}
    BY <1>29 DEF MapLeave, TypeOK
  <2>2. QED
    BY <2>1, NoLocalsIs, Returned DEF Rounds, Moving, Held
<1>30. CASE Round(t)
  BY <1>30 DEF Round, TypeOK, Rounds, Moving, Held
<1>31. CASE RoundFails(t)
  BY <1>31 DEF RoundFails, Retry, TypeOK, Rounds, Moving, Held
<1>32. CASE LeaveRehash(t)
  BY <1>32 DEF LeaveRehash, TypeOK, Flow, Inside, Rounds, Moving, Held
<1>33. CASE RoundUpdate(t)
  BY <1>33 DEF RoundUpdate, TypeOK, Rounds, Moving, Held
<1>34. CASE RoundUpdateFails(t)
  BY <1>34 DEF RoundUpdateFails, TypeOK, Rounds, Moving, Held
<1>35. CASE RoundNode(t)
  BY <1>35 DEF RoundNode, NextPos, Retry, TypeOK, Rounds, Moving, Held
<1>36. CASE RoundUnlink(t)
  BY <1>36 DEF RoundUnlink, TypeOK, Rounds, Moving, Held
<1>37. CASE RoundGivesUp(t)
  BY <1>37 DEF RoundGivesUp, TypeOK, Rounds, Moving, Held
<1>38. CASE RoundLink(t)
  BY <1>38 DEF RoundLink, TypeOK, Rounds, Moving, Held
<1>39. CASE RoundEnd(t)
  BY <1>39 DEF RoundEnd, TypeOK, Rounds, Moving, Held
<1>40. QED
  BY <1>1, <1>2, <1>3, <1>4, <1>5, <1>6, <1>7, <1>8, <1>9, <1>10, <1>11, <1>12, <1>13, <1>14,
     <1>15, <1>16, <1>17, <1>18, <1>19, <1>20, <1>21, <1>22, <1>23, <1>24, <1>25, <1>26, <1>27,
     <1>28, <1>29, <1>30, <1>31, <1>32, <1>33, <1>34, <1>35, <1>36, <1>37, <1>38, <1>39 DEF
     Moves, Step
-----------------------------------------------------------------------------
(* The locks                                                               *)

(* A lock that MayLock allows keeps the locks exclusive.                   *)
LEMMA LockGiven ==
  ASSUME Exclusive, NEW l, NEW t, NEW m, MayLock(l, m),
         locks' \subseteq locks \cup {Locked(l, t, m)}
  PROVE  Exclusive'
<1>1. SUFFICES ASSUME NEW x \in locks', NEW y \in locks', x[1] = y[1], x # y
               PROVE  x[3] = "read" /\ y[3] = "read"
  BY DEF Exclusive
<1>2. Locked(l, t, m)[1] = l /\ Locked(l, t, m)[3] = m
  BY DEF Locked
<1>3. CASE x \in locks /\ y \in locks
  BY <1>1, <1>3 DEF Exclusive
<1>4. CASE x \in locks /\ y = Locked(l, t, m)
  BY <1>1, <1>2, <1>4 DEF MayLock
<1>5. CASE x = Locked(l, t, m) /\ y \in locks
  BY <1>1, <1>2, <1>5 DEF MayLock
<1>6. QED
  BY <1>1, <1>3, <1>4, <1>5

(* Every step locks only what MayLock allows.                              *)
LEMMA ExclusiveKept ==
  ASSUME Exclusive, NEW t \in Threads, Moves(t)
  PROVE  Exclusive'
<1>1. CASE UNCHANGED locks
  BY <1>1 DEF Exclusive
<1>2. CASE unlockHashTableItem(t)
  BY <1>2 DEF unlockHashTableItem, Exclusive
<1>3. CASE SearchFinds(t)
  <2>1. MayLock(Entry(t), HeadMode(t)) /\ locks' \subseteq locks \cup {Locked(Entry(t), t, HeadMode(t))}
    BY <1>3 DEF SearchFinds
  <2>2. QED
    BY <2>1, LockGiven
<1>4. CASE LockItem(t)
  <2>1. MayLock(local[t].p, call[t].mode) /\ locks' \subseteq locks \cup {Locked(local[t].p, t, call[t].mode)}
    BY <1>4 DEF LockItem
  <2>2. QED
    BY <2>1, LockGiven
<1>5. CASE UpdateItem(t)
  BY <1>5 DEF UpdateItem, Exclusive
<1>6. CASE UnlinkItem(t)
  BY <1>6 DEF UnlinkItem, Exclusive
<1>7. CASE LockHead(t)
  <2>1. MayLock(InsertEntry(t), "write") /\ locks' \subseteq locks \cup {Locked(InsertEntry(t), t, "write")}
    BY <1>7 DEF LockHead
  <2>2. QED
    BY <2>1, LockGiven
<1>8. CASE WalkFinds(t)
  BY <1>8 DEF WalkFinds, Exclusive
<1>9. CASE LinkNode(t)
  BY <1>9 DEF LinkNode, Exclusive
<1>10. CASE MapHead(t)
  <2>1. MayLock(MapEntry(t), "read") /\ locks' \subseteq locks \cup {Locked(MapEntry(t), t, "read")}
    BY <1>10 DEF MapHead
  <2>2. QED
    BY <2>1, LockGiven
<1>11. CASE MapLeave(t)
  BY <1>11 DEF MapLeave, Exclusive
<1>12. CASE Round(t)
  <2>1. MayLock(NextEntry, "write") /\ locks' \subseteq locks \cup {Locked(NextEntry, t, "write")}
    BY <1>12 DEF Round
  <2>2. QED
    BY <2>1, LockGiven
<1>13. CASE RoundUpdateFails(t)
  BY <1>13 DEF RoundUpdateFails, Exclusive
<1>14. CASE RoundNode(t)
  <2>1. CASE locks' = locks
    BY <2>1 DEF Exclusive
  <2>2. CASE \E n : MayLock(n, "write") /\ locks' = locks \cup {Locked(n, t, "write")}
    BY <2>2, LockGiven
  <2>3. QED
    BY <1>14, <2>1, <2>2 DEF RoundNode, NextPos
<1>15. CASE RoundUnlink(t)
  <2>1. MayLock(TargetEntry, "write") /\ locks' \subseteq locks \cup {Locked(TargetEntry, t, "write")}
    BY <1>15 DEF RoundUnlink
  <2>2. QED
    BY <2>1, LockGiven
<1>16. CASE RoundGivesUp(t)
  BY <1>16 DEF RoundGivesUp, Exclusive
<1>17. CASE RoundLink(t)
  BY <1>17 DEF RoundLink, Exclusive
<1>18. CASE RoundEnd(t)
  BY <1>18 DEF RoundEnd, Exclusive
<1>19. QED
  BY <1>1, <1>2, <1>3, <1>4, <1>5, <1>6, <1>7, <1>8, <1>9, <1>10, <1>11, <1>12, <1>13, <1>14,
     <1>15, <1>16, <1>17, <1>18, LocksMove

(* A thread takes and gives back its own locks only.                       *)
LEMMA LocksOfOthers ==
  ASSUME NEW t \in Threads, Moves(t), NEW l, NEW u \in Threads, u # t, NEW m
  PROVE  Locked(l, u, m) \in locks' <=> Locked(l, u, m) \in locks
<1>1. CASE UNCHANGED locks
  BY <1>1
<1>2. CASE unlockHashTableItem(t)
  BY <1>2 DEF unlockHashTableItem, Locked
<1>3. CASE SearchFinds(t)
  BY <1>3 DEF SearchFinds, Locked
<1>4. CASE LockItem(t)
  BY <1>4 DEF LockItem, Locked
<1>5. CASE UpdateItem(t)
  BY <1>5 DEF UpdateItem, Locked
<1>6. CASE UnlinkItem(t)
  BY <1>6 DEF UnlinkItem, Locked
<1>7. CASE LockHead(t)
  BY <1>7 DEF LockHead, Locked
<1>8. CASE WalkFinds(t)
  BY <1>8 DEF WalkFinds, Locked
<1>9. CASE LinkNode(t)
  BY <1>9 DEF LinkNode, Locked
<1>10. CASE MapHead(t)
  BY <1>10 DEF MapHead, Locked
<1>11. CASE MapLeave(t)
  BY <1>11 DEF MapLeave, Locked
<1>12. CASE Round(t)
  BY <1>12 DEF Round, Locked
<1>13. CASE RoundUpdateFails(t)
  BY <1>13 DEF RoundUpdateFails, Locked
<1>14. CASE RoundNode(t)
  BY <1>14 DEF RoundNode, NextPos, Locked, Retry
<1>15. CASE RoundUnlink(t)
  BY <1>15 DEF RoundUnlink, Locked
<1>16. CASE RoundGivesUp(t)
  BY <1>16 DEF RoundGivesUp, Locked
<1>17. CASE RoundLink(t)
  BY <1>17 DEF RoundLink, Locked
<1>18. CASE RoundEnd(t)
  BY <1>18 DEF RoundEnd, Locked
<1>19. QED
  BY <1>1, <1>2, <1>3, <1>4, <1>5, <1>6, <1>7, <1>8, <1>9, <1>10, <1>11, <1>12, <1>13, <1>14,
     <1>15, <1>16, <1>17, <1>18, LocksMove

(* Two threads that share a lock only read.                                *)
LEMMA TwoLocks ==
  ASSUME Exclusive, NEW l, NEW t, NEW u, NEW m, NEW n,
         Locked(l, t, m) \in locks, Locked(l, u, n) \in locks, t # u
  PROVE  m = "read" /\ n = "read"
BY DEF Exclusive, Locked

(* Who has a lock keeps writers away, and all others when he writes.       *)
LEMMA MayNotLock ==
  ASSUME NEW l, NEW t, NEW m, Locked(l, t, m) \in locks
  PROVE  ~MayLock(l, "write") /\ (m = "write" => \A n : ~MayLock(l, n))
BY DEF MayLock, Locked

-----------------------------------------------------------------------------
(* Types                                                                   *)

(* Counts keep their width.                                                *)
LEMMA CountsWrap == \A n \in Counted : CountUp(n) \in Counted /\ CountDown(n) \in Counted
<1>1. CountMod \in Nat /\ CountMod > 0
  BY HashTableAssumption, FS_CardinalityType
<1>2. QED
  BY <1>1 DEF Counted, CountUp, CountDown

(* The types of the bases.                                                 *)
LEMMA TableTypes ==
  ASSUME TypeOK, TableRight, NEW t \in Threads, Rehashing(t), Moves(t)
  PROVE  /\ current_base' \in Bases /\ rehash_insert_base' \in Bases \cup {0}
         /\ size' \in [Bases -> Nat] /\ is_rehashing' \in BOOLEAN
         /\ rehash_pos' \in 0..(MaxSize - 1)
<1>1. CASE UNCHANGED <<Table>>
  BY <1>1 DEF TypeOK
<1>2. CASE StartRehash(t)
  <2>1. 3 - current_base \in Bases
    BY DEF TypeOK, Bases
  <2>2. size[3 - current_base] \in Nat
    BY <2>1 DEF TypeOK
  <2>3. QED
    BY <1>2, <2>1, <2>2, SizesAre DEF StartRehash, TypeOK
<1>3. CASE StartFails(t)
  <2>1. 3 - current_base \in Bases
    BY DEF TypeOK, Bases
  <2>2. QED
    BY <1>3, <2>1 DEF StartFails, TypeOK
<1>4. CASE RoundNode(t)
  <2>1. size[current_base] \in Nat /\ size[current_base] > 0 /\ size[current_base] <= MaxSize
        /\ rehash_pos + 1 \in Nat
    BY SizesAre DEF TypeOK, TableRight, KnownBases, Bases
  <2>2. (rehash_pos + 1) % size[current_base] \in 0..(size[current_base] - 1)
    BY <2>1
  <2>3. (rehash_pos + 1) % size[current_base] \in 0..(MaxSize - 1)
    BY <2>1, <2>2, SizesAre
  <2>4. QED
    BY <1>4, <2>3 DEF RoundNode, NextPos, TypeOK
<1>5. CASE RoundEnd(t)
  <2>1. TableRight'
    BY TableKept
  <2>2. current_base' \in Bases
    BY <2>1 DEF TableRight, KnownBases, Bases
  <2>3. QED
    BY <1>5, <2>2 DEF RoundEnd, TypeOK
<1>6. QED
  BY <1>1, <1>2, <1>3, <1>4, <1>5, TableMoves

(* A call other than map has a key.                                        *)
LEMMA KeyIs ==
  ASSUME TypeOK, NEW t \in Threads, Flow(t), pc[t] \notin {"idle", "return"}, call[t].op # "map"
  PROVE  call[t].key \in Keys
BY DEF Flow, Calls

(* The entry that a search looks into exists.                              *)
LEMMA EntryOfCall ==
  ASSUME TypeOK, TableRight, NEW t \in Threads, Flow(t), Looks(t),
         pc[t] \in {"search", "item", "forget", "walk"}
  PROVE  Entry(t) \in Entries /\ Entry(t)[1] = local[t].bases[1] /\ local[t].bases[1] \in KnownBases
<1>1. local[t].bases[1] \in KnownBases
  BY BaseListIs DEF Looks
<1>2. call[t].key \in Keys
  BY KeyIs DEF Flow
<1>3. QED
  BY <1>1, <1>2, EntryIs DEF Entry

(* The entry that an insert locks exists.                                  *)
LEMMA EntryOfInsert ==
  ASSUME TypeOK, TableRight, NEW t \in Threads, Flow(t), Looks(t), local[t].new_node # NULL
  PROVE  /\ InsertEntry(t) \in Entries /\ InsertEntry(t)[1] = local[t].insert_base
         /\ local[t].insert_base \in KnownBases
<1>1. call[t].op = "insert" /\ pc[t] \notin {"idle", "return", "insert_base"}
      /\ ~(pc[t] \in Inside /\ local[t].then = "insert_base")
  BY DEF Flow
<1>2. local[t].insert_base \in KnownBases
  BY <1>1 DEF Flow, Looks
<1>3. call[t].key \in Keys
  BY <1>1, KeyIs
<1>4. QED
  BY <1>2, <1>3, EntryIs DEF InsertEntry

(* The entry that a map is at exists.                                      *)
LEMMA EntryOfMap ==
  ASSUME TypeOK, TableRight, NEW t \in Threads, Looks(t), pc[t] \in {"map_head", "map_item"}
  PROVE  MapEntry(t) \in Entries
<1>1. local[t].bases[1] \in KnownBases
  BY BaseListIs DEF Looks
<1>2. local[t].pos \in Nat /\ local[t].pos < size[local[t].bases[1]]
  BY DEF Looks, TypeOK, CallLocals
<1>3. QED
  BY <1>1, <1>2, SizesAre DEF MapEntry, Entries, KnownBases, TableRight, Bases

(* The entry that a rehash is at exists.                                   *)
LEMMA EntryOfRound ==
  ASSUME TypeOK, TableRight
  PROVE  NextEntry \in Entries /\ NextEntry[1] = current_base
BY DEF NextEntry, Entries, TypeOK

(* The entry that a rehash moves a node to exists.                         *)
LEMMA EntryOfTarget ==
  ASSUME TypeOK, TableRight, is_rehashing, node[rehash.node].key \in Keys
  PROVE  TargetEntry \in Entries /\ TargetEntry[1] = 2
<1>1. rehash_insert_base \in KnownBases /\ rehash_insert_base = 2
  BY DEF TableRight, KnownBases
<1>2. QED
  BY <1>1, EntryIs DEF TargetEntry

(* A node may get any successor.                                           *)
LEMMA NodeTypes ==
  ASSUME TypeOK, NEW n \in Nodes, NEW p \in Nodes \cup {NULL}
  PROVE  [node EXCEPT ![n].next = p] \in [Nodes -> NodeContents]
BY DEF TypeOK, NodeContents

(* What a rehash that moves a node knows of it.                            *)
LEMMA TargetIs ==
  ASSUME TypeOK, TableRight, Keyed, NEW t \in Threads, Rehashing(t),
         pc[t] \in {"round_target", "round_link"}
  PROVE  /\ is_rehashing /\ rehash.node \in Nodes /\ node[rehash.node].key \in Keys
         /\ TargetEntry \in Entries /\ TargetEntry[1] = 2
         /\ TargetEntry = EntryOf(2, node[rehash.node].key)
<1>1. is_rehashing /\ rehash_insert_base = 2
  BY HashTableAssumption DEF Rehashing, Rounds, Moving, TableRight
<1>2. rehash.node \in Nodes /\ rehash.entry \in Entries
  BY DEF Rehashing, Rounds, Moving, TypeOK, RehashLocals
<1>3. node[rehash.node].key \in Keys
  <2>1. CASE pc[t] = "round_link"
    BY <1>2, <2>1, HashTableAssumption DEF Keyed, Private
  <2>2. CASE pc[t] = "round_target"
    <3>1. rehash.node = head[rehash.entry]
      BY <2>2 DEF Rehashing
    <3>2. rehash.node \in Linked(rehash.entry)
      BY <1>2, <3>1, HashTableAssumption DEF Linked, OnTheWay
    <3>3. QED
      BY <1>2, <3>2 DEF Keyed
  <2>3. QED
    BY <2>1, <2>2
<1>4. QED
  BY <1>1, <1>2, <1>3, EntryOfTarget DEF TargetEntry

(* The types of the lists.                                                 *)
LEMMA ListTypes ==
  ASSUME TypeOK, TableRight, Keyed, NEW t \in Threads, Flow(t), Looks(t), Rehashing(t), Moves(t)
  PROVE  /\ head' \in [Entries -> Nodes \cup {NULL}] /\ list_length' \in [Entries -> Counted]
         /\ node' \in [Nodes -> NodeContents] /\ free_list' \in Nodes \cup {NULL}
<1> USE CountsWrap
<1>1. CASE UNCHANGED <<Lists>>
  BY <1>1 DEF TypeOK
<1>2. CASE UpdateItem(t)
  <2>1. local[t].p \in Nodes /\ call[t].value \in Values
    BY <1>2 DEF UpdateItem, Flow, TypeOK, CallLocals, Calls
  <2>2. node' \in [Nodes -> NodeContents]
    BY <1>2, <2>1 DEF UpdateItem, TypeOK, NodeContents
  <2>3. QED
    BY <1>2, <2>2 DEF UpdateItem, TypeOK
<1>3. CASE UnlinkItem(t)
  <2>1. local[t].p \in Nodes /\ Entry(t) \in Entries
    BY <1>3, EntryOfCall DEF UnlinkItem, Flow, TypeOK, CallLocals
  <2>2. node[local[t].p].next \in Nodes \cup {NULL}
    BY <2>1 DEF TypeOK, NodeContents
  <2>3. node' \in [Nodes -> NodeContents]
    <3>1. \A x \in Nodes : [node[x] EXCEPT !.next = node[local[t].p].next] \in NodeContents
                           /\ node[x] \in NodeContents
      BY <2>2 DEF TypeOK, NodeContents
    <3>2. QED
      BY <1>3, <3>1 DEF UnlinkItem, Unlink
  <2>4. head' \in [Entries -> Nodes \cup {NULL}] /\ list_length' \in [Entries -> Counted]
    BY <1>3, <2>1, <2>2 DEF UnlinkItem, Unlink, TypeOK
  <2>5. QED
    BY <1>3, <2>3, <2>4 DEF UnlinkItem, TypeOK
<1>4. CASE ForgetItem(t)
  <2>1. local[t].p \in Nodes
    BY <1>4 DEF ForgetItem, Flow, TypeOK, CallLocals
  <2>2. QED
    BY <1>4, <2>1, NodeTypes DEF ForgetItem, FreeNode, TypeOK
<1>5. CASE AllocNode(t)
  <2>1. free_list \in Nodes /\ call[t].key \in Keys /\ call[t].value \in Values
    BY <1>5 DEF AllocNode, TypeOK, Flow, Calls
  <2>2. node[free_list].next \in Nodes \cup {NULL}
    BY <2>1 DEF TypeOK, NodeContents
  <2>3. [key |-> call[t].key, value |-> call[t].value, next |-> NULL] \in NodeContents
    BY <2>1 DEF NodeContents
  <2>4. QED
    BY <1>5, <2>1, <2>2, <2>3 DEF AllocNode, TypeOK
<1>6. CASE WalkFinds(t)
  <2>1. local[t].new_node \in Nodes
    BY <1>6 DEF WalkFinds, Flow, TypeOK, CallLocals
  <2>2. QED
    BY <1>6, <2>1, NodeTypes DEF WalkFinds, FreeNode, TypeOK
<1>7. CASE LinkNode(t)
  <2>1. local[t].new_node \in Nodes /\ InsertEntry(t) \in Entries
    BY <1>7, EntryOfInsert DEF LinkNode, Flow, TypeOK, CallLocals
  <2>2. head[InsertEntry(t)] \in Nodes \cup {NULL}
    BY <2>1 DEF TypeOK
  <2>3. QED
    BY <1>7, <2>1, <2>2, NodeTypes DEF LinkNode, TypeOK
<1>8. CASE RoundUnlink(t)
  <2>1. rehash.node \in Nodes /\ rehash.entry \in Entries
    BY <1>8 DEF RoundUnlink, Rehashing, Rounds, Moving, TypeOK, RehashLocals
  <2>2. node[rehash.node].next \in Nodes \cup {NULL}
    BY <2>1 DEF TypeOK, NodeContents
  <2>3. QED
    BY <1>8, <2>1, <2>2 DEF RoundUnlink, TypeOK
<1>9. CASE RoundLink(t)
  <2>1. rehash.node \in Nodes /\ TargetEntry \in Entries
    BY <1>9, TargetIs DEF RoundLink
  <2>2. PICK e : e = TargetEntry
    OBVIOUS
  <2>3. head[e] \in Nodes \cup {NULL}
    BY <2>1, <2>2 DEF TypeOK
  <2>4. QED
    BY <1>9, <2>1, <2>2, <2>3, NodeTypes DEF RoundLink, TypeOK
<1>10. QED
  BY <1>1, <1>2, <1>3, <1>4, <1>5, <1>6, <1>7, <1>8, <1>9, ListsMove

(* The types of the counts.                                                *)
LEMMA CountTypes ==
  ASSUME TypeOK, TableRight, NEW t \in Threads, Flow(t), Looks(t), Moves(t)
  PROVE  items_count' \in [Bases -> Counted] /\ collision_count' \in [Bases -> BOOLEAN]
<1> USE CountsWrap
<1>1. CASE UNCHANGED <<Counts>>
  BY <1>1 DEF TypeOK
<1>2. CASE ForgetItem(t)
  <2>1. local[t].bases[1] \in Bases
    BY <1>2, EntryOfCall DEF ForgetItem, KnownBases, Bases
  <2>2. items_count' \in [Bases -> Counted]
    BY <1>2, <2>1 DEF ForgetItem, TypeOK
  <2>3. local[t].change_collision \in BOOLEAN
    BY DEF TypeOK, CallLocals
  <2>4. collision_count' \in [Bases -> BOOLEAN]
    BY <1>2, <2>1, <2>3, Zenon DEF ForgetItem, TypeOK
  <2>5. QED
    BY <2>2, <2>4
<1>3. CASE CountItem(t)
  BY <1>3 DEF CountItem, TypeOK
<1>4. CASE RoundLink(t)
  BY <1>4 DEF RoundLink, TypeOK
<1>5. QED
  BY <1>1, <1>2, <1>3, <1>4, CountsMove

(* The types of the locals of rehashNSteps, field by field.                *)
LEMMA RetryIs ==
  ASSUME TypeOK
  PROVE  /\ REHASH_STEPS \in Nat /\ REHASH_RETRY \in Nat
         /\ rehash.i \in Nat /\ rehash.retry \in Nat /\ rehash.i <= REHASH_STEPS + 1 /\ rehash.retry <= REHASH_RETRY
         /\ rehash.entry \in Entries \cup {<<>>} /\ rehash.node \in Nodes \cup {NULL}
BY HashTableAssumption DEF TypeOK, RehashLocals

(* The types of the locals of rehashNSteps after a step.                   *)
LEMMA RehashTypes ==
  ASSUME TypeOK, TableRight, NEW t \in Threads, Flow(t), Looks(t), Rehashing(t), Moves(t)
  PROVE  rehash' \in RehashLocals
<1>1. CASE UNCHANGED <<rehash>>
  BY <1>1 DEF TypeOK
<1>2. CASE RoundFails(t)
  <2>1. rehash.retry + 1 \in 0..REHASH_RETRY
    BY <1>2, RetryIs, EntryOfRound DEF RoundFails, Continues
  <2>2. QED
    BY <1>2, <2>1 DEF RoundFails, Retry, TypeOK, RehashLocals
<1>3. CASE LeaveRehash(t)
  <2>1. 0 \in 0..REHASH_RETRY /\ 0 \in 0..(REHASH_STEPS + 1)
    BY <1>3, RetryIs, EntryOfRound DEF LeaveRehash
  <2>2. QED
    BY <1>3, <2>1 DEF LeaveRehash, NoRehash, TypeOK, RehashLocals
<1>4. CASE Round(t)
  <2>1. NextEntry \in Entries
    BY <1>4, RetryIs, EntryOfRound DEF Round
  <2>2. QED
    BY <1>4, <2>1 DEF Round, TypeOK, RehashLocals
<1>5. CASE RoundUpdateFails(t)
  <2>1. rehash.retry + 1 \in 0..REHASH_RETRY
    BY <1>5, RetryIs, EntryOfRound DEF RoundUpdateFails, Rehashing, Rounds, Moving
  <2>2. QED
    BY <1>5, <2>1 DEF RoundUpdateFails, TypeOK, RehashLocals
<1>6. CASE RoundNode(t)
  <2>1. rehash.retry + 1 \in 0..REHASH_RETRY /\ head[rehash.entry] \in Nodes \cup {NULL}
    BY <1>6, RetryIs, EntryOfRound DEF RoundNode, Rehashing, Rounds, Moving, TypeOK
  <2>2. QED
    BY <1>6, <2>1 DEF RoundNode, NextPos, Retry, TypeOK, RehashLocals
<1>7. CASE RoundUnlink(t)
  <2>1. 0 \in 0..REHASH_RETRY
    BY <1>7, RetryIs, EntryOfRound DEF RoundUnlink
  <2>2. QED
    BY <1>7, <2>1 DEF RoundUnlink, TypeOK, RehashLocals
<1>8. CASE RoundGivesUp(t)
  BY <1>8 DEF RoundGivesUp, TypeOK, RehashLocals
<1>9. CASE RoundLink(t)
  BY <1>9 DEF RoundLink, TypeOK, RehashLocals
<1>10. CASE RoundEnd(t)
  <2>1. rehash.i + 1 \in 0..(REHASH_STEPS + 1) /\ REHASH_STEPS \in 0..(REHASH_STEPS + 1)
    BY <1>10, RetryIs, EntryOfRound DEF RoundEnd, Rehashing, Rounds, Moving
  <2>2. QED
    BY <1>10, <2>1 DEF RoundEnd, TypeOK, RehashLocals
<1>11. QED
  BY <1>1, <1>2, <1>3, <1>4, <1>5, <1>6, <1>7, <1>8, <1>9, <1>10, RehashMoves

(* The types of update_lock and rehash_lock.                               *)
LEMMA SyncTypes ==
  ASSUME TypeOK, NEW t \in Threads, Moves(t)
  PROVE  update_lock' \in [Bases -> BOOLEAN] /\ rehash_lock' \in Threads \cup {NULL}
<1>1. update_lock' \in [Bases -> BOOLEAN]
  <2>1. CASE UNCHANGED <<update_lock>>
    BY <2>1 DEF TypeOK
  <2>2. CASE RoundUpdate(t)
    BY <2>2 DEF RoundUpdate, TypeOK
  <2>3. CASE RoundEnd(t)
    BY <2>3 DEF RoundEnd, TypeOK
  <2>4. QED
    BY <2>1, <2>2, <2>3, UpdateLockMoves
<1>2. rehash_lock' \in Threads \cup {NULL}
  <2>1. CASE UNCHANGED <<rehash_lock>>
    BY <2>1 DEF TypeOK
  <2>2. CASE EnterRehash(t)
    BY <2>2 DEF EnterRehash, TypeOK
  <2>3. CASE LeaveRehash(t)
    BY <2>3 DEF LeaveRehash
  <2>4. QED
    BY <2>1, <2>2, <2>3, RehashLockMoves
<1>3. QED
  BY <1>1, <1>2

(* The type of locks.                                                      *)
LEMMA LockTypes ==
  ASSUME TypeOK, TableRight, Keyed, NEW t \in Threads, Flow(t), Looks(t), Rehashing(t), Moves(t)
  PROVE  locks' \subseteq ((Entries \cup Nodes) \X Threads \X Modes)
<1> DEFINE L == (Entries \cup Nodes) \X Threads \X Modes
<1>0. locks \subseteq L
  BY DEF TypeOK
<1>a. \A l \in Entries \cup Nodes : \A m \in Modes : Locked(l, t, m) \in L
  BY DEF Locked
<1>b. "read" \in Modes /\ "write" \in Modes /\ HeadMode(t) \in Modes
  BY DEF Modes, HeadMode
<1> HIDE DEF L
<1> SUFFICES locks' \subseteq L
  BY DEF L
<1>1. CASE UNCHANGED locks
  BY <1>1, <1>0
<1>2. CASE unlockHashTableItem(t)
  BY <1>0, <1>2 DEF unlockHashTableItem
<1>3. CASE SearchFinds(t)
  <2>1. Entry(t) \in Entries \cup Nodes
    BY <1>3, EntryOfCall DEF SearchFinds
  <2>2. QED
    BY <1>3, <1>0, <1>a, <1>b, <2>1 DEF SearchFinds
<1>4. CASE LockItem(t)
  <2>1. local[t].p \in Nodes /\ call[t].mode \in Modes
    BY <1>4 DEF LockItem, Flow, TypeOK, CallLocals, Calls
  <2>2. QED
    BY <1>4, <1>0, <1>a, <2>1 DEF LockItem
<1>5. CASE UpdateItem(t)
  BY <1>0, <1>5 DEF UpdateItem
<1>6. CASE UnlinkItem(t)
  BY <1>0, <1>6 DEF UnlinkItem
<1>7. CASE LockHead(t)
  <2>1. InsertEntry(t) \in Entries \cup Nodes
    BY <1>7, EntryOfInsert DEF LockHead, Flow
  <2>2. QED
    BY <1>7, <1>0, <1>a, <1>b, <2>1 DEF LockHead
<1>8. CASE WalkFinds(t)
  BY <1>0, <1>8 DEF WalkFinds
<1>9. CASE LinkNode(t)
  BY <1>0, <1>9 DEF LinkNode
<1>10. CASE MapHead(t)
  <2>1. MapEntry(t) \in Entries \cup Nodes
    BY <1>10, EntryOfMap DEF MapHead
  <2>2. QED
    BY <1>10, <1>0, <1>a, <1>b, <2>1 DEF MapHead
<1>11. CASE MapLeave(t)
  BY <1>0, <1>11 DEF MapLeave
<1>12. CASE Round(t)
  <2>1. NextEntry \in Entries \cup Nodes
    BY <1>12, EntryOfRound DEF Round
  <2>2. QED
    BY <1>12, <1>0, <1>a, <1>b, <2>1 DEF Round
<1>13. CASE RoundUpdateFails(t)
  BY <1>0, <1>13 DEF RoundUpdateFails
<1>14. CASE RoundNode(t)
  <2>1. head[rehash.entry] \in Nodes \cup {NULL}
    BY <1>14 DEF RoundNode, NextPos, Rehashing, Rounds, Moving, TypeOK
  <2>2. CASE head[rehash.entry] = NULL
    BY <1>14, <1>0, <2>2 DEF RoundNode, NextPos
  <2>3. CASE head[rehash.entry] # NULL
    BY <1>14, <1>0, <1>a, <1>b, <2>1, <2>3 DEF RoundNode, NextPos
  <2>4. QED
    BY <2>2, <2>3
<1>15. CASE RoundUnlink(t)
  <2>1. TargetEntry \in Entries \cup Nodes
    BY <1>15, TargetIs DEF RoundUnlink
  <2>2. QED
    BY <1>15, <1>0, <1>a, <1>b, <2>1 DEF RoundUnlink
<1>16. CASE RoundGivesUp(t)
  BY <1>0, <1>16 DEF RoundGivesUp
<1>17. CASE RoundLink(t)
  BY <1>0, <1>17 DEF RoundLink
<1>18. CASE RoundEnd(t)
  BY <1>0, <1>18 DEF RoundEnd
<1>19. QED
  BY <1>1, <1>2, <1>3, <1>4, <1>5, <1>6, <1>7, <1>8, <1>9, <1>10, <1>11, <1>12, <1>13, <1>14,
     <1>15, <1>16, <1>17, <1>18, LocksMove

(* The node that Find returns is one of the entry, with the key.           *)
LEMMA FindIs ==
  ASSUME TypeOK, NEW e \in Entries, NEW k, Find(e, k) # NULL
  PROVE  Find(e, k) \in Linked(e) /\ node[Find(e, k)].key = k
<1> DEFINE hits == {n \in Linked(e) : node[n].key = k}
           S == {m \in Linked(e) : hits \subseteq OnTheWay(m)}
<1>1. Links(node) /\ head[e] \in Nodes \cup {NULL}
  BY DEF Links, TypeOK, NodeContents
<1>2. Linked(e) = Way(node, head[e])
  BY OnTheWayIs DEF Linked
<1>3. hits # {}
  BY DEF Find
<1>4. head[e] # NULL /\ Linked(e) \in SUBSET Nodes /\ head[e] \in Linked(e)
      /\ \A m \in Linked(e) : node[m].next \in Linked(e) \cup {NULL}
  BY <1>1, <1>2, <1>3, WayIs DEF Way
<1>5. \E n \in hits : hits \subseteq OnTheWay(n)
  <2>1. SUFFICES ASSUME \A n \in hits : n \notin S PROVE FALSE
    OBVIOUS
  <2>2. head[e] \in S
    BY <1>4 DEF Linked
  <2>3. ASSUME NEW m \in S PROVE node[m].next \in S \cup {NULL}
    <3>1. m \in Nodes /\ m \notin hits /\ hits \subseteq OnTheWay(m)
      BY <1>4, <2>1, <2>3
    <3>2. OnTheWay(m) = OnTheWay(node[m].next) \cup {m}
      BY <1>1, <3>1, OnTheWayIs, WayStep
    <3>3. hits \subseteq OnTheWay(node[m].next)
      BY <3>1, <3>2
    <3>4. QED
      BY <1>4, <2>3, <3>3
  <2>4. Linked(e) \subseteq S
    <3>1. S \in SUBSET Nodes /\ head[e] \in S \cup {NULL}
      BY <1>4, <2>2
    <3> HIDE DEF S
    <3>2. Way(node, head[e]) \subseteq S
      BY <2>3, <3>1, WayLeast
    <3>3. QED
      BY <1>2, <3>2
  <2>5. QED
    BY <1>3, <2>1, <2>4
<1>6. Find(e, k) = CHOOSE n \in hits : hits \subseteq OnTheWay(n)
  BY <1>3 DEF Find
<1>7. Find(e, k) \in hits
  BY <1>5, <1>6
<1>8. QED
  BY <1>7

(* The locals between calls, with and without an item.                     *)
LEMMA NewLocals ==
  /\ NoLocals \in CallLocals
  /\ \A p \in Nodes \cup {NULL} : [NoLocals EXCEPT !.p = p] \in CallLocals
<1>1. <<>> \in BaseLists(Bases) /\ 0 \in Bases \cup {0} /\ 0 \in 0..MaxSize /\ "idle" \in PCs
  BY SizesAre DEF BaseLists, PCs
<1>2. QED
  BY <1>1 DEF NoLocals, CallLocals

(* The types of the places and arguments of the threads.                   *)
LEMMA ControlTypes ==
  ASSUME TypeOK, TableRight, Keyed, Valued,
         NEW t \in Threads, Flow(t), Looks(t), Rehashing(t), Found(t), Moves(t)
  PROVE  pc' \in [Threads -> PCs] /\ call' \in [Threads -> Calls \cup {NoCall}]
<1>0. local[t].then \in PCs
  BY DEF TypeOK, CallLocals
<1>1. CASE Call(t)
  BY <1>1 DEF Call, TypeOK, PCs
<1>2. CASE Returns(t)
  BY <1>2 DEF Returns, TypeOK, PCs
<1>3. CASE unlockHashTableItem(t)
  BY <1>0, <1>3 DEF unlockHashTableItem, TypeOK, PCs
<1>4. CASE EnterRehash(t)
  BY <1>0, <1>4 DEF EnterRehash, TypeOK, PCs
<1>5. CASE InsertBase(t)
  BY <1>0, <1>5 DEF InsertBase, TypeOK, PCs
<1>6. CASE ReadBases(t)
  BY <1>0, <1>6 DEF ReadBases, TypeOK, PCs
<1>7. CASE SearchMisses(t)
  BY <1>0, <1>7 DEF SearchMisses, Return, TypeOK, PCs
<1>8. CASE SearchAnswers(t)
  BY <1>0, <1>8 DEF SearchAnswers, Return, TypeOK, PCs
<1>9. CASE SearchFinds(t)
  BY <1>0, <1>9 DEF SearchFinds, TypeOK, PCs
<1>10. CASE LockItem(t)
  BY <1>0, <1>10 DEF LockItem, TypeOK, PCs
<1>11. CASE UpdateItem(t)
  BY <1>0, <1>11 DEF UpdateItem, Return, TypeOK, PCs
<1>12. CASE UnlinkItem(t)
  BY <1>0, <1>12 DEF UnlinkItem, TypeOK, PCs
<1>13. CASE ForgetItem(t)
  BY <1>0, <1>13 DEF ForgetItem, Return, TypeOK, PCs
<1>14. CASE AllocNode(t)
  BY <1>0, <1>14 DEF AllocNode, TypeOK, PCs
<1>15. CASE AllocFails(t)
  BY <1>0, <1>15 DEF AllocFails, Return, TypeOK, PCs
<1>16. CASE LockHead(t)
  BY <1>0, <1>16 DEF LockHead, TypeOK, PCs
<1>17. CASE WalkList(t)
  BY <1>0, <1>17 DEF WalkList, TypeOK, PCs
<1>18. CASE WalkOn(t)
  BY <1>0, <1>18 DEF WalkOn, TypeOK, PCs
<1>19. CASE WalkEnds(t)
  BY <1>0, <1>19 DEF WalkEnds, TypeOK, PCs
<1>20. CASE WalkFinds(t)
  BY <1>0, <1>20 DEF WalkFinds, Return, TypeOK, PCs
<1>21. CASE LinkNode(t)
  BY <1>0, <1>21 DEF LinkNode, TypeOK, PCs
<1>22. CASE CountItem(t)
  BY <1>0, <1>22 DEF CountItem, Return, TypeOK, PCs
<1>23. CASE StartRehash(t)
  BY <1>0, <1>23 DEF StartRehash, Return, TypeOK, PCs
<1>24. CASE StartFails(t)
  BY <1>0, <1>24 DEF StartFails, Return, TypeOK, PCs
<1>25. CASE AlreadyStarted(t)
  BY <1>0, <1>25 DEF AlreadyStarted, Return, TypeOK, PCs
<1>26. CASE MapBase(t)
  BY <1>0, <1>26 DEF MapBase, Return, TypeOK, PCs
<1>27. CASE MapHead(t)
  BY <1>0, <1>27 DEF MapHead, TypeOK, PCs
<1>28. CASE MapItem(t)
  BY <1>0, <1>28 DEF MapItem, TypeOK, PCs
<1>29. CASE MapLeave(t)
  BY <1>0, <1>29 DEF MapLeave, Return, TypeOK, PCs
<1>30. CASE Round(t)
  BY <1>0, <1>30 DEF Round, TypeOK, PCs
<1>31. CASE RoundFails(t)
  BY <1>0, <1>31 DEF RoundFails, Retry, TypeOK, PCs
<1>32. CASE LeaveRehash(t)
  BY <1>0, <1>32 DEF LeaveRehash, TypeOK, PCs
<1>33. CASE RoundUpdate(t)
  BY <1>0, <1>33 DEF RoundUpdate, TypeOK, PCs
<1>34. CASE RoundUpdateFails(t)
  BY <1>0, <1>34 DEF RoundUpdateFails, TypeOK, PCs
<1>35. CASE RoundNode(t)
  BY <1>0, <1>35 DEF RoundNode, NextPos, Retry, TypeOK, PCs
<1>36. CASE RoundUnlink(t)
  BY <1>0, <1>36 DEF RoundUnlink, TypeOK, PCs
<1>37. CASE RoundGivesUp(t)
  BY <1>0, <1>37 DEF RoundGivesUp, TypeOK, PCs
<1>38. CASE RoundLink(t)
  BY <1>0, <1>38 DEF RoundLink, TypeOK, PCs
<1>39. CASE RoundEnd(t)
  BY <1>0, <1>39 DEF RoundEnd, TypeOK, PCs
<1>40. QED
  BY <1>1, <1>2, <1>3, <1>4, <1>5, <1>6, <1>7, <1>8, <1>9, <1>10, <1>11, <1>12, <1>13, <1>14,
     <1>15, <1>16, <1>17, <1>18, <1>19, <1>20, <1>21, <1>22, <1>23, <1>24, <1>25, <1>26, <1>27,
     <1>28, <1>29, <1>30, <1>31, <1>32, <1>33, <1>34, <1>35, <1>36, <1>37, <1>38, <1>39 DEF
     Moves, Step

(* The type of the answers.                                                *)
LEMMA AnswerTypes ==
  ASSUME TypeOK, TableRight, Keyed, Valued,
         NEW t \in Threads, Flow(t), Looks(t), Rehashing(t), Found(t), Moves(t)
  PROVE  answer' \in [Threads -> Answers]
<1>0. \A n \in Nodes : (\E e \in Entries : n \in Linked(e)) => node[n].value \in Values
  BY DEF Keyed, Valued
<1>1. CASE Call(t)
  BY <1>1 DEF Call, TypeOK, Answers
<1>2. CASE Returns(t)
  BY <1>2 DEF Returns, TypeOK, Answers
<1>3. CASE unlockHashTableItem(t)
  BY <1>3 DEF unlockHashTableItem, TypeOK, Answers
<1>4. CASE EnterRehash(t)
  BY <1>4 DEF EnterRehash, TypeOK, Answers
<1>5. CASE InsertBase(t)
  BY <1>5 DEF InsertBase, TypeOK, Answers
<1>6. CASE ReadBases(t)
  BY <1>6 DEF ReadBases, TypeOK, Answers
<1>7. CASE SearchMisses(t)
  BY <1>7 DEF SearchMisses, Return, TypeOK, Answers
<1>8. CASE SearchAnswers(t)
  <2>1. PICK n : n = Find(Entry(t), call[t].key) /\ n # NULL
    BY <1>8 DEF SearchAnswers
  <2>2. Entry(t) \in Entries
    BY <1>8, EntryOfCall DEF SearchAnswers
  <2>3. n \in Nodes /\ n \in Linked(Entry(t))
    BY <2>1, <2>2, FindIs DEF Linked, OnTheWay
  <2>4. node[n].value \in Answers
    BY <1>0, <2>2, <2>3 DEF Answers
  <2>5. QED
    BY <1>8, <2>1, <2>4 DEF SearchAnswers, Return, TypeOK, Answers
<1>9. CASE SearchFinds(t)
  BY <1>9 DEF SearchFinds, TypeOK, Answers
<1>10. CASE LockItem(t)
  <2>1. Entry(t) \in Entries /\ local[t].p \in Linked(Entry(t)) /\ local[t].p \in Nodes
    BY <1>10, EntryOfCall DEF LockItem, Found, Linked, OnTheWay
  <2>2. node[local[t].p].value \in Answers
    BY <1>0, <2>1 DEF Answers
  <2>3. QED
    BY <1>10, <2>2 DEF LockItem, TypeOK
<1>11. CASE UpdateItem(t)
  BY <1>11 DEF UpdateItem, Return, TypeOK, Answers
<1>12. CASE UnlinkItem(t)
  BY <1>12 DEF UnlinkItem, TypeOK, Answers
<1>13. CASE ForgetItem(t)
  BY <1>13 DEF ForgetItem, Return, TypeOK, Answers
<1>14. CASE AllocNode(t)
  BY <1>14 DEF AllocNode, TypeOK, Answers
<1>15. CASE AllocFails(t)
  BY <1>15 DEF AllocFails, Return, TypeOK, Answers
<1>16. CASE LockHead(t)
  BY <1>16 DEF LockHead, TypeOK, Answers
<1>17. CASE WalkList(t)
  BY <1>17 DEF WalkList, TypeOK, Answers
<1>18. CASE WalkOn(t)
  BY <1>18 DEF WalkOn, TypeOK, Answers
<1>19. CASE WalkEnds(t)
  BY <1>19 DEF WalkEnds, TypeOK, Answers
<1>20. CASE WalkFinds(t)
  BY <1>20 DEF WalkFinds, Return, TypeOK, Answers
<1>21. CASE LinkNode(t)
  BY <1>21 DEF LinkNode, TypeOK, Answers
<1>22. CASE CountItem(t)
  BY <1>22 DEF CountItem, Return, TypeOK, Answers
<1>23. CASE StartRehash(t)
  BY <1>23 DEF StartRehash, Return, TypeOK, Answers
<1>24. CASE StartFails(t)
  BY <1>24 DEF StartFails, Return, TypeOK, Answers
<1>25. CASE AlreadyStarted(t)
  BY <1>25 DEF AlreadyStarted, Return, TypeOK, Answers
<1>26. CASE MapBase(t)
  BY <1>26 DEF MapBase, Return, TypeOK, Answers
<1>27. CASE MapHead(t)
  BY <1>27 DEF MapHead, TypeOK, Answers
<1>28. CASE MapItem(t)
  BY <1>28 DEF MapItem, TypeOK, Answers
<1>29. CASE MapLeave(t)
  BY <1>29 DEF MapLeave, Return, TypeOK, Answers
<1>30. CASE Round(t)
  BY <1>30 DEF Round, TypeOK, Answers
<1>31. CASE RoundFails(t)
  BY <1>31 DEF RoundFails, Retry, TypeOK, Answers
<1>32. CASE LeaveRehash(t)
  BY <1>32 DEF LeaveRehash, TypeOK, Answers
<1>33. CASE RoundUpdate(t)
  BY <1>33 DEF RoundUpdate, TypeOK, Answers
<1>34. CASE RoundUpdateFails(t)
  BY <1>34 DEF RoundUpdateFails, TypeOK, Answers
<1>35. CASE RoundNode(t)
  BY <1>35 DEF RoundNode, NextPos, Retry, TypeOK, Answers
<1>36. CASE RoundUnlink(t)
  BY <1>36 DEF RoundUnlink, TypeOK, Answers
<1>37. CASE RoundGivesUp(t)
  BY <1>37 DEF RoundGivesUp, TypeOK, Answers
<1>38. CASE RoundLink(t)
  BY <1>38 DEF RoundLink, TypeOK, Answers
<1>39. CASE RoundEnd(t)
  BY <1>39 DEF RoundEnd, TypeOK, Answers
<1>40. QED
  BY <1>1, <1>2, <1>3, <1>4, <1>5, <1>6, <1>7, <1>8, <1>9, <1>10, <1>11, <1>12, <1>13, <1>14,
     <1>15, <1>16, <1>17, <1>18, <1>19, <1>20, <1>21, <1>22, <1>23, <1>24, <1>25, <1>26, <1>27,
     <1>28, <1>29, <1>30, <1>31, <1>32, <1>33, <1>34, <1>35, <1>36, <1>37, <1>38, <1>39 DEF
     Moves, Step

(* The type of the locals.                                                 *)
LEMMA LocalTypes ==
  ASSUME TypeOK, TableRight, Keyed, Valued,
         NEW t \in Threads, Flow(t), Looks(t), Rehashing(t), Found(t), Moves(t)
  PROVE  local' \in [Threads -> CallLocals]
<1>0. Looks(t)' /\ NoLocals \in CallLocals
  BY LooksKept, NewLocals
<1>a. local'[t].bases \in BaseLists(Bases) /\ local'[t].insert_base \in Bases \cup {0}
  <2>1. KnownBases' \subseteq Bases
    BY DEF KnownBases, Bases
  <2>2. QED
    BY <1>0, <2>1, BaseListsGrow DEF Looks
<1>b. local \in [Threads -> CallLocals]
  BY DEF TypeOK
<1>1. CASE Call(t)
  BY <1>1, <1>b DEF Call, CallLocals, PCs
<1>2. CASE Returns(t)
  BY <1>0, <1>b, <1>2 DEF Returns
<1>3. CASE unlockHashTableItem(t)
  BY <1>0, <1>b, <1>3 DEF unlockHashTableItem
<1>4. CASE EnterRehash(t)
  BY <1>0, <1>b, <1>4 DEF EnterRehash
<1>5. CASE InsertBase(t)
  <2>1. PICK b : b = IF is_rehashing THEN rehash_insert_base ELSE current_base
    OBVIOUS
  <2>2. local' = [local EXCEPT ![t].insert_base = b, ![t].then = "bases"]
    BY <1>5, <2>1 DEF InsertBase
  <2>3. b \in Bases \cup {0} /\ "bases" \in PCs
    BY <1>a, <1>b, <2>2 DEF CallLocals, PCs
  <2>4. QED
    BY <1>b, <2>2, <2>3 DEF CallLocals
<1>6. CASE ReadBases(t)
  <2>1. local'[t].bases = IF is_rehashing THEN <<current_base, rehash_insert_base>> ELSE <<current_base>>
    BY <1>6, <1>b DEF ReadBases, CallLocals
  <2>2. QED
    BY <1>6, <1>a, <1>b, <2>1 DEF ReadBases, CallLocals
<1>7. CASE SearchMisses(t)
  <2>1. CASE local' = local
    BY <1>b, <2>1
  <2>2. CASE local' = [local EXCEPT ![t] = NoLocals]
    BY <1>0, <1>b, <2>2
  <2>3. CASE local' = [local EXCEPT ![t].bases = Tail(local[t].bases)]
    <3>1. local'[t].bases = Tail(local[t].bases)
      BY <1>b, <2>3 DEF CallLocals
    <3>2. QED
      BY <1>a, <1>b, <2>3, <3>1 DEF CallLocals
  <2>4. QED
    BY <1>7, <2>1, <2>2, <2>3 DEF SearchMisses, Return
<1>8. CASE SearchAnswers(t)
  BY <1>0, <1>b, <1>8 DEF SearchAnswers, Return
<1>9. CASE SearchFinds(t)
  <2>1. Entry(t) \in Entries
    BY <1>9, EntryOfCall DEF SearchFinds
  <2>2. Find(Entry(t), call[t].key) \in Nodes
    BY <1>9, <2>1, FindIs DEF SearchFinds, Linked, OnTheWay
  <2>3. QED
    BY <1>9, <1>b, <2>2 DEF SearchFinds, CallLocals
<1>10. CASE LockItem(t)
  <2>1. [NoLocals EXCEPT !.p = local[t].p] \in CallLocals
    BY <1>b, NewLocals DEF CallLocals
  <2>2. QED
    BY <1>10, <1>b, <2>1 DEF LockItem
<1>11. CASE UpdateItem(t)
  BY <1>0, <1>b, <1>11 DEF UpdateItem, Return
<1>12. CASE UnlinkItem(t)
  <2>1. (list_length[Entry(t)] > COLLISION_COUNT_THRESHOLD) \in BOOLEAN
    OBVIOUS
  <2>2. QED
    BY <1>12, <1>b, <2>1 DEF UnlinkItem, CallLocals
<1>13. CASE ForgetItem(t)
  BY <1>0, <1>b, <1>13 DEF ForgetItem, Return
<1>14. CASE AllocNode(t)
  <2>1. free_list \in Nodes \cup {NULL}
    BY DEF TypeOK
  <2>2. QED
    BY <1>14, <1>b, <2>1 DEF AllocNode, CallLocals
<1>15. CASE AllocFails(t)
  BY <1>0, <1>b, <1>15 DEF AllocFails, Return
<1>16. CASE LockHead(t)
  BY <1>0, <1>b, <1>16 DEF LockHead
<1>17. CASE WalkList(t)
  <2>1. head[Entry(t)] \in Nodes \cup {NULL} /\ 1 \in 0..MaxSize
    BY <1>17, EntryOfCall, SizesAre DEF WalkList, TypeOK
  <2>2. QED
    BY <1>17, <1>b, <2>1 DEF WalkList, CallLocals
<1>18. CASE WalkOn(t)
  <2>1. local[t].p \in Nodes
    BY <1>18, <1>b DEF WalkOn, CallLocals
  <2>2. node[local[t].p].next \in Nodes \cup {NULL}
    BY <2>1 DEF TypeOK, NodeContents
  <2>3. QED
    BY <1>18, <1>b, <2>2 DEF WalkOn, CallLocals
<1>19. CASE WalkEnds(t)
  <2>1. local'[t].bases = Tail(local[t].bases)
    BY <1>19, <1>b DEF WalkEnds, CallLocals
  <2>2. QED
    BY <1>19, <1>a, <1>b, <2>1, SizesAre DEF WalkEnds, CallLocals
<1>20. CASE WalkFinds(t)
  BY <1>0, <1>b, <1>20 DEF WalkFinds, Return
<1>21. CASE LinkNode(t)
  BY <1>0, <1>b, <1>21 DEF LinkNode
<1>22. CASE CountItem(t)
  BY <1>0, <1>b, <1>22 DEF CountItem, Return
<1>23. CASE StartRehash(t)
  BY <1>0, <1>b, <1>23 DEF StartRehash, Return
<1>24. CASE StartFails(t)
  BY <1>0, <1>b, <1>24 DEF StartFails, Return
<1>25. CASE AlreadyStarted(t)
  BY <1>0, <1>b, <1>25 DEF AlreadyStarted, Return
<1>26. CASE MapBase(t)
  <2>1. CASE local' = local
    BY <1>b, <2>1
  <2>2. CASE local' = [local EXCEPT ![t] = NoLocals]
    BY <1>0, <1>b, <2>2
  <2>3. CASE local' = [local EXCEPT ![t].bases = Tail(local[t].bases)]
    <3>1. local'[t].bases = Tail(local[t].bases)
      BY <1>b, <2>3 DEF CallLocals
    <3>2. QED
      BY <1>a, <1>b, <2>3, <3>1 DEF CallLocals
  <2>4. QED
    BY <1>26, <2>1, <2>2, <2>3 DEF MapBase, Return
<1>27. CASE MapHead(t)
  <2>1. head[MapEntry(t)] \in Nodes \cup {NULL}
    BY <1>27, EntryOfMap DEF MapHead, TypeOK
  <2>2. QED
    BY <1>27, <1>b, <2>1 DEF MapHead, CallLocals
<1>28. CASE MapItem(t)
  <2>1. local[t].p \in Nodes
    BY <1>28, <1>b DEF MapItem, CallLocals
  <2>2. node[local[t].p].next \in Nodes \cup {NULL}
    BY <2>1 DEF TypeOK, NodeContents
  <2>3. QED
    BY <1>28, <1>b, <2>2 DEF MapItem, CallLocals
<1>29. CASE MapLeave(t)
  <2>1. CASE local' = [local EXCEPT ![t] = NoLocals]
    BY <1>0, <1>b, <2>1
  <2>2. CASE local' = [local EXCEPT ![t].pos = local[t].pos + 1]
    <3>1. local[t].pos + 1 \in 0..MaxSize
      BY <1>29, <1>b, EntryOfMap, SizesAre DEF MapLeave, CallLocals, MapEntry, Entries
    <3>2. QED
      BY <1>b, <2>2, <3>1 DEF CallLocals
  <2>3. CASE local' = [local EXCEPT ![t].pos = 0, ![t].bases = Tail(local[t].bases)]
    <3>1. PICK b : b = Tail(local[t].bases)
      OBVIOUS
    <3>2. local' = [local EXCEPT ![t].pos = 0, ![t].bases = b]
      BY <2>3, <3>1
    <3>3. b \in BaseLists(Bases) /\ 0 \in 0..MaxSize
      BY <1>a, <1>b, <3>2, SizesAre DEF CallLocals
    <3>4. QED
      BY <1>b, <3>2, <3>3 DEF CallLocals
  <2>4. QED
    BY <1>29, <2>1, <2>2, <2>3 DEF MapLeave, Return
<1>30. CASE Round(t)
  BY <1>0, <1>b, <1>30 DEF Round
<1>31. CASE RoundFails(t)
  BY <1>0, <1>b, <1>31 DEF RoundFails, Retry
<1>32. CASE LeaveRehash(t)
  BY <1>0, <1>b, <1>32 DEF LeaveRehash
<1>33. CASE RoundUpdate(t)
  BY <1>0, <1>b, <1>33 DEF RoundUpdate
<1>34. CASE RoundUpdateFails(t)
  BY <1>0, <1>b, <1>34 DEF RoundUpdateFails
<1>35. CASE RoundNode(t)
  BY <1>0, <1>b, <1>35 DEF RoundNode, NextPos, Retry
<1>36. CASE RoundUnlink(t)
  BY <1>0, <1>b, <1>36 DEF RoundUnlink
<1>37. CASE RoundGivesUp(t)
  BY <1>0, <1>b, <1>37 DEF RoundGivesUp
<1>38. CASE RoundLink(t)
  BY <1>0, <1>b, <1>38 DEF RoundLink
<1>39. CASE RoundEnd(t)
  BY <1>0, <1>b, <1>39 DEF RoundEnd
<1>40. QED
  BY <1>1, <1>2, <1>3, <1>4, <1>5, <1>6, <1>7, <1>8, <1>9, <1>10, <1>11, <1>12, <1>13, <1>14,
     <1>15, <1>16, <1>17, <1>18, <1>19, <1>20, <1>21, <1>22, <1>23, <1>24, <1>25, <1>26, <1>27,
     <1>28, <1>29, <1>30, <1>31, <1>32, <1>33, <1>34, <1>35, <1>36, <1>37, <1>38, <1>39 DEF
     Moves, Step

-----------------------------------------------------------------------------
(* The thread that moves nodes                                             *)

(* Keys change only when a node is taken for a new item.                   *)
LEMMA KeysStay ==
  ASSUME TypeOK, NEW t \in Threads, Flow(t), Rehashing(t), Moves(t),
         NEW n \in Nodes, ~(AllocNode(t) /\ n = free_list)
  PROVE  node'[n].key = node[n].key
<1>1. CASE UNCHANGED <<Lists>>
  BY <1>1
<1>2. CASE UpdateItem(t)
  BY <1>2 DEF UpdateItem, TypeOK, NodeContents
<1>3. CASE UnlinkItem(t)
  BY <1>3 DEF UnlinkItem, Unlink, TypeOK, NodeContents
<1>4. CASE ForgetItem(t)
  BY <1>4 DEF ForgetItem, FreeNode, TypeOK, NodeContents
<1>5. CASE AllocNode(t)
  BY <1>5 DEF AllocNode, TypeOK
<1>6. CASE WalkFinds(t)
  BY <1>6 DEF WalkFinds, FreeNode, TypeOK, NodeContents
<1>7. CASE LinkNode(t)
  BY <1>7 DEF LinkNode, TypeOK, NodeContents
<1>8. CASE RoundUnlink(t)
  BY <1>8 DEF RoundUnlink
<1>9. CASE RoundLink(t)
  BY <1>9 DEF RoundLink, TypeOK, NodeContents
<1>10. QED
  BY <1>1, <1>2, <1>3, <1>4, <1>5, <1>6, <1>7, <1>8, <1>9, ListsMove

(* While one thread is in rehashNSteps the others leave it alone.          *)
LEMMA OneRehashes ==
  ASSUME TypeOK, NEW t \in Threads, Rehashing(t), Moves(t),
         NEW u \in Threads, u # t, Rehashing(u), pc[u] \in Rounds
  PROVE  /\ pc[t] \notin Rounds /\ rehash' = rehash
         /\ current_base' = current_base /\ rehash_lock' = rehash_lock
<1>1. rehash_lock = u /\ pc[t] \notin Rounds /\ u # NULL
  BY HashTableAssumption DEF Rehashing
<1>2. rehash' = rehash
  BY <1>1, RehashMoves DEF Rounds, Moving, RoundFails, LeaveRehash, Round, RoundUpdateFails, RoundNode,
                           RoundUnlink, RoundGivesUp, RoundLink, RoundEnd
<1>3. current_base' = current_base
  BY <1>1, TableMoves DEF Rounds, Moving, StartRehash, StartFails, RoundNode, NextPos, RoundEnd
<1>4. rehash_lock' = rehash_lock
  BY <1>1, RehashLockMoves DEF Rounds, Moving, EnterRehash, LeaveRehash
<1>5. QED
  BY <1>1, <1>2, <1>3, <1>4

(* The head of an entry that a thread has locked to write.                 *)
LEMMA HeadStays ==
  ASSUME TypeOK, Exclusive, NEW t \in Threads, Flow(t), Claims(t), Moves(t),
         pc[t] \notin Rounds,
         NEW e \in Entries, NEW u \in Threads, u # t, Locked(e, u, "write") \in locks
  PROVE  head'[e] = head[e]
<1>1. CASE UNCHANGED <<Lists>>
  BY <1>1
<1>2. CASE UpdateItem(t) \/ ForgetItem(t) \/ AllocNode(t) \/ WalkFinds(t)
  BY <1>2 DEF UpdateItem, ForgetItem, AllocNode, WalkFinds
<1>3. CASE UnlinkItem(t)
  <2>1. Locked(Entry(t), t, "write") \in locks
    BY <1>3 DEF UnlinkItem, Claims, HeadMode
  <2>2. Entry(t) # e
    BY <2>1, TwoLocks
  <2>3. QED
    BY <1>3, <2>2 DEF UnlinkItem, Unlink, TypeOK
<1>4. CASE LinkNode(t)
  <2>1. Inserting(t)
    BY <1>4 DEF LinkNode, Inserting, Flow
  <2>2. InsertEntry(t) # e
    BY <2>1, TwoLocks DEF Claims
  <2>3. QED
    BY <1>4, <2>2 DEF LinkNode, TypeOK
<1>5. CASE RoundUnlink(t) \/ RoundLink(t)
  BY <1>5 DEF RoundUnlink, RoundLink, Rounds, Moving
<1>6. QED
  BY <1>1, <1>2, <1>3, <1>4, <1>5, ListsMove

(* The thread that is in rehashNSteps is not disturbed.                    *)
LEMMA RehashingOfOthers ==
  ASSUME TypeOK, Exclusive, NEW t \in Threads, Flow(t), Claims(t), Rehashing(t), Moves(t),
         NEW u \in Threads, u # t, Claims(u), Rehashing(u)
  PROVE  Rehashing(u)'
<1>1. pc'[u] = pc[u] /\ local'[u] = local[u]
  BY OthersStay
<1>2. CASE pc[u] \notin Rounds
  <2>1. rehash_lock' # u
    <3>1. rehash_lock # u /\ u # NULL
      BY <1>2, HashTableAssumption DEF Rehashing
    <3>2. CASE UNCHANGED <<rehash_lock>>
      BY <3>1, <3>2
    <3>3. CASE EnterRehash(t)
      BY <3>1, <3>3 DEF EnterRehash
    <3>4. CASE LeaveRehash(t)
      BY <3>1, <3>4 DEF LeaveRehash
    <3>5. QED
      BY <3>2, <3>3, <3>4, RehashLockMoves
  <2>2. QED
    BY <1>1, <1>2, <2>1 DEF Rehashing, Rounds, Moving
<1>3. CASE pc[u] \in Rounds
  <2>1. pc[t] \notin Rounds /\ rehash' = rehash /\ current_base' = current_base /\ rehash_lock' = rehash_lock
    BY <1>3, OneRehashes
  <2>2. pc[u] = "round_target" => head'[rehash.entry] = head[rehash.entry]
    <3>1. SUFFICES ASSUME pc[u] = "round_target" PROVE head'[rehash.entry] = head[rehash.entry]
      OBVIOUS
    <3>2. rehash.entry \in Entries /\ Locked(rehash.entry, u, "write") \in locks
      BY <3>1 DEF Rehashing, Claims, Rounds, Moving
    <3>3. QED
      BY <2>1, <3>2, HeadStays
  <2>3. QED
    BY <1>1, <1>3, <2>1, <2>2 DEF Rehashing
<1>4. QED
  BY <1>2, <1>3

(* Rehashing of the thread that takes the step.                            *)
LEMMA RehashingKept ==
  ASSUME TypeOK, TableRight, Exclusive, Keyed, Apart, NEW t \in Threads, Flow(t), Claims(t),
         Rehashing(t), Moves(t)
  PROVE  Rehashing(t)'
<1>1. pc'[t] \in Rounds <=> rehash_lock' = t
  <2> USE HashTableAssumption
  <2>1. CASE Call(t)
    BY <2>1 DEF Call, TypeOK, Rehashing, Rounds, Moving, Flow
  <2>2. CASE Returns(t)
    BY <2>2 DEF Returns, TypeOK, Rehashing, Rounds, Moving, Flow
  <2>3. CASE unlockHashTableItem(t)
    BY <2>3 DEF unlockHashTableItem, TypeOK, Rehashing, Rounds, Moving, Flow
  <2>4. CASE EnterRehash(t)
    <3>1. local[t].then \in {"insert_base", "bases"} /\ pc[t] \in Inside /\ t # NULL
      BY <2>4, HashTableAssumption DEF EnterRehash, Flow, Inside, Rounds, Moving
    <3>2. QED
      BY <2>4, <3>1 DEF EnterRehash, TypeOK, Rehashing, Rounds, Moving
  <2>5. CASE InsertBase(t)
    BY <2>5 DEF InsertBase, TypeOK, Rehashing, Rounds, Moving, Flow
  <2>6. CASE ReadBases(t)
    BY <2>6 DEF ReadBases, TypeOK, Rehashing, Rounds, Moving, Flow
  <2>7. CASE SearchMisses(t)
    BY <2>7 DEF SearchMisses, Return, TypeOK, Rehashing, Rounds, Moving, Flow
  <2>8. CASE SearchAnswers(t)
    BY <2>8 DEF SearchAnswers, Return, TypeOK, Rehashing, Rounds, Moving, Flow
  <2>9. CASE SearchFinds(t)
    BY <2>9 DEF SearchFinds, TypeOK, Rehashing, Rounds, Moving, Flow
  <2>10. CASE LockItem(t)
    BY <2>10 DEF LockItem, TypeOK, Rehashing, Rounds, Moving, Flow
  <2>11. CASE UpdateItem(t)
    BY <2>11 DEF UpdateItem, Return, TypeOK, Rehashing, Rounds, Moving, Flow
  <2>12. CASE UnlinkItem(t)
    BY <2>12 DEF UnlinkItem, TypeOK, Rehashing, Rounds, Moving, Flow
  <2>13. CASE ForgetItem(t)
    BY <2>13 DEF ForgetItem, Return, TypeOK, Rehashing, Rounds, Moving, Flow
  <2>14. CASE AllocNode(t)
    BY <2>14 DEF AllocNode, TypeOK, Rehashing, Rounds, Moving, Flow
  <2>15. CASE AllocFails(t)
    BY <2>15 DEF AllocFails, Return, TypeOK, Rehashing, Rounds, Moving, Flow
  <2>16. CASE LockHead(t)
    BY <2>16 DEF LockHead, TypeOK, Rehashing, Rounds, Moving, Flow
  <2>17. CASE WalkList(t)
    BY <2>17 DEF WalkList, TypeOK, Rehashing, Rounds, Moving, Flow
  <2>18. CASE WalkOn(t)
    BY <2>18 DEF WalkOn, TypeOK, Rehashing, Rounds, Moving, Flow
  <2>19. CASE WalkEnds(t)
    BY <2>19 DEF WalkEnds, TypeOK, Rehashing, Rounds, Moving, Flow
  <2>20. CASE WalkFinds(t)
    BY <2>20 DEF WalkFinds, Return, TypeOK, Rehashing, Rounds, Moving, Flow
  <2>21. CASE LinkNode(t)
    BY <2>21 DEF LinkNode, TypeOK, Rehashing, Rounds, Moving, Flow
  <2>22. CASE CountItem(t)
    BY <2>22 DEF CountItem, Return, TypeOK, Rehashing, Rounds, Moving, Flow
  <2>23. CASE StartRehash(t)
    BY <2>23 DEF StartRehash, Return, TypeOK, Rehashing, Rounds, Moving, Flow
  <2>24. CASE StartFails(t)
    BY <2>24 DEF StartFails, Return, TypeOK, Rehashing, Rounds, Moving, Flow
  <2>25. CASE AlreadyStarted(t)
    BY <2>25 DEF AlreadyStarted, Return, TypeOK, Rehashing, Rounds, Moving, Flow
  <2>26. CASE MapBase(t)
    BY <2>26 DEF MapBase, Return, TypeOK, Rehashing, Rounds, Moving, Flow
  <2>27. CASE MapHead(t)
    BY <2>27 DEF MapHead, TypeOK, Rehashing, Rounds, Moving, Flow
  <2>28. CASE MapItem(t)
    BY <2>28 DEF MapItem, TypeOK, Rehashing, Rounds, Moving, Flow
  <2>29. CASE MapLeave(t)
    BY <2>29 DEF MapLeave, Return, TypeOK, Rehashing, Rounds, Moving, Flow
  <2>30. CASE Round(t)
    BY <2>30 DEF Round, TypeOK, Rehashing, Rounds, Moving, Flow
  <2>31. CASE RoundFails(t)
    BY <2>31 DEF RoundFails, Retry, TypeOK, Rehashing, Rounds, Moving, Flow
  <2>32. CASE LeaveRehash(t)
    <3>1. local[t].then \in {"insert_base", "bases"} /\ pc[t] \in Inside /\ t # NULL
      BY <2>32, HashTableAssumption DEF LeaveRehash, Flow, Inside, Rounds, Moving
    <3>2. QED
      BY <2>32, <3>1 DEF LeaveRehash, TypeOK, Rehashing, Rounds, Moving
  <2>33. CASE RoundUpdate(t)
    BY <2>33 DEF RoundUpdate, TypeOK, Rehashing, Rounds, Moving, Flow
  <2>34. CASE RoundUpdateFails(t)
    BY <2>34 DEF RoundUpdateFails, TypeOK, Rehashing, Rounds, Moving, Flow
  <2>35. CASE RoundNode(t)
    BY <2>35 DEF RoundNode, NextPos, Retry, TypeOK, Rehashing, Rounds, Moving, Flow
  <2>36. CASE RoundUnlink(t)
    BY <2>36 DEF RoundUnlink, TypeOK, Rehashing, Rounds, Moving, Flow
  <2>37. CASE RoundGivesUp(t)
    BY <2>37 DEF RoundGivesUp, TypeOK, Rehashing, Rounds, Moving, Flow
  <2>38. CASE RoundLink(t)
    BY <2>38 DEF RoundLink, TypeOK, Rehashing, Rounds, Moving, Flow
  <2>39. CASE RoundEnd(t)
    BY <2>39 DEF RoundEnd, TypeOK, Rehashing, Rounds, Moving, Flow
  <2>40. QED
    BY <2>1, <2>2, <2>3, <2>4, <2>5, <2>6, <2>7, <2>8, <2>9, <2>10, <2>11, <2>12, <2>13,
       <2>14, <2>15, <2>16, <2>17, <2>18, <2>19, <2>20, <2>21, <2>22, <2>23, <2>24, <2>25, <2>26,
       <2>27, <2>28, <2>29, <2>30, <2>31, <2>32, <2>33, <2>34, <2>35, <2>36, <2>37, <2>38, <2>39
       DEF Moves, Step
<1>2. pc'[t] \in {"round_update", "round_node"} => rehash'.retry < REHASH_RETRY
  <2>1. CASE pc'[t] = "round_update"
    <3>1. Round(t)
      BY <2>1, Arrivals
    <3>2. QED
      BY <2>1, <3>1 DEF Round, Continues, TypeOK, RehashLocals
  <2>2. CASE pc'[t] = "round_node"
    <3>1. RoundUpdate(t)
      BY <2>2, Arrivals
    <3>2. QED
      BY <2>2, <3>1 DEF RoundUpdate, Rehashing, Rounds, Moving
  <2>3. QED
    BY <2>1, <2>2
<1>3. pc'[t] \in Moving =>
        rehash'.i < REHASH_STEPS /\ rehash'.entry \in Entries /\ rehash'.entry[1] = current_base'
  <2>1. CASE Call(t)
    BY <2>1 DEF Call, TypeOK, Rehashing, Rounds, Moving, Flow, RehashLocals
  <2>2. CASE Returns(t)
    BY <2>2 DEF Returns, TypeOK, Rehashing, Rounds, Moving, Flow, RehashLocals
  <2>3. CASE unlockHashTableItem(t)
    BY <2>3 DEF unlockHashTableItem, TypeOK, Rehashing, Rounds, Moving, Flow, RehashLocals
  <2>4. CASE EnterRehash(t)
    <3>1. local[t].then \in {"insert_base", "bases"} /\ pc[t] \in Inside /\ t # NULL
      BY <2>4, HashTableAssumption DEF EnterRehash, Flow, Inside, Rounds, Moving
    <3>2. QED
      BY <2>4, <3>1 DEF EnterRehash, TypeOK, Rehashing, Rounds, Moving
  <2>5. CASE InsertBase(t)
    BY <2>5 DEF InsertBase, TypeOK, Rehashing, Rounds, Moving, Flow, RehashLocals
  <2>6. CASE ReadBases(t)
    BY <2>6 DEF ReadBases, TypeOK, Rehashing, Rounds, Moving, Flow, RehashLocals
  <2>7. CASE SearchMisses(t)
    BY <2>7 DEF SearchMisses, Return, TypeOK, Rehashing, Rounds, Moving, Flow, RehashLocals
  <2>8. CASE SearchAnswers(t)
    BY <2>8 DEF SearchAnswers, Return, TypeOK, Rehashing, Rounds, Moving, Flow, RehashLocals
  <2>9. CASE SearchFinds(t)
    BY <2>9 DEF SearchFinds, TypeOK, Rehashing, Rounds, Moving, Flow, RehashLocals
  <2>10. CASE LockItem(t)
    BY <2>10 DEF LockItem, TypeOK, Rehashing, Rounds, Moving, Flow, RehashLocals
  <2>11. CASE UpdateItem(t)
    BY <2>11 DEF UpdateItem, Return, TypeOK, Rehashing, Rounds, Moving, Flow, RehashLocals
  <2>12. CASE UnlinkItem(t)
    BY <2>12 DEF UnlinkItem, TypeOK, Rehashing, Rounds, Moving, Flow, RehashLocals
  <2>13. CASE ForgetItem(t)
    BY <2>13 DEF ForgetItem, Return, TypeOK, Rehashing, Rounds, Moving, Flow, RehashLocals
  <2>14. CASE AllocNode(t)
    BY <2>14 DEF AllocNode, TypeOK, Rehashing, Rounds, Moving, Flow, RehashLocals
  <2>15. CASE AllocFails(t)
    BY <2>15 DEF AllocFails, Return, TypeOK, Rehashing, Rounds, Moving, Flow, RehashLocals
  <2>16. CASE LockHead(t)
    BY <2>16 DEF LockHead, TypeOK, Rehashing, Rounds, Moving, Flow, RehashLocals
  <2>17. CASE WalkList(t)
    BY <2>17 DEF WalkList, TypeOK, Rehashing, Rounds, Moving, Flow, RehashLocals
  <2>18. CASE WalkOn(t)
    BY <2>18 DEF WalkOn, TypeOK, Rehashing, Rounds, Moving, Flow, RehashLocals
  <2>19. CASE WalkEnds(t)
    BY <2>19 DEF WalkEnds, TypeOK, Rehashing, Rounds, Moving, Flow, RehashLocals
  <2>20. CASE WalkFinds(t)
    BY <2>20 DEF WalkFinds, Return, TypeOK, Rehashing, Rounds, Moving, Flow, RehashLocals
  <2>21. CASE LinkNode(t)
    BY <2>21 DEF LinkNode, TypeOK, Rehashing, Rounds, Moving, Flow, RehashLocals
  <2>22. CASE CountItem(t)
    BY <2>22 DEF CountItem, Return, TypeOK, Rehashing, Rounds, Moving, Flow, RehashLocals
  <2>23. CASE StartRehash(t)
    BY <2>23 DEF StartRehash, Return, TypeOK, Rehashing, Rounds, Moving, Flow, RehashLocals
  <2>24. CASE StartFails(t)
    BY <2>24 DEF StartFails, Return, TypeOK, Rehashing, Rounds, Moving, Flow, RehashLocals
  <2>25. CASE AlreadyStarted(t)
    BY <2>25 DEF AlreadyStarted, Return, TypeOK, Rehashing, Rounds, Moving, Flow, RehashLocals
  <2>26. CASE MapBase(t)
    BY <2>26 DEF MapBase, Return, TypeOK, Rehashing, Rounds, Moving, Flow, RehashLocals
  <2>27. CASE MapHead(t)
    BY <2>27 DEF MapHead, TypeOK, Rehashing, Rounds, Moving, Flow, RehashLocals
  <2>28. CASE MapItem(t)
    BY <2>28 DEF MapItem, TypeOK, Rehashing, Rounds, Moving, Flow, RehashLocals
  <2>29. CASE MapLeave(t)
    BY <2>29 DEF MapLeave, Return, TypeOK, Rehashing, Rounds, Moving, Flow, RehashLocals
  <2>30. CASE Round(t)
    <3>1. NextEntry \in Entries /\ NextEntry[1] = current_base
      BY EntryOfRound
    <3>2. QED
      BY <2>30, <3>1 DEF Round, Continues, TypeOK, RehashLocals
  <2>31. CASE RoundFails(t)
    BY <2>31 DEF RoundFails, Retry, TypeOK, Rehashing, Rounds, Moving, Flow, RehashLocals
  <2>32. CASE LeaveRehash(t)
    <3>1. local[t].then \in {"insert_base", "bases"} /\ pc[t] \in Inside /\ t # NULL
      BY <2>32, HashTableAssumption DEF LeaveRehash, Flow, Inside, Rounds, Moving
    <3>2. QED
      BY <2>32, <3>1 DEF LeaveRehash, TypeOK, Rehashing, Rounds, Moving
  <2>33. CASE RoundUpdate(t)
    BY <2>33 DEF RoundUpdate, TypeOK, Rehashing, Rounds, Moving, Flow, RehashLocals
  <2>34. CASE RoundUpdateFails(t)
    BY <2>34 DEF RoundUpdateFails, TypeOK, Rehashing, Rounds, Moving, Flow, RehashLocals
  <2>35. CASE RoundNode(t)
    BY <2>35 DEF RoundNode, NextPos, Retry, TypeOK, Rehashing, Rounds, Moving, Flow, RehashLocals
  <2>36. CASE RoundUnlink(t)
    BY <2>36 DEF RoundUnlink, TypeOK, Rehashing, Rounds, Moving, Flow, RehashLocals
  <2>37. CASE RoundGivesUp(t)
    BY <2>37 DEF RoundGivesUp, TypeOK, Rehashing, Rounds, Moving, Flow, RehashLocals
  <2>38. CASE RoundLink(t)
    BY <2>38 DEF RoundLink, TypeOK, Rehashing, Rounds, Moving, Flow, RehashLocals
  <2>39. CASE RoundEnd(t)
    BY <2>39 DEF RoundEnd, TypeOK, Rehashing, Rounds, Moving, Flow, RehashLocals
  <2>40. QED
    BY <2>1, <2>2, <2>3, <2>4, <2>5, <2>6, <2>7, <2>8, <2>9, <2>10, <2>11, <2>12, <2>13,
       <2>14, <2>15, <2>16, <2>17, <2>18, <2>19, <2>20, <2>21, <2>22, <2>23, <2>24, <2>25, <2>26,
       <2>27, <2>28, <2>29, <2>30, <2>31, <2>32, <2>33, <2>34, <2>35, <2>36, <2>37, <2>38, <2>39
       DEF Moves, Step
<1>4. pc'[t] = "round_target" => rehash'.node = head'[rehash'.entry] /\ rehash'.node # NULL
  <2>1. SUFFICES ASSUME pc'[t] = "round_target" PROVE rehash'.node = head'[rehash'.entry] /\ rehash'.node # NULL
    OBVIOUS
  <2>2. RoundNode(t)
    BY <2>1, Arrivals
  <2>3. QED
    BY <2>1, <2>2 DEF RoundNode, NextPos, Retry, TypeOK, RehashLocals
<1>5. pc'[t] = "round_link" =>
        rehash'.node # NULL /\ rehash'.node # local'[t].new_node /\ current_base' = 1
  <2>1. SUFFICES ASSUME pc'[t] = "round_link"
                 PROVE  rehash'.node # NULL /\ rehash'.node # local'[t].new_node /\ current_base' = 1
    OBVIOUS
  <2>2. RoundUnlink(t) /\ pc[t] = "round_target"
    BY <2>1, Arrivals DEF RoundUnlink
  <2>3. rehash.node = head[rehash.entry] /\ rehash.node # NULL
        /\ rehash.entry \in Entries /\ rehash.entry[1] = current_base
    BY <2>2 DEF Rehashing, Rounds, Moving
  <2>4. rehash.node \in Nodes /\ rehash.node \in Linked(rehash.entry)
    BY <2>3 DEF TypeOK, Linked, OnTheWay
  <2>5. rehash.node # local[t].new_node
    BY <2>2, <2>3, <2>4, SpotsAre DEF Apart, Private
  <2>6. current_base = 1
    <3>1. SUFFICES ASSUME current_base = 2 PROVE FALSE
      BY DEF TypeOK, Bases
    <3>2. rehash.entry = TargetEntry
      BY <2>2, <2>3, <2>4, <3>1, TargetIs DEF Keyed
    <3>3. MayLock(rehash.entry, "write") /\ Locked(rehash.entry, t, "write") \in locks
      BY <2>2, <3>2 DEF RoundUnlink, Claims
    <3>4. QED
      BY <3>3, MayNotLock
  <2>7. QED
    BY <2>2, <2>3, <2>5, <2>6 DEF RoundUnlink, TypeOK, RehashLocals
<1>6. pc'[t] = "aborted" => SecondSize < FirstSize
  <2>1. SUFFICES ASSUME pc'[t] = "aborted" PROVE SecondSize < FirstSize
    OBVIOUS
  <2>2. EnterRehash(t)
    BY <2>1, Arrivals
  <2>3. local[t].then # "aborted"
    BY <2>2 DEF EnterRehash, Flow, Inside
  <2>4. ~(rehash_pos < size[current_base])
    BY <2>1, <2>2, <2>3 DEF EnterRehash, TypeOK
  <2>5. QED
    BY <2>4 DEF TableRight
<1>7. QED
  BY <1>1, <1>2, <1>3, <1>4, <1>5, <1>6 DEF Rehashing

-----------------------------------------------------------------------------
(* The locks that each thread relies on                                    *)

(* The entry of an insert is the same one as long as its arguments are.    *)
LEMMA InsertEntryStays ==
  ASSUME TypeOK, TableRight, NEW t \in Threads, Rehashing(t), Moves(t),
         NEW u \in Threads, Flow(u), Looks(u), local[u].new_node # NULL,
         local'[u].insert_base = local[u].insert_base, call'[u] = call[u]
  PROVE  InsertEntry(u)' = InsertEntry(u)
<1>1. local[u].insert_base \in KnownBases
  BY EntryOfInsert
<1>2. size'[local[u].insert_base] = size[local[u].insert_base]
  BY <1>1, TableKept
<1>3. QED
  BY <1>2 DEF InsertEntry, EntryOf

(* No thread gives back what another one relies on.                        *)
LEMMA ClaimsOfOthers ==
  ASSUME TypeOK, TableRight, Keyed, Apart, NEW t \in Threads, Flow(t), Rehashing(t), Moves(t),
         NEW u \in Threads, u # t, Flow(u), Looks(u), Rehashing(u), Claims(u)
  PROVE  Claims(u)'
<1>1. pc'[u] = pc[u] /\ local'[u] = local[u] /\ call'[u] = call[u]
  BY OthersStay
<1>2. \A l, m : Locked(l, u, m) \in locks' <=> Locked(l, u, m) \in locks
  BY LocksOfOthers
<1>3. local[u].new_node # NULL => InsertEntry(u)' = InsertEntry(u)
  BY <1>1, InsertEntryStays
<1>4. pc[u] = "item" => Entry(u)' = Entry(u)
  <2>1. SUFFICES ASSUME pc[u] = "item" PROVE Entry(u)' = Entry(u)
    OBVIOUS
  <2>2. local[u].bases[1] \in KnownBases
    BY <2>1, EntryOfCall
  <2>3. size'[local[u].bases[1]] = size[local[u].bases[1]]
    BY <2>2, TableKept
  <2>4. QED
    BY <1>1, <2>3 DEF Entry, EntryOf
<1>5. Held(u)' = Held(u) /\ HeadMode(u)' = HeadMode(u) /\ (Inserting(u)' <=> Inserting(u))
  BY <1>1 DEF Held, HeadMode, Inserting
<1>6. pc[u] \in Rounds => rehash' = rehash
  BY OneRehashes
<1>7. pc[u] = "round_link" => TargetEntry' = TargetEntry
  <2>1. SUFFICES ASSUME pc[u] = "round_link" PROVE TargetEntry' = TargetEntry
    OBVIOUS
  <2>2. rehash' = rehash /\ is_rehashing /\ rehash.node \in Nodes /\ TargetEntry = EntryOf(2, node[rehash.node].key)
    BY <1>6, <2>1, TargetIs DEF Rounds, Moving
  <2>3. rehash_insert_base' = rehash_insert_base
    BY <2>2, TableMoves DEF StartRehash, StartFails, RoundNode, NextPos, RoundEnd
  <2>4. size'[2] = size[2] /\ rehash_insert_base = 2
    BY <2>2, TableKept DEF KnownBases, TableRight
  <2>5. ~(AllocNode(t) /\ rehash.node = free_list)
    <3>1. SUFFICES ASSUME rehash.node = free_list PROVE FALSE
      OBVIOUS
    <3>2. rehash.node \in Private(u) /\ rehash.node \in List(Free)
      BY <2>1, <2>2, <3>1, SpotsAre, HashTableAssumption DEF Private, OnTheWay
    <3>3. QED
      BY <3>2, SpotsAre DEF Apart
  <2>6. node'[rehash.node].key = node[rehash.node].key
    BY <2>2, <2>5, KeysStay
  <2>7. QED
    BY <2>2, <2>3, <2>4, <2>6 DEF TargetEntry, EntryOf
<1>8. QED
  <2>1. Inserting(u)' => Locked(InsertEntry(u), u, "write")' \in locks'
    BY <1>2, <1>3, <1>5 DEF Claims, Inserting, Locked
  <2>2. pc'[u] = "item" => Locked(Entry(u), u, HeadMode(u))' \in locks'
    BY <1>1, <1>2, <1>4, <1>5 DEF Claims, Locked
  <2>3. Held(u)' # NULL => \E m \in Modes : Locked(Held(u), u, m)' \in locks'
    BY <1>2, <1>5 DEF Claims, Locked
  <2>4. pc'[u] \in {"round_update", "round_node", "round_target"} =>
          Locked(rehash.entry, u, "write")' \in locks'
    BY <1>1, <1>2, <1>6 DEF Claims, Locked, Rounds, Moving
  <2>5. pc'[u] \in {"round_target", "round_link"} => Locked(rehash.node, u, "write")' \in locks'
    BY <1>1, <1>2, <1>6 DEF Claims, Locked, Rounds, Moving
  <2>6. Inserting(u)' /\ pc'[u] \in Moving => rehash'.entry # InsertEntry(u)'
    BY <1>1, <1>3, <1>5, <1>6 DEF Claims, Inserting, Rounds, Moving
  <2>7. Inserting(u)' /\ pc'[u] = "round_link" => TargetEntry' # InsertEntry(u)'
    BY <1>1, <1>3, <1>5, <1>7 DEF Claims, Inserting
  <2>8. QED
    BY <2>1, <2>2, <2>3, <2>4, <2>5, <2>6, <2>7 DEF Claims

(* An insert with its entry locked has come from LockHead.                 *)
LEMMA InsertGoesOn ==
  ASSUME TypeOK, NEW t \in Threads, Flow(t), Moves(t), Inserting(t)'
  PROVE  /\ local[t].new_node # NULL /\ local'[t].new_node = local[t].new_node
         /\ local'[t].insert_base = local[t].insert_base /\ call'[t] = call[t]
         /\ Inserting(t) \/ LockHead(t)
<1>1. CASE Call(t)
  BY <1>1 DEF Call, TypeOK, Inserting, Flow, CallLocals, NoLocals
<1>2. CASE Returns(t)
  BY <1>2 DEF Returns, TypeOK, Inserting, Flow, CallLocals, NoLocals
<1>3. CASE unlockHashTableItem(t)
  BY <1>3 DEF unlockHashTableItem, TypeOK, Inserting, Flow, CallLocals, NoLocals
<1>4. CASE EnterRehash(t)
  BY <1>4 DEF EnterRehash, TypeOK, Inserting, Flow, CallLocals, NoLocals
<1>5. CASE InsertBase(t)
  BY <1>5 DEF InsertBase, TypeOK, Inserting, Flow, CallLocals, NoLocals
<1>6. CASE ReadBases(t)
  BY <1>6 DEF ReadBases, TypeOK, Inserting, Flow, CallLocals, NoLocals
<1>7. CASE SearchMisses(t)
  BY <1>7 DEF SearchMisses, Return, TypeOK, Inserting, Flow, CallLocals, NoLocals
<1>8. CASE SearchAnswers(t)
  BY <1>8 DEF SearchAnswers, Return, TypeOK, Inserting, Flow, CallLocals, NoLocals
<1>9. CASE SearchFinds(t)
  BY <1>9 DEF SearchFinds, TypeOK, Inserting, Flow, CallLocals, NoLocals
<1>10. CASE LockItem(t)
  BY <1>10 DEF LockItem, TypeOK, Inserting, Flow, CallLocals, NoLocals
<1>11. CASE UpdateItem(t)
  BY <1>11 DEF UpdateItem, Return, TypeOK, Inserting, Flow, CallLocals, NoLocals
<1>12. CASE UnlinkItem(t)
  BY <1>12 DEF UnlinkItem, TypeOK, Inserting, Flow, CallLocals, NoLocals
<1>13. CASE ForgetItem(t)
  BY <1>13 DEF ForgetItem, Return, TypeOK, Inserting, Flow, CallLocals, NoLocals
<1>14. CASE AllocNode(t)
  BY <1>14 DEF AllocNode, TypeOK, Inserting, Flow, CallLocals, NoLocals
<1>15. CASE AllocFails(t)
  BY <1>15 DEF AllocFails, Return, TypeOK, Inserting, Flow, CallLocals, NoLocals
<1>16. CASE LockHead(t)
  BY <1>16 DEF LockHead, TypeOK, Inserting, Flow, CallLocals, NoLocals
<1>17. CASE WalkList(t)
  BY <1>17 DEF WalkList, TypeOK, Inserting, Flow, CallLocals, NoLocals
<1>18. CASE WalkOn(t)
  BY <1>18 DEF WalkOn, TypeOK, Inserting, Flow, CallLocals, NoLocals
<1>19. CASE WalkEnds(t)
  BY <1>19 DEF WalkEnds, TypeOK, Inserting, Flow, CallLocals, NoLocals
<1>20. CASE WalkFinds(t)
  BY <1>20 DEF WalkFinds, Return, TypeOK, Inserting, Flow, CallLocals, NoLocals
<1>21. CASE LinkNode(t)
  BY <1>21 DEF LinkNode, TypeOK, Inserting, Flow, CallLocals, NoLocals
<1>22. CASE CountItem(t)
  BY <1>22 DEF CountItem, Return, TypeOK, Inserting, Flow, CallLocals, NoLocals
<1>23. CASE StartRehash(t)
  BY <1>23 DEF StartRehash, Return, TypeOK, Inserting, Flow, CallLocals, NoLocals
<1>24. CASE StartFails(t)
  BY <1>24 DEF StartFails, Return, TypeOK, Inserting, Flow, CallLocals, NoLocals
<1>25. CASE AlreadyStarted(t)
  BY <1>25 DEF AlreadyStarted, Return, TypeOK, Inserting, Flow, CallLocals, NoLocals
<1>26. CASE MapBase(t)
  BY <1>26 DEF MapBase, Return, TypeOK, Inserting, Flow, CallLocals, NoLocals
<1>27. CASE MapHead(t)
  BY <1>27 DEF MapHead, TypeOK, Inserting, Flow, CallLocals, NoLocals
<1>28. CASE MapItem(t)
  BY <1>28 DEF MapItem, TypeOK, Inserting, Flow, CallLocals, NoLocals
<1>29. CASE MapLeave(t)
  BY <1>29 DEF MapLeave, Return, TypeOK, Inserting, Flow, CallLocals, NoLocals
<1>30. CASE Round(t)
  BY <1>30 DEF Round, TypeOK, Inserting, Flow, CallLocals, NoLocals
<1>31. CASE RoundFails(t)
  BY <1>31 DEF RoundFails, Retry, TypeOK, Inserting, Flow, CallLocals, NoLocals
<1>32. CASE LeaveRehash(t)
  BY <1>32 DEF LeaveRehash, TypeOK, Inserting, Flow, CallLocals, NoLocals
<1>33. CASE RoundUpdate(t)
  BY <1>33 DEF RoundUpdate, TypeOK, Inserting, Flow, CallLocals, NoLocals
<1>34. CASE RoundUpdateFails(t)
  BY <1>34 DEF RoundUpdateFails, TypeOK, Inserting, Flow, CallLocals, NoLocals
<1>35. CASE RoundNode(t)
  BY <1>35 DEF RoundNode, NextPos, Retry, TypeOK, Inserting, Flow, CallLocals, NoLocals
<1>36. CASE RoundUnlink(t)
  BY <1>36 DEF RoundUnlink, TypeOK, Inserting, Flow, CallLocals, NoLocals
<1>37. CASE RoundGivesUp(t)
  BY <1>37 DEF RoundGivesUp, TypeOK, Inserting, Flow, CallLocals, NoLocals
<1>38. CASE RoundLink(t)
  BY <1>38 DEF RoundLink, TypeOK, Inserting, Flow, CallLocals, NoLocals
<1>39. CASE RoundEnd(t)
  BY <1>39 DEF RoundEnd, TypeOK, Inserting, Flow, CallLocals, NoLocals
<1>40. QED
  BY <1>1, <1>2, <1>3, <1>4, <1>5, <1>6, <1>7, <1>8, <1>9, <1>10, <1>11, <1>12, <1>13, <1>14,
     <1>15, <1>16, <1>17, <1>18, <1>19, <1>20, <1>21, <1>22, <1>23, <1>24, <1>25, <1>26, <1>27,
     <1>28, <1>29, <1>30, <1>31, <1>32, <1>33, <1>34, <1>35, <1>36, <1>37, <1>38, <1>39 DEF
     Moves, Step

(* It keeps its entry locked, through doRehash too.                        *)
LEMMA InsertLocked ==
  ASSUME TypeOK, TableRight, Keyed, NEW t \in Threads, Flow(t), Looks(t), Claims(t),
         Rehashing(t), Moves(t),
         Inserting(t)'
  PROVE  InsertEntry(t)' = InsertEntry(t) /\ Locked(InsertEntry(t), t, "write") \in locks'
<1> DEFINE e == InsertEntry(t)
<1>a. /\ local[t].new_node # NULL
      /\ local'[t].insert_base = local[t].insert_base /\ call'[t] = call[t]
      /\ Inserting(t) \/ LockHead(t)
  BY InsertGoesOn
<1>b. e \in Entries /\ InsertEntry(t)' = e
  BY <1>a, EntryOfInsert, InsertEntryStays
<1> SUFFICES Locked(e, t, "write") \in locks'
  BY <1>b
<1>c. ~LockHead(t) => Locked(e, t, "write") \in locks
  BY <1>a DEF Claims
<1>d. ~LockHead(t) /\ pc[t] \in Moving => rehash.entry # e
  BY <1>a DEF Claims
<1>e. ~LockHead(t) /\ pc[t] = "round_link" => TargetEntry # e
  BY <1>a DEF Claims
<1>f. Nodes \cap Entries = {}
  BY HashTableAssumption
<1>g. pc[t] \notin {"idle", "return", "search", "alloc", "item", "forget"} /\ call[t].op = "insert"
  BY <1>a DEF Flow
<1> HIDE DEF e
<1>1. CASE UNCHANGED locks
  BY <1>1, <1>c DEF LockHead, e
<1>2. CASE unlockHashTableItem(t)
  <2>1. FALSE
    BY <1>2, <1>g DEF unlockHashTableItem, Flow
  <2>2. QED
    BY <2>1
<1>3. CASE SearchFinds(t)
  <2>1. FALSE
    BY <1>3, <1>g DEF SearchFinds, Flow
  <2>2. QED
    BY <2>1
<1>4. CASE LockItem(t)
  <2>1. FALSE
    BY <1>4, <1>g DEF LockItem, Flow
  <2>2. QED
    BY <2>1
<1>5. CASE UpdateItem(t)
  <2>1. FALSE
    BY <1>5, <1>g DEF UpdateItem, Flow
  <2>2. QED
    BY <2>1
<1>6. CASE UnlinkItem(t)
  <2>1. FALSE
    BY <1>6, <1>g DEF UnlinkItem, Flow
  <2>2. QED
    BY <2>1
<1>7. CASE LockHead(t)
  BY <1>7 DEF LockHead, e
<1>8. CASE WalkFinds(t)
  <2>1. FALSE
    BY <1>8 DEF WalkFinds, Return, Inserting, NoLocals, TypeOK
  <2>2. QED
    BY <2>1
<1>9. CASE LinkNode(t)
  <2>1. FALSE
    BY <1>9 DEF LinkNode, Return, Inserting, NoLocals, TypeOK
  <2>2. QED
    BY <2>1
<1>10. CASE MapHead(t)
  <2>1. FALSE
    BY <1>10, <1>g DEF MapHead, Flow
  <2>2. QED
    BY <2>1
<1>11. CASE MapLeave(t)
  <2>1. FALSE
    BY <1>11, <1>g DEF MapLeave, Flow
  <2>2. QED
    BY <2>1
<1>12. CASE Round(t)
  BY <1>12, <1>c DEF Round, LockHead
<1>13. CASE RoundUpdateFails(t)
  <2>1. Locked(e, t, "write") \in locks /\ rehash.entry # e
    BY <1>13, <1>c, <1>d DEF RoundUpdateFails, Rounds, Moving, LockHead
  <2>2. QED
    BY <1>13, <2>1 DEF RoundUpdateFails, Locked
<1>14. CASE RoundNode(t)
  BY <1>14, <1>c DEF RoundNode, NextPos, LockHead
<1>15. CASE RoundUnlink(t)
  <2>1. Locked(e, t, "write") \in locks /\ rehash.entry # e
    BY <1>15, <1>c, <1>d DEF RoundUnlink, Rounds, Moving, LockHead
  <2>2. QED
    BY <1>15, <2>1 DEF RoundUnlink, Locked
<1>16. CASE RoundGivesUp(t)
  <2>1. Locked(e, t, "write") \in locks /\ rehash.node \in Nodes
    BY <1>16, <1>c, TargetIs DEF RoundGivesUp, LockHead
  <2>2. QED
    BY <1>16, <1>b, <1>f, <2>1 DEF RoundGivesUp, Locked
<1>17. CASE RoundLink(t)
  <2>1. Locked(e, t, "write") \in locks /\ rehash.node \in Nodes /\ TargetEntry # e
    BY <1>17, <1>c, <1>e, TargetIs DEF RoundLink, LockHead
  <2>2. QED
    BY <1>17, <1>b, <1>f, <2>1 DEF RoundLink, Locked
<1>18. CASE RoundEnd(t)
  <2>1. Locked(e, t, "write") \in locks /\ rehash.entry # e
    BY <1>18, <1>c, <1>d DEF RoundEnd, Rounds, Moving, LockHead
  <2>2. QED
    BY <1>18, <2>1 DEF RoundEnd, Locked
<1>19. QED
  BY <1>1, <1>2, <1>3, <1>4, <1>5, <1>6, <1>7, <1>8, <1>9, <1>10, <1>11, <1>12, <1>13, <1>14,
     <1>15, <1>16, <1>17, <1>18, LocksMove

(* Claims of the thread that takes the step.                               *)
LEMMA ClaimsKept ==
  ASSUME TypeOK, TableRight, Keyed, NEW t \in Threads, Flow(t), Looks(t), Claims(t),
         Rehashing(t), Moves(t)
  PROVE  Claims(t)'
<1>1. Inserting(t)' => Locked(InsertEntry(t), t, "write")' \in locks'
  BY InsertLocked DEF Locked
<1>2. pc'[t] = "item" => Locked(Entry(t), t, HeadMode(t))' \in locks'
  <2>1. SUFFICES ASSUME pc'[t] = "item" PROVE Locked(Entry(t), t, HeadMode(t))' \in locks'
    OBVIOUS
  <2>2. SearchFinds(t)
    BY <2>1, Arrivals
  <2>3. local'[t].bases = local[t].bases
    BY <2>2 DEF SearchFinds, TypeOK, CallLocals
  <2>4. Entry(t)' = Entry(t) /\ HeadMode(t)' = HeadMode(t)
    BY <2>2, <2>3 DEF SearchFinds, Entry, EntryOf, HeadMode
  <2>5. Locked(Entry(t), t, HeadMode(t)) \in locks'
    BY <2>2 DEF SearchFinds
  <2>6. QED
    BY <2>4, <2>5 DEF Locked
<1>3. Held(t)' # NULL => \E m \in Modes : Locked(Held(t), t, m)' \in locks'
  <2>1. SUFFICES ASSUME Held(t)' # NULL PROVE \E m \in Modes : Locked(Held(t), t, m)' \in locks'
    OBVIOUS
  <2>2. CASE LockItem(t)
    <3>1. Held(t)' = local[t].p
      BY <2>2 DEF LockItem, Held, TypeOK, NoLocals
    <3>2. call[t].mode \in Modes
      BY <2>2 DEF LockItem, Flow, Calls
    <3>3. Locked(local[t].p, t, call[t].mode) \in locks'
      BY <2>2 DEF LockItem
    <3>4. QED
      BY <3>1, <3>2, <3>3 DEF Locked
  <2>3. CASE Returns(t)
    <3>1. Held(t)' = Held(t) /\ locks' = locks
      BY <2>3 DEF Returns, Held, TypeOK
    <3>2. QED
      BY <2>1, <3>1 DEF Claims, Locked
  <2>4. QED
    BY <2>1, <2>2, <2>3, Arrivals
<1>4. pc'[t] \in {"round_update", "round_node", "round_target"} =>
        Locked(rehash.entry, t, "write")' \in locks'
  <2>1. CASE pc'[t] = "round_update"
    BY <2>1, Arrivals DEF Round, Locked, TypeOK, RehashLocals
  <2>2. CASE pc'[t] = "round_node"
    BY <2>2, Arrivals DEF RoundUpdate, Locked, Claims
  <2>3. CASE pc'[t] = "round_target"
    BY <2>3, Arrivals DEF RoundNode, NextPos, Retry, Locked, Claims, TypeOK, RehashLocals
  <2>4. QED
    BY <2>1, <2>2, <2>3
<1>5. pc'[t] \in {"round_target", "round_link"} => Locked(rehash.node, t, "write")' \in locks'
  <2>1. CASE pc'[t] = "round_target"
    <3>1. RoundNode(t)
      BY <2>1, Arrivals
    <3>2. PICK n : n = head[rehash.entry]
      OBVIOUS
    <3>3. locks' = locks \cup {Locked(n, t, "write")} /\ rehash' = [rehash EXCEPT !.node = n]
      BY <2>1, <3>1, <3>2 DEF RoundNode, NextPos, Retry, TypeOK
    <3>4. rehash'.node = n
      BY <3>3 DEF TypeOK, RehashLocals
    <3>5. QED
      BY <3>3, <3>4 DEF Locked
  <2>2. CASE pc'[t] = "round_link"
    <3>1. RoundUnlink(t)
      BY <2>2, Arrivals
    <3>2. rehash.node \in Nodes /\ rehash.entry \in Entries /\ rehash'.node = rehash.node
      BY <3>1, TargetIs DEF RoundUnlink, Rehashing, Rounds, Moving, TypeOK, RehashLocals
    <3>3. rehash.node # rehash.entry
      BY <3>2, HashTableAssumption
    <3>4. Locked(rehash.node, t, "write") \in locks
      BY <3>1 DEF RoundUnlink, Claims
    <3>5. QED
      BY <3>1, <3>2, <3>3, <3>4 DEF RoundUnlink, Locked
  <2>3. QED
    BY <2>1, <2>2
<1>6. Inserting(t)' /\ pc'[t] \in Moving => rehash'.entry # InsertEntry(t)'
  <2>1. SUFFICES ASSUME Inserting(t)', pc'[t] \in Moving PROVE rehash'.entry # InsertEntry(t)'
    OBVIOUS
  <2>2. InsertEntry(t)' = InsertEntry(t)
    BY <2>1, InsertLocked
  <2>3. CASE Round(t)
    <3>1. Inserting(t)
      BY <2>1, <2>3, InsertGoesOn DEF Round, LockHead
    <3>2. Locked(InsertEntry(t), t, "write") \in locks
      BY <3>1 DEF Claims
    <3>3. MayLock(NextEntry, "write") /\ rehash'.entry = NextEntry
      BY <2>3 DEF Round, TypeOK, RehashLocals
    <3>4. QED
      BY <2>2, <3>2, <3>3, MayNotLock
  <2>4. CASE ~Round(t)
    <3>1. pc[t] \in Moving /\ rehash'.entry = rehash.entry
      <4>1. CASE Call(t)
        BY <2>1, <4>1 DEF Call, TypeOK, Rounds, Moving, RehashLocals, Flow, Inside
      <4>2. CASE Returns(t)
        BY <2>1, <4>2 DEF Returns, TypeOK, Rounds, Moving, RehashLocals, Flow, Inside
      <4>3. CASE unlockHashTableItem(t)
        BY <2>1, <4>3 DEF unlockHashTableItem, TypeOK, Rounds, Moving, RehashLocals, Flow, Inside
      <4>4. CASE EnterRehash(t)
        BY <2>1, <4>4 DEF EnterRehash, TypeOK, Rounds, Moving, Flow, Inside
      <4>5. CASE InsertBase(t)
        BY <2>1, <4>5 DEF InsertBase, TypeOK, Rounds, Moving, RehashLocals, Flow, Inside
      <4>6. CASE ReadBases(t)
        BY <2>1, <4>6 DEF ReadBases, TypeOK, Rounds, Moving, RehashLocals, Flow, Inside
      <4>7. CASE SearchMisses(t)
        BY <2>1, <4>7 DEF SearchMisses, Return, TypeOK, Rounds, Moving, RehashLocals, Flow, Inside
      <4>8. CASE SearchAnswers(t)
        BY <2>1, <4>8 DEF SearchAnswers, Return, TypeOK, Rounds, Moving, RehashLocals, Flow, Inside
      <4>9. CASE SearchFinds(t)
        BY <2>1, <4>9 DEF SearchFinds, TypeOK, Rounds, Moving, RehashLocals, Flow, Inside
      <4>10. CASE LockItem(t)
        BY <2>1, <4>10 DEF LockItem, TypeOK, Rounds, Moving, RehashLocals, Flow, Inside
      <4>11. CASE UpdateItem(t)
        BY <2>1, <4>11 DEF UpdateItem, Return, TypeOK, Rounds, Moving, RehashLocals, Flow, Inside
      <4>12. CASE UnlinkItem(t)
        BY <2>1, <4>12 DEF UnlinkItem, TypeOK, Rounds, Moving, RehashLocals, Flow, Inside
      <4>13. CASE ForgetItem(t)
        BY <2>1, <4>13 DEF ForgetItem, Return, TypeOK, Rounds, Moving, RehashLocals, Flow, Inside
      <4>14. CASE AllocNode(t)
        BY <2>1, <4>14 DEF AllocNode, TypeOK, Rounds, Moving, RehashLocals, Flow, Inside
      <4>15. CASE AllocFails(t)
        BY <2>1, <4>15 DEF AllocFails, Return, TypeOK, Rounds, Moving, RehashLocals, Flow, Inside
      <4>16. CASE LockHead(t)
        BY <2>1, <4>16 DEF LockHead, TypeOK, Rounds, Moving, RehashLocals, Flow, Inside
      <4>17. CASE WalkList(t)
        BY <2>1, <4>17 DEF WalkList, TypeOK, Rounds, Moving, RehashLocals, Flow, Inside
      <4>18. CASE WalkOn(t)
        BY <2>1, <4>18 DEF WalkOn, TypeOK, Rounds, Moving, RehashLocals, Flow, Inside
      <4>19. CASE WalkEnds(t)
        BY <2>1, <4>19 DEF WalkEnds, TypeOK, Rounds, Moving, RehashLocals, Flow, Inside
      <4>20. CASE WalkFinds(t)
        BY <2>1, <4>20 DEF WalkFinds, Return, TypeOK, Rounds, Moving, RehashLocals, Flow, Inside
      <4>21. CASE LinkNode(t)
        BY <2>1, <4>21 DEF LinkNode, TypeOK, Rounds, Moving, RehashLocals, Flow, Inside
      <4>22. CASE CountItem(t)
        BY <2>1, <4>22 DEF CountItem, Return, TypeOK, Rounds, Moving, RehashLocals, Flow, Inside
      <4>23. CASE StartRehash(t)
        BY <2>1, <4>23 DEF StartRehash, Return, TypeOK, Rounds, Moving, RehashLocals, Flow, Inside
      <4>24. CASE StartFails(t)
        BY <2>1, <4>24 DEF StartFails, Return, TypeOK, Rounds, Moving, RehashLocals, Flow, Inside
      <4>25. CASE AlreadyStarted(t)
        BY <2>1, <4>25 DEF AlreadyStarted, Return, TypeOK, Rounds, Moving, RehashLocals, Flow, Inside
      <4>26. CASE MapBase(t)
        BY <2>1, <4>26 DEF MapBase, Return, TypeOK, Rounds, Moving, RehashLocals, Flow, Inside
      <4>27. CASE MapHead(t)
        BY <2>1, <4>27 DEF MapHead, TypeOK, Rounds, Moving, RehashLocals, Flow, Inside
      <4>28. CASE MapItem(t)
        BY <2>1, <4>28 DEF MapItem, TypeOK, Rounds, Moving, RehashLocals, Flow, Inside
      <4>29. CASE MapLeave(t)
        BY <2>1, <4>29 DEF MapLeave, Return, TypeOK, Rounds, Moving, RehashLocals, Flow, Inside
      <4>30. CASE Round(t)
        BY <2>1, <4>30, <2>4
      <4>31. CASE RoundFails(t)
        BY <2>1, <4>31 DEF RoundFails, Retry, TypeOK, Rounds, Moving, RehashLocals, Flow, Inside
      <4>32. CASE LeaveRehash(t)
        BY <2>1, <4>32 DEF LeaveRehash, TypeOK, Rounds, Moving, Flow, Inside
      <4>33. CASE RoundUpdate(t)
        BY <2>1, <4>33 DEF RoundUpdate, TypeOK, Rounds, Moving, RehashLocals, Flow, Inside
      <4>34. CASE RoundUpdateFails(t)
        BY <2>1, <4>34 DEF RoundUpdateFails, TypeOK, Rounds, Moving
      <4>35. CASE RoundNode(t)
        BY <2>1, <4>35 DEF RoundNode, NextPos, Retry, TypeOK, Rounds, Moving, RehashLocals, Flow, Inside
      <4>36. CASE RoundUnlink(t)
        BY <2>1, <4>36 DEF RoundUnlink, TypeOK, Rounds, Moving, RehashLocals, Flow, Inside
      <4>37. CASE RoundGivesUp(t)
        BY <2>1, <4>37 DEF RoundGivesUp, TypeOK, Rounds, Moving, RehashLocals, Flow, Inside
      <4>38. CASE RoundLink(t)
        BY <2>1, <4>38 DEF RoundLink, TypeOK, Rounds, Moving, RehashLocals, Flow, Inside
      <4>39. CASE RoundEnd(t)
        BY <2>1, <4>39 DEF RoundEnd, TypeOK, Rounds, Moving
      <4>40. QED
        BY <2>1, <4>1, <4>2, <4>3, <4>4, <4>5, <4>6, <4>7, <4>8, <4>9, <4>10, <4>11, <4>12,
           <4>13, <4>14, <4>15, <4>16, <4>17, <4>18, <4>19, <4>20, <4>21, <4>22, <4>23, <4>24,
           <4>25, <4>26, <4>27, <4>28, <4>29, <4>30, <4>31, <4>32, <4>33, <4>34, <4>35, <4>36,
           <4>37, <4>38, <4>39 DEF Moves, Step
    <3>2. Inserting(t)
      BY <2>1, <3>1, InsertGoesOn DEF LockHead, Rounds, Moving
    <3>3. QED
      BY <2>2, <3>1, <3>2 DEF Claims
  <2>5. QED
    BY <2>3, <2>4
<1>7. Inserting(t)' /\ pc'[t] = "round_link" => TargetEntry' # InsertEntry(t)'
  <2>1. SUFFICES ASSUME Inserting(t)', pc'[t] = "round_link" PROVE TargetEntry' # InsertEntry(t)'
    OBVIOUS
  <2>2. RoundUnlink(t) /\ InsertEntry(t)' = InsertEntry(t)
    BY <2>1, InsertLocked, Arrivals
  <2>3. Inserting(t)
    BY <2>1, <2>2, InsertGoesOn DEF RoundUnlink, LockHead
  <2>4. TargetEntry' = TargetEntry
    BY <2>2 DEF RoundUnlink, TargetEntry, EntryOf, TypeOK, RehashLocals
  <2>5. MayLock(TargetEntry, "write") /\ Locked(InsertEntry(t), t, "write") \in locks
    BY <2>2, <2>3 DEF RoundUnlink, Claims
  <2>6. QED
    BY <2>2, <2>4, <2>5, MayNotLock
<1>8. QED
  BY <1>1, <1>2, <1>3, <1>4, <1>5, <1>6, <1>7 DEF Claims

-----------------------------------------------------------------------------
(* Steps of lists                                                          *)

(* The lists before and after a step as ways.                              *)
LEMMA ListsAre ==
  /\ \A s : List(s) = Way(node, First(s)) /\ List(s)' = Way(node', First(s)')
  /\ NoCircles <=> \A s \in Spots : Straight(node, First(s))
  /\ NoCircles' <=> \A s \in Spots : Straight(node', First(s)')
BY DEF List, OnTheWay, Way, NoCircles, Straight

(* Lists are sets of nodes.                                                *)
LEMMA FirstIs ==
  ASSUME TypeOK
  PROVE  Links(node) /\ \A s \in Spots : First(s) \in Nodes \cup {NULL} /\ List(s) \in SUBSET Nodes
<1>1. Links(node) /\ \A s \in Spots : First(s) \in Nodes \cup {NULL}
  BY DEF TypeOK, NodeContents, Links, First, Spots, Free
<1>2. QED
  BY <1>1, WayIs, ListsAre

(* So are the lists after a step.                                          *)
LEMMA FirstIsNext ==
  ASSUME TypeOK, TableRight, Keyed, NEW t \in Threads, Flow(t), Looks(t), Rehashing(t), Moves(t)
  PROVE  Links(node') /\ \A s \in Spots : First(s)' \in Nodes \cup {NULL}
<1>1. /\ head' \in [Entries -> Nodes \cup {NULL}]
      /\ node' \in [Nodes -> NodeContents] /\ free_list' \in Nodes \cup {NULL}
  BY ListTypes
<1>2. QED
  BY <1>1 DEF NodeContents, Links, First, Spots, Free

(* The node of a new call, the node of a removal and the node on its way   *)
(* are nodes.                                                              *)
LEMMA PrivateIs ==
  ASSUME TypeOK, NEW t \in Threads, Flow(t), Rehashing(t)
  PROVE  Private(t) \in SUBSET Nodes
BY DEF Private, TypeOK, CallLocals, RehashLocals, Flow, Rehashing

(* The nodes in the hands of the other threads stay there.                 *)
LEMMA PrivateOfOthers ==
  ASSUME TypeOK, NEW t \in Threads, Rehashing(t), Moves(t), NEW u \in Threads, u # t,
         Rehashing(u)
  PROVE  Private(u)' = Private(u)
<1>1. pc'[u] = pc[u] /\ local'[u] = local[u]
  BY OthersStay
<1>2. pc[u] = "round_link" => rehash' = rehash
  BY OneRehashes DEF Rounds, Moving
<1>3. QED
  BY <1>1, <1>2 DEF Private

(* What a step may do to the lists.                                        *)
AsBefore(S) == \A s \in S : List(s)' = List(s)

Taken(s, z) == z \in List(s) /\ List(s)' = List(s) \ {z} /\ AsBefore(Spots \ {s})
Given(s, z) == z \notin List(s) /\ List(s)' = List(s) \cup {z} /\ AsBefore(Spots \ {s})

(* Lists whose heads and nodes keep their successors.                      *)
LEMMA NothingMoves ==
  ASSUME TypeOK, NoCircles, Links(node'),
         \A n \in Nodes : node'[n].next = node[n].next, \A s \in Spots : First(s)' = First(s)
  PROVE  NoCircles' /\ AsBefore(Spots)
<1>1. ASSUME NEW s \in Spots PROVE List(s)' = List(s) /\ Straight(node', First(s)')
  <2>1. Links(node) /\ First(s) \in Nodes \cup {NULL} /\ Straight(node, First(s)) /\ First(s)' = First(s)
    BY FirstIs, ListsAre
  <2>2. \A n \in Way(node, First(s)) : node'[n].next = node[n].next
    BY <2>1, WayIs
  <2>3. Way(node', First(s)) = Way(node, First(s)) /\ Straight(node', First(s))
    BY <2>1, <2>2, StraightKept
  <2>4. QED
    BY <2>1, <2>3, ListsAre
<1>2. QED
  BY <1>1, ListsAre DEF AsBefore

(* The lists other than s, whose nodes have the successors they had.       *)
LEMMA OthersAsBefore ==
  ASSUME TypeOK, NoCircles, Links(node'), NEW S \in SUBSET Spots,
         \A s \in S : First(s)' = First(s) /\ \A n \in List(s) : node'[n].next = node[n].next
  PROVE  AsBefore(S) /\ \A s \in S : Straight(node', First(s)')
<1>1. ASSUME NEW s \in S PROVE List(s)' = List(s) /\ Straight(node', First(s)')
  <2>1. Links(node) /\ First(s) \in Nodes \cup {NULL} /\ Straight(node, First(s)) /\ First(s)' = First(s)
    BY FirstIs, ListsAre
  <2>2. \A n \in Way(node, First(s)) : node'[n].next = node[n].next
    BY ListsAre
  <2>3. Way(node', First(s)) = Way(node, First(s)) /\ Straight(node', First(s))
    BY <2>1, <2>2, StraightKept
  <2>4. QED
    BY <2>1, <2>3, ListsAre
<1>2. QED
  BY <1>1 DEF AsBefore

(* The first node is taken, as for a new item and for a move.              *)
LEMMA FirstTaken ==
  ASSUME TypeOK, NoCircles, Apart, Links(node'), NEW s \in Spots, NEW z \in Nodes, First(s) = z,
         \A n \in Nodes \ {z} : node'[n].next = node[n].next,
         First(s)' = node[z].next, \A r \in Spots \ {s} : First(r)' = First(r)
  PROVE  NoCircles' /\ Taken(s, z)
<1>1. Links(node) /\ Straight(node, z) /\ List(s) = Way(node, z)
  BY FirstIs, ListsAre
<1>2. z \in List(s) /\ node[z].next \in Nodes \cup {NULL}
  BY <1>1, WayIs, HashTableAssumption DEF Links
<1>3. Way(node, node[z].next) = List(s) \ {z} /\ Straight(node, node[z].next)
  BY <1>1, Popped
<1>4. \A n \in Way(node, node[z].next) : node'[n].next = node[n].next
  BY <1>1, <1>2, <1>3, WayIs
<1>5. List(s)' = List(s) \ {z} /\ Straight(node', First(s)')
  BY <1>1, <1>2, <1>3, <1>4, StraightKept, ListsAre
<1>6. AsBefore(Spots \ {s}) /\ \A r \in Spots \ {s} : Straight(node', First(r)')
  <2>1. ASSUME NEW r \in Spots \ {s} PROVE \A n \in List(r) : node'[n].next = node[n].next
    <3>1. List(r) \in SUBSET Nodes /\ z \notin List(r)
      BY <1>2, FirstIs DEF Apart
    <3>2. QED
      BY <3>1
  <2>2. QED
    BY <2>1, OthersAsBefore
<1>7. QED
  BY <1>2, <1>5, <1>6, ListsAre DEF Taken

(* Any node is taken, its predecessor or the head gets its successor.      *)
LEMMA AnyTaken ==
  ASSUME TypeOK, NoCircles, Apart, Links(node'), NEW s \in Spots, NEW z \in List(s),
         \A n \in List(s) : node'[n].next = IF node[n].next = z THEN node[z].next ELSE node[n].next,
         \A n \in Nodes \ List(s) : node'[n].next = node[n].next,
         First(s)' = IF First(s) = z THEN node[z].next ELSE First(s),
         \A r \in Spots \ {s} : First(r)' = First(r)
  PROVE  NoCircles' /\ Taken(s, z)
<1>1. /\ Links(node) /\ First(s) \in Nodes \cup {NULL} /\ Straight(node, First(s))
      /\ List(s) = Way(node, First(s)) /\ List(s)' = Way(node', First(s)')
  BY FirstIs, ListsAre
<1>2. Way(node', First(s)') = List(s) \ {z} /\ Straight(node', First(s)')
  <2>1. PICK q : q = First(s)'
    OBVIOUS
  <2>2. Way(node', q) = List(s) \ {z} /\ Straight(node', q)
    BY <1>1, <2>1, TakenOut
  <2>3. QED
    BY <2>1, <2>2
<1>3. AsBefore(Spots \ {s}) /\ \A r \in Spots \ {s} : Straight(node', First(r)')
  <2>1. ASSUME NEW r \in Spots \ {s} PROVE \A n \in List(r) : node'[n].next = node[n].next
    <3>1. List(r) \in SUBSET Nodes /\ List(r) \cap List(s) = {}
      BY FirstIs DEF Apart
    <3>2. QED
      BY <3>1
  <2>2. QED
    BY <2>1, OthersAsBefore
<1>4. QED
  BY <1>1, <1>2, <1>3, ListsAre DEF Taken

(* A node of nobody's list becomes the first of one.                       *)
LEMMA FirstGiven ==
  ASSUME TypeOK, NoCircles, Links(node'), NEW s \in Spots, NEW z \in Nodes,
         \A r \in Spots : z \notin List(r),
         \A n \in Nodes \ {z} : node'[n].next = node[n].next,
         node'[z].next = First(s), First(s)' = z, \A r \in Spots \ {s} : First(r)' = First(r)
  PROVE  NoCircles' /\ Given(s, z)
<1>1. Links(node) /\ First(s) \in Nodes \cup {NULL} /\ Straight(node, First(s)) /\ List(s) = Way(node, First(s))
  BY FirstIs, ListsAre
<1>2. Way(node', z) = List(s) \cup {z} /\ Straight(node', z)
  BY <1>1, Pushed
<1>3. AsBefore(Spots \ {s}) /\ \A r \in Spots \ {s} : Straight(node', First(r)')
  <2>1. ASSUME NEW r \in Spots \ {s} PROVE \A n \in List(r) : node'[n].next = node[n].next
    BY FirstIs
  <2>2. QED
    BY <2>1, OthersAsBefore
<1>4. QED
  BY <1>2, <1>3, ListsAre DEF Given

(* The list actions.                                                       *)
LEMMA AllocEffect ==
  ASSUME TypeOK, TableRight, NoCircles, Apart, Keyed, NEW t \in Threads, Flow(t), Looks(t),
         Rehashing(t), Found(t), AllocNode(t),
         NEW s, s = Free, NEW z, z = free_list
  PROVE  NoCircles' /\ Taken(s, z) /\ Private(t)' = Private(t) \cup {z}
<1>1. z \in Nodes /\ Links(node')
  BY FirstIsNext DEF AllocNode, TypeOK, Moves, Step
<1>2. \A n \in Nodes \ {z} : node'[n].next = node[n].next
  BY DEF AllocNode, TypeOK
<1>3. \A r \in Spots : First(r)' = IF r = s THEN node[z].next ELSE First(r)
  BY DEF AllocNode, First, Free, Spots, Entries, Bases
<1>4. NoCircles' /\ Taken(s, z)
  BY <1>1, <1>2, <1>3, SpotsAre, FirstTaken
<1>5. Private(t)' = Private(t) \cup {z}
  BY <1>1, HashTableAssumption DEF AllocNode, Private, Flow, TypeOK, CallLocals
<1>6. QED
  BY <1>4, <1>5

(* The removed node goes to the free list.                                 *)
LEMMA ForgetEffect ==
  ASSUME TypeOK, TableRight, NoCircles, Apart, Keyed, NEW t \in Threads, Flow(t), Looks(t),
         Rehashing(t), Found(t), ForgetItem(t),
         NEW s, s = Free, NEW z, z = local[t].p
  PROVE  /\ NoCircles' /\ Given(s, z)
         /\ z \in Private(t) /\ Private(t)' = Private(t) \ {z}
<1>1. z \in Nodes /\ Links(node')
  BY FirstIsNext DEF ForgetItem, Flow, TypeOK, CallLocals, Moves, Step
<1>2. z \in Private(t)
  BY DEF ForgetItem, Private
<1>3. \A n \in Nodes \ {z} : node'[n].next = node[n].next
  BY DEF ForgetItem, FreeNode, TypeOK
<1>4. node'[z].next = free_list
  BY <1>1 DEF ForgetItem, FreeNode, TypeOK, NodeContents
<1>5. \A r \in Spots : First(r)' = IF r = s THEN z ELSE First(r)
  BY DEF ForgetItem, FreeNode, First, Free, Spots, Entries, Bases
<1>6. \A r \in Spots : z \notin List(r)
  BY <1>2 DEF Apart
<1>7. NoCircles' /\ Given(s, z)
  BY <1>1, <1>3, <1>4, <1>5, <1>6, SpotsAre, FirstGiven
<1>8. Private(t)' = Private(t) \ {z}
  BY <1>1 DEF ForgetItem, Return, Private, Flow, TypeOK, NoLocals
<1>9. QED
  BY <1>2, <1>7, <1>8

(* The new node goes back to the free list.                                *)
LEMMA WalkEffect ==
  ASSUME TypeOK, TableRight, NoCircles, Apart, Keyed, NEW t \in Threads, Flow(t), Looks(t),
         Rehashing(t), Found(t), WalkFinds(t),
         NEW s, s = Free, NEW z, z = local[t].new_node
  PROVE  /\ NoCircles' /\ Given(s, z)
         /\ z \in Private(t) /\ Private(t)' = Private(t) \ {z}
<1>1. z \in Nodes /\ z # NULL /\ Links(node')
  BY FirstIsNext DEF WalkFinds, Flow, TypeOK, CallLocals, Moves, Step
<1>2. z \in Private(t)
  BY <1>1 DEF WalkFinds, Private
<1>3. \A n \in Nodes \ {z} : node'[n].next = node[n].next
  BY DEF WalkFinds, FreeNode, TypeOK
<1>4. node'[z].next = free_list
  BY <1>1 DEF WalkFinds, FreeNode, TypeOK, NodeContents
<1>5. \A r \in Spots : First(r)' = IF r = s THEN z ELSE First(r)
  BY DEF WalkFinds, FreeNode, First, Free, Spots, Entries, Bases
<1>6. \A r \in Spots : z \notin List(r)
  BY <1>2 DEF Apart
<1>7. NoCircles' /\ Given(s, z)
  BY <1>1, <1>3, <1>4, <1>5, <1>6, SpotsAre, FirstGiven
<1>8. Private(t)' = Private(t) \ {z}
  BY DEF WalkFinds, Return, Private, TypeOK, NoLocals
<1>9. QED
  BY <1>2, <1>7, <1>8

(* The new node goes to the list of its entry.                             *)
LEMMA LinkEffect ==
  ASSUME TypeOK, TableRight, NoCircles, Apart, Keyed, NEW t \in Threads, Flow(t), Looks(t),
         Rehashing(t), Found(t), LinkNode(t),
         NEW s, s = InsertEntry(t), NEW z, z = local[t].new_node
  PROVE  /\ NoCircles' /\ Given(s, z) /\ s \in Entries
         /\ z \in Private(t) /\ Private(t)' = Private(t) \ {z}
<1>1. z \in Nodes /\ z # NULL /\ Links(node') /\ s \in Entries
  BY FirstIsNext, EntryOfInsert DEF LinkNode, Flow, TypeOK, CallLocals, Moves, Step
<1>2. z \in Private(t)
  BY <1>1 DEF LinkNode, Private
<1>a. /\ node' = [node EXCEPT ![z].next = head[s]] /\ free_list' = free_list
      /\ head' = [head EXCEPT ![s] = z]
  BY DEF LinkNode
<1>3. \A n \in Nodes \ {z} : node'[n].next = node[n].next
  BY <1>a DEF TypeOK
<1>4. node'[z].next = First(s)
  BY <1>1, <1>a, SpotsAre DEF TypeOK, NodeContents
<1>5. \A r \in Spots : First(r)' = IF r = s THEN z ELSE First(r)
  BY <1>1, <1>a DEF First, Free, Spots, Entries, Bases, TypeOK
<1>6. \A r \in Spots : z \notin List(r)
  BY <1>2 DEF Apart
<1>7. NoCircles' /\ Given(s, z)
  BY <1>1, <1>3, <1>4, <1>5, <1>6, SpotsAre, FirstGiven
<1>8. Private(t)' = Private(t) \ {z}
  BY DEF LinkNode, Private, TypeOK
<1>9. QED
  BY <1>1, <1>2, <1>7, <1>8

(* The removed node leaves the list of its entry.                          *)
LEMMA UnlinkEffect ==
  ASSUME TypeOK, TableRight, NoCircles, Apart, Keyed, NEW t \in Threads, Flow(t), Looks(t),
         Rehashing(t), Found(t), UnlinkItem(t),
         NEW s, s = Entry(t), NEW z, z = local[t].p
  PROVE  /\ NoCircles' /\ Taken(s, z) /\ s \in Entries
         /\ Private(t)' = Private(t) \cup {z}
<1>1. s \in Entries /\ Links(node') /\ z \in Linked(s) /\ z \in Nodes
  BY FirstIsNext, EntryOfCall DEF UnlinkItem, Found, Linked, OnTheWay, Moves, Step
<1>a. /\ head' = [head EXCEPT ![s] = IF @ = z THEN node[z].next ELSE @] /\ free_list' = free_list
      /\ node' = [x \in Nodes |-> IF x \in Linked(s) /\ node[x].next = z
                                  THEN [node[x] EXCEPT !.next = node[z].next] ELSE node[x]]
  BY DEF UnlinkItem, Unlink
<1>2. z \in List(s) /\ List(s) = Linked(s) /\ s \in Spots /\ First(s) = head[s]
  BY <1>1, SpotsAre
<1>3. \A n \in Nodes : node'[n].next = IF n \in List(s) /\ node[n].next = z THEN node[z].next ELSE node[n].next
  BY <1>a, <1>2 DEF TypeOK, NodeContents
<1>4. List(s) \in SUBSET Nodes
  BY <1>2, FirstIs
<1>5. First(s)' = IF First(s) = z THEN node[z].next ELSE First(s)
  BY <1>1, <1>2, <1>a DEF First, Entries, Bases, TypeOK
<1>6. \A r \in Spots \ {s} : First(r)' = First(r)
  BY <1>1, <1>a DEF First, Free, Spots, Entries, Bases, TypeOK
<1>7. NoCircles' /\ Taken(s, z)
  BY <1>1, <1>2, <1>3, <1>4, <1>5, <1>6, AnyTaken
<1>8. Private(t)' = Private(t) \cup {z}
  BY DEF UnlinkItem, Private, TypeOK, Flow, CallLocals
<1>9. QED
  BY <1>1, <1>7, <1>8

(* A rehash takes the first node of its entry.                             *)
LEMMA RoundUnlinkEffect ==
  ASSUME TypeOK, TableRight, NoCircles, Apart, Keyed, NEW t \in Threads, Flow(t), Looks(t),
         Rehashing(t), Found(t), RoundUnlink(t),
         NEW s, s = rehash.entry, NEW z, z = rehash.node
  PROVE  /\ NoCircles' /\ Taken(s, z) /\ s \in Entries
         /\ Private(t)' = Private(t) \cup {z}
<1>1. s \in Entries /\ Links(node') /\ z = head[s] /\ z \in Nodes
  BY FirstIsNext DEF RoundUnlink, Rehashing, Rounds, Moving, TypeOK, RehashLocals, Moves, Step
<1>a. head' = [head EXCEPT ![s] = node[z].next] /\ free_list' = free_list /\ node' = node
  BY DEF RoundUnlink
<1>b. rehash'.node = z
  BY DEF RoundUnlink, TypeOK, RehashLocals
<1>2. s \in Spots /\ First(s) = z
  BY <1>1, SpotsAre
<1>3. First(s)' = node[z].next
  BY <1>1, <1>a DEF First, Entries, Bases, TypeOK
<1>4. \A r \in Spots \ {s} : First(r)' = First(r)
  BY <1>1, <1>a DEF First, Free, Spots, Entries, Bases, TypeOK
<1>5. NoCircles' /\ Taken(s, z)
  BY <1>1, <1>2, <1>3, <1>4, <1>a, FirstTaken
<1>6. Private(t)' = Private(t) \cup {z}
  BY <1>b DEF RoundUnlink, Private, TypeOK
<1>7. QED
  BY <1>1, <1>5, <1>6

(* A rehash gives it to its new entry.                                     *)
LEMMA RoundLinkEffect ==
  ASSUME TypeOK, TableRight, NoCircles, Apart, Keyed, NEW t \in Threads, Flow(t), Looks(t),
         Rehashing(t), Found(t), RoundLink(t),
         NEW s, s = TargetEntry, NEW z, z = rehash.node
  PROVE  /\ NoCircles' /\ Given(s, z) /\ s \in Entries
         /\ z \in Private(t) /\ Private(t)' = Private(t) \ {z}
<1>1. s \in Entries /\ Links(node') /\ z \in Nodes /\ z # local[t].new_node
  BY FirstIsNext, TargetIs DEF RoundLink, Rehashing, Moves, Step
<1>a. head' = [head EXCEPT ![s] = z] /\ free_list' = free_list /\ node' = [node EXCEPT ![z].next = head[s]]
  BY DEF RoundLink
<1>2. z \in Private(t)
  BY DEF RoundLink, Private
<1>3. \A n \in Nodes \ {z} : node'[n].next = node[n].next
  BY <1>a DEF TypeOK
<1>4. node'[z].next = First(s)
  BY <1>1, <1>a, SpotsAre DEF TypeOK, NodeContents
<1>5. \A r \in Spots : First(r)' = IF r = s THEN z ELSE First(r)
  BY <1>1, <1>a DEF First, Free, Spots, Entries, Bases, TypeOK
<1>6. \A r \in Spots : z \notin List(r)
  BY <1>2 DEF Apart
<1>7. NoCircles' /\ Given(s, z)
  BY <1>1, <1>3, <1>4, <1>5, <1>6, SpotsAre, FirstGiven
<1>8. Private(t)' = Private(t) \ {z}
  BY <1>1 DEF RoundLink, Private, TypeOK
<1>9. QED
  BY <1>1, <1>2, <1>7, <1>8

(* The other actions move no node.                                         *)
LEMMA NoEffect ==
  ASSUME TypeOK, TableRight, NoCircles, Apart, Keyed, NEW t \in Threads, Flow(t), Looks(t),
         Rehashing(t), Found(t), Moves(t),
         ~(UnlinkItem(t) \/ ForgetItem(t) \/ AllocNode(t) \/ WalkFinds(t) \/ LinkNode(t)
             \/ RoundUnlink(t) \/ RoundLink(t))
  PROVE  NoCircles' /\ AsBefore(Spots) /\ Private(t)' = Private(t)
<1>1. NoCircles' /\ AsBefore(Spots)
  <2>1. Links(node')
    BY FirstIsNext
  <2>2. CASE UNCHANGED <<Lists>>
    BY <2>1, <2>2, NothingMoves DEF First
  <2>3. CASE UpdateItem(t)
    <3>1. \A n \in Nodes : node'[n].next = node[n].next
      BY <2>3 DEF UpdateItem, TypeOK, NodeContents
    <3>2. \A s \in Spots : First(s)' = First(s)
      BY <2>3 DEF UpdateItem, First
    <3>3. QED
      BY <2>1, <3>1, <3>2, NothingMoves
  <2>4. QED
    BY <2>2, <2>3, ListsMove
<1>2. Private(t)' = Private(t)
  <2>1. CASE Call(t)
    BY <2>1 DEF Call, TypeOK, Private, Flow, CallLocals, NoLocals
  <2>2. CASE Returns(t)
    BY <2>2 DEF Returns, TypeOK, Private, Flow, CallLocals, NoLocals
  <2>3. CASE unlockHashTableItem(t)
    BY <2>3 DEF unlockHashTableItem, TypeOK, Private, Flow, CallLocals, NoLocals
  <2>4. CASE EnterRehash(t)
    <3>1. local[t].then \in {"insert_base", "bases"}
      BY <2>4, HashTableAssumption DEF EnterRehash, Flow, Inside, Rounds, Moving
    <3>2. QED
      BY <2>4, <3>1 DEF EnterRehash, TypeOK, Private
  <2>5. CASE InsertBase(t)
    BY <2>5 DEF InsertBase, TypeOK, Private, Flow, CallLocals, NoLocals
  <2>6. CASE ReadBases(t)
    BY <2>6 DEF ReadBases, TypeOK, Private, Flow, CallLocals, NoLocals
  <2>7. CASE SearchMisses(t)
    BY <2>7 DEF SearchMisses, Return, TypeOK, Private, Flow, CallLocals, NoLocals
  <2>8. CASE SearchAnswers(t)
    BY <2>8 DEF SearchAnswers, Return, TypeOK, Private, Flow, CallLocals, NoLocals
  <2>9. CASE SearchFinds(t)
    BY <2>9 DEF SearchFinds, TypeOK, Private, Flow, CallLocals, NoLocals
  <2>10. CASE LockItem(t)
    BY <2>10 DEF LockItem, TypeOK, Private, Flow, CallLocals, NoLocals
  <2>11. CASE UpdateItem(t)
    BY <2>11 DEF UpdateItem, Return, TypeOK, Private, Flow, CallLocals, NoLocals
  <2>12. CASE UnlinkItem(t)
    BY <2>12
  <2>13. CASE ForgetItem(t)
    BY <2>13
  <2>14. CASE AllocNode(t)
    BY <2>14
  <2>15. CASE AllocFails(t)
    BY <2>15 DEF AllocFails, Return, TypeOK, Private, Flow, CallLocals, NoLocals
  <2>16. CASE LockHead(t)
    BY <2>16 DEF LockHead, TypeOK, Private, Flow, CallLocals, NoLocals
  <2>17. CASE WalkList(t)
    BY <2>17 DEF WalkList, TypeOK, Private, Flow, CallLocals, NoLocals
  <2>18. CASE WalkOn(t)
    BY <2>18 DEF WalkOn, TypeOK, Private, Flow, CallLocals, NoLocals
  <2>19. CASE WalkEnds(t)
    BY <2>19 DEF WalkEnds, TypeOK, Private, Flow, CallLocals, NoLocals
  <2>20. CASE WalkFinds(t)
    BY <2>20
  <2>21. CASE LinkNode(t)
    BY <2>21
  <2>22. CASE CountItem(t)
    BY <2>22 DEF CountItem, Return, TypeOK, Private, Flow, CallLocals, NoLocals
  <2>23. CASE StartRehash(t)
    BY <2>23 DEF StartRehash, Return, TypeOK, Private, Flow, CallLocals, NoLocals
  <2>24. CASE StartFails(t)
    BY <2>24 DEF StartFails, Return, TypeOK, Private, Flow, CallLocals, NoLocals
  <2>25. CASE AlreadyStarted(t)
    BY <2>25 DEF AlreadyStarted, Return, TypeOK, Private, Flow, CallLocals, NoLocals
  <2>26. CASE MapBase(t)
    BY <2>26 DEF MapBase, Return, TypeOK, Private, Flow, CallLocals, NoLocals
  <2>27. CASE MapHead(t)
    BY <2>27 DEF MapHead, TypeOK, Private, Flow, CallLocals, NoLocals
  <2>28. CASE MapItem(t)
    BY <2>28 DEF MapItem, TypeOK, Private, Flow, CallLocals, NoLocals
  <2>29. CASE MapLeave(t)
    BY <2>29 DEF MapLeave, Return, TypeOK, Private, Flow, CallLocals, NoLocals
  <2>30. CASE Round(t)
    BY <2>30 DEF Round, TypeOK, Private, Flow, CallLocals, NoLocals
  <2>31. CASE RoundFails(t)
    BY <2>31 DEF RoundFails, Retry, TypeOK, Private, Flow, CallLocals, NoLocals
  <2>32. CASE LeaveRehash(t)
    <3>1. local[t].then \in {"insert_base", "bases"}
      BY <2>32, HashTableAssumption DEF LeaveRehash, Flow, Inside, Rounds, Moving
    <3>2. QED
      BY <2>32, <3>1 DEF LeaveRehash, TypeOK, Private
  <2>33. CASE RoundUpdate(t)
    BY <2>33 DEF RoundUpdate, TypeOK, Private, Flow, CallLocals, NoLocals
  <2>34. CASE RoundUpdateFails(t)
    BY <2>34 DEF RoundUpdateFails, TypeOK, Private, Flow, CallLocals, NoLocals
  <2>35. CASE RoundNode(t)
    BY <2>35 DEF RoundNode, NextPos, Retry, TypeOK, Private, Flow, CallLocals, NoLocals
  <2>36. CASE RoundUnlink(t)
    BY <2>36
  <2>37. CASE RoundGivesUp(t)
    BY <2>37 DEF RoundGivesUp, TypeOK, Private, Flow, CallLocals, NoLocals
  <2>38. CASE RoundLink(t)
    BY <2>38
  <2>39. CASE RoundEnd(t)
    BY <2>39 DEF RoundEnd, TypeOK, Private, Flow, CallLocals, NoLocals
  <2>40. QED
    BY <2>1, <2>2, <2>3, <2>4, <2>5, <2>6, <2>7, <2>8, <2>9, <2>10, <2>11, <2>12, <2>13,
       <2>14, <2>15, <2>16, <2>17, <2>18, <2>19, <2>20, <2>21, <2>22, <2>23, <2>24, <2>25, <2>26,
       <2>27, <2>28, <2>29, <2>30, <2>31, <2>32, <2>33, <2>34, <2>35, <2>36, <2>37, <2>38, <2>39
       DEF Moves, Step
<1>3. QED
  BY <1>1, <1>2

(* All of them together.                                                   *)
LEMMA Effects ==
  ASSUME TypeOK, TableRight, NoCircles, Apart, Keyed, NEW t \in Threads, Flow(t), Looks(t),
         Rehashing(t), Found(t), Moves(t)
  PROVE  /\ NoCircles'
         /\ \/ AsBefore(Spots) /\ Private(t)' = Private(t)
            \/ \E s \in Spots : \E z \in Nodes : Taken(s, z) /\ Private(t)' = Private(t) \cup {z}
            \/ \E s \in Spots : \E z \in Private(t) : Given(s, z) /\ Private(t)' = Private(t) \ {z}
<1>1. CASE UnlinkItem(t)
  <2>1. PICK s, z : s = Entry(t) /\ z = local[t].p
    OBVIOUS
  <2>2. NoCircles' /\ Taken(s, z) /\ s \in Spots /\ Private(t)' = Private(t) \cup {z}
    BY <1>1, <2>1, UnlinkEffect, SpotsAre
  <2>3. QED
    BY <2>2, FirstIs DEF Taken
<1>2. CASE AllocNode(t)
  <2>1. PICK s, z : s = Free /\ z = free_list
    OBVIOUS
  <2>2. NoCircles' /\ Taken(s, z) /\ s \in Spots /\ Private(t)' = Private(t) \cup {z}
    BY <1>2, <2>1, AllocEffect, SpotsAre
  <2>3. QED
    BY <2>2, FirstIs DEF Taken
<1>3. CASE RoundUnlink(t)
  <2>1. PICK s, z : s = rehash.entry /\ z = rehash.node
    OBVIOUS
  <2>2. NoCircles' /\ Taken(s, z) /\ s \in Spots /\ Private(t)' = Private(t) \cup {z}
    BY <1>3, <2>1, RoundUnlinkEffect, SpotsAre
  <2>3. QED
    BY <2>2, FirstIs DEF Taken
<1>4. CASE ForgetItem(t)
  <2>1. PICK s, z : s = Free /\ z = local[t].p
    OBVIOUS
  <2>2. QED
    BY <1>4, <2>1, ForgetEffect, SpotsAre
<1>5. CASE WalkFinds(t)
  <2>1. PICK s, z : s = Free /\ z = local[t].new_node
    OBVIOUS
  <2>2. QED
    BY <1>5, <2>1, WalkEffect, SpotsAre
<1>6. CASE LinkNode(t)
  <2>1. PICK s, z : s = InsertEntry(t) /\ z = local[t].new_node
    OBVIOUS
  <2>2. QED
    BY <1>6, <2>1, LinkEffect, SpotsAre
<1>7. CASE RoundLink(t)
  <2>1. PICK s, z : s = TargetEntry /\ z = rehash.node
    OBVIOUS
  <2>2. QED
    BY <1>7, <2>1, RoundLinkEffect, SpotsAre
<1>8. QED
  BY <1>1, <1>2, <1>3, <1>4, <1>5, <1>6, <1>7, NoEffect

(* A node that leaves one place is in the next one.                        *)
LEMMA ApartKept ==
  ASSUME TypeOK, TableRight, NoCircles, Apart, Keyed, NEW t \in Threads, Flow(t), Looks(t),
         Rehashing(t), Found(t), Moves(t), \A u \in Threads : Rehashing(u)
  PROVE  Apart'
<1>1. \A u \in Threads : u # t => Private(u)' = Private(u)
  BY PrivateOfOthers
<1>2. Private(t) \in SUBSET Nodes /\ \A s \in Spots : List(s) \in SUBSET Nodes
  BY PrivateIs, FirstIs
<1>3. CASE AsBefore(Spots) /\ Private(t)' = Private(t)
  BY <1>1, <1>3 DEF Apart, AsBefore
<1>4. ASSUME NEW s \in Spots, NEW z \in Nodes, Taken(s, z), Private(t)' = Private(t) \cup {z}
      PROVE  Apart'
  <2>1. z \in List(s) /\ List(s)' = List(s) \ {z} /\ \A r \in Spots \ {s} : List(r)' = List(r)
    BY <1>4 DEF Taken, AsBefore
  <2>2. \A r \in Spots : List(r)' \subseteq List(r) /\ z \notin List(r)'
    BY <2>1 DEF Apart
  <2>3. \A u \in Threads : z \notin Private(u)
    BY <2>1 DEF Apart
  <2>4. \A q, r \in Spots : q # r => List(q)' \cap List(r)' = {}
    BY <2>2 DEF Apart
  <2>5. \A u \in Threads : \A r \in Spots : Private(u)' \cap List(r)' = {}
    BY <1>1, <1>4, <2>2 DEF Apart
  <2>6. \A u, v \in Threads : u # v => Private(u)' \cap Private(v)' = {}
    BY <1>1, <1>4, <2>3 DEF Apart
  <2>7. \A n \in Nodes : (\E r \in Spots : n \in List(r)') \/ (\E u \in Threads : n \in Private(u)')
    BY <1>1, <1>4, <2>1 DEF Apart
  <2>8. QED
    BY <2>4, <2>5, <2>6, <2>7 DEF Apart
<1>5. ASSUME NEW s \in Spots, NEW z \in Private(t), Given(s, z), Private(t)' = Private(t) \ {z}
      PROVE  Apart'
  <2>1. List(s)' = List(s) \cup {z} /\ \A r \in Spots \ {s} : List(r)' = List(r)
    BY <1>5 DEF Given, AsBefore
  <2>2. \A r \in Spots : z \notin List(r)
    BY DEF Apart
  <2>3. \A u \in Threads : z \notin Private(u)'
    BY <1>1, <1>5 DEF Apart
  <2>4. \A q, r \in Spots : q # r => List(q)' \cap List(r)' = {}
    BY <2>1, <2>2 DEF Apart
  <2>5. \A u \in Threads : \A r \in Spots : Private(u)' \cap List(r)' = {}
    BY <1>1, <1>5, <2>1, <2>3 DEF Apart
  <2>6. \A u, v \in Threads : u # v => Private(u)' \cap Private(v)' = {}
    BY <1>1, <1>5 DEF Apart
  <2>7. \A n \in Nodes : (\E r \in Spots : n \in List(r)') \/ (\E u \in Threads : n \in Private(u)')
    BY <1>1, <1>5, <2>1 DEF Apart
  <2>8. QED
    BY <2>4, <2>5, <2>6, <2>7 DEF Apart
<1>6. QED
  BY <1>3, <1>4, <1>5, Effects

(* What enters a list, leaves it, and comes into the hands of a thread.    *)
LEMMA Enters ==
  ASSUME TypeOK, TableRight, NoCircles, Apart, Keyed, NEW t \in Threads, Flow(t), Looks(t),
         Rehashing(t), Found(t), Moves(t),
         NEW e \in Entries, NEW n, n \in Linked(e)', n \notin Linked(e)
  PROVE  \/ LinkNode(t) /\ e = InsertEntry(t) /\ n = local[t].new_node
         \/ RoundLink(t) /\ e = TargetEntry /\ n = rehash.node
<1>0. n \in List(e)' /\ n \notin List(e) /\ e \in Spots /\ e # Free
  BY SpotsAre DEF List, First, Linked, Entries, Bases
<1>1. CASE LinkNode(t)
  <2>1. PICK s, z : s = InsertEntry(t) /\ z = local[t].new_node
    OBVIOUS
  <2>2. QED
    BY <1>0, <1>1, <2>1, LinkEffect DEF Given, AsBefore
<1>2. CASE RoundLink(t)
  <2>1. PICK s, z : s = TargetEntry /\ z = rehash.node
    OBVIOUS
  <2>2. QED
    BY <1>0, <1>2, <2>1, RoundLinkEffect DEF Given, AsBefore
<1>3. ASSUME NEW s \in Spots, NEW z, Taken(s, z) PROVE FALSE
  BY <1>0, <1>3 DEF Taken, AsBefore
<1>4. ASSUME NEW z, Given(Free, z) PROVE FALSE
  BY <1>0, <1>4, SpotsAre DEF Given, AsBefore
<1>5. CASE UnlinkItem(t)
  <2>1. PICK s, z : s = Entry(t) /\ z = local[t].p
    OBVIOUS
  <2>2. QED
    BY <1>3, <1>4, <1>5, <2>1, UnlinkEffect, SpotsAre
<1>6. CASE AllocNode(t)
  <2>1. PICK s, z : s = Free /\ z = free_list
    OBVIOUS
  <2>2. QED
    BY <1>3, <1>4, <1>6, <2>1, AllocEffect, SpotsAre
<1>7. CASE RoundUnlink(t)
  <2>1. PICK s, z : s = rehash.entry /\ z = rehash.node
    OBVIOUS
  <2>2. QED
    BY <1>3, <1>4, <1>7, <2>1, RoundUnlinkEffect, SpotsAre
<1>8. CASE ForgetItem(t)
  <2>1. PICK s, z : s = Free /\ z = local[t].p
    OBVIOUS
  <2>2. QED
    BY <1>3, <1>4, <1>8, <2>1, ForgetEffect, SpotsAre
<1>9. CASE WalkFinds(t)
  <2>1. PICK s, z : s = Free /\ z = local[t].new_node
    OBVIOUS
  <2>2. QED
    BY <1>3, <1>4, <1>9, <2>1, WalkEffect, SpotsAre
<1>10. QED
  BY <1>0, <1>1, <1>2, <1>5, <1>6, <1>7, <1>8, <1>9, NoEffect DEF AsBefore

(* Only a removal and a rehash take nodes out of an entry.                 *)
LEMMA Leaves ==
  ASSUME TypeOK, TableRight, NoCircles, Apart, Keyed, NEW t \in Threads, Flow(t), Looks(t),
         Rehashing(t), Found(t), Moves(t),
         NEW e \in Entries, NEW n, n \in Linked(e), n \notin Linked(e)'
  PROVE  \/ UnlinkItem(t) /\ e = Entry(t) /\ n = local[t].p
         \/ RoundUnlink(t) /\ e = rehash.entry /\ n = rehash.node
<1>0. n \notin List(e)' /\ n \in List(e) /\ e \in Spots /\ e # Free
  BY SpotsAre DEF List, First, Linked, Entries, Bases
<1>1. CASE UnlinkItem(t)
  <2>1. PICK s, z : s = Entry(t) /\ z = local[t].p
    OBVIOUS
  <2>2. QED
    BY <1>0, <1>1, <2>1, UnlinkEffect DEF Taken, AsBefore
<1>2. CASE RoundUnlink(t)
  <2>1. PICK s, z : s = rehash.entry /\ z = rehash.node
    OBVIOUS
  <2>2. QED
    BY <1>0, <1>2, <2>1, RoundUnlinkEffect DEF Taken, AsBefore
<1>3. ASSUME NEW s \in Spots, NEW z, Given(s, z) PROVE FALSE
  BY <1>0, <1>3 DEF Given, AsBefore
<1>4. ASSUME NEW z, Taken(Free, z) PROVE FALSE
  BY <1>0, <1>4, SpotsAre DEF Taken, AsBefore
<1>5. CASE LinkNode(t)
  <2>1. PICK s, z : s = InsertEntry(t) /\ z = local[t].new_node
    OBVIOUS
  <2>2. QED
    BY <1>3, <1>4, <1>5, <2>1, LinkEffect, SpotsAre
<1>6. CASE AllocNode(t)
  <2>1. PICK s, z : s = Free /\ z = free_list
    OBVIOUS
  <2>2. QED
    BY <1>3, <1>4, <1>6, <2>1, AllocEffect, SpotsAre
<1>7. CASE RoundLink(t)
  <2>1. PICK s, z : s = TargetEntry /\ z = rehash.node
    OBVIOUS
  <2>2. QED
    BY <1>3, <1>4, <1>7, <2>1, RoundLinkEffect, SpotsAre
<1>8. CASE ForgetItem(t)
  <2>1. PICK s, z : s = Free /\ z = local[t].p
    OBVIOUS
  <2>2. QED
    BY <1>3, <1>4, <1>8, <2>1, ForgetEffect, SpotsAre
<1>9. CASE WalkFinds(t)
  <2>1. PICK s, z : s = Free /\ z = local[t].new_node
    OBVIOUS
  <2>2. QED
    BY <1>3, <1>4, <1>9, <2>1, WalkEffect, SpotsAre
<1>10. QED
  BY <1>0, <1>1, <1>2, <1>5, <1>6, <1>7, <1>8, <1>9, NoEffect DEF AsBefore

(* How a node comes into the hands of a thread.                            *)
LEMMA Acquires ==
  ASSUME TypeOK, TableRight, NoCircles, Apart, Keyed, NEW t \in Threads, Flow(t), Looks(t),
         Rehashing(t), Found(t), Moves(t),
         NEW n, n \in Private(t)', n \notin Private(t)
  PROVE  \/ UnlinkItem(t) /\ n = local[t].p
         \/ RoundUnlink(t) /\ n = rehash.node
         \/ AllocNode(t) /\ n = free_list
<1>1. CASE UnlinkItem(t)
  <2>1. PICK s, z : s = Entry(t) /\ z = local[t].p
    OBVIOUS
  <2>2. QED
    BY <1>1, <2>1, UnlinkEffect
<1>2. CASE AllocNode(t)
  <2>1. PICK s, z : s = Free /\ z = free_list
    OBVIOUS
  <2>2. QED
    BY <1>2, <2>1, AllocEffect
<1>3. CASE RoundUnlink(t)
  <2>1. PICK s, z : s = rehash.entry /\ z = rehash.node
    OBVIOUS
  <2>2. QED
    BY <1>3, <2>1, RoundUnlinkEffect
<1>4. CASE ForgetItem(t)
  <2>1. PICK s, z : s = Free /\ z = local[t].p
    OBVIOUS
  <2>2. QED
    BY <1>4, <2>1, ForgetEffect
<1>5. CASE WalkFinds(t)
  <2>1. PICK s, z : s = Free /\ z = local[t].new_node
    OBVIOUS
  <2>2. QED
    BY <1>5, <2>1, WalkEffect
<1>6. CASE LinkNode(t)
  <2>1. PICK s, z : s = InsertEntry(t) /\ z = local[t].new_node
    OBVIOUS
  <2>2. QED
    BY <1>6, <2>1, LinkEffect
<1>7. CASE RoundLink(t)
  <2>1. PICK s, z : s = TargetEntry /\ z = rehash.node
    OBVIOUS
  <2>2. QED
    BY <1>7, <2>1, RoundLinkEffect
<1>8. QED
  BY <1>1, <1>2, <1>3, <1>4, <1>5, <1>6, <1>7, NoEffect

(* The node of an insert that has one is the node of this call.            *)
LEMMA NewNodeStays ==
  ASSUME TypeOK, NEW t \in Threads, Flow(t), Moves(t), ~AllocNode(t), local'[t].new_node # NULL
  PROVE  local'[t].new_node = local[t].new_node /\ call'[t] = call[t]
<1>1. CASE Call(t)
  BY <1>1 DEF Call, TypeOK, CallLocals, NoLocals, Flow
<1>2. CASE Returns(t)
  BY <1>2 DEF Returns, TypeOK, CallLocals, NoLocals, Flow
<1>3. CASE unlockHashTableItem(t)
  BY <1>3 DEF unlockHashTableItem, TypeOK, CallLocals, NoLocals, Flow
<1>4. CASE EnterRehash(t)
  BY <1>4 DEF EnterRehash, TypeOK, CallLocals, NoLocals, Flow
<1>5. CASE InsertBase(t)
  BY <1>5 DEF InsertBase, TypeOK, CallLocals, NoLocals, Flow
<1>6. CASE ReadBases(t)
  BY <1>6 DEF ReadBases, TypeOK, CallLocals, NoLocals, Flow
<1>7. CASE SearchMisses(t)
  BY <1>7 DEF SearchMisses, Return, TypeOK, CallLocals, NoLocals, Flow
<1>8. CASE SearchAnswers(t)
  BY <1>8 DEF SearchAnswers, Return, TypeOK, CallLocals, NoLocals, Flow
<1>9. CASE SearchFinds(t)
  BY <1>9 DEF SearchFinds, TypeOK, CallLocals, NoLocals, Flow
<1>10. CASE LockItem(t)
  BY <1>10 DEF LockItem, TypeOK, CallLocals, NoLocals, Flow
<1>11. CASE UpdateItem(t)
  BY <1>11 DEF UpdateItem, Return, TypeOK, CallLocals, NoLocals, Flow
<1>12. CASE UnlinkItem(t)
  BY <1>12 DEF UnlinkItem, TypeOK, CallLocals, NoLocals, Flow
<1>13. CASE ForgetItem(t)
  BY <1>13 DEF ForgetItem, Return, TypeOK, CallLocals, NoLocals, Flow
<1>14. CASE AllocNode(t)
  BY <1>14
<1>15. CASE AllocFails(t)
  BY <1>15 DEF AllocFails, Return, TypeOK, CallLocals, NoLocals, Flow
<1>16. CASE LockHead(t)
  BY <1>16 DEF LockHead, TypeOK, CallLocals, NoLocals, Flow
<1>17. CASE WalkList(t)
  BY <1>17 DEF WalkList, TypeOK, CallLocals, NoLocals, Flow
<1>18. CASE WalkOn(t)
  BY <1>18 DEF WalkOn, TypeOK, CallLocals, NoLocals, Flow
<1>19. CASE WalkEnds(t)
  BY <1>19 DEF WalkEnds, TypeOK, CallLocals, NoLocals, Flow
<1>20. CASE WalkFinds(t)
  BY <1>20 DEF WalkFinds, Return, TypeOK, CallLocals, NoLocals, Flow
<1>21. CASE LinkNode(t)
  BY <1>21 DEF LinkNode, TypeOK, CallLocals, NoLocals, Flow
<1>22. CASE CountItem(t)
  BY <1>22 DEF CountItem, Return, TypeOK, CallLocals, NoLocals, Flow
<1>23. CASE StartRehash(t)
  BY <1>23 DEF StartRehash, Return, TypeOK, CallLocals, NoLocals, Flow
<1>24. CASE StartFails(t)
  BY <1>24 DEF StartFails, Return, TypeOK, CallLocals, NoLocals, Flow
<1>25. CASE AlreadyStarted(t)
  BY <1>25 DEF AlreadyStarted, Return, TypeOK, CallLocals, NoLocals, Flow
<1>26. CASE MapBase(t)
  BY <1>26 DEF MapBase, Return, TypeOK, CallLocals, NoLocals, Flow
<1>27. CASE MapHead(t)
  BY <1>27 DEF MapHead, TypeOK, CallLocals, NoLocals, Flow
<1>28. CASE MapItem(t)
  BY <1>28 DEF MapItem, TypeOK, CallLocals, NoLocals, Flow
<1>29. CASE MapLeave(t)
  BY <1>29 DEF MapLeave, Return, TypeOK, CallLocals, NoLocals, Flow
<1>30. CASE Round(t)
  BY <1>30 DEF Round, TypeOK, CallLocals, NoLocals, Flow
<1>31. CASE RoundFails(t)
  BY <1>31 DEF RoundFails, Retry, TypeOK, CallLocals, NoLocals, Flow
<1>32. CASE LeaveRehash(t)
  BY <1>32 DEF LeaveRehash, TypeOK, CallLocals, NoLocals, Flow
<1>33. CASE RoundUpdate(t)
  BY <1>33 DEF RoundUpdate, TypeOK, CallLocals, NoLocals, Flow
<1>34. CASE RoundUpdateFails(t)
  BY <1>34 DEF RoundUpdateFails, TypeOK, CallLocals, NoLocals, Flow
<1>35. CASE RoundNode(t)
  BY <1>35 DEF RoundNode, NextPos, Retry, TypeOK, CallLocals, NoLocals, Flow
<1>36. CASE RoundUnlink(t)
  BY <1>36 DEF RoundUnlink, TypeOK, CallLocals, NoLocals, Flow
<1>37. CASE RoundGivesUp(t)
  BY <1>37 DEF RoundGivesUp, TypeOK, CallLocals, NoLocals, Flow
<1>38. CASE RoundLink(t)
  BY <1>38 DEF RoundLink, TypeOK, CallLocals, NoLocals, Flow
<1>39. CASE RoundEnd(t)
  BY <1>39 DEF RoundEnd, TypeOK, CallLocals, NoLocals, Flow
<1>40. QED
  BY <1>1, <1>2, <1>3, <1>4, <1>5, <1>6, <1>7, <1>8, <1>9, <1>10, <1>11, <1>12, <1>13, <1>14,
     <1>15, <1>16, <1>17, <1>18, <1>19, <1>20, <1>21, <1>22, <1>23, <1>24, <1>25, <1>26, <1>27,
     <1>28, <1>29, <1>30, <1>31, <1>32, <1>33, <1>34, <1>35, <1>36, <1>37, <1>38, <1>39 DEF
     Moves, Step

(* Nodes of lists and of threads keep their keys.                          *)
LEMMA KeysInUseStay ==
  ASSUME TypeOK, TableRight, Apart, NEW t \in Threads, Flow(t), Rehashing(t), Moves(t),
         NEW n \in Nodes,
         (\E e \in Entries : n \in Linked(e)) \/ (\E u \in Threads : n \in Private(u))
  PROVE  node'[n].key = node[n].key
<1>1. CASE AllocNode(t) /\ n = free_list
  <2>1. n \in Way(node, free_list)
    BY <1>1, FirstIs, WayIs, HashTableAssumption DEF AllocNode, TypeOK
  <2>2. n \in List(Free)
    BY <2>1, ListsAre, SpotsAre
  <2>3. QED
    BY <2>2, SpotsAre DEF Apart
<1>2. QED
  BY <1>1, KeysStay

(* The keys still fit the entries.                                         *)
LEMMA KeyedKept ==
  ASSUME TypeOK, TableRight, Exclusive, NoCircles, Apart, Keyed, NEW t \in Threads, Flow(t),
         Looks(t),
         Claims(t), Rehashing(t), Found(t), Moves(t), \A u \in Threads : Flow(u) /\ Rehashing(u)
  PROVE  Keyed'
<1>1. \A n \in Nodes : (\E e \in Entries : n \in Linked(e)) \/ (\E u \in Threads : n \in Private(u))
                         => node'[n].key = node[n].key
  BY KeysInUseStay
<1>2. KnownBases \subseteq KnownBases' /\ \A b \in KnownBases : size'[b] = size[b]
  BY TableKept
<1>3. \A u \in Threads : u # t => Private(u)' = Private(u)
  BY PrivateOfOthers
<1>4. Private(t) \in SUBSET Nodes /\ \A e \in Entries : Linked(e) \in SUBSET Nodes
  BY PrivateIs, FirstIs, SpotsAre
<1>5. ASSUME NEW e \in Entries, NEW n \in Linked(e)'
      PROVE  /\ e[1] \in KnownBases'
             /\ node'[n].key \in Keys /\ e = EntryOf(e[1], node[n].key)'
  <2>1. CASE n \in Linked(e)
    <3>1. e[1] \in KnownBases /\ node[n].key \in Keys /\ e = EntryOf(e[1], node[n].key)
      BY <2>1 DEF Keyed
    <3>2. node'[n].key = node[n].key
      BY <1>1, <1>4, <2>1
    <3>3. QED
      BY <1>2, <3>1, <3>2 DEF EntryOf
  <2>2. CASE LinkNode(t) /\ e = InsertEntry(t) /\ n = local[t].new_node
    <3>1. n \in Private(t) /\ n # NULL
      BY <2>2 DEF LinkNode, Private, Flow
    <3>2. node[n].key \in Keys /\ node[n].key = call[t].key
      BY <2>2, <3>1 DEF Keyed
    <3>3. node'[n].key = node[n].key
      BY <1>1, <1>4, <3>1
    <3>4. e[1] = local[t].insert_base /\ local[t].insert_base \in KnownBases
      BY <2>2, <3>1, EntryOfInsert
    <3>5. e = <<local[t].insert_base, Hash[call[t].key] % size[local[t].insert_base]>>
      BY <2>2 DEF InsertEntry, EntryOf
    <3>6. size'[local[t].insert_base] = size[local[t].insert_base]
      BY <1>2, <3>4
    <3>7. e[1] \in KnownBases' /\ node'[n].key \in Keys
      BY <1>2, <3>2, <3>3, <3>4
    <3>8. e = <<e[1], Hash[node'[n].key] % size'[e[1]]>>
      BY <3>2, <3>3, <3>4, <3>5, <3>6
    <3>9. QED
      BY <3>7, <3>8 DEF EntryOf
  <2>3. CASE RoundLink(t) /\ e = TargetEntry /\ n = rehash.node
    <3>1. n \in Private(t)
      BY <2>3 DEF RoundLink, Private
    <3>2. is_rehashing /\ node[n].key \in Keys /\ e[1] = 2 /\ e = EntryOf(2, node[n].key)
      BY <2>3, TargetIs DEF RoundLink
    <3>3. node'[n].key = node[n].key
      BY <1>1, <1>4, <3>1
    <3>4. 2 \in KnownBases
      BY <3>2 DEF KnownBases
    <3>5. QED
      BY <1>2, <3>2, <3>3, <3>4 DEF EntryOf
  <2>4. QED
    BY <2>1, <2>2, <2>3, Enters
<1>6. Private(t)' \in SUBSET Nodes
  <2>1. CASE \E s \in Spots : \E z \in Nodes : Taken(s, z) /\ Private(t)' = Private(t) \cup {z}
    BY <1>4, <2>1
  <2>2. QED
    BY <1>4, <2>1, Effects
<1>7. ASSUME NEW n \in Private(t)' PROVE node'[n].key \in Keys
  <2>1. CASE n \in Private(t)
    BY <1>1, <1>4, <2>1 DEF Keyed
  <2>2. CASE UnlinkItem(t) /\ n = local[t].p
    <3>1. n \in Linked(Entry(t)) /\ Entry(t) \in Entries
      BY <2>2, EntryOfCall DEF UnlinkItem, Found
    <3>2. QED
      BY <1>1, <1>4, <3>1 DEF Keyed
  <2>3. CASE RoundUnlink(t) /\ n = rehash.node
    <3>1. node[n].key \in Keys
      BY <2>3, TargetIs DEF RoundUnlink
    <3>2. QED
      BY <2>3, <3>1 DEF RoundUnlink
  <2>4. CASE AllocNode(t) /\ n = free_list
    <3>1. call[t].key \in Keys
      BY <2>4, KeyIs DEF AllocNode, Flow
    <3>2. QED
      BY <1>6, <2>4, <3>1 DEF AllocNode, TypeOK
  <2>5. QED
    BY <2>1, <2>2, <2>3, <2>4, Acquires
<1>8. ASSUME NEW u \in Threads, NEW n \in Private(u)' PROVE node'[n].key \in Keys
  <2>1. CASE u = t
    BY <1>7, <2>1
  <2>2. CASE u # t
    <3>1. n \in Private(u) /\ Private(u) \in SUBSET Nodes
      BY <1>3, <2>2, <1>8, PrivateIs
    <3>2. QED
      BY <1>1, <3>1 DEF Keyed
  <2>3. QED
    BY <2>1, <2>2
<1>9. ASSUME NEW u \in Threads, local'[u].new_node \in Private(u)'
      PROVE  node'[local'[u].new_node].key = call'[u].key
  <2>1. CASE u # t
    <3>1. local'[u] = local[u] /\ call'[u] = call[u] /\ Private(u)' = Private(u)
      BY <1>3, <2>1, OthersStay
    <3>2. local[u].new_node \in Private(u)
      BY <1>9, <3>1
    <3>3. local[u].new_node \in Nodes
      BY <3>2, PrivateIs
    <3>4. QED
      BY <1>1, <3>1, <3>2, <3>3 DEF Keyed
  <2>2. CASE u = t /\ AllocNode(t)
    BY <1>6, <1>9, <2>2 DEF AllocNode, TypeOK, CallLocals
  <2>3. CASE u = t /\ ~AllocNode(t)
    <3>1. local'[t].new_node # NULL /\ local'[t].new_node \in Nodes
      BY <1>6, <1>9, <2>3, HashTableAssumption
    <3>2. local'[t].new_node = local[t].new_node /\ call'[t] = call[t]
      BY <2>3, <3>1, NewNodeStays
    <3>3. ~UnlinkItem(t)
      BY <3>1, <3>2 DEF UnlinkItem, Flow
    <3>4. ASSUME RoundUnlink(t), local[t].new_node = rehash.node PROVE FALSE
      <4>1. Rehashing(t)'
        BY RehashingKept
      <4>2. pc'[t] = "round_link" /\ rehash'.node = rehash.node
        BY <3>4 DEF RoundUnlink, TypeOK, RehashLocals
      <4>3. QED
        BY <3>2, <3>4, <4>1, <4>2 DEF Rehashing
    <3>5. local[t].new_node \in Private(t)
      <4>1. PICK n : n = local[t].new_node
        OBVIOUS
      <4>2. n \in Private(t)'
        BY <1>9, <2>3, <3>2, <4>1
      <4>3. n \in Private(t)
        BY <2>3, <3>3, <3>4, <4>1, <4>2, Acquires
      <4>4. QED
        BY <4>1, <4>3
    <3>6. QED
      BY <1>1, <1>4, <2>3, <3>2, <3>5 DEF Keyed
  <2>4. QED
    BY <2>1, <2>2, <2>3
<1>10. QED
  BY <1>5, <1>8, <1>9 DEF Keyed

(* Items get a value with their key.                                       *)
LEMMA ValuedKept ==
  ASSUME TypeOK, Valued, NEW t \in Threads, Flow(t), Moves(t)
  PROVE  Valued'
<1>1. CASE UNCHANGED <<Lists>>
  BY <1>1 DEF Valued
<1>2. CASE UpdateItem(t)
  <2>1. call[t] \in Calls
    BY <1>2 DEF UpdateItem, Flow
  <2>2. call[t].value \in Values
    BY <1>2, <2>1 DEF UpdateItem, Calls
  <2>3. QED
    BY <1>2, <2>2 DEF UpdateItem, Valued, TypeOK, NodeContents
<1>3. CASE AllocNode(t)
  <2>1. call[t] \in Calls /\ call[t].op = "insert"
    BY <1>3 DEF AllocNode, Flow
  <2>2. call[t].value \in Values
    BY <2>1 DEF Calls
  <2>3. QED
    BY <1>3, <2>2 DEF AllocNode, Valued, TypeOK, NodeContents
<1>4. CASE UnlinkItem(t)
  BY <1>4 DEF UnlinkItem, Unlink, Valued, TypeOK, NodeContents
<1>5. CASE ForgetItem(t)
  BY <1>5 DEF ForgetItem, FreeNode, Valued, TypeOK, NodeContents
<1>6. CASE WalkFinds(t)
  BY <1>6 DEF WalkFinds, FreeNode, Valued, TypeOK, NodeContents
<1>7. CASE LinkNode(t)
  BY <1>7 DEF LinkNode, Valued, TypeOK, NodeContents
<1>8. CASE RoundUnlink(t)
  BY <1>8 DEF RoundUnlink, Valued, TypeOK, NodeContents
<1>9. CASE RoundLink(t)
  BY <1>9 DEF RoundLink, Valued, TypeOK, NodeContents
<1>10. QED
  BY <1>1, <1>2, <1>3, <1>4, <1>5, <1>6, <1>7, <1>8, <1>9, ListsMove

-----------------------------------------------------------------------------
(* The counts                                                              *)

(* Sets of nodes can be counted.                                           *)
LEMMA NodesFinite ==
  ASSUME NEW S \in SUBSET Nodes
  PROVE  IsFiniteSet(S) /\ Cardinality(S) \in Nat /\ Cardinality(S) <= Cardinality(Nodes)
BY FS_Subset, FS_CardinalityType, HashTableAssumption

(* One node more, and one less.                                            *)
LEMMA CountMoreNodes ==
  ASSUME NEW S \in SUBSET Nodes, NEW z \in Nodes
  PROVE  /\ z \notin S => Cardinality(S \cup {z}) = Cardinality(S) + 1
         /\ z \in S => Cardinality(S \ {z}) = Cardinality(S) - 1
BY NodesFinite, FS_AddElement, FS_RemoveElement

(* A count that has room for all nodes does not wrap.                      *)
LEMMA NoWrap ==
  ASSUME NEW c \in Nat
  PROVE  /\ c + 1 <= Cardinality(Nodes) => CountUp(c) = c + 1
         /\ c > 0 /\ c <= Cardinality(Nodes) => CountDown(c) = c - 1
<1>1. CountMod \in Nat /\ Cardinality(Nodes) \in Nat /\ CountMod > Cardinality(Nodes)
  BY FS_CardinalityType, HashTableAssumption
<1>2. \A k \in Nat, m \in Nat : k < m => k % m = k
  OBVIOUS
<1>3. QED
  BY <1>1, <1>2 DEF CountUp, CountDown

(* A list that gets a node.                                                *)
LEMMA LengthUp ==
  ASSUME TypeOK, Lengths, NEW s \in Entries, NEW z \in Nodes, Given(s, z),
         list_length' = [list_length EXCEPT ![s] = CountUp(list_length[s])]
  PROVE  Lengths'
<1>1. /\ z \notin Linked(s) /\ Linked(s)' = Linked(s) \cup {z}
      /\ \A e \in Entries \ {s} : Linked(e)' = Linked(e)
  BY SpotsAre DEF Given, AsBefore, List, First, Linked, Entries, Bases
<1>2. Linked(s) \in SUBSET Nodes /\ Linked(s) \cup {z} \in SUBSET Nodes
  BY FirstIs, SpotsAre
<1>3. Cardinality(Linked(s)) \in Nat /\ Cardinality(Linked(s)) + 1 <= Cardinality(Nodes)
      /\ Cardinality(Linked(s) \cup {z}) = Cardinality(Linked(s)) + 1
  BY <1>1, <1>2, NodesFinite, CountMoreNodes
<1>4. CountUp(list_length[s]) = Cardinality(Linked(s) \cup {z})
  BY <1>3, NoWrap DEF Lengths
<1>5. ASSUME NEW e \in Entries PROVE list_length'[e] = Cardinality(Linked(e)')
  BY <1>1, <1>4 DEF Lengths, TypeOK
<1>6. QED
  BY <1>5 DEF Lengths

(* A list that loses a node.                                               *)
LEMMA LengthDown ==
  ASSUME TypeOK, Lengths, NEW s \in Entries, NEW z \in Nodes, Taken(s, z),
         list_length' = [list_length EXCEPT ![s] = CountDown(list_length[s])]
  PROVE  Lengths'
<1>1. /\ z \in Linked(s) /\ Linked(s)' = Linked(s) \ {z}
      /\ \A e \in Entries \ {s} : Linked(e)' = Linked(e)
  BY SpotsAre DEF Taken, AsBefore, List, First, Linked, Entries, Bases
<1>2. Linked(s) \in SUBSET Nodes /\ Linked(s) \ {z} \in SUBSET Nodes
  BY FirstIs, SpotsAre
<1>3. Cardinality(Linked(s)) \in Nat /\ Cardinality(Linked(s)) > 0
      /\ Cardinality(Linked(s)) <= Cardinality(Nodes)
      /\ Cardinality(Linked(s) \ {z}) = Cardinality(Linked(s)) - 1
  BY <1>1, <1>2, NodesFinite, CountMoreNodes
<1>4. CountDown(list_length[s]) = Cardinality(Linked(s) \ {z})
  BY <1>3, NoWrap DEF Lengths
<1>5. ASSUME NEW e \in Entries PROVE list_length'[e] = Cardinality(Linked(e)')
  BY <1>1, <1>4 DEF Lengths, TypeOK
<1>6. QED
  BY <1>5 DEF Lengths

(* Lists that stay as they are.                                            *)
LEMMA LengthSame ==
  ASSUME Lengths, list_length' = list_length, AsBefore(Entries)
  PROVE  Lengths'
<1>1. ASSUME NEW e \in Entries PROVE Linked(e)' = Linked(e)
  BY SpotsAre DEF AsBefore, List, First, Linked, Entries, Bases
<1>2. QED
  BY <1>1 DEF Lengths

(* Every step that moves a node counts it in its list.                     *)
LEMMA LengthsKept ==
  ASSUME TypeOK, TableRight, NoCircles, Apart, Keyed, NEW t \in Threads, Flow(t), Looks(t),
         Rehashing(t), Found(t), Moves(t), Lengths
  PROVE  Lengths'
<1>1. CASE LinkNode(t)
  <2>1. PICK s, z : s = InsertEntry(t) /\ z = local[t].new_node
    OBVIOUS
  <2>2. Given(s, z) /\ s \in Entries /\ z \in Nodes
    BY <1>1, <2>1, LinkEffect, PrivateIs
  <2>3. list_length' = [list_length EXCEPT ![s] = CountUp(list_length[s])]
    BY <1>1, <2>1 DEF LinkNode
  <2>4. QED
    BY <2>2, <2>3, LengthUp
<1>2. CASE RoundLink(t)
  <2>1. PICK s, z : s = TargetEntry /\ z = rehash.node
    OBVIOUS
  <2>2. Given(s, z) /\ s \in Entries /\ z \in Nodes
    BY <1>2, <2>1, RoundLinkEffect, PrivateIs
  <2>3. list_length' = [list_length EXCEPT ![s] = CountUp(list_length[s])]
    BY <1>2, <2>1 DEF RoundLink
  <2>4. QED
    BY <2>2, <2>3, LengthUp
<1>3. CASE UnlinkItem(t)
  <2>1. PICK s, z : s = Entry(t) /\ z = local[t].p
    OBVIOUS
  <2>2. Taken(s, z) /\ s \in Entries /\ z \in Nodes
    BY <1>3, <2>1, UnlinkEffect, FirstIs, SpotsAre DEF Taken
  <2>3. list_length' = [list_length EXCEPT ![s] = CountDown(list_length[s])]
    BY <1>3, <2>1 DEF UnlinkItem, Unlink
  <2>4. QED
    BY <2>2, <2>3, LengthDown
<1>4. CASE RoundUnlink(t)
  <2>1. PICK s, z : s = rehash.entry /\ z = rehash.node
    OBVIOUS
  <2>2. Taken(s, z) /\ s \in Entries /\ z \in Nodes
    BY <1>4, <2>1, RoundUnlinkEffect, FirstIs, SpotsAre DEF Taken
  <2>3. list_length' = [list_length EXCEPT ![s] = CountDown(list_length[s])]
    BY <1>4, <2>1 DEF RoundUnlink
  <2>4. QED
    BY <2>2, <2>3, LengthDown
<1>5. ASSUME ~(LinkNode(t) \/ RoundLink(t) \/ UnlinkItem(t) \/ RoundUnlink(t)) PROVE Lengths'
  <2>1. list_length' = list_length
    BY <1>5, ListsMove DEF UpdateItem, ForgetItem, FreeNode, AllocNode, WalkFinds
  <2>2. ASSUME NEW e \in Entries PROVE Linked(e)' = Linked(e)
    BY <1>5, Enters, Leaves
  <2>3. AsBefore(Entries)
    BY <2>2, SpotsAre DEF AsBefore, List, First, Linked, Entries, Bases
  <2>4. QED
    BY <2>1, <2>3, LengthSame
<1>6. QED
  BY <1>1, <1>2, <1>3, <1>4, <1>5

-----------------------------------------------------------------------------
(* The items that threads have found                                       *)

(* The lists depend on the nodes and the heads only.                       *)
LEMMA LinkedStays ==
  ASSUME UNCHANGED <<node, head>>
  PROVE  \A e : Linked(e)' = Linked(e)
BY DEF Linked, OnTheWay

(* No thread takes away what another one has found.                        *)
LEMMA FoundOfOthers ==
  ASSUME TypeOK, TableRight, Exclusive, NoCircles, Apart, Keyed, NEW t \in Threads, Flow(t),
         Looks(t),
         Claims(t), Rehashing(t), Found(t), Moves(t),
         NEW u \in Threads, u # t, Flow(u), Looks(u), Claims(u), Found(u)
  PROVE  Found(u)'
<1>1. pc'[u] = pc[u] /\ local'[u] = local[u] /\ call'[u] = call[u]
  BY OthersStay
<1>2. CASE pc[u] = "item"
  <2>1. Entry(u) \in Entries /\ local[u].bases[1] \in KnownBases
    BY <1>2, EntryOfCall
  <2>2. size'[local[u].bases[1]] = size[local[u].bases[1]]
    BY <2>1, TableKept
  <2>3. PICK e \in Entries : e = Entry(u)
    BY <2>1
  <2>4. e = Entry(u)'
    BY <1>1, <2>2, <2>3 DEF Entry, EntryOf
  <2>5. PICK n : n = local[u].p
    OBVIOUS
  <2>6. n \in Linked(e) /\ Locked(e, u, HeadMode(u)) \in locks
    BY <1>2, <2>3, <2>5 DEF Found, Claims
  <2>7. ~(UnlinkItem(t) /\ e = Entry(t))
    <3>1. UnlinkItem(t) => Locked(Entry(t), t, "write") \in locks
      BY DEF UnlinkItem, Claims, HeadMode
    <3>2. QED
      BY <2>6, <3>1, TwoLocks
  <2>8. ~(RoundUnlink(t) /\ e = rehash.entry)
    <3>1. RoundUnlink(t) => Locked(rehash.entry, t, "write") \in locks
      BY DEF RoundUnlink, Claims
    <3>2. QED
      BY <2>6, <3>1, TwoLocks
  <2>9. n \in Linked(e)'
    BY <2>6, <2>7, <2>8, Leaves
  <2>10. n \in Linked(Entry(u))'
    BY <2>4, <2>9 DEF Linked
  <2>11. Held(u)' = NULL
    BY <1>1, <1>2 DEF Held
  <2>12. QED
    BY <1>1, <2>5, <2>10, <2>11 DEF Found
<1>3. CASE pc[u] # "item"
  <2>1. Held(u)' = Held(u)
    BY <1>1 DEF Held
  <2>2. ASSUME Held(u) # NULL PROVE \E e \in Entries : Held(u) \in Linked(e)'
    <3>1. PICK n : n = Held(u)
      OBVIOUS
    <3>2. PICK e \in Entries : n \in Linked(e)
      BY <2>2, <3>1 DEF Found
    <3>3. PICK m \in Modes : Locked(n, u, m) \in locks
      BY <2>2, <3>1 DEF Claims
    <3>4. ~(UnlinkItem(t) /\ n = local[t].p)
      BY <3>3, MayNotLock DEF UnlinkItem
    <3>5. ~(RoundUnlink(t) /\ n = rehash.node)
      <4>1. RoundUnlink(t) => Locked(rehash.node, t, "write") \in locks
        BY DEF RoundUnlink, Claims
      <4>2. QED
        BY <3>3, <4>1, TwoLocks
    <3>6. n \in Linked(e)'
      BY <3>2, <3>4, <3>5, Leaves
    <3>7. QED
      BY <3>1, <3>6
  <2>3. QED
    BY <1>1, <1>3, <2>1, <2>2 DEF Found
<1>4. QED
  BY <1>2, <1>3

(* Found of the thread that takes the step.                                *)
LEMMA FoundKept ==
  ASSUME TypeOK, TableRight, NEW t \in Threads, Flow(t), Looks(t), Found(t), Moves(t)
  PROVE  Found(t)'
<1>1. CASE SearchFinds(t)
  <2>1. Entry(t) \in Entries
    BY <1>1, EntryOfCall DEF SearchFinds
  <2>2. PICK n : n = Find(Entry(t), call[t].key)
    OBVIOUS
  <2>3. n # NULL /\ local'[t] = [local[t] EXCEPT !.p = n]
    BY <1>1, <2>2 DEF SearchFinds, TypeOK
  <2>4. n \in Linked(Entry(t))
    BY <2>1, <2>2, <2>3, FindIs
  <2>5. Entry(t)' = Entry(t)
    BY <1>1, <2>3 DEF SearchFinds, Entry, EntryOf, TypeOK, CallLocals
  <2>6. Linked(Entry(t))' = Linked(Entry(t))
    BY <1>1, <2>5 DEF SearchFinds, Linked, OnTheWay
  <2>7. local'[t].p = n /\ pc'[t] = "item"
    BY <1>1, <2>3 DEF SearchFinds, TypeOK, CallLocals
  <2>8. QED
    BY <2>4, <2>6, <2>7 DEF Found, Held
<1>2. CASE LockItem(t)
  <2>1. local[t].p \in Linked(Entry(t)) /\ Entry(t) \in Entries
    BY <1>2, EntryOfCall DEF LockItem, Found
  <2>2. \A e : Linked(e)' = Linked(e)
    BY <1>2, LinkedStays DEF LockItem
  <2>3. pc'[t] = "return" /\ local'[t].p = local[t].p
    BY <1>2 DEF LockItem, TypeOK, NoLocals
  <2>4. Held(t)' = local[t].p
    BY <2>3 DEF Held
  <2>5. QED
    BY <2>1, <2>2, <2>3, <2>4 DEF Found
<1>3. CASE Returns(t)
  <2>1. \A e : Linked(e)' = Linked(e)
    BY <1>3, LinkedStays DEF Returns
  <2>2. pc'[t] = "idle" /\ pc[t] = "return" /\ local' = local
    BY <1>3 DEF Returns, TypeOK
  <2>3. Held(t)' = Held(t)
    BY <2>2 DEF Held
  <2>4. QED
    BY <2>1, <2>2, <2>3 DEF Found
<1>4. CASE ~(SearchFinds(t) \/ LockItem(t) \/ Returns(t))
  BY <1>4, Arrivals DEF Found
<1>5. QED
  BY <1>1, <1>2, <1>3, <1>4

(* Counts are numbers modulo CountMod.                                     *)
LEMMA Remainder ==
  ASSUME NEW m \in Nat \ {0}, NEW q \in Int, NEW r \in 0..(m-1)
  PROVE  (m * q + r) % m = r
OBVIOUS

(* What division gives.                                                    *)
LEMMA Quotient ==
  ASSUME NEW x \in Int, NEW m \in Nat \ {0}
  PROVE  x % m \in 0..(m-1) /\ x \div m \in Int /\ x = m * (x \div m) + (x % m)
OBVIOUS

(* Counting up and taking the remainder.                                   *)
LEMMA RemainderUp ==
  ASSUME NEW x \in Int, NEW m \in Nat \ {0}
  PROVE  ((x % m) + 1) % m = (x + 1) % m
<1>1. PICK q, r : q = x \div m /\ r = x % m
  OBVIOUS
<1>2. q \in Int /\ r \in 0..(m-1) /\ x = m * q + r
  BY <1>1, Quotient
<1>3. CASE r + 1 < m
  <2>1. (m * q + (r+1)) % m = r + 1
    BY <1>2, <1>3, Remainder
  <2>2. (m * 0 + (r+1)) % m = r + 1
    BY <1>2, <1>3, Remainder
  <2>3. x + 1 = m * q + (r+1) /\ m * 0 + (r+1) = r + 1
    BY <1>2
  <2>4. QED
    BY <1>1, <2>1, <2>2, <2>3
<1>4. CASE r + 1 = m
  <2>1. (m * (q+1) + 0) % m = 0
    BY <1>2, <1>4, Remainder
  <2>2. (m * 1 + 0) % m = 0
    BY <1>2, <1>3, Remainder
  <2>3. x + 1 = m * (q+1) + 0 /\ m * 1 + 0 = r + 1
    BY <1>2, <1>4
  <2>4. QED
    BY <1>1, <2>1, <2>2, <2>3
<1>5. QED
  BY <1>2, <1>3, <1>4

(* Counting down and taking the remainder.                                 *)
LEMMA RemainderDown ==
  ASSUME NEW x \in Int, NEW m \in Nat \ {0}
  PROVE  ((x % m) - 1) % m = (x - 1) % m
<1>1. PICK q, r : q = x \div m /\ r = x % m
  OBVIOUS
<1>2. q \in Int /\ r \in 0..(m-1) /\ x = m * q + r
  BY <1>1, Quotient
<1>3. CASE r > 0
  <2>1. (m * q + (r-1)) % m = r - 1
    BY <1>2, <1>3, Remainder
  <2>2. (m * 0 + (r-1)) % m = r - 1
    BY <1>2, <1>3, Remainder
  <2>3. x - 1 = m * q + (r-1) /\ m * 0 + (r-1) = r - 1
    BY <1>2
  <2>4. QED
    BY <1>1, <2>1, <2>2, <2>3
<1>4. CASE r = 0
  <2>1. (m * (q-1) + (m-1)) % m = m-1
    BY <1>2, <1>4, Remainder
  <2>2. (m * (-1) + (m-1)) % m = m-1
    BY <1>2, <1>3, Remainder
  <2>3. x - 1 = m * (q-1) + (m-1) /\ m * (-1) + (m-1) = r - 1
    BY <1>2, <1>4
  <2>4. QED
    BY <1>1, <2>1, <2>2, <2>3
<1>5. QED
  BY <1>2, <1>3, <1>4

(* Sets that differ in one element.                                        *)
LEMMA CardinalityMoves ==
  ASSUME NEW S, NEW T, IsFiniteSet(S), NEW z, S \ {z} = T \ {z}
  PROVE  /\ Cardinality(S) \in Nat /\ Cardinality(T) \in Nat
         /\ Cardinality(T) = Cardinality(S) + (IF z \in T THEN 1 ELSE 0) - (IF z \in S THEN 1 ELSE 0)
<1>1. /\ IsFiniteSet(S \ {z}) /\ Cardinality(S) \in Nat
      /\ Cardinality(S \ {z}) = IF z \in S THEN Cardinality(S) - 1 ELSE Cardinality(S)
  BY FS_RemoveElement, FS_CardinalityType
<1>n. Cardinality(S \ {z}) \in Nat
  BY <1>1, FS_CardinalityType
<1>2. T = IF z \in T THEN (S \ {z}) \cup {z} ELSE S \ {z}
  OBVIOUS
<1>3. Cardinality((S \ {z}) \cup {z}) = Cardinality(S \ {z}) + 1
  BY <1>1, FS_AddElement
<1>4. Cardinality(T) = IF z \in T THEN Cardinality(S \ {z}) + 1 ELSE Cardinality(S \ {z})
  BY <1>2, <1>3
<1>5. Cardinality(T) \in Nat
  BY <1>n, <1>4
<1>6. CASE z \in T
  BY <1>1, <1>4, <1>5, <1>6
<1>7. CASE z \notin T
  BY <1>1, <1>4, <1>5, <1>7
<1>8. QED
  BY <1>6, <1>7

(* The nodes that are linked in base b.                                    *)
InBase(b) == UNION {Linked(e) : e \in {x \in Entries : x[1] = b}}

(* What items_count of the first base stands for.                          *)
Owed == Cardinality(InBase(1)) - Cardinality(InsertsAt(1)) + Cardinality(RemovesAt(1))
          + Cardinality(MovesFrom(1))

(* CountsMatch in these terms.                                             *)
LEMMA CountsMatchIs ==
  /\ CountsMatch <=> items_count[1] = Owed % CountMod
  /\ CountsMatch' <=> items_count'[1] = Owed' % CountMod
BY DEF CountsMatch, Owed, InBase

(* The nodes of a base are those of its lists.                             *)
LEMMA InBaseIs ==
  /\ \A n, b : n \in InBase(b) <=> \E e \in Entries : e[1] = b /\ n \in List(e)
  /\ \A n, b : n \in InBase(b)' <=> \E e \in Entries : e[1] = b /\ n \in List(e)'
  /\ InBase(1) = InBase(1) /\ \A e \in Entries : e \in Spots
BY DEF InBase, List, First, Linked, Entries, Bases, Spots

(* What is counted is finite.                                              *)
LEMMA OwedIs ==
  ASSUME TypeOK
  PROVE  /\ IsFiniteSet(InBase(1)) /\ IsFiniteSet(InsertsAt(1)) /\ IsFiniteSet(RemovesAt(1))
         /\ IsFiniteSet(MovesFrom(1)) /\ Owed \in Int
<1>1. InBase(1) \in SUBSET Nodes
  BY InBaseIs, FirstIs
<1>2. IsFiniteSet(InBase(1))
  BY <1>1, NodesFinite
<1>3. InsertsAt(1) \in SUBSET Threads /\ RemovesAt(1) \in SUBSET Threads /\ MovesFrom(1) \in SUBSET Threads
  BY DEF InsertsAt, RemovesAt, MovesFrom
<1>4. \A S \in SUBSET Threads : IsFiniteSet(S)
  BY FS_Subset, HashTableAssumption
<1>5. IsFiniteSet(InsertsAt(1)) /\ IsFiniteSet(RemovesAt(1)) /\ IsFiniteSet(MovesFrom(1))
  BY <1>3, <1>4
<1>6. QED
  BY <1>2, <1>5, FS_CardinalityType DEF Owed

(* Only the thread that moves enters or leaves these sets.                 *)
LEMMA CountersStay ==
  ASSUME TypeOK, NEW t \in Threads, Rehashing(t), Moves(t), \A u \in Threads : Rehashing(u)
  PROVE  /\ InsertsAt(1) \ {t} = InsertsAt(1)' \ {t}
         /\ RemovesAt(1) \ {t} = RemovesAt(1)' \ {t}
         /\ MovesFrom(1) \ {t} = MovesFrom(1)' \ {t}
<1>1. \A u \in Threads : u # t => pc'[u] = pc[u] /\ local'[u] = local[u]
  BY OthersStay
<1>2. ASSUME NEW u \in Threads, u # t, pc[u] = "round_link" PROVE rehash'.entry = rehash.entry
  BY <1>2, OneRehashes DEF Rounds, Moving
<1>3. QED
  BY <1>1, <1>2 DEF InsertsAt, RemovesAt, MovesFrom

(* How a thread leaves the places where it has to count.                   *)
LEMMA Departures ==
  ASSUME NEW t \in Threads, Moves(t)
  PROVE  /\ pc[t] = "count" => CountItem(t)
         /\ pc[t] = "forget" => ForgetItem(t)
         /\ pc[t] = "round_link" => RoundLink(t)
<1>1. CASE Call(t)
  BY <1>1 DEF Call
<1>2. CASE Returns(t)
  BY <1>2 DEF Returns
<1>3. CASE unlockHashTableItem(t)
  BY <1>3 DEF unlockHashTableItem
<1>4. CASE EnterRehash(t)
  BY <1>4 DEF EnterRehash
<1>5. CASE InsertBase(t)
  BY <1>5 DEF InsertBase
<1>6. CASE ReadBases(t)
  BY <1>6 DEF ReadBases
<1>7. CASE SearchMisses(t)
  BY <1>7 DEF SearchMisses, Return
<1>8. CASE SearchAnswers(t)
  BY <1>8 DEF SearchAnswers, Return
<1>9. CASE SearchFinds(t)
  BY <1>9 DEF SearchFinds
<1>10. CASE LockItem(t)
  BY <1>10 DEF LockItem
<1>11. CASE UpdateItem(t)
  BY <1>11 DEF UpdateItem, Return
<1>12. CASE UnlinkItem(t)
  BY <1>12 DEF UnlinkItem
<1>13. CASE ForgetItem(t)
  BY <1>13 DEF ForgetItem, Return
<1>14. CASE AllocNode(t)
  BY <1>14 DEF AllocNode
<1>15. CASE AllocFails(t)
  BY <1>15 DEF AllocFails, Return
<1>16. CASE LockHead(t)
  BY <1>16 DEF LockHead
<1>17. CASE WalkList(t)
  BY <1>17 DEF WalkList
<1>18. CASE WalkOn(t)
  BY <1>18 DEF WalkOn
<1>19. CASE WalkEnds(t)
  BY <1>19 DEF WalkEnds
<1>20. CASE WalkFinds(t)
  BY <1>20 DEF WalkFinds, Return
<1>21. CASE LinkNode(t)
  BY <1>21 DEF LinkNode
<1>22. CASE CountItem(t)
  BY <1>22 DEF CountItem, Return
<1>23. CASE StartRehash(t)
  BY <1>23 DEF StartRehash, Return
<1>24. CASE StartFails(t)
  BY <1>24 DEF StartFails, Return
<1>25. CASE AlreadyStarted(t)
  BY <1>25 DEF AlreadyStarted, Return
<1>26. CASE MapBase(t)
  BY <1>26 DEF MapBase, Return
<1>27. CASE MapHead(t)
  BY <1>27 DEF MapHead
<1>28. CASE MapItem(t)
  BY <1>28 DEF MapItem
<1>29. CASE MapLeave(t)
  BY <1>29 DEF MapLeave, Return
<1>30. CASE Round(t)
  BY <1>30 DEF Round
<1>31. CASE RoundFails(t)
  BY <1>31 DEF RoundFails, Retry
<1>32. CASE LeaveRehash(t)
  BY <1>32 DEF LeaveRehash
<1>33. CASE RoundUpdate(t)
  BY <1>33 DEF RoundUpdate
<1>34. CASE RoundUpdateFails(t)
  BY <1>34 DEF RoundUpdateFails
<1>35. CASE RoundNode(t)
  BY <1>35 DEF RoundNode, NextPos, Retry
<1>36. CASE RoundUnlink(t)
  BY <1>36 DEF RoundUnlink
<1>37. CASE RoundGivesUp(t)
  BY <1>37 DEF RoundGivesUp
<1>38. CASE RoundLink(t)
  BY <1>38 DEF RoundLink
<1>39. CASE RoundEnd(t)
  BY <1>39 DEF RoundEnd
<1>40. QED
  BY <1>1, <1>2, <1>3, <1>4, <1>5, <1>6, <1>7, <1>8, <1>9, <1>10, <1>11, <1>12, <1>13, <1>14,
     <1>15, <1>16, <1>17, <1>18, <1>19, <1>20, <1>21, <1>22, <1>23, <1>24, <1>25, <1>26, <1>27,
     <1>28, <1>29, <1>30, <1>31, <1>32, <1>33, <1>34, <1>35, <1>36, <1>37, <1>38, <1>39 DEF
     Moves, Step

(* How the nodes of the first base become more or fewer.                   *)
LEMMA BaseTaken ==
  ASSUME TypeOK, Apart, NEW s \in Entries, NEW z, Taken(s, z)
  PROVE  Cardinality(InBase(1)') = Cardinality(InBase(1)) - (IF s[1] = 1 THEN 1 ELSE 0)
<1>1. /\ z \in List(s) /\ List(s)' = List(s) \ {z} /\ s \in Spots
      /\ \A e \in Entries \ {s} : List(e)' = List(e) /\ z \notin List(e)
  BY InBaseIs DEF Taken, AsBefore, Apart
<1>2. InBase(1) \ {z} = InBase(1)' \ {z}
  BY <1>1, InBaseIs
<1>3. z \notin InBase(1)' /\ (z \in InBase(1) <=> s[1] = 1)
  BY <1>1, InBaseIs
<1>4. PICK T : T = InBase(1)'
  OBVIOUS
<1>5. Cardinality(T) = Cardinality(InBase(1)) - (IF s[1] = 1 THEN 1 ELSE 0)
  <2>1. PICK S : S = InBase(1)
    OBVIOUS
  <2>2. IsFiniteSet(S) /\ S \ {z} = T \ {z} /\ z \notin T /\ (z \in S <=> s[1] = 1)
    BY <1>2, <1>3, <1>4, <2>1, OwedIs
  <2>3. Cardinality(T) = Cardinality(S) - (IF s[1] = 1 THEN 1 ELSE 0)
    BY <2>2, CardinalityMoves
  <2>4. QED
    BY <2>1, <2>3
<1>6. QED
  BY <1>4, <1>5

(* The same for a node that a list gets.                                   *)
LEMMA BaseGiven ==
  ASSUME TypeOK, Apart, NEW s \in Entries, NEW t \in Threads, NEW z \in Private(t), Given(s, z)
  PROVE  Cardinality(InBase(1)') = Cardinality(InBase(1)) + (IF s[1] = 1 THEN 1 ELSE 0)
<1>1. /\ List(s)' = List(s) \cup {z} /\ s \in Spots
      /\ \A e \in Entries \ {s} : List(e)' = List(e)
      /\ \A e \in Entries : z \notin List(e)
  BY InBaseIs DEF Given, AsBefore, Apart
<1>2. InBase(1) \ {z} = InBase(1)' \ {z}
  BY <1>1, InBaseIs
<1>3. z \notin InBase(1) /\ (z \in InBase(1)' <=> s[1] = 1)
  BY <1>1, InBaseIs
<1>4. PICK S, T : S = InBase(1) /\ T = InBase(1)'
  OBVIOUS
<1>5. IsFiniteSet(S) /\ S \ {z} = T \ {z} /\ z \notin S /\ (z \in T <=> s[1] = 1)
  BY <1>2, <1>3, <1>4, OwedIs
<1>6. Cardinality(T) = Cardinality(S) + (IF s[1] = 1 THEN 1 ELSE 0)
  BY <1>5, CardinalityMoves
<1>7. QED
  BY <1>4, <1>6

(* 1 when a condition holds.                                               *)
Bit(b) == IF b THEN 1 ELSE 0

(* CardinalityMoves with bits.                                             *)
LEMMA CounterMoves ==
  ASSUME NEW S, NEW T, IsFiniteSet(S), NEW z, S \ {z} = T \ {z}
  PROVE  /\ Cardinality(S) \in Nat
         /\ Cardinality(T) = Cardinality(S) + Bit(z \in T) - Bit(z \in S)
BY CardinalityMoves DEF Bit

(* By how much a step changes what is owed.                                *)
LEMMA OwedMoves ==
  ASSUME TypeOK, NEW t \in Threads, Rehashing(t), Moves(t), \A u \in Threads : Rehashing(u),
         NEW d \in Int, Cardinality(InBase(1)') = Cardinality(InBase(1)) + d,
         NEW i, i = Bit(t \in InsertsAt(1)') - Bit(t \in InsertsAt(1)),
         NEW r, r = Bit(t \in RemovesAt(1)') - Bit(t \in RemovesAt(1)),
         NEW m, m = Bit(t \in MovesFrom(1)') - Bit(t \in MovesFrom(1))
  PROVE  Owed' = Owed + d - i + r + m
<1>1. PICK I, J : I = InsertsAt(1) /\ J = InsertsAt(1)'
  OBVIOUS
<1>2. PICK R, S : R = RemovesAt(1) /\ S = RemovesAt(1)'
  OBVIOUS
<1>3. PICK M1, M2 : M1 = MovesFrom(1) /\ M2 = MovesFrom(1)'
  OBVIOUS
<1>4. IsFiniteSet(I) /\ IsFiniteSet(R) /\ IsFiniteSet(M1)
  BY <1>1, <1>2, <1>3, OwedIs
<1>5. I \ {t} = J \ {t} /\ R \ {t} = S \ {t} /\ M1 \ {t} = M2 \ {t}
  BY <1>1, <1>2, <1>3, CountersStay
<1>6. /\ Cardinality(I) \in Nat /\ Cardinality(J) = Cardinality(I) + Bit(t \in J) - Bit(t \in I)
      /\ Cardinality(R) \in Nat /\ Cardinality(S) = Cardinality(R) + Bit(t \in S) - Bit(t \in R)
      /\ Cardinality(M1) \in Nat /\ Cardinality(M2) = Cardinality(M1) + Bit(t \in M2) - Bit(t \in M1)
  BY <1>4, <1>5, CounterMoves
<1>7. PICK B, C : B = Cardinality(InBase(1)) /\ C = Cardinality(InBase(1)')
  OBVIOUS
<1>8. B \in Nat /\ C = B + d
  BY <1>7, OwedIs, FS_CardinalityType
<1>9. Owed = B - Cardinality(I) + Cardinality(R) + Cardinality(M1)
  BY <1>1, <1>2, <1>3, <1>7 DEF Owed
<1>10. Owed' = C - Cardinality(J) + Cardinality(S) + Cardinality(M2)
  BY <1>1, <1>2, <1>3, <1>7 DEF Owed
<1>11. i = Bit(t \in J) - Bit(t \in I) /\ r = Bit(t \in S) - Bit(t \in R) /\ m = Bit(t \in M2) - Bit(t \in M1)
  BY <1>1, <1>2, <1>3
<1>12. QED
  BY <1>6, <1>8, <1>9, <1>10, <1>11 DEF Bit

(* The count goes with what is owed, also when it wraps.                   *)
LEMMA CountsFollow ==
  ASSUME TypeOK, CountsMatch, NEW d \in {-1, 0, 1}, Owed' = Owed + d,
         items_count'[1] = CASE d = 1 -> CountUp(items_count[1])
                             [] d = 0 -> items_count[1]
                             [] d = -1 -> CountDown(items_count[1])
  PROVE  CountsMatch'
<1>1. PICK x, c : x = Owed /\ c = items_count[1]
  OBVIOUS
<1>2. x \in Int /\ c = x % CountMod /\ CountMod \in Nat \ {0}
  BY <1>1, OwedIs, CountsMatchIs, FS_CardinalityType, HashTableAssumption
<1>3. (c + 1) % CountMod = (x + 1) % CountMod /\ (c - 1) % CountMod = (x - 1) % CountMod
  BY <1>2, RemainderUp, RemainderDown
<1>4. CASE d = 1
  <2>1. items_count'[1] = (c + 1) % CountMod /\ Owed' = x + 1
    BY <1>1, <1>4 DEF CountUp
  <2>2. QED
    BY <1>3, <2>1, CountsMatchIs
<1>5. CASE d = 0
  <2>1. items_count'[1] = c /\ Owed' = x
    BY <1>1, <1>2, <1>5
  <2>2. QED
    BY <1>2, <2>1, CountsMatchIs
<1>6. CASE d = -1
  <2>1. items_count'[1] = (c - 1) % CountMod /\ Owed' = x - 1
    BY <1>1, <1>2, <1>6 DEF CountDown
  <2>2. QED
    BY <1>3, <2>1, CountsMatchIs
<1>7. QED
  BY <1>4, <1>5, <1>6

(* Every step counts what it moves, now or later.                          *)
LEMMA CountsKept ==
  ASSUME TypeOK, TableRight, NoCircles, Apart, Keyed, NEW t \in Threads, Flow(t), Looks(t),
         Rehashing(t), Found(t), Moves(t), CountsMatch, \A u \in Threads : Rehashing(u)
  PROVE  CountsMatch'
<1>1. /\ t \in InsertsAt(1) <=> pc[t] = "count" /\ local[t].insert_base = 1
      /\ t \in RemovesAt(1) <=> pc[t] = "forget" /\ local[t].bases[1] = 1
      /\ t \in MovesFrom(1) <=> pc[t] = "round_link" /\ rehash.entry[1] = 1
  BY DEF InsertsAt, RemovesAt, MovesFrom
<1>2. /\ t \in InsertsAt(1)' <=> pc'[t] = "count" /\ local'[t].insert_base = 1
      /\ t \in RemovesAt(1)' <=> pc'[t] = "forget" /\ local'[t].bases[1] = 1
      /\ t \in MovesFrom(1)' <=> pc'[t] = "round_link" /\ rehash'.entry[1] = 1
  BY DEF InsertsAt, RemovesAt, MovesFrom
<1>3. PICK i : i = Bit(t \in InsertsAt(1)') - Bit(t \in InsertsAt(1))
  OBVIOUS
<1>4. PICK r : r = Bit(t \in RemovesAt(1)') - Bit(t \in RemovesAt(1))
  OBVIOUS
<1>5. PICK m : m = Bit(t \in MovesFrom(1)') - Bit(t \in MovesFrom(1))
  OBVIOUS
<1>6. Owed \in Int /\ Cardinality(InBase(1)) \in Nat
  BY OwedIs, FS_CardinalityType
(* It suffices to know by how much the base and the three sets change.     *)
<1>7. ASSUME NEW d \in {-1, 0, 1}, NEW c \in Int,
             Cardinality(InBase(1)') = Cardinality(InBase(1)) + c, d = c - i + r + m,
             i \in Int, r \in Int, m \in Int,
             items_count'[1] = CASE d = 1 -> CountUp(items_count[1])
                                 [] d = 0 -> items_count[1]
                                 [] d = -1 -> CountDown(items_count[1])
      PROVE  CountsMatch'
  <2>1. Owed' = Owed + c - i + r + m
    BY <1>3, <1>4, <1>5, <1>7, OwedMoves
  <2>2. Owed' = Owed + d
    BY <1>6, <1>7, <2>1
  <2>3. QED
    BY <1>7, <2>2, CountsFollow
<1>8. CASE LinkNode(t)
  <2>1. PICK s, z : s = InsertEntry(t) /\ z = local[t].new_node
    OBVIOUS
  <2>2. Given(s, z) /\ s \in Entries /\ z \in Private(t)
    BY <1>8, <2>1, LinkEffect
  <2>3. s[1] = local[t].insert_base
    BY <1>8, <2>1, EntryOfInsert DEF LinkNode, Flow
  <2>4. Cardinality(InBase(1)') = Cardinality(InBase(1)) + Bit(s[1] = 1)
    BY <2>2, BaseGiven DEF Bit
  <2>5. i = Bit(s[1] = 1) /\ r = 0 /\ m = 0
    BY <1>1, <1>2, <1>3, <1>4, <1>5, <1>8, <2>3 DEF LinkNode, TypeOK, Bit
  <2>6. items_count'[1] = items_count[1]
    BY <1>8 DEF LinkNode
  <2>7. Bit(s[1] = 1) \in Int /\ 0 = Bit(s[1] = 1) - i + r + m
    BY <2>5 DEF Bit
  <2>8. QED
    BY <1>7, <2>4, <2>5, <2>6, <2>7
<1>9. CASE RoundLink(t)
  <2>1. PICK s, z : s = TargetEntry /\ z = rehash.node
    OBVIOUS
  <2>2. Given(s, z) /\ s \in Entries /\ z \in Private(t)
    BY <1>9, <2>1, RoundLinkEffect
  <2>3. s[1] = 2
    BY <1>9, <2>1, TargetIs DEF RoundLink
  <2>4. Cardinality(InBase(1)') = Cardinality(InBase(1)) + 0
    BY <1>6, <2>2, <2>3, BaseGiven
  <2>5. current_base = 1 /\ rehash.entry[1] = 1
    BY <1>9 DEF RoundLink, Rehashing, Rounds, Moving
  <2>6. i = 0 /\ r = 0 /\ m = -1
    BY <1>1, <1>2, <1>3, <1>4, <1>5, <1>9, <2>5 DEF RoundLink, TypeOK, Bit
  <2>7. items_count'[1] = CountDown(items_count[1])
    BY <1>9, <2>5 DEF RoundLink, TypeOK, Bases
  <2>8. QED
    BY <1>7, <2>4, <2>6, <2>7
<1>10. CASE UnlinkItem(t)
  <2>1. PICK s, z : s = Entry(t) /\ z = local[t].p
    OBVIOUS
  <2>2. Taken(s, z) /\ s \in Entries
    BY <1>10, <2>1, UnlinkEffect
  <2>3. s[1] = local[t].bases[1]
    BY <1>10, <2>1, EntryOfCall DEF UnlinkItem
  <2>4. Cardinality(InBase(1)') = Cardinality(InBase(1)) + (0 - Bit(s[1] = 1))
    BY <1>6, <2>2, BaseTaken DEF Bit
  <2>5. local'[t].bases = local[t].bases /\ pc'[t] = "forget" /\ pc[t] = "item"
    BY <1>10 DEF UnlinkItem, TypeOK, CallLocals
  <2>6. i = 0 /\ r = Bit(s[1] = 1) /\ m = 0
    BY <1>1, <1>2, <1>3, <1>4, <1>5, <2>3, <2>5 DEF Bit
  <2>7. items_count'[1] = items_count[1]
    BY <1>10 DEF UnlinkItem
  <2>8. 0 - Bit(s[1] = 1) \in Int /\ r \in Int /\ 0 = (0 - Bit(s[1] = 1)) - i + r + m
    BY <2>6 DEF Bit
  <2>9. QED
    BY <1>7, <2>4, <2>6, <2>7, <2>8
<1>11. CASE RoundUnlink(t)
  <2>1. PICK s, z : s = rehash.entry /\ z = rehash.node
    OBVIOUS
  <2>2. Taken(s, z) /\ s \in Entries
    BY <1>11, <2>1, RoundUnlinkEffect
  <2>3. Cardinality(InBase(1)') = Cardinality(InBase(1)) + (0 - Bit(s[1] = 1))
    BY <1>6, <2>2, BaseTaken DEF Bit
  <2>4. rehash'.entry = rehash.entry /\ pc'[t] = "round_link" /\ pc[t] = "round_target"
    BY <1>11 DEF RoundUnlink, TypeOK, RehashLocals
  <2>5. i = 0 /\ r = 0 /\ m = Bit(s[1] = 1)
    BY <1>1, <1>2, <1>3, <1>4, <1>5, <2>1, <2>4 DEF Bit
  <2>6. items_count'[1] = items_count[1]
    BY <1>11 DEF RoundUnlink
  <2>7. 0 - Bit(s[1] = 1) \in Int /\ m \in Int /\ 0 = (0 - Bit(s[1] = 1)) - i + r + m
    BY <2>5 DEF Bit
  <2>8. QED
    BY <1>7, <2>3, <2>5, <2>6, <2>7
<1>12. CASE ~(LinkNode(t) \/ RoundLink(t) \/ UnlinkItem(t) \/ RoundUnlink(t))
  <2>1. ASSUME NEW e \in Entries PROVE Linked(e)' = Linked(e)
    BY <1>12, Enters, Leaves
  <2>2. InBase(1)' = InBase(1)
    BY <2>1 DEF InBase
  <2>3. Cardinality(InBase(1)') = Cardinality(InBase(1)) + 0
    BY <1>6, <2>2
  <2>4. t \notin InsertsAt(1)' /\ t \notin RemovesAt(1)' /\ t \notin MovesFrom(1)' /\ t \notin MovesFrom(1)
    BY <1>1, <1>2, <1>12, Arrivals, Departures
  <2>5. CASE CountItem(t)
    <3>1. t \notin RemovesAt(1) /\ (t \in InsertsAt(1) <=> local[t].insert_base = 1)
      BY <1>1, <2>5 DEF CountItem
    <3>2. i = 0 - Bit(local[t].insert_base = 1) /\ r = 0 /\ m = 0
      BY <1>3, <1>4, <1>5, <2>4, <3>1 DEF Bit
    <3>3. CASE local[t].insert_base = 1
      <4>1. items_count'[1] = CountUp(items_count[1])
        BY <2>5, <3>3 DEF CountItem, TypeOK, Bases
      <4>2. i = -1
        BY <3>2, <3>3 DEF Bit
      <4>3. QED
        BY <1>7, <2>3, <3>2, <4>1, <4>2
    <3>4. CASE local[t].insert_base # 1
      <4>1. items_count'[1] = items_count[1]
        BY <2>5, <3>4 DEF CountItem, TypeOK, Bases
      <4>2. i = 0
        BY <1>3, <2>4, <3>1, <3>4 DEF Bit
      <4>3. QED
        BY <1>7, <2>3, <3>2, <4>1, <4>2
    <3>5. QED
      BY <3>3, <3>4
  <2>6. CASE ForgetItem(t)
    <3>1. t \notin InsertsAt(1) /\ (t \in RemovesAt(1) <=> local[t].bases[1] = 1)
      BY <1>1, <2>6 DEF ForgetItem
    <3>2. i = 0 /\ r = 0 - Bit(local[t].bases[1] = 1) /\ m = 0
      BY <1>3, <1>4, <1>5, <2>4, <3>1 DEF Bit
    <3>3. CASE local[t].bases[1] = 1
      <4>1. items_count'[1] = CountDown(items_count[1])
        BY <2>6, <3>3 DEF ForgetItem, TypeOK, Bases
      <4>2. r = -1
        BY <3>2, <3>3 DEF Bit
      <4>3. QED
        BY <1>7, <2>3, <3>2, <4>1, <4>2
    <3>4. CASE local[t].bases[1] # 1
      <4>1. items_count'[1] = items_count[1]
        BY <2>6, <3>4 DEF ForgetItem, TypeOK, Bases
      <4>2. r = 0
        BY <1>4, <2>4, <3>1, <3>4 DEF Bit
      <4>3. QED
        BY <1>7, <2>3, <3>2, <4>1, <4>2
    <3>5. QED
      BY <3>3, <3>4
  <2>7. CASE ~(CountItem(t) \/ ForgetItem(t))
    <3>1. t \notin InsertsAt(1) /\ t \notin RemovesAt(1)
      BY <1>1, <2>7, Departures
    <3>2. i = 0 /\ r = 0 /\ m = 0
      BY <1>3, <1>4, <1>5, <2>4, <3>1 DEF Bit
    <3>3. items_count'[1] = items_count[1]
      BY <1>12, <2>7, CountsMove
    <3>4. QED
      BY <1>7, <2>3, <3>2, <3>3
  <2>8. QED
    BY <2>5, <2>6, <2>7
<1>13. QED
  BY <1>8, <1>9, <1>10, <1>11, <1>12

-----------------------------------------------------------------------------
(* The invariant                                                           *)

(* createHashTable makes the invariant true.                               *)
LEMMA InitRight == Init => IInv
<1> SUFFICES ASSUME Init PROVE IInv
  OBVIOUS
<1>0. FirstSize \in Nat /\ FirstSize > 0 /\ CountMod \in Nat \ {0}
  BY SizesAre, FS_CardinalityType, HashTableAssumption
<1>1. TypeOK
  <2>p. ASSUME NEW S, NEW x \in S, NEW y \in S PROVE <<x, y>> \in [Bases -> S]
    BY DEF Bases
  <2>1. /\ current_base \in Bases /\ rehash_insert_base \in Bases \cup {0}
        /\ size \in [Bases -> Nat] /\ is_rehashing \in BOOLEAN
        /\ rehash_lock \in Threads \cup {NULL} /\ update_lock \in [Bases -> BOOLEAN]
        /\ locks \subseteq ((Entries \cup Nodes) \X Threads \X Modes)
    <3>1. current_base \in Bases /\ rehash_insert_base \in Bases \cup {0} /\ is_rehashing \in BOOLEAN
          /\ rehash_lock \in Threads \cup {NULL}
      BY DEF Init, Bases
    <3>2. size \in [Bases -> Nat] /\ update_lock \in [Bases -> BOOLEAN]
      BY <1>0, <2>p DEF Init
    <3>3. locks = {}
      BY DEF Init
    <3>4. QED
      BY <3>1, <3>2, <3>3
  <2>2. 0 \in Counted /\ rehash_pos \in 0..(MaxSize - 1)
    BY <1>0, SizesAre DEF Counted, Init
  <2>3. /\ head \in [Entries -> Nodes \cup {NULL}]
        /\ list_length \in [Entries -> Counted]
        /\ items_count \in [Bases -> Counted] /\ collision_count \in [Bases -> BOOLEAN]
        /\ node \in [Nodes -> NodeContents] /\ free_list \in Nodes \cup {NULL}
    <3>1. items_count \in [Bases -> Counted] /\ collision_count \in [Bases -> BOOLEAN]
      BY <2>2, <2>p DEF Init
    <3>2. head \in [Entries -> Nodes \cup {NULL}] /\ list_length \in [Entries -> Counted]
      BY <2>2 DEF Init
    <3>3. node \in [Nodes -> NodeContents] /\ free_list \in Nodes \cup {NULL}
      BY AreaAssumption DEF Init, NodeContents
    <3>4. QED
      BY <3>1, <3>2, <3>3
  <2>4. rehash \in RehashLocals
    <3>1. 0 \in 0..(REHASH_STEPS + 1) /\ 0 \in 0..REHASH_RETRY
      BY HashTableAssumption
    <3>2. QED
      BY <3>1 DEF Init, NoRehash, RehashLocals
  <2>5. /\ pc \in [Threads -> PCs] /\ call \in [Threads -> Calls \cup {NoCall}]
        /\ local \in [Threads -> CallLocals] /\ answer \in [Threads -> Answers]
        /\ late_calls \in Nat
    BY NewLocals DEF Init, PCs, Answers
  <2>6. QED
    BY <2>1, <2>2, <2>3, <2>4, <2>5 DEF TypeOK
<1>2. TableRight
  BY <1>0 DEF Init, TableRight, KnownBases
<1>3. Exclusive
  BY DEF Init, Exclusive
<1>4. ASSUME NEW t \in Threads PROVE Flow(t) /\ Looks(t) /\ Claims(t) /\ Rehashing(t) /\ Found(t)
  <2>1. pc[t] = "idle" /\ local[t] = NoLocals /\ call[t] = NoCall /\ rehash_lock # t
    BY HashTableAssumption DEF Init
  <2>2. Flow(t)
    BY <2>1, NoLocalsIs DEF Flow, Inside, Rounds, Moving, NoCall
  <2>3. Looks(t)
    BY <2>1, NoLocalsIs DEF Looks, BaseLists
  <2>4. Held(t) = NULL /\ ~Inserting(t)
    BY <2>1, NoLocalsIs DEF Held, Inserting
  <2>5. Claims(t) /\ Found(t)
    BY <2>1, <2>4 DEF Claims, Found
  <2>6. Rehashing(t)
    BY <2>1 DEF Rehashing, Rounds, Moving
  <2>7. QED
    BY <2>2, <2>3, <2>5, <2>6
<1>5. \A e \in Entries : Linked(e) = {} /\ List(e) = {}
  <2>1. \A e \in Entries : Linked(e) = {}
    BY DEF Init, Linked, OnTheWay
  <2>2. QED
    BY <2>1, SpotsAre
<1>6. List(Free) = Nodes
  <2>1. List(Free) = Way(node, FirstNode) /\ FirstNode \in Nodes
    BY SpotsAre, ListsAre, AreaAssumption DEF Init
  <2>2. \A n \in Nodes : node[n].next = NextNode[n]
    BY DEF Init
  <2>3. /\ Way(node, FirstNode) \in SUBSET Nodes /\ FirstNode \in Way(node, FirstNode)
        /\ \A m \in Way(node, FirstNode) : node[m].next \in Way(node, FirstNode) \cup {NULL}
    BY <1>1, <2>1, FirstIs, WayIs, HashTableAssumption
  <2>4. QED
    BY <2>1, <2>2, <2>3, AreaAssumption
<1>7. \A t \in Threads : Private(t) = {}
  BY NoLocalsIs DEF Init, Private
<1>8. NoCircles
  <2>1. PICK place \in [Nodes -> 1..Cardinality(Nodes)] :
          \A n \in Nodes : NextNode[n] # NULL => place[NextNode[n]] > place[n]
    BY AreaAssumption
  <2>2. Cardinality(Nodes) \in Nat
    BY FS_CardinalityType, HashTableAssumption
  <2>3. ASSUME NEW n \in Nodes PROVE n \notin OnTheWay(node[n].next)
    <3> DEFINE S == {m \in Nodes : place[m] > place[n]}
    <3>1. \A m \in Nodes : node[m].next = NextNode[m] /\ NextNode[m] \in Nodes \cup {NULL}
      BY AreaAssumption DEF Init
    <3>2. node[n].next \in S \cup {NULL}
      BY <2>1, <3>1
    <3>3. \A m \in S : node[m].next \in S \cup {NULL}
      <4>1. ASSUME NEW m \in S, NextNode[m] # NULL PROVE NextNode[m] \in S
        <5>1. place[n] \in Int /\ place[m] \in Int /\ place[NextNode[m]] \in Int
          BY <2>1, <2>2, <3>1, <4>1
        <5>2. QED
          BY <2>1, <3>1, <4>1, <5>1
      <4>2. QED
        BY <3>1, <4>1
    <3>4. S \in SUBSET Nodes /\ n \notin S
      BY <2>1, <2>2
    <3> HIDE DEF S
    <3>5. Way(node, node[n].next) \subseteq S
      BY <3>2, <3>3, <3>4, WayLeast
    <3>6. QED
      BY <3>4, <3>5, OnTheWayIs
  <2>4. QED
    BY <1>1, <2>3, FirstIs DEF NoCircles
<1>9. Apart
  BY <1>5, <1>6, <1>7 DEF Apart, Spots
<1>10. Keyed
  BY <1>5, <1>7 DEF Keyed
<1>11. Valued
  BY HashTableAssumption DEF Valued, Init
<1>12. Lengths
  BY <1>5, FS_EmptySet DEF Lengths, Init
<1>13. CountsMatch
  <2>1. InBase(1) = {} /\ InsertsAt(1) = {} /\ RemovesAt(1) = {} /\ MovesFrom(1) = {}
    BY <1>5 DEF InBase, InsertsAt, RemovesAt, MovesFrom, Init
  <2>2. Owed = 0
    BY <2>1, FS_EmptySet DEF Owed
  <2>3. items_count[1] = 0 /\ 0 % CountMod = 0
    BY <1>0 DEF Init
  <2>4. QED
    BY <2>2, <2>3, CountsMatchIs
<1>14. QED
  BY <1>1, <1>2, <1>3, <1>4, <1>8, <1>9, <1>10, <1>11, <1>12, <1>13 DEF IInv

(* All types together.                                                     *)
LEMMA TypeKept ==
  ASSUME IInv, NEW t \in Threads, Moves(t), late_calls' \in Nat
  PROVE  TypeOK'
<1>1. /\ TypeOK /\ TableRight /\ Keyed /\ Valued
      /\ Flow(t) /\ Looks(t) /\ Rehashing(t) /\ Found(t)
  BY DEF IInv
<1>2. /\ current_base' \in Bases /\ rehash_insert_base' \in Bases \cup {0}
      /\ size' \in [Bases -> Nat] /\ is_rehashing' \in BOOLEAN
      /\ rehash_pos' \in 0..(MaxSize - 1)
  BY <1>1, TableTypes
<1>3. /\ head' \in [Entries -> Nodes \cup {NULL}] /\ list_length' \in [Entries -> Counted]
      /\ node' \in [Nodes -> NodeContents] /\ free_list' \in Nodes \cup {NULL}
  BY <1>1, ListTypes
<1>4. items_count' \in [Bases -> Counted] /\ collision_count' \in [Bases -> BOOLEAN]
  BY <1>1, CountTypes
<1>5. /\ rehash' \in RehashLocals
      /\ update_lock' \in [Bases -> BOOLEAN] /\ rehash_lock' \in Threads \cup {NULL}
      /\ locks' \subseteq ((Entries \cup Nodes) \X Threads \X Modes)
  BY <1>1, RehashTypes, SyncTypes, LockTypes
<1>6. /\ pc' \in [Threads -> PCs] /\ call' \in [Threads -> Calls \cup {NoCall}]
      /\ answer' \in [Threads -> Answers] /\ local' \in [Threads -> CallLocals]
  BY <1>1, ControlTypes, AnswerTypes, LocalTypes
<1>7. QED
  BY <1>2, <1>3, <1>4, <1>5, <1>6 DEF TypeOK

(* A step of a thread keeps the invariant.                                 *)
LEMMA IInvKept ==
  ASSUME IInv, NEW t \in Threads, Moves(t), late_calls' \in Nat
  PROVE  IInv'
<1>1. /\ TypeOK /\ TableRight /\ Exclusive /\ NoCircles /\ Apart /\ Keyed /\ Valued
      /\ Lengths /\ CountsMatch
      /\ \A u \in Threads : Flow(u) /\ Looks(u) /\ Claims(u) /\ Rehashing(u) /\ Found(u)
  BY DEF IInv
<1>2. Flow(t) /\ Looks(t) /\ Claims(t) /\ Rehashing(t) /\ Found(t)
  BY <1>1
<1>3. TypeOK'
  BY TypeKept
<1>4. TableRight' /\ KnownBases \subseteq KnownBases' /\ \A b \in KnownBases : size'[b] = size[b]
  BY <1>1, <1>2, TableKept
<1>5. Exclusive' /\ Valued'
  BY <1>1, <1>2, ExclusiveKept, ValuedKept
<1>6. NoCircles' /\ Apart' /\ Keyed'
  BY <1>1, <1>2, Effects, ApartKept, KeyedKept
<1>7. Lengths' /\ CountsMatch'
  BY <1>1, <1>2, LengthsKept, CountsKept
<1>8. Flow(t)' /\ Looks(t)' /\ Claims(t)' /\ Rehashing(t)' /\ Found(t)'
  BY <1>1, <1>2, FlowKept, LooksKept, ClaimsKept, RehashingKept, FoundKept
<1>9. ASSUME NEW u \in Threads, u # t
      PROVE  Flow(u)' /\ Looks(u)' /\ Claims(u)' /\ Rehashing(u)' /\ Found(u)'
  <2>1. Flow(u) /\ Looks(u) /\ Claims(u) /\ Rehashing(u) /\ Found(u)
    BY <1>1
  <2>2. pc'[u] = pc[u] /\ local'[u] = local[u] /\ call'[u] = call[u]
    BY <1>1, <1>9, OthersStay
  <2>3. Flow(u)'
    BY <2>1, <2>2 DEF Flow
  <2>4. Looks(u)'
    BY <1>4, <2>1, <2>2, LooksOfOthers
  <2>5. Claims(u)' /\ Rehashing(u)' /\ Found(u)'
    BY <1>1, <1>2, <1>9, <2>1, ClaimsOfOthers, RehashingOfOthers, FoundOfOthers
  <2>6. QED
    BY <2>3, <2>4, <2>5
<1>10. \A u \in Threads : Flow(u)' /\ Looks(u)' /\ Claims(u)' /\ Rehashing(u)' /\ Found(u)'
  BY <1>8, <1>9
<1>11. QED
  BY <1>3, <1>4, <1>5, <1>6, <1>7, <1>10 DEF IInv

(* A step that changes nothing.                                            *)
LEMMA IInvStays ==
  ASSUME IInv, UNCHANGED vars
  PROVE  IInv'
<1>1. UNCHANGED <<Table, Lists, Counts, Sync, pc, call, local, late_calls, answer>>
  BY DEF vars
<1>2. TypeOK' /\ TableRight' /\ Exclusive' /\ Valued'
  BY <1>1 DEF IInv, TypeOK, TableRight, KnownBases, Exclusive, Valued
<1>3. \A e : Linked(e)' = Linked(e)
  BY <1>1, LinkedStays
<1>4. Lengths' /\ CountsMatch'
  BY <1>1, <1>3 DEF IInv, Lengths, CountsMatch, InsertsAt, RemovesAt, MovesFrom
<1>5. \A s : List(s)' = List(s)
  BY <1>1 DEF List, First, OnTheWay
<1>6. \A t \in Threads : Private(t)' = Private(t)
  BY <1>1 DEF Private
<1>7. Apart'
  BY <1>5, <1>6 DEF IInv, Apart
<1>8. Keyed'
  BY <1>1, <1>3, <1>6 DEF IInv, Keyed, KnownBases, EntryOf
<1>9. NoCircles'
  BY <1>1, <1>5 DEF IInv, NoCircles, OnTheWay
<1>10. ASSUME NEW t \in Threads PROVE Flow(t)' /\ Looks(t)' /\ Claims(t)' /\ Rehashing(t)' /\ Found(t)'
  <2>1. Flow(t) /\ Looks(t) /\ Claims(t) /\ Rehashing(t) /\ Found(t)
    BY DEF IInv
  <2>2. Flow(t)' /\ Looks(t)' /\ Rehashing(t)'
    BY <1>1, <2>1 DEF Flow, Looks, Rehashing, KnownBases
  <2>3. Entry(t)' = Entry(t) /\ InsertEntry(t)' = InsertEntry(t) /\ TargetEntry' = TargetEntry
    BY <1>1 DEF Entry, InsertEntry, TargetEntry, EntryOf
  <2>4. Held(t)' = Held(t) /\ (Inserting(t)' <=> Inserting(t))
    BY <1>1 DEF Held, Inserting
  <2>5. Claims(t)'
    BY <1>1, <2>1, <2>3, <2>4 DEF Claims, HeadMode
  <2>6. Found(t)'
    BY <1>1, <1>3, <2>1, <2>3, <2>4 DEF Found, Linked, OnTheWay
  <2>7. QED
    BY <2>2, <2>5, <2>6
<1>11. QED
  BY <1>2, <1>4, <1>7, <1>8, <1>9, <1>10 DEF IInv

(* Every step does.                                                        *)
LEMMA NextKeeps == IInv /\ [Next]_vars => IInv'
<1> SUFFICES ASSUME IInv, [Next]_vars PROVE IInv'
  OBVIOUS
<1>1. late_calls \in Nat
  BY DEF IInv, TypeOK
<1>2. CASE \E t \in Threads : Call(t) \/ (Step(t) /\ UNCHANGED late_calls)
  <2>1. PICK t \in Threads : Call(t) \/ (Step(t) /\ UNCHANGED late_calls)
    BY <1>2
  <2>2. Moves(t) /\ late_calls' \in Nat
    BY <1>1, <2>1 DEF Moves, Call
  <2>3. QED
    BY <2>2, IInvKept
<1>3. CASE Done \/ UNCHANGED vars
  BY <1>3, IInvStays DEF Done
<1>4. QED
  BY <1>2, <1>3 DEF Next

(* IInv: the locks, the locals and the lists agree at every moment of      *)
(* every run.                                                              *)
THEOREM InductiveInvariant == Spec => []IInv
BY InitRight, NextKeeps, PTL DEF Spec

-----------------------------------------------------------------------------
(* What follows                                                            *)

(* TypeOK: every variable of the table and of its callers keeps its type.  *)
THEOREM TypeCorrect == Spec => []TypeOK
<1>1. IInv => TypeOK
  BY DEF IInv
<1>2. QED
  BY <1>1, InductiveInvariant, PTL

(* Sets of one element and of none.                                        *)
LEMMA Single ==
  /\ \A S, x : S = {x} => Cardinality(S) = 1
  /\ \A S : S = {} => Cardinality(S) = 0
BY FS_Singleton, FS_EmptySet

(* Apart in the words of NodesInOnePlace.                                  *)
LEMMA OnePlace == IInv => NodesInOnePlace
<1> SUFFICES ASSUME IInv, NEW n \in Nodes
             PROVE  Cardinality({e \in Entries : n \in [x \in Entries |-> Linked(x)][e]})
                      + Cardinality({t \in Threads : n \in Private(t)})
                      + Cardinality(OnTheWay(free_list) \cap {n}) = 1
  BY DEF NodesInOnePlace
<1>1. Apart
  BY DEF IInv
<1>2. /\ \A e \in Entries : e \in Spots /\ e # Free /\ List(e) = Linked(e)
      /\ Free \in Spots /\ List(Free) = OnTheWay(free_list)
  BY SpotsAre
<1>3. Spots = Entries \cup {Free}
  BY DEF Spots
<1>4. PICK E, T, F : /\ E = {e \in Entries : n \in [x \in Entries |-> Linked(x)][e]}
                     /\ T = {t \in Threads : n \in Private(t)}
                     /\ F = OnTheWay(free_list) \cap {n}
  OBVIOUS
<1>5. E = {e \in Entries : n \in List(e)} /\ F = List(Free) \cap {n}
  BY <1>2, <1>4
<1>6. CASE \E e \in Entries : n \in List(e)
  <2>1. PICK e \in Entries : n \in List(e)
    BY <1>6
  <2>2. E = {e} /\ T = {} /\ F = {}
    BY <1>1, <1>2, <1>4, <1>5, <2>1 DEF Apart
  <2>3. Cardinality(E) = 1 /\ Cardinality(T) = 0 /\ Cardinality(F) = 0
    BY <2>2, Single
  <2>4. QED
    BY <1>4, <2>3
<1>7. CASE n \in List(Free)
  <2>1. E = {} /\ T = {} /\ F = {n}
    BY <1>1, <1>2, <1>4, <1>5, <1>7 DEF Apart
  <2>2. Cardinality(E) = 0 /\ Cardinality(T) = 0 /\ Cardinality(F) = 1
    BY <2>1, Single
  <2>3. QED
    BY <1>4, <2>2
<1>8. CASE \E t \in Threads : n \in Private(t)
  <2>1. PICK t \in Threads : n \in Private(t)
    BY <1>8
  <2>2. E = {} /\ T = {t} /\ F = {}
    BY <1>1, <1>2, <1>4, <1>5, <2>1 DEF Apart
  <2>3. Cardinality(E) = 0 /\ Cardinality(T) = 1 /\ Cardinality(F) = 0
    BY <2>2, Single
  <2>4. QED
    BY <1>4, <2>3
<1>9. QED
  BY <1>1, <1>3, <1>6, <1>7, <1>8 DEF Apart

(* NodesInOnePlace: a node that AREA_ALLOC gave is in the list of one      *)
(* entry, in the free list, or in the hands of one thread.                 *)
THEOREM EveryNodeHasOnePlace == Spec => []NodesInOnePlace
BY OnePlace, InductiveInvariant, PTL

(* EntriesRight: list_length, which makes a removal ask for a rehash, is   *)
(* the length of the list, and a key is in the entry of its hash.          *)
THEOREM EntriesStayRight == Spec => []EntriesRight
<1>1. IInv => EntriesRight
  BY DEF IInv, EntriesRight, Lengths, Keyed
<1>2. QED
  BY <1>1, InductiveInvariant, PTL

(* CountsMatch: items_count of the first base counts its nodes, but for    *)
(* the threads that are about to count.                                    *)
THEOREM ItemsAreCounted == Spec => []CountsMatch
<1>1. IInv => CountsMatch
  BY DEF IInv
<1>2. QED
  BY <1>1, InductiveInvariant, PTL

(* RehashPosInBase, the assertion of rehashNSteps, for tables that were    *)
(* not asked for more entries than their second base gets.                 *)
THEOREM RehashStaysInBase ==
  ASSUME reserve_entries <= SecondSize
  PROVE  Spec => []RehashPosInBase
<1>1. FirstSize \in Nat /\ SecondSize \in Nat /\ FirstSize <= SecondSize
  BY HashTableAssumption DEF FirstSize, SecondSize
<1>2. IInv => RehashPosInBase
  BY <1>1 DEF IInv, Rehashing, RehashPosInBase, Running
<1>3. QED
  BY <1>2, InductiveInvariant, PTL

(* Values change only by an update of the item.                            *)
LEMMA ValuesStay ==
  ASSUME TypeOK, NEW t \in Threads, Moves(t), NEW n \in Nodes,
         ~(AllocNode(t) /\ n = free_list), ~(UpdateItem(t) /\ n = local[t].p)
  PROVE  node'[n].value = node[n].value
<1>1. CASE UNCHANGED <<Lists>>
  BY <1>1
<1>2. CASE UpdateItem(t)
  BY <1>2 DEF UpdateItem, TypeOK, NodeContents
<1>3. CASE UnlinkItem(t)
  BY <1>3 DEF UnlinkItem, Unlink, TypeOK, NodeContents
<1>4. CASE ForgetItem(t)
  BY <1>4 DEF ForgetItem, FreeNode, TypeOK, NodeContents
<1>5. CASE AllocNode(t)
  BY <1>5 DEF AllocNode, TypeOK
<1>6. CASE WalkFinds(t)
  BY <1>6 DEF WalkFinds, FreeNode, TypeOK, NodeContents
<1>7. CASE LinkNode(t)
  BY <1>7 DEF LinkNode, TypeOK, NodeContents
<1>8. CASE RoundUnlink(t)
  BY <1>8 DEF RoundUnlink
<1>9. CASE RoundLink(t)
  BY <1>9 DEF RoundLink, TypeOK, NodeContents
<1>10. QED
  BY <1>1, <1>2, <1>3, <1>4, <1>5, <1>6, <1>7, <1>8, <1>9, ListsMove

(* An item that is locked for a caller: no step of any thread takes it.    *)
LEMMA HeldItemStays ==
  ASSUME IInv, NEW t \in Threads, Moves(t), NEW u \in Threads, NEW n, n = Held(u), n # NULL
  PROVE  /\ node'[n].key = node[n].key /\ node'[n].value = node[n].value
         /\ \A e \in Entries : n \in Linked(e) => n \in Linked(e)'
<1>1. /\ TypeOK /\ TableRight /\ Exclusive /\ NoCircles /\ Apart /\ Keyed
      /\ Flow(t) /\ Looks(t) /\ Claims(t) /\ Rehashing(t) /\ Found(t) /\ Claims(u) /\ Found(u)
  BY DEF IInv
<1>2. PICK e \in Entries : n \in Linked(e)
  BY <1>1 DEF Found
<1>3. PICK m \in Modes : Locked(n, u, m) \in locks
  BY <1>1 DEF Claims
<1>4. n \in Nodes
  BY <1>2 DEF Linked, OnTheWay
<1>5. ~MayLock(n, "write")
  BY <1>3, MayNotLock
<1>6. node'[n].key = node[n].key
  BY <1>1, <1>2, <1>4, KeysInUseStay
<1>7. node'[n].value = node[n].value
  <2>1. ~(UpdateItem(t) /\ n = local[t].p)
    BY <1>5 DEF UpdateItem
  <2>2. ~(AllocNode(t) /\ n = free_list)
    <3>1. AllocNode(t) => free_list \in List(Free)
      BY <1>1, <1>4, FirstIs, SpotsAre, ListsAre, WayIs, HashTableAssumption DEF AllocNode,
         TypeOK
    <3>2. QED
      BY <1>1, <1>2, <3>1, SpotsAre DEF Apart
  <2>3. QED
    BY <1>1, <1>4, <2>1, <2>2, ValuesStay
<1>8. ASSUME NEW f \in Entries, n \in Linked(f) PROVE n \in Linked(f)'
  <2>1. ~(UnlinkItem(t) /\ n = local[t].p)
    BY <1>5 DEF UnlinkItem
  <2>2. ~(RoundUnlink(t) /\ n = rehash.node)
    <3>1. ASSUME RoundUnlink(t), n = rehash.node PROVE FALSE
      <4>1. pc[t] = "round_target" /\ Locked(n, t, "write") \in locks
        BY <1>1, <3>1 DEF RoundUnlink, Claims
      <4>2. u # t
        BY <4>1 DEF Held
      <4>3. QED
        BY <1>1, <1>3, <4>1, <4>2, TwoLocks
    <3>2. QED
      BY <3>1
  <2>3. QED
    BY <1>1, <1>8, <2>1, <2>2, Leaves
<1>9. QED
  BY <1>6, <1>7, <1>8

(* LockedItemsStay: what findAndLockInHashTable returned is neither        *)
(* removed, moved, changed nor freed before unlockHashTableItem.           *)
THEOREM LockedItemsAreKept == Spec => LockedItemsStay
<1>1. ASSUME IInv, Next, NEW u \in Threads, NEW n, n = Held(u), n # NULL
      PROVE  /\ node'[n].key = node[n].key /\ node'[n].value = node[n].value
             /\ \A e \in Entries : n \in Linked(e) => n \in Linked(e)'
  <2>1. CASE \E t \in Threads : Moves(t)
    BY <1>1, <2>1, HeldItemStays
  <2>2. CASE UNCHANGED vars
    <3>1. node' = node /\ \A e : Linked(e)' = Linked(e)
      BY <2>2, LinkedStays DEF vars
    <3>2. QED
      BY <3>1
  <2>3. QED
    BY <1>1, <2>1, <2>2 DEF Next, Done, Moves
<1>2. IInv /\ [Next]_vars =>
        [\A t \in Threads :
           LET n == Held(t)
           IN  n # NULL /\ Held(t)' = n =>
                 /\ node'[n].key = node[n].key /\ node'[n].value = node[n].value
                 /\ \A e \in Entries : n \in Linked(e) => n \in Linked(e)']_vars
  <2> SUFFICES ASSUME IInv, Next, NEW t \in Threads, Held(t) # NULL
               PROVE  /\ node'[Held(t)].key = node[Held(t)].key
                      /\ node'[Held(t)].value = node[Held(t)].value
                      /\ \A e \in Entries : Held(t) \in Linked(e) => Held(t) \in Linked(e)'
    OBVIOUS
  <2>1. PICK n : n = Held(t)
    OBVIOUS
  <2>2. QED
    BY <1>1, <2>1
<1>3. QED
  BY <1>2, InductiveInvariant, PTL DEF Spec, LockedItemsStay

-----------------------------------------------------------------------------
(* A map until the first rehash                                            *)

(* What t relies on while there is one base.  Its second search has met    *)
(* every item with its key that is not before it, and the node of an       *)
(* insert is linked where none is.                                         *)
Settled(t) ==
  /\ local[t].bases \in {<<>>, <<1>>}
  /\ pc[t] = "idle" => answer[t] = "none"
  /\ pc[t] \in {"forget", "count", "start"} => answer[t] = "done"
  /\ pc[t] = "item" => node[local[t].p].key = call[t].key
  /\ local[t].new_node \in Private(t) => node[local[t].new_node].value = call[t].value
  /\ pc[t] = "walk" /\ local[t].pos = 1 =>
        /\ local[t].p \in Linked(InsertEntry(t)) \cup {NULL}
        /\ \A n \in Linked(InsertEntry(t)) :
              node[n].key = call[t].key => n \in OnTheWay(local[t].p)
  /\ pc[t] = "link" => \A n \in Linked(InsertEntry(t)) : node[n].key # call[t].key

(* A key is in the list of its entry once.                                 *)
KeysOnce ==
  \A e \in Entries : \A m, n \in Linked(e) : node[m].key = node[n].key => m = n

OneBase == ~is_rehashing => KeysOnce /\ \A t \in Threads : Settled(t)

(* What the map sees of the answer to t.                                   *)
Told(t) == IF Status(t) = "called" THEN "none" ELSE answer[t]

Silent(t) == Status(t)' = Status(t) /\ Told(t)' = Told(t) /\ call' = call

(* There is no rehash to step through.                                     *)
LEMMA NoRounds ==
  ASSUME TypeOK, TableRight, ~is_rehashing, NEW t \in Threads, Rehashing(t)
  PROVE  /\ pc[t] \notin Rounds /\ current_base = 1 /\ KnownBases = {1}
         /\ size[1] = FirstSize
BY HashTableAssumption DEF TableRight, Rehashing, KnownBases

(* A rehash does not end.                                                  *)
LEMMA NoWayBack ==
  ASSUME NEW t \in Threads, Moves(t), is_rehashing
  PROVE  is_rehashing'
BY TableMoves DEF StartRehash, StartFails, RoundNode, NextPos, RoundEnd

(* The step of t, while there is one base: what it tells its caller, and    *)
(* where it comes from.                                                    *)
LEMMA PlainStep ==
  ASSUME TypeOK, TableRight, ~is_rehashing, ~is_rehashing', NEW t \in Threads, Flow(t), Looks(t),
         Rehashing(t), Settled(t), Moves(t)
  PROVE  /\ local'[t].bases \in {<<>>, <<1>>}
         /\ pc'[t] = "idle" => answer'[t] = "none"
         /\ pc'[t] \in {"forget", "count", "start"} => answer'[t] = "done"
         /\ pc'[t] = "walk" /\ local'[t].pos = 1 => WalkList(t) \/ WalkOn(t)
         /\ pc'[t] = "link" => WalkEnds(t)
         /\ \A u \in Threads : u # t => answer'[u] = answer[u]
         /\ \/ Silent(t)
            \/ Call(t) \/ Returns(t) \/ SearchMisses(t) \/ SearchAnswers(t) \/ LockItem(t)
            \/ UpdateItem(t) \/ UnlinkItem(t) \/ AllocFails(t) \/ WalkFinds(t) \/ LinkNode(t)
            \/ StartFails(t) \/ MapBase(t) \/ MapLeave(t)
<1>0. pc[t] \notin Rounds /\ current_base = 1 /\ Tail(<<1>>) = <<>> /\ NoLocals.bases = <<>>
  BY NoRounds DEF NoLocals
<1>a. /\ local[t].bases \in {<<>>, <<1>>} /\ local \in [Threads -> CallLocals]
      /\ pc \in [Threads -> PCs] /\ answer \in [Threads -> Answers]
      /\ Len(<<1>>) = 1 /\ Len(<<>>) = 0
  BY DEF TypeOK, Settled
<1>b. pc[t] \in {"search", "walk"} => local[t].bases = <<1>>
  BY <1>a DEF Looks
<1>1. CASE Call(t)
  <2>1. local'[t].bases = local[t].bases /\ pc'[t] = "rehash" /\ answer' = answer
    BY <1>1, <1>a DEF Call, CallLocals
  <2>2. QED
    BY <1>1, <1>a, <2>1
<1>2. CASE Returns(t)
  BY <1>0, <1>2 DEF Returns, TypeOK, CallLocals, Flow, Looks, Settled, Silent, Told, Status, Inside
<1>3. CASE unlockHashTableItem(t)
  BY <1>0, <1>3 DEF unlockHashTableItem, TypeOK, CallLocals, Flow, Looks, Settled, Silent, Told,
     Status, Inside
<1>4. CASE EnterRehash(t)
  BY <1>0, <1>4 DEF EnterRehash, TypeOK, CallLocals, Flow, Looks, Settled, Silent, Told, Status,
     Inside
<1>5. CASE InsertBase(t)
  BY <1>0, <1>5 DEF InsertBase, TypeOK, CallLocals, Flow, Looks, Settled, Silent, Told, Status,
     Inside
<1>6. CASE ReadBases(t)
  BY <1>0, <1>6 DEF ReadBases, TypeOK, CallLocals, Flow, Looks, Settled, Silent, Told, Status,
     Inside
<1>7. CASE SearchMisses(t)
  <2>1. answer' \in [Threads -> Answers \cup {"missing"}] /\ \A u \in Threads : u # t => answer'[u] = answer[u]
    BY <1>7, <1>a DEF SearchMisses, Return
  <2>2. \/ Return(t, "missing") 
        \/ pc'[t] = "alloc" /\ local' = local
    <3>1. ~(Len(local[t].bases) > 1)
      <4>1. pc[t] = "search"
        BY <1>7 DEF SearchMisses
      <4>2. local[t].bases = <<1>>
        BY <1>b, <4>1
      <4>3. Len(local[t].bases) = 1
        BY <4>2
      <4>4. QED
        BY <4>3
    <3>2. QED
      BY <1>7, <1>a, <3>1, Zenon DEF SearchMisses
  <2>3. local'[t].bases \in {<<>>, <<1>>} /\ pc'[t] \in {"return", "alloc"}
    BY <1>0, <1>a, <2>2 DEF Return
  <2>4. QED
    BY <1>7, <2>1, <2>3
<1>8. CASE SearchAnswers(t)
  BY <1>0, <1>8 DEF SearchAnswers, Return, TypeOK, CallLocals, Flow, Looks, Settled, Silent, Told,
     Status, Inside
<1>9. CASE SearchFinds(t)
  BY <1>0, <1>9 DEF SearchFinds, TypeOK, CallLocals, Flow, Looks, Settled, Silent, Told, Status,
     Inside
<1>10. CASE LockItem(t)
  BY <1>0, <1>10 DEF LockItem, TypeOK, CallLocals, Flow, Looks, Settled, Silent, Told, Status,
     Inside
<1>11. CASE UpdateItem(t)
  BY <1>0, <1>11 DEF UpdateItem, Return, TypeOK, CallLocals, Flow, Looks, Settled, Silent, Told,
     Status, Inside
<1>12. CASE UnlinkItem(t)
  BY <1>0, <1>12 DEF UnlinkItem, TypeOK, CallLocals, Flow, Looks, Settled, Silent, Told, Status,
     Inside
<1>13. CASE ForgetItem(t)
  BY <1>0, <1>13 DEF ForgetItem, Return, TypeOK, CallLocals, Flow, Looks, Settled, Silent, Told,
     Status, Inside
<1>14. CASE AllocNode(t)
  BY <1>0, <1>14 DEF AllocNode, TypeOK, CallLocals, Flow, Looks, Settled, Silent, Told, Status,
     Inside
<1>15. CASE AllocFails(t)
  BY <1>0, <1>15 DEF AllocFails, Return, TypeOK, CallLocals, Flow, Looks, Settled, Silent, Told,
     Status, Inside
<1>16. CASE LockHead(t)
  BY <1>0, <1>16 DEF LockHead, TypeOK, CallLocals, Flow, Looks, Settled, Silent, Told, Status,
     Inside
<1>17. CASE WalkList(t)
  BY <1>0, <1>17 DEF WalkList, TypeOK, CallLocals, Flow, Looks, Settled, Silent, Told, Status,
     Inside
<1>18. CASE WalkOn(t)
  BY <1>0, <1>18 DEF WalkOn, TypeOK, CallLocals, Flow, Looks, Settled, Silent, Told, Status, Inside
<1>19. CASE WalkEnds(t)
  <2>1. local'[t].bases = <<>> /\ pc'[t] = "link" /\ answer' = answer /\ call' = call
    BY <1>0, <1>19, <1>a, <1>b DEF WalkEnds, CallLocals
  <2>2. Silent(t)
    BY <1>19, <2>1 DEF WalkEnds, Silent, Told, Status
  <2>3. QED
    BY <1>19, <2>1, <2>2
<1>20. CASE WalkFinds(t)
  BY <1>0, <1>20 DEF WalkFinds, Return, TypeOK, CallLocals, Flow, Looks, Settled, Silent, Told,
     Status, Inside
<1>21. CASE LinkNode(t)
  BY <1>0, <1>21 DEF LinkNode, TypeOK, CallLocals, Flow, Looks, Settled, Silent, Told, Status,
     Inside
<1>22. CASE CountItem(t)
  BY <1>0, <1>22 DEF CountItem, Return, TypeOK, CallLocals, Flow, Looks, Settled, Silent, Told,
     Status, Inside
<1>23. CASE StartRehash(t)
  BY <1>23 DEF StartRehash
<1>24. CASE StartFails(t)
  BY <1>0, <1>24 DEF StartFails, Return, TypeOK, CallLocals, Flow, Looks, Settled, Silent, Told,
     Status, Inside
<1>25. CASE AlreadyStarted(t)
  BY <1>0, <1>25 DEF AlreadyStarted, Return, TypeOK, CallLocals, Flow, Looks, Settled, Silent, Told,
     Status, Inside
<1>26. CASE MapBase(t)
  <2>1. \A u \in Threads : u # t => answer'[u] = answer[u]
    BY <1>26, <1>a DEF MapBase, Return
  <2>2. local[t].bases = <<1>> => local'[t].bases \in {<<>>, <<1>>} /\ pc'[t] \in {"map", "map_head"}
    <3>1. ASSUME local' = [local EXCEPT ![t].bases = Tail(@)], local[t].bases = << 1 >>
          PROVE  local'[t].bases = <<>>
      BY <1>0, <1>a, <3>1 DEF CallLocals
    <3>2. ASSUME local[t].bases = << 1 >>
          PROVE  \/ local' = local /\ pc'[t] = "map_head"
                 \/ local' = [local EXCEPT ![t].bases = Tail(@)] /\ pc'[t] = "map"
      BY <1>26, <1>a, <3>2 DEF MapBase
    <3>3. QED
      BY <3>1, <3>2
  <2>3. local[t].bases = <<>> => local'[t].bases = <<>> /\ pc'[t] = "return"
    BY <1>0, <1>26, <1>a DEF MapBase, Return
  <2>4. QED
    BY <1>26, <1>a, <2>1, <2>2, <2>3
<1>27. CASE MapHead(t)
  BY <1>0, <1>27 DEF MapHead, TypeOK, CallLocals, Flow, Looks, Settled, Silent, Told, Status, Inside
<1>28. CASE MapItem(t)
  <2>1. \A u \in Threads : u # t => answer'[u] = answer[u]
    BY <1>28, <1>a DEF MapItem
  <2>2. local'[t].bases = local[t].bases /\ pc' = pc /\ pc[t] = "map_item" /\ call' = call
    BY <1>28, <1>a DEF MapItem, CallLocals
  <2>3. Silent(t)
    BY <2>2 DEF Silent, Told, Status
  <2>4. QED
    BY <1>a, <2>1, <2>2, <2>3
<1>29. CASE MapLeave(t)
  <2>1. \A u \in Threads : u # t => answer'[u] = answer[u]
    BY <1>29, <1>a DEF MapLeave, Return
  <2>2. local[t].bases = <<1>>
    BY <1>29, <1>a DEF MapLeave, Looks
  <2>3. local'[t].bases \in {<<>>, <<1>>} /\ pc'[t] \in {"map", "map_head", "return"}
    <3>1. ASSUME local' = [local EXCEPT ![t].pos = 0, ![t].bases = Tail(@)]
          PROVE  local'[t].bases = <<>>
      BY <1>0, <1>a, <2>2, <3>1 DEF CallLocals
    <3>2. ASSUME local' = [local EXCEPT ![t].pos = @ + 1]
          PROVE  local'[t].bases = <<1>>
      BY <1>a, <2>2, <3>2 DEF CallLocals
    <3>3. \/ local' = [local EXCEPT ![t].pos = @ + 1] /\ pc'[t] = "map_head"
          \/ local' = [local EXCEPT ![t].pos = 0, ![t].bases = Tail(@)] /\ pc'[t] = "map"
          \/ local' = [local EXCEPT ![t] = NoLocals] /\ pc'[t] = "return"
      BY <1>29, <1>a, Zenon DEF MapLeave, Return
    <3>4. QED
      BY <1>0, <1>a, <3>1, <3>2, <3>3
  <2>4. QED
    BY <1>29, <2>1, <2>3
<1>30. CASE Round(t)
  BY <1>0, <1>30 DEF Round, Rounds, Moving
<1>31. CASE RoundFails(t)
  BY <1>0, <1>31 DEF RoundFails, Rounds, Moving
<1>32. CASE LeaveRehash(t)
  BY <1>0, <1>32 DEF LeaveRehash, Rounds, Moving
<1>33. CASE RoundUpdate(t)
  BY <1>0, <1>33 DEF RoundUpdate, Rounds, Moving
<1>34. CASE RoundUpdateFails(t)
  BY <1>0, <1>34 DEF RoundUpdateFails, Rounds, Moving
<1>35. CASE RoundNode(t)
  BY <1>0, <1>35 DEF RoundNode, NextPos, Rounds, Moving
<1>36. CASE RoundUnlink(t)
  BY <1>0, <1>36 DEF RoundUnlink, Rounds, Moving
<1>37. CASE RoundGivesUp(t)
  BY <1>0, <1>37 DEF RoundGivesUp, Rounds, Moving
<1>38. CASE RoundLink(t)
  BY <1>0, <1>38 DEF RoundLink, Rounds, Moving
<1>39. CASE RoundEnd(t)
  BY <1>0, <1>39 DEF RoundEnd, Rounds, Moving
<1>40. QED
  BY <1>1, <1>2, <1>3, <1>4, <1>5, <1>6, <1>7, <1>8, <1>9, <1>10, <1>11, <1>12, <1>13, <1>14,
     <1>15, <1>16, <1>17, <1>18, <1>19, <1>20, <1>21, <1>22, <1>23, <1>24, <1>25, <1>26, <1>27,
     <1>28, <1>29, <1>30, <1>31, <1>32, <1>33, <1>34, <1>35, <1>36, <1>37, <1>38, <1>39 DEF Moves,
     Step
(* Only an insert brings an item, and only a removal takes one.            *)
LEMMA PlainLists ==
  ASSUME IInv, ~is_rehashing, NEW t \in Threads, Moves(t), NEW e \in Entries
  PROVE  /\ \A n \in Linked(e)' : n \in Linked(e)
                  \/ (LinkNode(t) /\ e = InsertEntry(t) /\ n = local[t].new_node)
         /\ \A n \in Linked(e) : n \in Linked(e)'
                  \/ (UnlinkItem(t) /\ e = Entry(t) /\ n = local[t].p)
<1>1. /\ TypeOK /\ TableRight /\ NoCircles /\ Apart /\ Keyed
      /\ Flow(t) /\ Looks(t) /\ Rehashing(t) /\ Found(t)
  BY DEF IInv
<1>2. ~RoundLink(t) /\ ~RoundUnlink(t)
  BY <1>1, NoRounds DEF RoundLink, RoundUnlink, Rounds, Moving
<1>3. ASSUME NEW n \in Linked(e)', n \notin Linked(e)
      PROVE  LinkNode(t) /\ e = InsertEntry(t) /\ n = local[t].new_node
  BY <1>1, <1>2, <1>3, Enters
<1>4. ASSUME NEW n \in Linked(e), n \notin Linked(e)'
      PROVE  UnlinkItem(t) /\ e = Entry(t) /\ n = local[t].p
  BY <1>1, <1>2, <1>4, Leaves
<1>5. QED
  BY <1>3, <1>4, Zenon

(* An item is no node that is allocated or freed.                          *)
LEMMA ItemsApart ==
  ASSUME IInv, NEW e \in Entries, NEW n \in Linked(e)
  PROVE  /\ n \in Nodes /\ \A u \in Threads : n \notin Private(u)
         /\ \A u \in Threads : AllocNode(u) => n # free_list
<1>1. TypeOK /\ Apart
  BY DEF IInv
<1>2. e \in Spots /\ e # Free /\ Free \in Spots /\ n \in List(e) /\ n \in Nodes
  BY <1>1, SpotsAre, FirstIs
<1>3. ASSUME NEW u \in Threads, AllocNode(u) PROVE free_list \in List(Free)
  BY <1>1, <1>3, FirstIs, SpotsAre, ListsAre, WayIs, HashTableAssumption DEF AllocNode, TypeOK
<1>4. QED
  BY <1>1, <1>2, <1>3 DEF Apart

(* An item keeps its key, its value but for an update of it, and its       *)
(* successor but for a removal in its entry.                               *)
LEMMA ItemsStay ==
  ASSUME IInv, ~is_rehashing, NEW t \in Threads, Moves(t), NEW e \in Entries, NEW n \in Linked(e)
  PROVE  /\ node'[n].key = node[n].key
         /\ ~(UpdateItem(t) /\ n = local[t].p) => node'[n].value = node[n].value
         /\ ~(UnlinkItem(t) /\ e = Entry(t)) => node'[n].next = node[n].next
<1>1. /\ TypeOK /\ TableRight /\ NoCircles /\ Apart /\ Keyed
      /\ Flow(t) /\ Looks(t) /\ Rehashing(t) /\ Found(t)
  BY DEF IInv
<1>2. n \in Nodes /\ n \notin Private(t) /\ ~(AllocNode(t) /\ n = free_list)
  BY ItemsApart
<1>3. node'[n].key = node[n].key
  BY <1>1, <1>2, KeysStay
<1>4. ~(UpdateItem(t) /\ n = local[t].p) => node'[n].value = node[n].value
  BY <1>1, <1>2, ValuesStay
<1>5. ASSUME ~(UnlinkItem(t) /\ e = Entry(t)) PROVE node'[n].next = node[n].next
  <2>1. CASE UNCHANGED <<Lists>>
    BY <2>1
  <2>2. CASE UpdateItem(t)
    BY <1>1, <1>2, <2>2 DEF UpdateItem, TypeOK, NodeContents
  <2>3. CASE UnlinkItem(t)
    <3>1. n \notin Linked(Entry(t))
      <4>1. Entry(t) \in Entries /\ Entry(t) # e
        BY <1>1, <1>5, <2>3, EntryOfCall DEF UnlinkItem
      <4>2. QED
        BY <1>1, <4>1, SpotsAre DEF Apart
    <3>2. QED
      BY <1>2, <2>3, <3>1 DEF UnlinkItem, Unlink
  <2>4. CASE ForgetItem(t)
    <3>1. n # local[t].p
      BY <1>2, <2>4 DEF ForgetItem, Private
    <3>2. QED
      BY <1>1, <1>2, <2>4, <3>1 DEF ForgetItem, FreeNode, TypeOK
  <2>5. CASE AllocNode(t)
    BY <1>1, <1>2, <2>5 DEF AllocNode, TypeOK
  <2>6. CASE WalkFinds(t)
    <3>1. n # local[t].new_node
      BY <1>1, <1>2, <2>6, HashTableAssumption DEF WalkFinds, Private
    <3>2. QED
      BY <1>1, <1>2, <2>6, <3>1 DEF WalkFinds, FreeNode, TypeOK
  <2>7. CASE LinkNode(t)
    <3>1. n # local[t].new_node
      BY <1>1, <1>2, <2>7, HashTableAssumption DEF LinkNode, Private
    <3>2. QED
      BY <1>1, <1>2, <2>7, <3>1 DEF LinkNode, TypeOK
  <2>8. ~RoundLink(t) /\ ~RoundUnlink(t)
    BY <1>1, NoRounds DEF RoundLink, RoundUnlink, Rounds, Moving
  <2>9. QED
    BY <2>1, <2>2, <2>3, <2>4, <2>5, <2>6, <2>7, <2>8, ListsMove
<1>6. QED
  BY <1>3, <1>4, <1>5

(* The others leave the entry alone that an insert has locked.             *)
LEMMA LockedEntryStays ==
  ASSUME IInv, IInv', ~is_rehashing, NEW t \in Threads, Moves(t), NEW u \in Threads, u # t,
         Inserting(u), NEW e, e = InsertEntry(u)
  PROVE  /\ e \in Entries /\ InsertEntry(u)' = e /\ Linked(e)' = Linked(e)
         /\ \A n \in Linked(e) : node'[n].key = node[n].key
         /\ \A p \in Linked(e) \cup {NULL} : OnTheWay(p)' = OnTheWay(p)
<1>1. /\ TypeOK /\ TypeOK' /\ TableRight /\ Exclusive /\ Rehashing(t) /\ Looks(t) /\ Flow(t) /\ Claims(t)
      /\ Looks(u) /\ Flow(u) /\ Claims(u)
  BY DEF IInv
<1>2. e \in Entries /\ e[1] = local[u].insert_base /\ local[u].insert_base = 1
  BY <1>1, EntryOfInsert, NoRounds DEF Inserting
<1>3. InsertEntry(u)' = e
  <2>1. local'[u] = local[u] /\ call'[u] = call[u]
    BY <1>1, OthersStay
  <2>2. size'[1] = size[1]
    BY <1>1, TableKept, NoRounds
  <2>3. QED
    BY <1>2, <2>1, <2>2 DEF InsertEntry, EntryOf
<1>4. Locked(e, u, "write") \in locks
  BY <1>1 DEF Claims
<1>5. ~(UnlinkItem(t) /\ e = Entry(t))
  <2>1. SUFFICES ASSUME UnlinkItem(t), e = Entry(t) PROVE FALSE
    OBVIOUS
  <2>2. Locked(e, t, HeadMode(t)) \in locks
    BY <1>1, <2>1 DEF UnlinkItem, Claims
  <2>3. QED
    BY <1>1, <1>4, <2>2, TwoLocks
<1>6. ~(LinkNode(t) /\ e = InsertEntry(t))
  <2>1. SUFFICES ASSUME LinkNode(t), e = InsertEntry(t) PROVE FALSE
    OBVIOUS
  <2>2. Locked(e, t, "write") \in locks
    BY <1>1, <2>1 DEF LinkNode, Claims, Flow, Inserting
  <2>3. QED
    BY <1>1, <1>4, <2>2, TwoLocks
<1>7. Linked(e)' = Linked(e)
  BY <1>2, <1>5, <1>6, PlainLists
<1>8. \A n \in Linked(e) : node'[n].key = node[n].key /\ node'[n].next = node[n].next
  BY <1>2, <1>5, ItemsStay
<1>9. ASSUME NEW p \in Linked(e) \cup {NULL} PROVE OnTheWay(p)' = OnTheWay(p)
  <2>1. Links(node) /\ Links(node') /\ head[e] \in Nodes \cup {NULL} /\ Linked(e) = Way(node, head[e])
    BY <1>1, <1>2, OnTheWayIs DEF TypeOK, NodeContents, Links, Linked
  <2>2. Way(node, p) \subseteq Linked(e) /\ p \in Nodes \cup {NULL}
    BY <2>1, WayIs, WayWithin
  <2>3. Way(node', p) = Way(node, p)
    BY <1>8, <2>1, <2>2, WayKept
  <2>4. OnTheWay(p)' = Way(node', p) /\ OnTheWay(p) = Way(node, p)
    BY DEF OnTheWay, Way
  <2>5. QED
    BY <2>3, <2>4
<1>10. QED
  BY <1>2, <1>3, <1>7, <1>8, <1>9

(* The value of a node that is in somebody's hands stays.                  *)
LEMMA HandsKeepValues ==
  ASSUME IInv, ~is_rehashing, NEW t \in Threads, Moves(t), NEW u \in Threads, NEW n \in Private(u)
  PROVE  node'[n].value = node[n].value
<1>1. /\ TypeOK /\ TableRight /\ Apart /\ Flow(t) /\ Looks(t) /\ Rehashing(t) /\ Found(t)
      /\ Flow(u) /\ Rehashing(u)
  BY DEF IInv
<1>2. n \in Nodes
  BY <1>1, PrivateIs
<1>3. ~(AllocNode(t) /\ n = free_list)
  <2>1. AllocNode(t) => free_list \in List(Free)
    BY <1>1, FirstIs, SpotsAre, ListsAre, WayIs, HashTableAssumption DEF AllocNode, TypeOK
  <2>2. QED
    BY <1>1, <2>1, SpotsAre DEF Apart
<1>4. ~(UpdateItem(t) /\ n = local[t].p)
  <2>1. UpdateItem(t) => Entry(t) \in Entries /\ local[t].p \in Linked(Entry(t))
    BY <1>1, EntryOfCall DEF UpdateItem, Found
  <2>2. QED
    BY <2>1, ItemsApart
<1>5. QED
  BY <1>1, <1>2, <1>3, <1>4, ValuesStay

(* The others rely on what the locks of their entries keep.                *)
LEMMA SettledOfOthers ==
  ASSUME IInv, IInv', ~is_rehashing, ~is_rehashing', NEW t \in Threads, Moves(t), Settled(t),
         NEW u \in Threads, u # t, Settled(u)
  PROVE  Settled(u)'
<1>1. /\ TypeOK /\ TableRight /\ Apart /\ Flow(t) /\ Looks(t) /\ Rehashing(t) /\ Found(t)
      /\ Flow(u) /\ Looks(u) /\ Rehashing(u) /\ Found(u)
  BY DEF IInv
<1>2. pc'[u] = pc[u] /\ local'[u] = local[u] /\ call'[u] = call[u] /\ answer'[u] = answer[u]
  BY <1>1, OthersStay, PlainStep
<1>3. pc[u] = "item" => node'[local[u].p].key = node[local[u].p].key
  BY <1>1, EntryOfCall, ItemsStay DEF Found
<1>4. Private(u)' = Private(u)
  BY <1>1, PrivateOfOthers
<1>5. local[u].new_node \in Private(u) => node'[local[u].new_node].value = node[local[u].new_node].value
  BY HandsKeepValues
<1>6. ASSUME pc[u] \in {"walk", "link"}
      PROVE  /\ InsertEntry(u)' = InsertEntry(u) /\ Linked(InsertEntry(u))' = Linked(InsertEntry(u))
             /\ \A n \in Linked(InsertEntry(u)) : node'[n].key = node[n].key
             /\ \A p \in Linked(InsertEntry(u)) \cup {NULL} : OnTheWay(p)' = OnTheWay(p)
  <2>1. Inserting(u)
    BY <1>1, <1>6 DEF Inserting, Flow
  <2>2. PICK e : e = InsertEntry(u)
    OBVIOUS
  <2>3. /\ InsertEntry(u)' = e /\ Linked(e)' = Linked(e)
        /\ \A n \in Linked(e) : node'[n].key = node[n].key
        /\ \A p \in Linked(e) \cup {NULL} : OnTheWay(p)' = OnTheWay(p)
    BY <2>1, <2>2, LockedEntryStays
  <2>4. Linked(InsertEntry(u))' = Linked(e)'
    BY <2>3 DEF Linked, OnTheWay
  <2>5. QED
    BY <2>2, <2>3, <2>4
<1>7. PICK p : p = local[u].p
  OBVIOUS
<1>8. pc[u] = "walk" /\ local[u].pos = 1 =>
        /\ p \in Linked(InsertEntry(u))' \cup {NULL}
        /\ \A n \in Linked(InsertEntry(u))' : node'[n].key = call[u].key => n \in OnTheWay(p)'
  BY <1>6, <1>7 DEF Settled
<1>a. OnTheWay(local[u].p)' = OnTheWay(p)'
  BY <1>2, <1>7 DEF OnTheWay
<1>9. pc[u] = "link" => \A n \in Linked(InsertEntry(u))' : node'[n].key # call[u].key
  BY <1>6 DEF Settled
<1>10. QED
  BY <1>2, <1>3, <1>4, <1>5, <1>7, <1>8, <1>9, <1>a DEF Settled

(* The second search goes through the list that is locked.                 *)
LEMMA WalkedEntry ==
  ASSUME IInv, ~is_rehashing, NEW t \in Threads, Settled(t), pc[t] = "walk"
  PROVE  /\ local[t].bases = <<1>> /\ Entry(t) = InsertEntry(t) /\ Entry(t) = EntryOf(1, call[t].key)
         /\ Entry(t) \in Entries /\ call[t].key \in Keys
<1>1. /\ TypeOK /\ TableRight /\ Flow(t) /\ Looks(t) /\ Rehashing(t)
  BY DEF IInv
<1>2. local[t].bases = <<1>> /\ local[t].new_node # NULL /\ call[t].op = "insert"
  BY <1>1 DEF Settled, Looks, Flow
<1>3. local[t].insert_base = 1
  BY <1>1, <1>2, EntryOfInsert, NoRounds
<1>4. QED
  BY <1>1, <1>2, <1>3, EntryOfCall, KeyIs DEF Entry, InsertEntry

(* The thread that takes the step.                                         *)
LEMMA SettledKept ==
  ASSUME IInv, IInv', ~is_rehashing, ~is_rehashing', NEW t \in Threads, Moves(t), Settled(t)
  PROVE  Settled(t)'
<1>1. /\ TypeOK /\ TypeOK' /\ TableRight /\ NoCircles /\ Apart /\ Keyed
      /\ Flow(t) /\ Looks(t) /\ Rehashing(t) /\ Found(t) /\ Flow(t)' /\ Rehashing(t)'
  BY DEF IInv
<1>2. /\ local'[t].bases \in {<<>>, <<1>>} /\ (pc'[t] = "idle" => answer'[t] = "none")
      /\ pc'[t] \in {"forget", "count", "start"} => answer'[t] = "done"
      /\ pc'[t] = "walk" /\ local'[t].pos = 1 => WalkList(t) \/ WalkOn(t)
      /\ pc'[t] = "link" => WalkEnds(t)
  BY <1>1, PlainStep
<1>3. ASSUME pc'[t] = "item" PROVE node'[local'[t].p].key = call'[t].key
  <2>1. SearchFinds(t)
    BY <1>1, <1>3, Arrivals
  <2>2. Entry(t) \in Entries
    BY <1>1, <2>1, EntryOfCall DEF SearchFinds
  <2>3. PICK n : n = Find(Entry(t), call[t].key)
    OBVIOUS
  <2>4. n # NULL /\ local'[t] = [local[t] EXCEPT !.p = n] /\ node' = node /\ call' = call
    BY <1>1, <2>1, <2>3 DEF SearchFinds, TypeOK
  <2>5. node[n].key = call[t].key
    BY <1>1, <2>2, <2>3, <2>4, FindIs
  <2>6. local'[t].p = n
    BY <1>1, <2>4 DEF TypeOK, CallLocals
  <2>7. QED
    BY <2>4, <2>5, <2>6
<1>4. ASSUME local'[t].new_node \in Private(t)'
      PROVE  node'[local'[t].new_node].value = call'[t].value
  <2>1. local'[t].new_node \in Nodes /\ local'[t].new_node # NULL
    <3>1. Private(t)' \in SUBSET Nodes
      BY <1>1 DEF Private, TypeOK, CallLocals, RehashLocals, Flow, Rehashing
    <3>2. QED
      BY <1>4, <3>1, HashTableAssumption
  <2>2. CASE AllocNode(t)
    <3>1. /\ local'[t].new_node = free_list /\ call' = call /\ free_list \in Nodes
          /\ node' = [node EXCEPT ![free_list] =
                        [key |-> call[t].key, value |-> call[t].value, next |-> NULL]]
      BY <1>1, <2>2 DEF AllocNode, TypeOK, CallLocals
    <3>2. QED
      BY <1>1, <3>1 DEF TypeOK
  <2>3. CASE ~AllocNode(t)
    <3>1. local'[t].new_node = local[t].new_node /\ call'[t] = call[t]
      BY <1>1, <2>1, <2>3, NewNodeStays
    <3>2. PICK n : n = local[t].new_node
      OBVIOUS
    <3>3. n \in Private(t)
      <4>1. SUFFICES ASSUME n \notin Private(t) PROVE FALSE
        OBVIOUS
      <4>2. UnlinkItem(t) \/ RoundUnlink(t)
        BY <1>1, <1>4, <2>3, <3>1, <3>2, <4>1, Acquires
      <4>3. ~RoundUnlink(t)
        BY <1>1, NoRounds DEF RoundUnlink, Rounds, Moving
      <4>4. local[t].new_node = NULL
        BY <1>1, <4>2, <4>3 DEF UnlinkItem, Flow
      <4>5. QED
        BY <2>1, <3>1, <4>4
    <3>4. node'[n].value = node[n].value
      BY <3>3, HandsKeepValues
    <3>5. QED
      BY <3>1, <3>2, <3>3, <3>4 DEF Settled
  <2>4. QED
    BY <2>2, <2>3
<1>5. ASSUME pc[t] = "walk", UNCHANGED <<Table, Lists, Sync, call>>,
             local'[t].insert_base = local[t].insert_base
      PROVE  InsertEntry(t)' = InsertEntry(t) /\ Linked(InsertEntry(t))' = Linked(InsertEntry(t))
             /\ \A p : OnTheWay(p)' = OnTheWay(p)
  BY <1>5 DEF InsertEntry, EntryOf, Linked, OnTheWay
<1>6. ASSUME NEW e, e = InsertEntry(t), pc[t] = "walk"
      PROVE  /\ Links(node) /\ head[e] \in Nodes \cup {NULL} /\ Linked(e) = Way(node, head[e])
             /\ \A p : OnTheWay(p) = Way(node, p)
  <2>1. e \in Entries
    BY <1>6, WalkedEntry
  <2>2. QED
    BY <1>1, <2>1, OnTheWayIs DEF TypeOK, NodeContents, Links, Linked
<1>7. ASSUME WalkList(t)
      PROVE  /\ local'[t].p \in Linked(InsertEntry(t))' \cup {NULL}
             /\ \A n \in Linked(InsertEntry(t))' :
                   node'[n].key = call'[t].key => n \in OnTheWay(local[t].p)'
  <2>1. PICK e : e = InsertEntry(t)
    OBVIOUS
  <2>2. e = Entry(t) /\ pc[t] = "walk" /\ UNCHANGED <<Table, Lists, Sync, call>>
    BY <1>7, <2>1, WalkedEntry DEF WalkList
  <2>3. local'[t].p = head[e] /\ local'[t].insert_base = local[t].insert_base
    BY <1>1, <1>7, <2>2 DEF WalkList, TypeOK, CallLocals
  <2>a. PICK p : p = head[e]
    OBVIOUS
  <2>4. Linked(InsertEntry(t))' = Linked(e) /\ OnTheWay(p)' = Linked(e)
    BY <1>5, <2>1, <2>2, <2>3, <2>a DEF Linked
  <2>5. p \in Linked(e) \cup {NULL}
    BY <1>6, <2>1, <2>2, <2>a, WayIs
  <2>6. OnTheWay(local[t].p)' = OnTheWay(p)'
    BY <2>3, <2>a DEF OnTheWay
  <2>7. QED
    BY <2>3, <2>4, <2>5, <2>6, <2>a
<1>8. ASSUME WalkOn(t)
      PROVE  /\ local'[t].p \in Linked(InsertEntry(t))' \cup {NULL}
             /\ \A n \in Linked(InsertEntry(t))' :
                   node'[n].key = call'[t].key => n \in OnTheWay(local[t].p)'
  <2>1. PICK e, p, q : e = InsertEntry(t) /\ p = local[t].p /\ q = node[p].next
    OBVIOUS
  <2>2. pc[t] = "walk" /\ local[t].pos = 1
        /\ UNCHANGED <<Table, Lists, Sync, call>> /\ node' = node /\ call' = call
    BY <1>8 DEF WalkOn
  <2>3. p # NULL /\ node[p].key # call[t].key /\ p \in Linked(e)
    BY <1>8, <2>1, <2>2 DEF WalkOn, Settled
  <2>4. local'[t].p = q /\ local'[t].insert_base = local[t].insert_base
    BY <1>1, <1>8, <2>1 DEF WalkOn, TypeOK, CallLocals
  <2>5. Linked(InsertEntry(t))' = Linked(e) /\ OnTheWay(q)' = OnTheWay(q)
    BY <1>5, <2>1, <2>2, <2>4
  <2>6. p \in Nodes /\ q \in Linked(e) \cup {NULL}
    BY <1>6, <2>1, <2>2, <2>3, WayIs
  <2>7. OnTheWay(p) = OnTheWay(q) \cup {p}
    BY <1>6, <2>1, <2>2, <2>6, WayStep
  <2>8. OnTheWay(local[t].p)' = OnTheWay(q)'
    BY <2>4 DEF OnTheWay
  <2>9. \A n \in Linked(e) : node[n].key = call[t].key => n \in OnTheWay(p)
    BY <2>1, <2>2 DEF Settled
  <2>10. \A n \in Linked(e) : node[n].key = call[t].key => n \in OnTheWay(q)
    BY <2>3, <2>7, <2>9
  <2>11. QED
    BY <2>2, <2>4, <2>5, <2>6, <2>8, <2>10
<1>9. ASSUME WalkEnds(t)
      PROVE  \A n \in Linked(InsertEntry(t))' : node'[n].key # call'[t].key
  <2>1. pc[t] = "walk" /\ local[t].pos = 1 /\ local[t].p = NULL
        /\ UNCHANGED <<Table, Lists, Sync, call>> /\ node' = node /\ call' = call
    BY <1>9 DEF WalkEnds
  <2>2. local'[t].insert_base = local[t].insert_base
    BY <1>1, <1>9 DEF WalkEnds, TypeOK, CallLocals
  <2>3. Linked(InsertEntry(t))' = Linked(InsertEntry(t))
    BY <1>5, <2>1, <2>2
  <2>4. OnTheWay(NULL) = {}
    BY DEF OnTheWay
  <2>5. \A n \in Linked(InsertEntry(t)) : node[n].key # call[t].key
    BY <2>1, <2>4 DEF Settled
  <2>6. QED
    BY <2>1, <2>3, <2>5
<1>10. QED
  BY <1>2, <1>3, <1>4, <1>7, <1>8, <1>9 DEF Settled

(* An insert links a key that no item of the entry has.                    *)
LEMMA KeysOnceKept ==
  ASSUME IInv, ~is_rehashing, NEW t \in Threads, Moves(t), Settled(t), KeysOnce
  PROVE  KeysOnce'
<1> SUFFICES ASSUME NEW e \in Entries, NEW m \in Linked(e)', NEW n \in Linked(e)',
                    node'[m].key = node'[n].key
             PROVE  m = n
  BY DEF KeysOnce
<1>1. /\ TypeOK /\ TableRight /\ Apart /\ Keyed /\ Flow(t) /\ Rehashing(t)
  BY DEF IInv
<1>2. ASSUME NEW x \in Linked(e) PROVE node'[x].key = node[x].key
  BY <1>2, ItemsStay
<1>3. CASE m \in Linked(e) /\ n \in Linked(e)
  BY <1>2, <1>3 DEF KeysOnce
<1>4. ASSUME NEW x \in Linked(e)', x \notin Linked(e)
      PROVE  x = local[t].new_node /\ \A y \in Linked(e) : node'[y].key # node'[x].key
  <2>1. LinkNode(t) /\ e = InsertEntry(t) /\ x = local[t].new_node
    BY <1>4, PlainLists
  <2>2. x \in Private(t) /\ x \in Nodes
    BY <1>1, <2>1, HashTableAssumption DEF LinkNode, Private, Flow, TypeOK, CallLocals
  <2>3. node[x].key = call[t].key
    BY <1>1, <2>1, <2>2 DEF Keyed
  <2>4. node'[x].key = node[x].key
    BY <1>1, <2>2, KeysInUseStay
  <2>5. \A y \in Linked(e) : node[y].key # call[t].key
    BY <2>1 DEF LinkNode, Settled
  <2>6. QED
    BY <1>2, <2>1, <2>3, <2>4, <2>5
<1>5. QED
  BY <1>3, <1>4

(* The table begins with one base and no items.                            *)
LEMMA OneBaseAtFirst == Init => OneBase
<1> SUFFICES ASSUME Init PROVE OneBase
  OBVIOUS
<1>1. \A e \in Entries : Linked(e) = {}
  BY DEF Init, Linked, OnTheWay
<1>2. \A t \in Threads : pc[t] = "idle" /\ local[t] = NoLocals /\ answer[t] = "none"
  BY DEF Init
<1>3. \A t \in Threads : Private(t) = {}
  BY <1>2, NoLocalsIs DEF Private
<1>4. \A t \in Threads : Settled(t)
  BY <1>2, <1>3, NoLocalsIs DEF Settled, NoLocals
<1>5. QED
  BY <1>1, <1>4 DEF OneBase, KeysOnce

(* OneBase is kept until the rehash is started.                            *)
LEMMA OneBaseKept ==
  ASSUME IInv, IInv', OneBase, [Next]_vars
  PROVE  OneBase'
<1>1. ASSUME NEW t \in Threads, Moves(t) PROVE OneBase'
  <2> SUFFICES ASSUME ~is_rehashing' PROVE KeysOnce' /\ \A u \in Threads : Settled(u)'
    BY DEF OneBase
  <2>1. ~is_rehashing
    BY <1>1, NoWayBack
  <2>2. KeysOnce /\ \A u \in Threads : Settled(u)
    BY <2>1 DEF OneBase
  <2>3. KeysOnce'
    BY <1>1, <2>1, <2>2, KeysOnceKept
  <2>4. Settled(t)'
    BY <1>1, <2>1, <2>2, SettledKept
  <2>5. \A u \in Threads \ {t} : Settled(u)'
    BY <1>1, <2>1, <2>2, SettledOfOthers
  <2>6. QED
    BY <2>3, <2>4, <2>5
<1>2. ASSUME UNCHANGED vars PROVE OneBase'
  <2>1. UNCHANGED <<Table, Lists, pc, call, local, answer, rehash>>
    BY <1>2 DEF vars
  <2>2. \A e : Linked(e)' = Linked(e)
    BY <2>1, LinkedStays
  <2>3. \A t : InsertEntry(t)' = InsertEntry(t) /\ Private(t)' = Private(t)
               /\ Linked(InsertEntry(t))' = Linked(InsertEntry(t))
               /\ OnTheWay(local[t].p)' = OnTheWay(local[t].p)
    BY <2>1 DEF InsertEntry, EntryOf, Private, Linked, OnTheWay
  <2>4. KeysOnce => KeysOnce'
    BY <2>1, <2>2 DEF KeysOnce
  <2>5. \A t \in Threads : Settled(t) => Settled(t)'
    BY <2>1, <2>3 DEF Settled
  <2>6. QED
    BY <2>1, <2>4, <2>5 DEF OneBase
<1>3. QED
  BY <1>1, <1>2 DEF Next, Done, Moves

(* The entry of a key while there is one base.                             *)
LEMMA OnlyEntry ==
  ASSUME IInv, ~is_rehashing, NEW k \in Keys
  PROVE  EntryOf(1, k) \in Entries /\ EntryOf(1, k) = <<1, Hash[k] % FirstSize>>
<1>1. TypeOK /\ TableRight /\ 1 \in KnownBases /\ size[1] = FirstSize
  BY DEF IInv, KnownBases, TableRight
<1>2. QED
  BY <1>1, EntryIs DEF EntryOf

(* The content is what the item with the key has.                          *)
ContentForm ==
  ~is_rehashing =>
    \A k \in Keys :
       /\ \A n \in Linked(EntryOf(1, k)) :
             node[n].key = k => Content(k) = node[n].value /\ Content(k) \in Values
       /\ (\A n \in Linked(EntryOf(1, k)) : node[n].key # k) => Content(k) = NULL

(* Find returns that item, as no other one has the key.                    *)
LEMMA ContentIs == IInv /\ OneBase => ContentForm
<1> SUFFICES ASSUME IInv, OneBase, ~is_rehashing, NEW k \in Keys
             PROVE  /\ \A n \in Linked(EntryOf(1, k)) :
                          node[n].key = k => Content(k) = node[n].value /\ Content(k) \in Values
                    /\ (\A n \in Linked(EntryOf(1, k)) : node[n].key # k) => Content(k) = NULL
  BY DEF ContentForm
<1>1. TypeOK /\ Valued /\ KeysOnce
  BY DEF IInv, OneBase
<1>2. PICK e \in Entries : e = EntryOf(1, k)
  BY OnlyEntry
<1>3. ASSUME \A n \in Linked(e) : node[n].key # k PROVE Content(k) = NULL
  <2>1. Find(e, k) = NULL
    BY <1>3 DEF Find
  <2>2. QED
    BY <1>2, <2>1 DEF Content
<1>4. ASSUME NEW n \in Linked(e), node[n].key = k
      PROVE  Content(k) = node[n].value /\ Content(k) \in Values
  <2>1. {m \in Linked(e) : node[m].key = k} = {n}
    BY <1>1, <1>4 DEF KeysOnce
  <2>2. n \in Nodes /\ n # NULL
    BY <1>4, ItemsApart, HashTableAssumption
  <2>3. n \in OnTheWay(n)
    BY <1>1, <2>2, OnTheWayIs, FirstIs, WayIs
  <2>4. Find(e, k) = CHOOSE m \in {n} : {n} \subseteq OnTheWay(m)
    BY <2>1 DEF Find
  <2>5. Find(e, k) = n
    BY <2>3, <2>4
  <2>6. QED
    BY <1>1, <1>2, <1>4, <2>2, <2>5 DEF Content, Valued
<1>5. QED
  BY <1>2, <1>3, <1>4

(* It is so after every step.                                              *)
LEMMA ContentAfter == (IInv /\ OneBase)' => ContentForm'
BY ContentIs, PTL

(* Where a step leads while there is one base.                             *)
Plain(t) ==
  /\ IInv /\ IInv' /\ OneBase /\ OneBase' /\ Moves(t) /\ ~is_rehashing /\ ~is_rehashing'
  /\ KeysOnce /\ \A u \in Threads : Settled(u)

(* The call of t looks for its key where it is.                            *)
LEMMA CallersEntry ==
  ASSUME NEW t \in Threads, Plain(t), pc[t] \in {"search", "item", "walk"}
  PROVE  call[t].key \in Keys /\ Entry(t) = EntryOf(1, call[t].key) /\ Entry(t) \in Entries
         /\ local[t].bases = <<1>>
<1>1. TypeOK /\ TableRight /\ Flow(t) /\ Looks(t) /\ Settled(t)
  BY DEF Plain, IInv
<1>2. call[t].op # "map"
  BY <1>1 DEF Flow
<1>3. local[t].bases = <<1>>
  BY <1>1 DEF Settled, Looks
<1>4. QED
  BY <1>1, <1>2, <1>3, KeyIs, EntryOfCall DEF Entry

(* The items of the other keys stay, with their values.                    *)
LEMMA ContentStays ==
  ASSUME NEW t \in Threads, Plain(t), NEW k \in Keys,
         ~(UpdateItem(t) \/ UnlinkItem(t) \/ LinkNode(t)) \/ k # call[t].key
  PROVE  Content(k)' = Content(k)
<1>1. /\ TypeOK /\ TableRight /\ Apart /\ Keyed /\ Flow(t) /\ Rehashing(t) /\ Settled(t)
      /\ IInv /\ ~is_rehashing /\ Moves(t) /\ KeysOnce
  BY DEF Plain, IInv
<1>2. ContentForm /\ ContentForm'
  BY ContentIs, ContentAfter DEF Plain
<1>3. PICK e \in Entries : e = EntryOf(1, k)
  BY <1>1, OnlyEntry
<1>4. EntryOf(1, k)' = e /\ Linked(EntryOf(1, k))' = Linked(e)'
  <2>1. size'[1] = size[1]
    BY <1>1, TableKept, NoRounds
  <2>2. QED
    BY <1>3, <2>1 DEF EntryOf, Linked, OnTheWay
<1>5. ASSUME NEW n \in Linked(e), node[n].key = k
      PROVE  n \in Linked(e)' /\ node'[n].key = k /\ node'[n].value = node[n].value
  <2>1. UpdateItem(t) \/ UnlinkItem(t) => n # local[t].p
    <3>1. pc[t] = "item" => node[local[t].p].key = call[t].key
      BY <1>1 DEF Settled
    <3>2. QED
      BY <1>5, <3>1 DEF UpdateItem, UnlinkItem
  <2>2. n \in Linked(e)'
    BY <1>1, <1>5, <2>1, PlainLists
  <2>3. QED
    BY <1>1, <1>5, <2>1, <2>2, ItemsStay
<1>6. ASSUME NEW n \in Linked(e)', node'[n].key = k PROVE n \in Linked(e) /\ node[n].key = k
  <2>1. ASSUME n \notin Linked(e) PROVE FALSE
    <3>1. LinkNode(t) /\ n = local[t].new_node
      BY <1>1, <2>1, <1>6, PlainLists
    <3>2. n \in Private(t) /\ n \in Nodes
      BY <1>1, <3>1, HashTableAssumption DEF LinkNode, Private, Flow, TypeOK, CallLocals
    <3>3. node[n].key = call[t].key /\ node'[n].key = node[n].key
      BY <1>1, <3>1, <3>2, KeysInUseStay DEF Keyed
    <3>4. QED
      BY <1>6, <3>1, <3>3
  <2>2. QED
    BY <1>1, <1>6, <2>1, ItemsStay
<1>7. CASE \E n \in Linked(e) : node[n].key = k
  <2>1. PICK n \in Linked(e) : node[n].key = k
    BY <1>7
  <2>2. n \in Linked(EntryOf(1, k))' /\ node'[n].key = k /\ node'[n].value = node[n].value
    BY <1>4, <1>5, <2>1
  <2>3. Content(k) = node[n].value /\ Content(k)' = node'[n].value
    BY <1>1, <1>2, <1>3, <2>1, <2>2 DEF ContentForm, Plain
  <2>4. QED
    BY <2>2, <2>3
<1>8. CASE \A n \in Linked(e) : node[n].key # k
  <2>1. \A n \in Linked(EntryOf(1, k))' : node'[n].key # k
    BY <1>4, <1>6, <1>8
  <2>2. Content(k) = NULL /\ Content(k)' = NULL
    BY <1>1, <1>2, <1>3, <1>8, <2>1 DEF ContentForm, Plain
  <2>3. QED
    BY <2>2
<1>9. QED
  BY <1>7, <1>8

(* The map sees nothing of the other threads.                              *)
LEMMA OthersSeen ==
  ASSUME NEW t \in Threads, Plain(t)
  PROVE  /\ \A u \in Threads : u # t => Status(u)' = Status(u) /\ Told(u)' = Told(u)
         /\ call' = [call EXCEPT ![t] = call'[t]]
<1>1. /\ TypeOK /\ TypeOK' /\ TableRight /\ Flow(t) /\ Looks(t) /\ Rehashing(t) /\ Settled(t)
      /\ Moves(t) /\ ~is_rehashing /\ ~is_rehashing'
  BY DEF Plain, IInv
<1>2. ASSUME NEW u \in Threads, u # t
      PROVE  pc'[u] = pc[u] /\ call'[u] = call[u] /\ answer'[u] = answer[u]
  BY <1>1, <1>2, OthersStay, PlainStep
<1>3. call' = [call EXCEPT ![t] = call'[t]]
  BY <1>1, <1>2 DEF TypeOK
<1>4. QED
  BY <1>2, <1>3 DEF Status, Told

(* The step of t is the moment at which its call takes effect.             *)
LEMMA EffectIs ==
  ASSUME NEW t \in Threads, Plain(t), NEW k \in Keys, k = call[t].key, call[t].op # "map",
         Status(t) = "called", Status(t)' = "done", call' = call,
         <<Content(k)', answer'[t]>> \in M!Effects(call[t].op, Content(k), call[t].value),
         \A l \in Keys : l # k => Content(l)' = Content(l)
  PROVE  M!TakesEffect(t)
<1>1. \A u \in Threads : u # t => Status(u)' = Status(u) /\ Told(u)' = Told(u)
  BY OthersSeen
<1>2. PICK c, a : c = Content(k)' /\ a = answer'[t]
  OBVIOUS
<1>3. [u \in Threads |-> Status(u)]' = [[u \in Threads |-> Status(u)] EXCEPT ![t] = "done"]
  BY <1>1
<1>4. [l \in Keys |-> Content(l)]' = [[l \in Keys |-> Content(l)] EXCEPT ![call[t].key] = c]
  BY <1>2
<1>5. [u \in Threads |-> IF Status(u) = "called" THEN "none" ELSE answer[u]]'
        = [[u \in Threads |-> IF Status(u) = "called" THEN "none" ELSE answer[u]] EXCEPT ![t] = a]
  BY <1>1, <1>2 DEF Told
<1>6. <<c, a>> \in M!Effects(call[t].op, [l \in Keys |-> Content(l)][call[t].key], call[t].value)
  BY <1>2
<1>7. [u \in Threads |-> Status(u)][t] = "called"
  OBVIOUS
<1>8. <<c, a>>[1] = c /\ <<c, a>>[2] = a
  OBVIOUS
<1>9. QED
  BY <1>3, <1>4, <1>5, <1>6, <1>7, <1>8 DEF M!TakesEffect

(* Nothing the map knows changes.                                          *)
LEMMA SilentIs ==
  ASSUME NEW t \in Threads, Plain(t), Silent(t), ~(UpdateItem(t) \/ UnlinkItem(t) \/ LinkNode(t))
  PROVE  UNCHANGED M!vars
<1>1. \A u \in Threads : Status(u)' = Status(u) /\ Told(u)' = Told(u)
  BY OthersSeen DEF Silent
<1>2. \A k \in Keys : Content(k)' = Content(k)
  BY ContentStays
<1>3. call' = call
  BY DEF Silent
<1>4. QED
  BY <1>1, <1>2, <1>3 DEF M!vars, Told

(* What the map is told of a call that is over, and of a new one.          *)
LEMMA AnswerIs ==
  ASSUME NEW t \in Threads, Plain(t), Status(t)' # "called",
         NEW s, s = Status(t)', NEW a, a = answer'[t]
  PROVE  /\ [u \in Threads |-> Status(u)]' = [[u \in Threads |-> Status(u)] EXCEPT ![t] = s]
         /\ [u \in Threads |-> IF Status(u) = "called" THEN "none" ELSE answer[u]]'
              = [[u \in Threads |-> IF Status(u) = "called" THEN "none" ELSE answer[u]]
                   EXCEPT ![t] = a]
<1>1. \A u \in Threads : u # t => Status(u)' = Status(u) /\ Told(u)' = Told(u)
  BY OthersSeen
<1>2. QED
  BY <1>1 DEF Told

(* A search tells what the content is.                                     *)
LEMMA SearchMaps ==
  ASSUME NEW t \in Threads, Plain(t), SearchMisses(t) \/ SearchAnswers(t)
  PROVE  M!TakesEffect(t) \/ UNCHANGED M!vars
<1>0. pc[t] = "search"
  BY DEF SearchMisses, SearchAnswers
<1>1. TypeOK /\ TypeOK' /\ Flow(t) /\ Settled(t) /\ IInv /\ OneBase /\ ~is_rehashing
  BY DEF Plain, IInv
<1>2. PICK k : k = call[t].key
  OBVIOUS
<1>3. k \in Keys /\ Entry(t) = EntryOf(1, k) /\ Entry(t) \in Entries /\ local[t].bases = <<1>>
  BY <1>0, <1>2, CallersEntry
<1>4. call[t].op \in {"insert", "update", "find", "remove", "find_lock"} /\ call' = call
  BY <1>0, <1>1 DEF Flow, Calls, SearchMisses, SearchAnswers
<1>5. \A l \in Keys : Content(l)' = Content(l)
  <2>1. ~(UpdateItem(t) \/ UnlinkItem(t) \/ LinkNode(t))
    BY <1>0 DEF UpdateItem, UnlinkItem, LinkNode
  <2>2. QED
    BY <2>1, ContentStays
<1>6. Status(t) = "called"
  BY <1>0 DEF Status
<1>7. CASE SearchMisses(t)
  <2>1. Content(k) = NULL
    BY <1>2, <1>3, <1>7 DEF SearchMisses, Content
  <2>2. ~(Len(local[t].bases) > 1)
    <3>1. Len(<<1>>) = 1
      OBVIOUS
    <3>2. QED
      BY <1>3, <3>1
  <2>3. CASE call[t].op = "insert"
    <3>1. pc'[t] = "alloc"
      BY <1>1, <1>7, <2>2, <2>3 DEF SearchMisses, TypeOK
    <3>2. Silent(t)
      BY <1>4, <1>6, <3>1 DEF Silent, Told, Status
    <3>3. QED
      BY <1>0, <3>2, SilentIs DEF UpdateItem, UnlinkItem, LinkNode
  <2>4. CASE call[t].op # "insert"
    <3>1. Return(t, "missing")
      BY <1>7, <2>2, <2>4 DEF SearchMisses
    <3>2. Status(t)' = "done" /\ answer'[t] = "missing"
      BY <1>1, <3>1 DEF Return, Status, TypeOK
    <3>3. <<NULL, "missing">> \in M!Effects(call[t].op, NULL, call[t].value)
      BY <1>4, <2>4 DEF M!Effects
    <3>4. QED
      BY <1>2, <1>3, <1>4, <1>5, <1>6, <2>1, <3>2, <3>3, EffectIs
  <2>5. QED
    BY <2>3, <2>4
<1>8. CASE SearchAnswers(t)
  <2>1. PICK n : n = Find(Entry(t), k)
    OBVIOUS
  <2>2. n # NULL /\ Return(t, IF call[t].op = "find" THEN node[n].value ELSE "duplicate")
    BY <1>2, <1>8, <2>1 DEF SearchAnswers
  <2>3. n \in Linked(Entry(t)) /\ node[n].key = k
    BY <1>1, <1>3, <2>1, <2>2, FindIs
  <2>4. Content(k) = node[n].value /\ Content(k) \in Values
    BY <1>1, <1>3, <2>3, ContentIs DEF ContentForm
  <2>5. Content(k) # NULL
    BY <2>4, HashTableAssumption
  <2>6. /\ Status(t)' = "done"
        /\ answer'[t] = IF call[t].op = "find" THEN Content(k) ELSE "duplicate"
    BY <1>1, <2>2, <2>4 DEF Return, Status, TypeOK
  <2>7. call[t].op \in {"find", "insert"}
    BY <1>8 DEF SearchAnswers
  <2>8. <<Content(k), answer'[t]>> \in M!Effects(call[t].op, Content(k), call[t].value)
    BY <2>5, <2>6, <2>7 DEF M!Effects
  <2>9. QED
    BY <1>2, <1>3, <1>4, <1>5, <1>6, <2>6, <2>8, EffectIs
<1>9. QED
  BY <1>7, <1>8

(* The item that a caller has found is the one with its key.               *)
LEMMA FoundItem ==
  ASSUME NEW t \in Threads, Plain(t), pc[t] = "item", NEW k, k = call[t].key
  PROVE  /\ k \in Keys /\ Entry(t) = EntryOf(1, k) /\ Entry(t) \in Entries
         /\ local[t].p \in Linked(Entry(t)) /\ node[local[t].p].key = k /\ local[t].p \in Nodes
         /\ Content(k) = node[local[t].p].value /\ Content(k) # NULL
<1>1. Found(t) /\ Settled(t) /\ IInv /\ OneBase /\ ~is_rehashing
  BY DEF Plain, IInv
<1>2. k \in Keys /\ Entry(t) = EntryOf(1, k) /\ Entry(t) \in Entries
  BY CallersEntry
<1>3. local[t].p \in Linked(Entry(t)) /\ node[local[t].p].key = k
  BY <1>1 DEF Found, Settled
<1>4. Content(k) = node[local[t].p].value /\ Content(k) \in Values
  BY <1>1, <1>2, <1>3, ContentIs DEF ContentForm
<1>5. QED
  BY <1>1, <1>2, <1>3, <1>4, ItemsApart, HashTableAssumption

(* The item is handed out as it is.                                        *)
LEMMA LockMaps ==
  ASSUME NEW t \in Threads, Plain(t), LockItem(t)
  PROVE  M!TakesEffect(t)
<1>1. TypeOK /\ pc[t] = "item" /\ call[t].op = "find_lock" /\ call' = call /\ pc'[t] = "return"
      /\ answer'[t] = node[local[t].p].value
  BY DEF Plain, IInv, LockItem, TypeOK
<1>2. PICK k : k = call[t].key
  OBVIOUS
<1>3. k \in Keys /\ Content(k) = node[local[t].p].value /\ Content(k) # NULL
  BY <1>1, <1>2, FoundItem
<1>4. \A l \in Keys : Content(l)' = Content(l)
  BY <1>1, ContentStays DEF UpdateItem, UnlinkItem, LinkNode
<1>5. <<Content(k)', answer'[t]>> \in M!Effects(call[t].op, Content(k), call[t].value)
  BY <1>1, <1>3, <1>4 DEF M!Effects
<1>6. Status(t) = "called" /\ Status(t)' = "done"
  BY <1>1 DEF Status
<1>7. QED
  BY <1>1, <1>2, <1>3, <1>4, <1>5, <1>6, EffectIs

(* An update and a removal change the content of their key.                *)
LEMMA ItemMaps ==
  ASSUME NEW t \in Threads, Plain(t), UpdateItem(t) \/ UnlinkItem(t)
  PROVE  M!TakesEffect(t)
<1>1. /\ TypeOK /\ TableRight /\ Apart /\ NoCircles /\ Keyed /\ Flow(t) /\ Looks(t) /\ Rehashing(t)
      /\ Found(t) /\ KeysOnce /\ Moves(t) /\ IInv /\ IInv' /\ OneBase' /\ ~is_rehashing /\ ~is_rehashing'
  BY DEF Plain, IInv
<1>2. PICK k, n, e : k = call[t].key /\ n = local[t].p /\ e = Entry(t)
  OBVIOUS
<1>3. pc[t] = "item" /\ call' = call
  BY DEF UpdateItem, UnlinkItem
<1>4. /\ k \in Keys /\ e = EntryOf(1, k) /\ e \in Entries /\ n \in Linked(e) /\ node[n].key = k
      /\ n \in Nodes /\ Content(k) # NULL
  BY <1>2, <1>3, FoundItem
<1>5. EntryOf(1, k)' = e /\ Linked(EntryOf(1, k))' = Linked(e)'
  <2>1. size'[1] = size[1]
    BY <1>1, TableKept, NoRounds
  <2>2. QED
    BY <1>4, <2>1 DEF EntryOf, Linked, OnTheWay
<1>6. ContentForm'
  BY <1>1, ContentAfter
<1>7. \A l \in Keys : l # k => Content(l)' = Content(l)
  BY <1>2, ContentStays
<1>8. Status(t) = "called"
  BY <1>3 DEF Status
<1>9. CASE UpdateItem(t)
  <2>1. n \in Linked(e)' /\ node'[n].key = k
    BY <1>1, <1>3, <1>4, <1>9, PlainLists, ItemsStay DEF UpdateItem, UnlinkItem
  <2>2. node'[n].value = call[t].value
    BY <1>1, <1>2, <1>4, <1>9 DEF UpdateItem, TypeOK, NodeContents
  <2>3. Content(k)' = call[t].value
    BY <1>1, <1>4, <1>5, <1>6, <2>1, <2>2 DEF ContentForm
  <2>4. call[t].op = "update" /\ answer'[t] = "done" /\ Status(t)' = "done"
    BY <1>1, <1>9 DEF UpdateItem, Return, TypeOK, Status
  <2>5. <<Content(k)', answer'[t]>> \in M!Effects(call[t].op, Content(k), call[t].value)
    BY <1>4, <2>3, <2>4 DEF M!Effects
  <2>6. QED
    BY <1>2, <1>3, <1>4, <1>7, <1>8, <2>4, <2>5, EffectIs
<1>10. CASE UnlinkItem(t)
  <2>1. Linked(e)' = Linked(e) \ {n}
    <3>1. Taken(e, n)
      BY <1>1, <1>2, <1>10, UnlinkEffect
    <3>2. List(e) = Linked(e) /\ List(e)' = Linked(e)'
      BY <1>4, SpotsAre DEF List, First, Linked, Entries, Bases
    <3>3. QED
      BY <3>1, <3>2 DEF Taken
  <2>2. \A m \in Linked(e)' : node'[m].key # k
    <3>1. \A m \in Linked(e) : node'[m].key = node[m].key /\ (node[m].key = k => m = n)
      BY <1>1, <1>4, ItemsStay DEF KeysOnce
    <3>2. QED
      BY <2>1, <3>1
  <2>3. Content(k)' = NULL
    BY <1>1, <1>4, <1>5, <1>6, <2>2 DEF ContentForm
  <2>4. call[t].op = "remove" /\ answer'[t] = "done" /\ Status(t)' = "done"
    BY <1>1, <1>10 DEF UnlinkItem, TypeOK, Status
  <2>5. <<Content(k)', answer'[t]>> \in M!Effects(call[t].op, Content(k), call[t].value)
    BY <1>4, <2>3, <2>4 DEF M!Effects
  <2>6. QED
    BY <1>2, <1>3, <1>4, <1>7, <1>8, <2>4, <2>5, EffectIs
<1>11. QED
  BY <1>9, <1>10

(* An insert gets no node.                                                 *)
LEMMA AllocMaps ==
  ASSUME NEW t \in Threads, Plain(t), AllocFails(t)
  PROVE  M!TakesEffect(t)
<1>1. /\ TypeOK /\ Flow(t) /\ pc[t] = "alloc" /\ call' = call /\ pc'[t] = "return"
      /\ answer'[t] = "memory"
  BY DEF Plain, IInv, AllocFails, Return, TypeOK
<1>2. call[t].op = "insert" /\ call[t].key \in Keys
  BY <1>1, KeyIs DEF Flow
<1>3. PICK k : k = call[t].key
  OBVIOUS
<1>4. \A l \in Keys : Content(l)' = Content(l)
  BY <1>1, ContentStays DEF UpdateItem, UnlinkItem, LinkNode
<1>5. <<Content(k)', answer'[t]>> \in M!Effects(call[t].op, Content(k), call[t].value)
  BY <1>1, <1>2, <1>3, <1>4 DEF M!Effects
<1>6. Status(t) = "called" /\ Status(t)' = "done"
  BY <1>1 DEF Status
<1>7. QED
  BY <1>1, <1>2, <1>3, <1>4, <1>5, <1>6, EffectIs

(* The second search of an insert has met the key.                         *)
LEMMA WalkMaps ==
  ASSUME NEW t \in Threads, Plain(t), WalkFinds(t)
  PROVE  M!TakesEffect(t)
<1>1. /\ TypeOK /\ Flow(t) /\ Settled(t) /\ IInv /\ OneBase /\ ~is_rehashing
      /\ pc[t] = "walk" /\ local[t].pos = 1 /\ call' = call /\ pc'[t] = "return"
      /\ answer'[t] = "duplicate" /\ local[t].p # NULL /\ node[local[t].p].key = call[t].key
  BY DEF Plain, IInv, WalkFinds, Return, TypeOK
<1>2. call[t].op = "insert"
  BY <1>1 DEF Flow
<1>3. PICK k, n : k = call[t].key /\ n = local[t].p
  OBVIOUS
<1>4. InsertEntry(t) = EntryOf(1, k) /\ k \in Keys
  BY <1>1, <1>3, WalkedEntry
<1>5. n \in Linked(EntryOf(1, k)) /\ node[n].key = k
  BY <1>1, <1>3, <1>4 DEF Settled
<1>6. Content(k) # NULL
  BY <1>1, <1>4, <1>5, ContentIs, HashTableAssumption DEF ContentForm
<1>7. \A l \in Keys : Content(l)' = Content(l)
  BY <1>1, ContentStays DEF UpdateItem, UnlinkItem, LinkNode
<1>8. <<Content(k)', answer'[t]>> \in M!Effects(call[t].op, Content(k), call[t].value)
  BY <1>1, <1>2, <1>4, <1>6, <1>7 DEF M!Effects
<1>9. Status(t) = "called" /\ Status(t)' = "done"
  BY <1>1 DEF Status
<1>10. QED
  BY <1>1, <1>2, <1>3, <1>4, <1>7, <1>8, <1>9, EffectIs

(* No item has the key, and the new node is linked.                        *)
LEMMA LinkMaps ==
  ASSUME NEW t \in Threads, Plain(t), LinkNode(t)
  PROVE  M!TakesEffect(t)
<1>1. /\ TypeOK /\ TableRight /\ Apart /\ NoCircles /\ Keyed /\ Flow(t) /\ Looks(t) /\ Rehashing(t)
      /\ Found(t) /\ Settled(t) /\ Moves(t) /\ IInv /\ IInv' /\ OneBase /\ OneBase'
      /\ ~is_rehashing /\ ~is_rehashing'
  BY DEF Plain, IInv
<1>2. /\ pc[t] = "link" /\ call' = call /\ pc'[t] = "count" /\ answer'[t] = "done"
      /\ call[t].op = "insert" /\ call[t].key \in Keys /\ local[t].new_node # NULL
  BY <1>1, KeyIs DEF LinkNode, TypeOK, Flow
<1>3. PICK k, n, e : k = call[t].key /\ n = local[t].new_node /\ e = InsertEntry(t)
  OBVIOUS
<1>4. e \in Entries /\ e = EntryOf(1, k)
  <2>1. e \in Entries /\ local[t].insert_base = 1
    BY <1>1, <1>2, <1>3, EntryOfInsert, NoRounds
  <2>2. QED
    BY <1>3, <2>1 DEF InsertEntry
<1>5. EntryOf(1, k)' = e /\ Linked(EntryOf(1, k))' = Linked(e)'
  <2>1. size'[1] = size[1]
    BY <1>1, TableKept, NoRounds
  <2>2. QED
    BY <1>4, <2>1 DEF EntryOf, Linked, OnTheWay
<1>6. ContentForm /\ ContentForm'
  BY <1>1, ContentIs, ContentAfter
<1>7. \A l \in Keys : l # k => Content(l)' = Content(l)
  BY <1>3, ContentStays
<1>8. Content(k) = NULL
  BY <1>1, <1>2, <1>3, <1>4, <1>6 DEF Settled, ContentForm
<1>9. n \in Linked(e)'
  <2>1. Given(e, n)
    BY <1>1, <1>3, LinkEffect
  <2>2. List(e)' = Linked(e)'
    BY <1>4 DEF List, First, Linked, Entries, Bases
  <2>3. QED
    BY <2>1, <2>2 DEF Given
<1>10. node'[n].key = k /\ node'[n].value = call[t].value
  <2>1. n \in Private(t) /\ n \in Nodes
    BY <1>1, <1>2, <1>3 DEF Private, TypeOK, CallLocals
  <2>2. node[n].key = k /\ node[n].value = call[t].value
    BY <1>1, <1>3, <2>1 DEF Keyed, Settled
  <2>3. QED
    BY <1>1, <2>1, <2>2, KeysInUseStay, HandsKeepValues
<1>11. Content(k)' = call[t].value
  BY <1>1, <1>2, <1>3, <1>5, <1>6, <1>9, <1>10 DEF ContentForm
<1>12. <<Content(k)', answer'[t]>> \in M!Effects(call[t].op, Content(k), call[t].value)
  BY <1>2, <1>8, <1>11 DEF M!Effects
<1>13. Status(t) = "called" /\ Status(t)' = "done"
  BY <1>2 DEF Status
<1>14. QED
  BY <1>2, <1>3, <1>7, <1>12, <1>13, EffectIs

(* Calls begin and return, and map functions are called.                   *)
LEMMA FrameMaps ==
  ASSUME NEW t \in Threads, Plain(t),
         Call(t) \/ Returns(t) \/ StartFails(t) \/ MapBase(t) \/ MapLeave(t), ~Silent(t)
  PROVE  M!Call(t) \/ M!Returns(t) \/ M!InsertFails(t) \/ M!Maps(t)
<1>1. TypeOK /\ Flow(t) /\ Settled(t)
  BY DEF Plain, IInv
<1>2. \A l \in Keys : Content(l)' = Content(l)
  BY ContentStays DEF Call, Returns, StartFails, MapBase, MapLeave, UpdateItem, UnlinkItem, LinkNode
<1>3. [l \in Keys |-> Content(l)]' = [l \in Keys |-> Content(l)]
  BY <1>2
<1>4. CASE Call(t)
  <2>1. Status(t) = "idle" /\ Status(t)' = "called" /\ answer[t] = "none"
    BY <1>1, <1>4 DEF Call, Status, TypeOK, Settled
  <2>2. \E c \in Calls : call' = [call EXCEPT ![t] = c]
    BY <1>4 DEF Call
  <2>3. \A u \in Threads : u # t => Status(u)' = Status(u) /\ Told(u)' = Told(u)
    BY OthersSeen
  <2>4. Told(t) = "none" /\ Told(t)' = "none"
    BY <2>1 DEF Told
  <2>5. [u \in Threads |-> Status(u)]' = [[u \in Threads |-> Status(u)] EXCEPT ![t] = "called"]
    BY <2>1, <2>3
  <2>6. [u \in Threads |-> IF Status(u) = "called" THEN "none" ELSE answer[u]]'
          = [u \in Threads |-> IF Status(u) = "called" THEN "none" ELSE answer[u]]
    BY <2>3, <2>4 DEF Told
  <2>7. M!Call(t)
    BY <1>3, <2>1, <2>2, <2>5, <2>6 DEF M!Call
  <2>8. QED
    BY <2>7
<1>5. CASE Returns(t)
  <2>1. Status(t) = "done" /\ Status(t)' = "idle" /\ answer'[t] = "none"
    BY <1>1, <1>5 DEF Returns, Status, TypeOK
  <2>2. call' = [call EXCEPT ![t] = NoCall]
    BY <1>5 DEF Returns
  <2>3. M!Returns(t)
    BY <1>3, <2>1, <2>2, AnswerIs DEF M!Returns
  <2>4. QED
    BY <2>3
<1>6. CASE StartFails(t)
  <2>1. Status(t) = "done" /\ Status(t)' = "done" /\ answer'[t] = "memory" /\ call' = call
    BY <1>1, <1>6 DEF StartFails, Return, Status, TypeOK
  <2>2. call[t].op = "insert"
    BY <1>1, <1>6 DEF StartFails, Flow
  <2>3. [u \in Threads |-> Status(u)]' = [u \in Threads |-> Status(u)]
    BY <2>1, OthersSeen
  <2>4. M!InsertFails(t)
    BY <1>3, <2>1, <2>2, <2>3, AnswerIs DEF M!InsertFails
  <2>5. QED
    BY <2>4
<1>7. CASE MapBase(t) \/ MapLeave(t)
  <2>1. Status(t) = "called" /\ call[t].op = "map" /\ call' = call
    BY <1>1, <1>7 DEF MapBase, MapLeave, Status, Flow
  <2>2. Status(t)' # "called"
    BY <2>1 DEF Silent, Told
  <2>3. pc'[t] = "return" /\ answer'[t] \in {"done", "callback"}
    <3>1. CASE MapBase(t)
      <4>1. Return(t, "done") \/ pc'[t] \in {"map_head", "map"}
        BY <1>1, <3>1 DEF MapBase, TypeOK
      <4>2. QED
        BY <1>1, <2>2, <4>1 DEF Return, Status, TypeOK
    <3>2. CASE MapLeave(t)
      <4>1. Return(t, "callback") \/ pc'[t] \in {"map_head", "map"}
        BY <1>1, <3>2 DEF MapLeave, TypeOK
      <4>2. QED
        BY <1>1, <2>2, <4>1 DEF Return, Status, TypeOK
    <3>3. QED
      BY <1>7, <3>1, <3>2
  <2>4. Status(t)' = "done"
    BY <2>3 DEF Status
  <2>5. M!Maps(t)
    BY <1>3, <2>1, <2>3, <2>4, AnswerIs DEF M!Maps
  <2>6. QED
    BY <2>5
<1>8. QED
  BY <1>4, <1>5, <1>6, <1>7

(* Every step before the first rehash is one of the map, or none.          *)
LEMMA StepMaps ==
  ASSUME NEW t \in Threads, Plain(t)
  PROVE  M!Next \/ UNCHANGED M!vars
<1>1. \/ Silent(t)
      \/ Call(t) \/ Returns(t) \/ SearchMisses(t) \/ SearchAnswers(t) \/ LockItem(t)
      \/ UpdateItem(t) \/ UnlinkItem(t) \/ AllocFails(t) \/ WalkFinds(t) \/ LinkNode(t)
      \/ StartFails(t) \/ MapBase(t) \/ MapLeave(t)
  BY PlainStep DEF Plain, IInv
<1>2. CASE SearchMisses(t) \/ SearchAnswers(t)
  BY <1>2, SearchMaps DEF M!Next
<1>3. CASE LockItem(t)
  BY <1>3, LockMaps DEF M!Next
<1>4. CASE UpdateItem(t) \/ UnlinkItem(t)
  BY <1>4, ItemMaps DEF M!Next
<1>5. CASE AllocFails(t)
  BY <1>5, AllocMaps DEF M!Next
<1>6. CASE WalkFinds(t)
  BY <1>6, WalkMaps DEF M!Next
<1>7. CASE LinkNode(t)
  BY <1>7, LinkMaps DEF M!Next
<1>8. CASE /\ Silent(t)
           /\ ~(UpdateItem(t) \/ UnlinkItem(t) \/ LinkNode(t))
  BY <1>8, SilentIs
<1>9. CASE (Call(t) \/ Returns(t) \/ StartFails(t) \/ MapBase(t) \/ MapLeave(t)) /\ ~Silent(t)
  BY <1>9, FrameMaps DEF M!Next
<1>10. QED
  BY <1>1, <1>2, <1>3, <1>4, <1>5, <1>6, <1>7, <1>8, <1>9

(* MapUntilRehash: searches, inserts, removals and updates that lock one   *)
(* entry each and look twice take effect at one moment, for any threads,   *)
(* keys and hash function, until the first rehash is started.              *)
THEOREM TableIsMapUntilRehash == Spec => MapUntilRehash
<1>1. Init => M!Init
  <2> SUFFICES ASSUME Init PROVE M!Init
    OBVIOUS
  <2>1. ASSUME NEW k \in Keys PROVE Linked(EntryOf(1, k)) = {}
    <3>1. EntryOf(1, k) \in Entries
      BY InitRight, OnlyEntry DEF Init
    <3>2. head[EntryOf(1, k)] = NULL
      BY <3>1 DEF Init
    <3>3. QED
      BY <3>2 DEF Linked, OnTheWay
  <2>2. \A k \in Keys : Content(k) = NULL
    BY <2>1 DEF Content, Find
  <2>3. \A t \in Threads : Status(t) = "idle" /\ answer[t] = "none"
    BY DEF Init, Status
  <2>4. QED
    BY <2>2, <2>3 DEF Init, M!Init
<1>2. ASSUME IInv, IInv', OneBase, OneBase', [Next]_vars, ~is_rehashing'
      PROVE  M!Next \/ UNCHANGED M!vars
  <2>1. ASSUME NEW t \in Threads, Moves(t) PROVE M!Next \/ UNCHANGED M!vars
    <3>1. ~is_rehashing
      BY <1>2, <2>1, NoWayBack
    <3>2. Plain(t)
      BY <1>2, <2>1, <3>1 DEF Plain, OneBase
    <3>3. QED
      BY <3>2, StepMaps
  <2>2. ASSUME UNCHANGED vars PROVE UNCHANGED M!vars
    <3>1. UNCHANGED <<Table, Lists, pc, call, answer>>
      BY <2>2 DEF vars
    <3>2. \A k : Content(k)' = Content(k)
      BY <3>1 DEF Content, Find, EntryOf, Linked, OnTheWay
    <3>3. \A t : Status(t)' = Status(t)
      BY <3>1 DEF Status
    <3>4. QED
      BY <3>1, <3>2, <3>3 DEF M!vars
  <2>3. QED
    BY <1>2, <2>1, <2>2 DEF Next, Done, Moves
<1>3. IInv /\ IInv' /\ OneBase /\ OneBase' /\ [Next]_vars => [is_rehashing' \/ M!Next]_(M!vars)
  BY <1>2
<1>4. IInv /\ IInv' /\ OneBase /\ [Next]_vars => OneBase'
  BY OneBaseKept
<1>5. QED
  BY <1>1, <1>3, <1>4, OneBaseAtFirst, InductiveInvariant, PTL DEF Spec, MapUntilRehash

=============================================================================
