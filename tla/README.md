# forfun in TLA+

This directory holds the verification project of *forfun*, the beginnings of a
storage engine in C (`src/src`): TLA+ models of its concurrent and sequential
data structures, the TLC configurations that check them on small instances, and
proofs, checked by TLAPS, of what matters most for every value of the constants.

- `X.tla` — the model of a component (or an abstract specification, below)
- `MCX.tla`, `X*.cfg` — its instances for TLC
- `X_proofs.tla` — theorems about it, with their proofs (those of `Coding` are in
  `BaseString_proofs.tla`)
- `PROJECT.json` — components, runs, mutants, the map from definitions to lines of
  the source, findings, hazards and theorems

```
tlc -workers 2 -config RWLock.cfg MCRWLock      # one of the runs
tlapm RWLock_proofs.tla                         # one of the proof modules
```

## 1. The system

The code has four layers; each uses the ones above it in this table. Paths are
relative to `src/src`.

| layer | component | state it keeps | operations |
|---|---|---|---|
| port | int lock, spinning readers/writer lock (`atomic.c`) | `lock`, `about_to_write`, `is_writing`, `reader_count` | lock, try, unlock, promote, demote |
| port | resource queue (`resource_queue.c`) | a mutex, a holder list, a wait list, the type of the holders; free lists of queues and nodes | request, timed request, release, wake all |
| port | critical sections (`critical_section.c`) | one resource queue each | enter, timed enter, exit, wake |
| port | threads, files (`thread.c`, `os_file.c`) | a condition variable per thread; file descriptors | create, join; open, read, write, sync |
| common | lock-free free lists (`block_alloc_helper.h`) | a marked head word, `next` pointers, blocks | take, put back, grow |
| common | error manager (`error_manager.c`) | a stack of records per thread | record, last, remove, clear |
| common | environment, byte order (`env.c`, `function.c`, `align.c`) | — | start and stop the others in order |
| base | double-ended queue, queue, stack (`base_dequeue.c`, `queue.c`, `stack.c`) | a chain of units with two ends, a lock | push, pop at either end |
| base | hash table (`base_hash.c`) | two bases of entries, nodes, entry and node locks, counts, the rehash position | insert, find, find and lock, update, remove, map |
| base | red-black tree (`rbtree.c`) | a tree | insert, remove, search |
| base | heap (`heap.c`) | an array and its length | add, replace top, delete top, sort |
| base | strings (`base_string.c`) | shared buffers with reference counts | create, copy, edit, free |
| base | coding, base64 (`base_coding.c`, `b64.c`) | — | conversions |
| storage | volumes (`volume.c`, `page.c`) | a header and a chain of free pages in a file | format, allocate, free pages |
| storage | volume manager (`volume_manager.c`) | `manager_p`, the configuration file, three lists of volumes | initialize from the file, allocate, free, load and save pages, destroy |
| storage | page manager (`page_manager.c`) | page caches in a hash table, LRU zones, a dirty list, a latch per page | fix, unfix, mark dirty, write back |
| storage | slot pages, files (`slot_page.c`, `file.c`) | a slot directory in a page; file headers | mostly unfinished |

**How they interact.** The spinning lock protects hash entries and hash nodes;
int locks protect the double-ended queue, the growth of free lists and the counts
of a hash base. Resource queues are the critical sections and the latches of
pages. Free lists supply list nodes, error records, tree nodes and hash nodes.
The red-black tree frees itself with a queue. The page manager looks pages up in
a hash table, latches them with resource queues, keeps dirty ones in a
double-ended list and reads and writes them through the volume manager.

**What is hard.** Nothing in the program serialises threads from above, so:

- the spinning lock decides on *unlocked reads* first and stores one flag without
  its lock;
- a resource queue hands the resource over to a sleeping thread, which takes any
  end of its sleep for the grant; timeouts, failed allocations and spurious
  wakeups take other ways out;
- the free lists are lock-free and take back the very items a racing thread
  looked at (ABA);
- the hash table is rehashed a few nodes at a time by whoever calls it, while
  others search, insert and remove in both bases;
- the double-ended queue and the tree must be right after every *sequence* of
  legal calls, which no test enumerates;
- a string is shared by reference counts that are read without the lock that
  guards them, and freed by whoever drops the last reference;
- a string with one owner must be right after every sequence of appends, copies
  and resets, in a buffer whose size is kept apart from what was allocated;
- the volume manager starts from a file it reads in buffers that end anywhere, and
  any of the calls on the way may fail with some volumes already open;
- the calls of the storage layer hand on counts and error codes in one `int`.

**What makes each component correct.** A lock excludes, implements an atomic
lock, and lets waiters in. A queue serves in order, forgets nobody, and links no
freed node. A free list hands no item out twice, loses none, and grows only when
it has to. The double-ended queue is a sequence and the tree a balanced map. The
hash table is an atomic map, keeps each node in one place and locked items where
they are. A heap is a bag that gives its least value first, and stays within its
array. A string is freed once, by its last owner, and an edit is seen by nobody
else; a text keeps its bytes and its terminator, inside of its buffer. A conversion
writes the bits of its input and reads back what it wrote. The volume manager
loads what its file says, owns every file it has opened, and its answers agree
with what has happened. (For what cannot run at this commit: every page of a
volume is free or allocated and the header counts them; a page is in one cache, a
fixed page is not evicted, a dirty page is written before its cache is reused.)

## 2. The modules

| module | models | abstract specification it is checked against |
|---|---|---|
| `RWLock`, `MCRWLock`, `RWLock_proofs` | `port/atomic.c`, `atomic.h` | `RWMutex` |
| `ResourceQueue`, `MCResourceQueue`, `ResourceQueue_proofs` | `port/resource_queue.c` | `RWMutex` |
| `FreeList`, `MCFreeList`, `FreeList_proofs` | `common/block_alloc_helper.h` and its copies | `Pool` |
| `DeQueue`, `MCDeQueue`, `DeQueue_proofs` | `base/base_dequeue.c` | `ItemSequence` |
| `TreeTeardown`, `MCTreeTeardown` | `destroyRBTree` of `base/rbtree.c`, with `base/queue.c`; composes `RBTree` and `DeQueue` | — |
| `HashTable`, `HashTable_proofs`, `MCHashTable` | `base/base_hash.c` | `HashMap` |
| `RBTree` | `base/rbtree.c` | `Dictionary` |
| `Heap`, `MCHeap`, `Heap_proofs` | `base/heap.c` | `PriorityBag` |
| `SharedString` | the shared strings of `base/base_string.c` | `OwnValues` |
| `StringBuffer` | the strings with one owner of `base/base_string.c` | `Text` |
| `BaseString`, `MCBaseString`, `BaseString_proofs` | both together | — |
| `Coding`, `MCCoding` | `base/base_coding.c` | the bit strings of RFC 4648, in the module itself |
| `VolumeManager`, `MCVolumeManager`, `VolumeManager_proofs` | `storage/volume_manager.c`, `volume.c`, and `port/os_file.c` as they use it | the format of the file, in the module itself |

The abstract specifications translate no code. They say what a component
promises: `RWMutex` is an atomic readers/writer lock with promotion and demotion,
`Pool` a set of items that are in the pool or with one thread, `ItemSequence` a
sequence with two ends, `HashMap` a map whose calls take effect at one moment
between begin and end, `Dictionary` a sequential map, `PriorityBag` a bag whose top
is its least value, `OwnValues` a value per thread that only this thread changes,
`Text` a text that is set, appended to, cleared and copied (a copy may have a byte 0
in place of one of its bytes, the one fault the code has there).

Operators and actions have the names of the functions they stand for, or name the
step of a function; `PROJECT.json` gives the lines of each. Next to some
definitions stands a *mutant* of it, a plausible mistake; replacing the
definition by its mutant makes a property of a run fail, which shows that the
property depends on that code.

### RWLock

State: the four words of `RWLock`, and for each thread `pc`, `op` and what it
holds. One action is one access other threads can observe. `lock_rwlock(WRITE)`
is therefore: read `is_writing` and `reader_count` unlocked, store
`about_to_write` unlocked (line 71), take the int lock, test again, update and
unlock. Failed tests go back to the beginning, or give up for the `try_`
operations. An assertion that fails leads to `aborted`, where everything stops.
Callers follow the notes in the header: they hold what an operation says they
must hold, and never lock twice.

### ResourceQueue

State: the mutex with its owner, the holder list, the wait list, `current_type`,
each thread's node, and each thread's place and local `error`. The lists hold
threads in place of nodes, as a thread has one node at most; the order of holders
does not matter and the holder list is a set. Actions are the steps under the
mutex: decide, become a holder, enqueue and sleep, wake and relock, release
(remove, promote the next waiters and signal them). `Faults` says what the
environment may do: `alloc` (no memory for a node), `trylock` (a timeout while the
mutex is tried), `spurious` (the condition wait returns unasked). The first two
leave through `end:` without the mutex (`quit`). If it is free, they return
(`ReturnUnlocked`). If another thread owns it, `pthread_mutex_unlock` takes it from
that thread, and a third may get in between two stores of a list update. A list
update is one action here, which is right only while its thread is alone in the
section, so the behaviour ends at such an unlock (`StrayUnlock`): nothing is claimed of
what follows.

Time is left out: a timed wait may end at any moment, which covers the deadline
the code computes (line 824). `isResourceFree`, names, creation and destruction
of queues are not modelled. The free lists of the queue are `FreeList`.

### FreeList

State: the head word (pointer and mark), `next` of each item, the block lock, the
blocks made so far, who has each item, and the locals `item_p` and `next_item_p`
of each thread. One action is one shared access. A taker marks the head, reads
`next`, and stores the new head, which unmarks it; a put-back is one
compare-and-swap; an empty list is grown under the int lock. A thread may store
into the link of an item it has (`Use`), which is what makes ABA dangerous.
`MarkToLink` selects the copies in `resource_queue.c` and `page_manager.c`, which
mark the head while they link a block, or the macro, which does not.

### DeQueue

State: the units from `front_p` to `end_p`, each with its indexes and slots, the
number of units in the free list, and the answer of the last call. The lock of
the queue covers each operation from its first access, so an operation is one
action. `queue.c` and `stack.c` add no state: both are `push` with `popFront`, so
the stack is a queue. An action of its own says that `expandDeQueue` gets no memory
(`PushFails`), and one for each end that no item is found there.

### TreeTeardown

`destroyRBTree` walks the tree breadth first, with a queue of nodes, and gives each
node to the free list. The module extends `DeQueue`, instantiates `RBTree`, and adds the
place in `freeRBTreeNodes`, the node at hand, and how often each node was freed;
every call of the queue is a step, and may fail. Then the tree is gone and so is
the queue, and a new tree is built. While no tree is destroyed, the tree and the
queue take every other call as well: the calls of a tree and those of some other
user's queue have nothing to do with each other, so the model explores the queue's
while the tree has not been touched and the other way round.

The walk is where the drained queue of `dequeue_drained` matters inside of the
program: `deQueue` answers that there is no item while a node is in the queue, and
`freeRBTreeNodes` returns (line 157) without that node. `AtMostOneLost` says that
this costs one leaf and no more. In the C program the queue has units of 128
slots and starts at slot 64, so it takes a tree of 65 nodes (or 193, ...) whose last
node is alone on its level and has its father in slot 127.

### HashTable

State: which base is current and which takes inserts, the rehash position, heads
and lengths of the lists, the nodes, the counts, the locks, and for each thread
its call and its locals. Every call begins with `doRehash`, which is the same
actions for all of them (`Round...`); then come reading the bases, searching
them, and what the call does with the node.

Decisions:

- The entry and node locks are atomic `RWMutex` locks, a set of (lock, thread,
  mode); that the spinning lock implements them is what `RWLock_proofs` proves.
- A search under an entry lock is one action. The rehash only *tries* its locks;
  since it might try one during such a search, its attempts may also fail while a
  search of that entry is under way (`Searched`), and the attempt at
  `update_lock` while somebody counts (`RoundUpdateFails`).
- The second search of an insert locks no entry. It goes node by node, reading
  the list as it is at each step, also through nodes that were moved or freed.
- `collision_count` is kept as "has left 0". Nothing increments it, and one
  decrement takes it near 2^64, so its ratio to `items_count` is then above any
  threshold below 1.
- `items_count` and `list_length` are unsigned: they wrap at `CountMod`.
- The list that begins with a node is the least set with that node that is closed
  under `next` (`OnTheWay`), and a search of an entry finds the node with the key from
  which all others with that key are reached. That is a list without recursion, for the proofs.
- `is_rehashing` is never reset, so there is one rehash in the life of a table.
- `reserve_entries`, the argument of `createHashTable`, makes the first base larger; the
  second gets `2 * LEAST_HASH_ENTRIES` in any case (`FirstSize`, `SecondSize`). The
  assertion at the start of `rehashNSteps` leads to `aborted`, and everything stops.
- A caller that holds an item gives it back before its next call; otherwise it
  could wait for itself.
- `pauseRehash` and `resumeRehash` have empty bodies at this commit.

### RBTree

State: the tree and the answer of the last call. A subtree is a record with its
left and right subtrees, and each function that returns a `node_p` is an operator
that returns the new subtree. A rotation without the child it needs has no value,
so TLC would stop where the code asserts. The operators are recursive, so nothing
is proved about this module.

### Heap

State: the array, its length and the part in use, the loop a call is in with its
hole and the value to put there, the slot `heapSort` is at, and the answer. A call
stores its value at one end; then `Up` or `Down` moves the hole by one level per
action until `Settle` stores the value. The heap is used by one thread, so the
steps of a loop are not there for interleavings: they make the state between two
levels visible, which is what the bounds and the refinement are about (`Filled`
puts the value in the hole). `EXPAND_RATIO` is 1.1 and its product is truncated, so
a heap of fewer than 10 slots would not grow; `LEAST_HEAP_SIZE` excludes that, and
`HeapAssumption` says so.

### SharedString

State: for each string whether it has memory, its bytes, `ref_count`, its lock and
whether it was freed; for each thread the string it holds, how often, and its place
in `refString`, `freeString`, `editString` or `cloneString`. One action is one shared
access: the unlocked reads of `ref_count` (lines 85 and 190) are steps of their own.

- The memory of a freed string may be given out again at once. `late` has the threads
  that are still at work on a string when it is freed.
- After its decrement `freeString` reads `ref_count` once more (line 94; the makefiles
  build without optimisation) and unlocks (line 98), although another owner may
  have read 1 and freed the string, or this thread did. That is what the code does;
  `OnlyRestOfFreeIsLate` says that no other access is late. An access that is late
  sets `undefined`, and the behaviour ends there.
- `allocString` whose second allocation fails returns a String without bytes;
  `cloneString` would copy into it, and the behaviour ends (`AllocWithoutBytes`).
- The contents are one of two values; what an edit does to the buffer is module
  `StringBuffer`.

### StringBuffer and BaseString

State: the buffer (each slot a byte, the byte 0, or what `malloc` left there), what
it was allocated with, the fields `size` and `length`, and whether a byte was stored
behind its end, or `NULL` was read or written through, after which nothing more is
known. Each call is one action, and its guard is what the code asserts: `copyString` and
`resetString` ask for a buffer, the appends and `streamToString` do not. There are two
ways to be without one. A string of `INIT_STRING` has size 0, and the first append allocates
its buffer; with `0 * 1.5 = 0` bytes from `appendByte`, and with 1 from `appendBytes` of
one byte, it is too small. A string that `destroyString` or a failed copy left keeps its size
and its length, and calls that find room in it, or text, use `NULL` (`AppendToNull`,
`StreamToNull`).
`capacity` is no field of the code: a `String` that is read from a stream keeps a
larger buffer and calls it as large as its text (line 360), and with an empty text
the next `appendByte` allocates `1 * 1.5 = 1` byte for a byte and a terminator.
`copyString` stores the terminator at the old length of the destination (line 222).
Texts are sequences of bytes; `stringToStream` reads only, and what it writes is what
`streamToString` is given.

`BaseString` extends `StringBuffer` and instantiates `SharedString`; the composed
specification is `StringsSpec` (`TeardownSpec` for the tree). A string on the stack
is never shared, and `editString` returns one that has no other owner, so the two
meet nowhere and their steps are explored one after the other.

### Coding

The functions have no state, so they are operators, one per conversion, with one
variable, `input`, that goes through the inputs. Each input is read as bytes by the
encoders and as text by the decoders. The group loops are comprehensions over the
groups; the checks of the decoders are the conjuncts under which they succeed, and
the padding cases are those of the code. The reference, `DigitOf`, is RFC 4648's: a
conversion cuts the bit string of its input into digits of 6, 5 or 4 bits. What is
written is compared up to its terminator. `NULL` arguments and failed allocations
are left out.

### VolumeManager

State: `manager_p` with its file and lists, the open descriptors, the locals of
`parseVolumeConfFile`, the bytes that are read and not yet parsed, and of the last
call what it returned, how many errors it recorded and whether a page moved. The
line that is being read and the id at its start are kept for `ReadsFormat`.

- A file is not written down beforehand: a character is chosen when the parser
  looks at it, so every file of short lines is explored. One action is one
  character; `readFile` returns a full buffer, or less at the end of the file, after
  any number of short reads.
- Every call on the way may fail: no memory for the manager, the path, a path that
  outgrows its first buffer (`PathFails`), the volume, its path or its list node; files that cannot be opened, read or closed.
- The calls for pages are sets of outcomes: the returned code, the records, and
  whether bytes of a page moved. `getVolumeHeader` and `setVolumeHeader` compare the
  count of bytes with `NO_ERROR` and stop at their first field, so no allocation or
  release of pages is ever carried out; the free page chain behind them has no
  reachable behaviour at this commit.
- `destroyVolumeManager` leaves `manager_p` as it is. `initVolumeManager` is called
  again after it, the other calls are not (they would use freed memory).
- A call that is interrupted is repeated, a step that changes nothing.

## 3. The runs

Bounds are in the `.cfg` files and MC modules. Times are for two to three workers.

| run | instance | what it shows |
|---|---|---|
| `rwlock` | 3 threads, one of which promotes; 36451 states | exact counter and flag, no intent without an owner, only demotion can abort, refinement of `RWMutex`, writers get in |
| `resource_queue` | 3 threads, requests without limits | no idle queue with waiters, order of service, refinement of `RWMutex`, every waiter is served |
| `resource_queue_faults` | 3 threads, one calls everything, all faults; 109625 states | a node that is freed is in neither list, whichever way a request failed, up to an unlock of another thread's mutex |
| `free_list` | 2 threads, 2 items each, 3 blocks of 2; 325275 states | nothing handed out twice or lost, the assertions hold, memory is bounded, operations complete |
| `dequeue_drained` | only push and popFront, expects a violation | a queue that is not empty whose `popFront` finds nothing |
| `hash_table` | 2 threads, 2 keys, 2 nodes, 1 entry that splits into 2; 1.3 million states, 3 minutes | no node lost or twice linked, lengths and counts right, the rehash stays in its base, locked items stay, an atomic map up to the rehash |
| `hash_table_switch` | both threads insert and remove, expects a violation | the bases are switched with an item left in the old one |
| `trees` | 9 keys, 2 values; units of 3 slots, 3 units; 111853 states, a minute and a half | every reachable tree is balanced, leans left and is a map; the queue is a sequence, its units end where the code takes them to, and some end gives an item; a destroyed tree loses one leaf at most, and frees nothing twice |
| `heap` | 2 values, 10 slots that grow to 11 and no further; 270187 states | no loop leaves the slots in use, the heap is a bag with its least value on top, `heapSort` sorts |
| `strings` | 3 threads, 3 strings, 2 contents, 2 references per thread; buffers for texts of up to 6 bytes; 164678 states up to symmetry | a string is not freed while it is referenced, only the end of `freeString` touches freed memory, an edit changes one thread's value; nothing is stored behind a buffer or through `NULL` but in the cases named in the property, copies alone leave a text without its terminator, a text is what was put there |
| `coding` | all sequences of up to 8 of four bytes; 87381 states | encoders write the bits of their input, decoders read them back and accept exactly what is well formed |
| `volumes` | lines of up to 8 characters from 7, numbers to 11, a buffer of 2 bytes, 3 descriptors, 2 volumes; 540065 states | the parser loads the lines of its format, and refuses only what cannot become one, but for comments (digits in front of a comment become part of the next id, a quote in a comment is refused), however the file is cut; files are open exactly while somebody has them, but for one failure; answers, records and effects agree |

### Why the bounds are enough

- **rwlock.** Three threads give a reader, a writer and one more of either, which
  is the least that lets a stale read, the unlocked store and a third thread's
  change meet. One thread promotes: two promoters wait for each other's read lock
  by design of the operation, and nothing in the program promotes. The proofs
  cover any number of threads and promoters for the safety properties.
- **resource queue.** Three threads make a holder and two waiters, so that a
  release chooses, readers are promoted together, and a newcomer may overtake.
  The faults run has one thread that does everything, while two others
  hold and wait.
- **free list.** ABA needs a thread that takes two items and puts the first one
  back while another is between its two accesses: two threads with two items
  each. With blocks of two, four items can be in use; three blocks exist, so
  that a needless growth shows up in `MemoryBounded`. `Links` is `NULL` alone:
  what a thread stores in an item's link makes no difference before it is put
  back. The run marks the head to link a block, the other kind is covered by the
  proofs.
- **double-ended queue.** The code compares indexes with 0 and with the capacity;
  with three slots a unit has a first, a last and a middle slot, and with three
  units there is a middle unit. More of either repeats these cases.
- **hash table.** Two keys that share an entry of the first base and not of the
  second exercise lists, splitting and duplicates. With two nodes, a node that is
  removed is used again at once, which is what the unlocked search may trip over.
  The space before the rehash is complete; after it `MaxLateCalls` calls begin,
  besides those already under way. The thresholds and the number of steps of a
  rehash are small so that both limits of its loop are met. The run that passes
  reserves no entries, as `reserve_entries` matters above `2 * LEAST_HASH_ENTRIES` only
  (see section 5).
- **trees.** Nine keys give trees of every shape up to a black height of
  three, where red links move over two levels on the way down. Neighbouring keys
  have different values, so a removal that copies the wrong successor shows; one
  key gets either value, so insertions overwrite. The walk of `destroyRBTree` meets
  the end of a unit of three slots in trees of every shape, as that of the code meets
  the end of 128; nine nodes need three units, and the bound on units is what makes
  an allocation fail.
- **heap.** `malloc` gives 10 slots, the least there are, and once more 11, so a heap
  grows, and fails to grow; 11 slots are four levels, with a last node that has no
  sibling and one that has. The loops compare values only, and a heap orders the
  values of two kinds right whenever it orders any values right (the argument of
  the 0-1 principle: every comparison asks whether one value is below another).
- **strings.** The races are between two owners that free, or one that frees
  and one that edits or takes a reference; the third thread is the one that is given
  the freed memory, and the third string the one that an edit makes. The alignment
  is 4 in place of 8; the texts are empty, shorter than a buffer, just fitting and
  longer, so each comparison with `size` goes either way and is met with equality,
  and buffers of 1 (a stream), 4, 6 and 8 bytes and larger grow. Chunks have one byte,
  the least, or two. A string that is copied has any size up to 8 (`SourceSizes`), as it
  may have grown by appends.
- **volumes.** A buffer of two bytes ends between any two characters. The digits are
  a type of a data volume, the last type and the first that is none; numbers have up
  to two digits. A line is `1 1 "x"` with one more character, so that each state of
  the parser meets each kind of character, and what a line leaves behind meets the
  next one. A path may run out of memory after one character (`PathRoom`; 127 in the
  code). Three descriptors are the file and two volumes, and the next `open`
  fails.
- **coding.** Eight digits are one group of base 32 and two of base 64, so each
  length of the last group and a group in front of it occur (a group of five bytes
  with one behind it in base 32). The four bytes are two digits of all three
  alphabets, `A` and `7`, the padding character, and a byte that no alphabet has;
  every bit is set in one of them and clear in another.

### Fairness

- `RWLock`: weak fairness of each thread's own steps, and of some unlock by a
  thread that holds the lock. Threads are preemptively scheduled, and callers
  unlock. A weakly fair compare-and-swap may lose for ever, so starvation of a
  single thread is possible in the model as it is in the code.
- `ResourceQueue`: the same, with weakly fair (not strongly fair) acquisition of
  the mutex, as pthread mutexes promise no order.
- `FreeList`: weak fairness of a thread's steps inside an operation only; nobody
  has to put an item back.

### What the violations show

- `base/base_dequeue.c:269` — a single unit drained at its last slot stays the
  front unit when the next push opens a second one; `popFront` then finds nothing
  although `isDeQueueEmpty` is false.
- `base/base_hash.c:346` — the bases are switched by `items_count`, which an
  insert increments only after it has linked its node and unlocked the entry.

The runs that pass state what is left in spite of these: `ItemsInReach`,
`AtMostOneLost` and `MapUntilRehash`. After a rehash has started the hash
table is not an atomic map: a find that has read the bases may miss a node that
moves meanwhile, and two inserts of one key that read different bases may both
succeed. Nothing in the repository promises that they do not, so there is no
finding for it; the hazards list says so.

The red-black tree, of which its header says "I'm not sure this is correct", has
no violation.

## 4. The proofs

All are for any threads (the spinning lock and the free list also for any
programs), any blocks and any order of steps.

**RWLock_proofs.** Type correctness, `Exclusive` (no run repeats it), `FieldsMatchHolders`,
`IntentHasOwner`, `OnlyDemoteAborts`, and that the lock implements `RWMutex`. The
inductive invariant joins the fields to the callers' view (`reader_count` is the
number of readers, so cardinalities of finite sets are used: `IFinite(Threads)` is
an assumption of the module) and says where the int lock is held. What was read
without the lock appears nowhere in it: each locked section tests again, and that
is the whole reason why the stale reads are harmless.

**ResourceQueue_proofs.** Two groups of theorems. For every operation and every fault, up
to an unlock of another thread's mutex: type correctness,
`HoldersCompatible`, `OneNodePerThread`, `FreedNodesUnlinked`, `NoOvertaking`. Under
`PlainRequests` (requests without limits and no faults): `Exclusive`,
`NoIdleQueue`, `SleepersQueued`, `ReleaseFindsHolder`, and that the queue implements
`RWMutex`. The first invariant says who is in the critical section (`MutexHeld`),
that a decision still holds when it is carried out (`DecisionHolds`), and that
linked nodes are in use. The second adds what a grant leaves behind: a woken
thread is a holder (`GrantsKept`), a sleeper is queued (`WaitersSleep`), and the
queue is served (`QueueServed`). They are separate because the second is false
with timeouts: a thread that was granted the resource and then times out leaves
without promoting anybody.

**FreeList_proofs.** Type correctness, `NeverAborts`, that the list implements
`Pool`, `NoItemLost` and `MemoryBounded`, for any blocks and links and both ways of
growing. `TakeMark` excludes other takers by the mark (`Markers`), so the link it read
is the one it stores (`Takers`); a putter's and a linker's item is its own until the
last compare-and-swap (`Putters`, `Linkers`); and the block lock has one owner
(`BlockLocked`). That no list link leads to an item in use is `ListShape`, which
says that `next` stays among the items of the list and is injective there. What the
head leads to is a recursive notion, and is stated without recursion: a part of the
list that has the head and the successors of its members is the whole list
(`AllReached`). A block is malloced when the list is empty only; then each item of the
earlier blocks is held, except those of one block that is being linked, and the
threads together hold `MaxHeld` items each at most (`HeldBounded`, by a count of
places to hold them in).

**Heap_proofs.** `Fits`, `SortedAtEnd`, and that the heap implements `PriorityBag`, for
any integers as values, any capacity, any least size of at least 10 and any limit of
memory. The invariant adds that a value in motion is one of the heap's and that
`heapSort` is at a slot in use (`InMotion`), and then speaks of `Filled`, the array with
the value in the hole: a parent is never larger than its child but for the pair at the
hole (`Shape`), and behind the end the slots are in order and not smaller than any slot
in front (`Descending`). The root is the least by well-founded choice of a slot with a
smaller value. A step of a loop exchanges two slots of `Filled` (`Exchanged`), so that the
bag is untouched: each value has as many slots before as after.

**BaseString_proofs.** Three groups. For one owner, `OnlySmallOrDestroyedFault`,
`OnlyCopyLeavesOpen` and that the buffer keeps a `Text` (`ImplementsText`), for any bytes,
alignment, sizes and texts: the first is inductive as
it stands, since what it says of a string with a buffer, `length < size <= capacity`, and of
one without, that its text would fit into its size or that it is of size 0, is what each
call needs. For the refinement it is enough that bytes which are copied behind a
text follow it and leave it as it was (`TextGrows`): then each call is a step of `Text` or
changes nothing that `Text` sees. For several threads, `LiveWhileReferenced`, `OnlyRestOfFreeIsLate` and the
refinement of `OwnValues`, for any number of threads, strings and references: each
reference is a token and `ref_count` is the number of tokens of a string (`Counted`); the
lock has one owner (`LockHeld`); and at each station of a call the thread knows what it
decided on without the lock (`Stations`). The reason why the unlocked reads do no harm is
the lemma that who has a token and reads a count below 2 has the only token
(`Sole`): nobody else can change the count. After that the string is the thread's own, in
`editString` too, which is the refinement. `OwnerIsUndisturbed` carries the first group
over to the composed specification.

The third group is about `Coding`, for every input: `ConvertsBytes` (its parts are `EncodesBits` and `RoundTrip`) and
`AcceptsWellFormed`. A byte is the sum of its eight bits and a digit the sum of its own
(`ByteIsItsBits`, `DigitOf64`), so each shift and mask of the encoders is an identity of
sums. `FlattenSeq` is a fold; that it puts sequences of one length at multiples of it is
proved by the least place at which it would not (`FlattenUniform`). Then what is written at a
place depends on its group alone (`EncodeIs`, `GroupIsBlock`), and the decoders are
taken apart in the same way (`DecodedIsUniform`): joining the digits of a group gives its bytes
(`JoinSplit`), the digits that are left out are zero (`RestIsZero`), and the padding that the
last group is asked for is the padding it has, or the group is not accepted
(`AcceptedIsCounted`).

**DeQueue_proofs.** The invariant `OnlyEndsArePartial` and `OneEndHasItems`, from it
`ItemsInReach`, and that the queue implements `ItemSequence` (`ImplementsSequence`), for
any size of a unit above 1, number of units and set of values. The content of the queue
is a concatenation over the units; the proof gives it a form without recursion: slot
`m` of the queue is slot `m % C` of unit `m \div C`, and the content is what stands
from `FrontSlot` up to `EndSlot` (`ContentForm`). Each operation then moves one of these
two numbers by one, or renumbers every slot by a unit.

**HashTable_proofs.** Type correctness, `NodesInOnePlace`, `EntriesRight`,
`CountsMatch`, `LockedItemsStay` and `MapUntilRehash`, for any threads, keys and values, any hash function,
number of entries, reserved or not, nodes and operations per thread, and any settings of the rehash. Four
lemmas say what a step can do to a list: `Pushed`, `Popped`, `TakenOut` (from the middle) and
`WayKept` (nothing, when the links of its nodes stay). The rest of `IInv` says why what the
threads do without an entry lock leaves the lists alone. `TableRight`, `Flow` and `Looks`: the bases
go from the first to the second once, and a thread works on entries that exist.
`Exclusive` and `Claims`: a thread has locked what it relies on, and where an insert moves
nodes on its way, it moves none out of or into the entry it is about to fill. `Rehashing`: one
thread moves nodes, always the head of its entry and never out of the second base. `Found`:
what was found is where it was found. `NoCircles` and `Apart`: every node is in one list, the
free list included, or in the hands of one thread (`Private`). `Keyed` and `Valued`: keys fit
entries, items have values. `Lengths` and `CountsMatch`: the counts, the second modulo the
width of the counter. `RehashPosInBase` has a premise, `reserve_entries <= SecondSize`: then the
second base is not smaller than the first, and a position in the one is a position in the
other. The second search of an insert, which locks nothing, appears only as
what it may *not* do: it writes nothing. So it can find too much or too little, and the
theorems hold regardless.

`MapUntilRehash`, that the table is the atomic map `HashMap` until a rehash has begun, needs
one thing more, and it is about that search: while there is one base, an insert that has
locked its entry has gone past nodes with other keys only, so what it links is the
only node with its key (`OneBase`). Then the map is what the lists of the first base hold. Each call
has one step at which it takes effect, where its node is linked, unlinked or written
or where its search ends; at this step the map changes as the call of `HashMap` does and the
answer is the map's, and at every other step neither changes.

**VolumeManager_proofs.** `OpenFilesOwned`, `AnswersAndRecords` and `ReadsFormat`, for any
characters, size of the buffer, descriptors and bounds. Every open file is the configuration's, one
volume's or lost, and no two of these coincide (`Ownership`), so closing what the lists
hold leaves the lost ones; the volumes that a failure loses are those of
one place in the code. While the file is read nothing is recorded (`Reading`): the failure
that ends the reading is the first, and the code that is returned is its own.

`ReadsFormat` compares the character-by-character parser with the fields of a whole line.
The invariant (`Parsed`) gives each state of the parser the shape of what is read of the
line: after an `id_end` there are digits and then blanks, and so on (`WithId` to `Whole`),
and `id`, `type` and `path` are the numbers and the path in it (`Understood`). A line has one
shape (`SameShape`) and keeps the one of its beginning (`LongerShape`); so what can follow a
beginning is known for each state (`AfterId` to `AfterPathEnd`), and what the parser refuses is
none of it (`RefusedIs`). The theorem `RefusedLinesAreLost` says this of every
continuation, where TLC tries those of the shortest line. The numbers and the path of a
line are recursive functions over it, and what a character adds to them is shown by the least
place at which it would not (`NumberAppend`, `BareAppend`).

`Exclusive` of both locks, `HoldersCompatible`, `OneNodePerThread`,
`SleepersQueued` and `ReleaseFindsHolder` are proved and stated in the modules; the
runs check the refinements they follow from or the properties that rest on them.

**Assumptions.** Besides the sorts of the constants (a bound is a number, `NULL` is no
item, no buffer is no text, an input is made of bytes): the threads of `RWLock`, `FreeList` and `HashTable` are finitely many; a heap has
at least 10 slots, which `LEAST_HEAP_SIZE` gives; a unit of the double-ended queue has at
least 2 slots (128 in the code); a thread has at least one reference to give
(`MaxRefs`, which bounds the model as `int` bounds the code); a hash table has finitely many
nodes, fewer than its counter can count, at least one entry, and a free list that has all
nodes in some order at first (`AreaAssumption`). TLC evaluates each of them in
the runs.

**Only model-checked,** and why:

- every liveness property (`IntentLeadsToWriter`, `WaitersGetTheResource`,
  `OperationsComplete`): fairness and `ENABLED` are out of the prover's reach;
- `RBTree` and `TreeTeardown` (`Balanced`, `AtMostOneLost` and the refinement of
  `Dictionary`): their operators recurse over trees and are declared RECURSIVE, and a
  module that reaches one cannot be proved about.

Where a proof needs an induction over data, it is made without the library's induction
theorems: what holds at every place of a fold is shown by the least place at which it
would not (`Coding`, `VolumeManager`), and a list is the least set that is closed under its link, so that a
set which is closed has it inside (`HashTable`, `FreeList`).

## 5. What is not modelled, and what a reader should keep in mind

- *Memory order.* Shared accesses are atomic and in program order. `atomic.c`
  uses the `__sync` builtins, which are full barriers; plain loads of fields that
  other threads write are taken as reads of the current value.
- *Excluded by assumption.* `Exclusive` of the resource queue fails when
  `pthread_cond_wait` returns without a signal, because the wait is not in a
  loop. The theorems that state it exclude that; the hazards list it. A failed
  allocation or a timeout that unlocks the mutex of another thread ends a
  behaviour of the model, and no theorem says anything of what two threads then do in
  the critical section at once.
- *The demotion of the spinning lock.* The store of `about_to_write` (`atomic.c:71`)
  may come after another writer got in; that writer's demotion then asserts in vain
  that the flag is clear. No caller demotes at this commit, and `OnlyDemoteAborts`
  says that this is the only way to abort.
- *Reserved entries.* With `reserve_entries` above `2 * LEAST_HASH_ENTRIES` (2048) the
  second base is the smaller one. `rehash_pos` stays where it was when the bases are
  switched (`base_hash.c:348`), and the next call asserts in vain that it lies in the
  base (line 293). TLC finds it when `HashTable.cfg` has
  `reserve_entries = 3`, `Hash <- TogetherInThird` and `Ops <- Changers`.
  `RehashStaysInBase` is the proof that nothing like that happens with fewer, and the
  run `hash_table` checks the same. The page manager would reserve more for a large
  cache (`page_manager.c:241` doubles the number until it fits), once it can start.
- *Waking everybody.* The removal of the head in `resource_queue.c:984` is commented
  out, so `rqWakeUpAllWaitingThread` goes on for ever with the mutex locked
  whenever somebody waits. `resource_queue_faults` has a thread that does.
- *Numbers in the configuration file.* Ids and types that do not fit their C types
  wrap; the runs have numbers of two digits. `destroyVolumeManager` leaves a
  pointer to freed memory, which later calls would use; the model stops short of it.
- *What the storage layer would do.* `volume.c:522` (the count of allocated pages
  grows when pages are freed) and `volume_manager.c:566` (a full batch leaves out a
  page) are behind tests that always fail, so no behaviour shows them.
- *Not modelled, because it cannot run at this commit:* the page manager
  (`getPageManager` hands `createHashTable` no hash function, which asserts one;
  `pushToLruList` and `dequeFromDirtyList` assert the opposite of what they are called
  with), slot pages and file headers (`slot_page.c` and `file.c` do not compile),
  the body of `timedEnterCriticalSection` (neither does it), `createVolume` and
  `formatVolume` (nobody calls them), `createNewVolume` and `registerCreatedVolume`
  (TODO).
- *Not modelled, because there is little to say:* the error manager (a stack of
  records per thread, over `FreeList`), critical sections (a writer's use of
  `ResourceQueue`), threads, the environment and the conversions of byte order, the
  creation, the naming and the destruction of resource queues.

## 6. Plan

Done: the locks (`RWMutex`, `RWLock`), `ResourceQueue`, the free lists (`Pool`,
`FreeList`), `DeQueue`, `HashTable`, `RBTree` with `TreeTeardown`, `Heap`, the strings
(`SharedString`, `StringBuffer`), `Coding`, `VolumeManager`; and proofs of the safety
properties of all of them that do not rest on recursion.

What would come next follows the code: when `getVolumeHeader` gets past line 97, the
chain of free pages and the header that counts it, with errors and crashes between
two writes; when the page manager starts, its caches, LRU zones and dirty pages over
abstract maps and latches; and the error manager as a stack per thread over `Pool`.

A new property takes the place of a shallower one, so that each run keeps to one
question.

Theorems to add: the tree, once its operators are written as functions over the paths to a
node.
