--------------------------- MODULE ResourceQueue ---------------------------
(***************************************************************************)
(* The first-come-first-served readers/writer queue of                     *)
(* port/resource_queue.c, on which critical sections and page locks are    *)
(* built.  A pthread mutex guards two lists: the holders and the waiters.  *)
(* A thread that must wait sleeps on its own condition variable; the       *)
(* thread that releases the resource moves waiters to the holder list and  *)
(* signals them.  A woken thread does not look at the lists again: it      *)
(* takes the end of its wait for the grant.                                *)
(*                                                                         *)
(* A thread has at most one request in the queue (the lists hold threads   *)
(* in place of their nodes), so it never requests what it already holds.   *)
(* Every action is one step under the mutex or one operation on the mutex. *)
(* A list update is several stores, and one action only because nobody     *)
(* else is inside the section.  An error path can unlock the mutex of      *)
(* another thread, which ends that (and is undefined for pthreads): a      *)
(* behaviour ends there (StrayUnlock), and nothing is said of what follows. *)
(***************************************************************************)

EXTENDS Integers, FiniteSets, SequencesExt

CONSTANTS
  Threads,     (* the threads that use the queue                           *)
  NoThread,    (* owner of a free mutex                                    *)
  Ops,         (* Ops[t]: the operations the program of thread t calls     *)
  Faults       (* what the environment may do, see FaultNames              *)

OpNames == {"request", "timed", "wake_all"}

(* "alloc":    allocHolderList finds no memory.                            *)
(* "trylock":  a timeout expires while pthread_mutex_trylock spins.        *)
(* "spurious": pthread_cond_wait returns without a signal.                 *)
FaultNames == {"alloc", "trylock", "spurious"}

ASSUME ResourceQueueAssumption ==
  /\ NoThread \notin Threads
  /\ Ops \in [Threads -> SUBSET OpNames]
  /\ Faults \subseteq FaultNames

VARIABLES
  mutex,         (* owner of resource.mutex, or NoThread                   *)
  current_type,  (* type of the holders, when there are some               *)
  holder_list,   (* the threads whose node is in the holder list           *)
  wait_list,     (* the threads whose node is in the wait list, in order   *)
  node,          (* each thread's node: its req_type and its error         *)
  timed,         (* does the thread wait in timedRequestResource?          *)
  error,         (* the local variable error of a request                  *)
  pc,            (* where each thread is                                   *)
  hold           (* what each caller may use: "none", "read" or "write"    *)

vars == <<mutex, current_type, holder_list, wait_list, node, timed, error, pc, hold>>

Lists == <<current_type, holder_list, wait_list>>

Types  == {"read", "write"}
Errors == {"none", "timeout", "abnormal", "memory"}

(* "unlock" and "quit" are the label "end:" of a request, reached with and *)
(* without the mutex.  The last line holds the places of releaseResource   *)
(* and rqWakeUpAllWaitingThread, the others are those of a request.        *)
PCs == {"idle", "lock", "decide", "first", "shared", "enqueue", "waiting",
        "relock", "woken", "unlock", "quit", "stray", "aborted",
        "release_lock", "remove", "promote", "wake_lock", "wake", "leave"}

Init ==
  /\ mutex = NoThread
  /\ current_type = "read"
  /\ holder_list = {}
  /\ wait_list = <<>>
  /\ node = [t \in Threads |-> [req_type |-> "read", error |-> "none"]]
  /\ timed = [t \in Threads |-> FALSE]
  /\ error = [t \in Threads |-> "none"]
  /\ pc = [t \in Threads |-> "idle"]
  /\ hold = [t \in Threads |-> "none"]

-----------------------------------------------------------------------------

At(t, place) == pc[t] = place

GoTo(t, place) == pc' = [pc EXCEPT ![t] = place]

(* t continues at place, and wake_func_p signals the condition of u.  The  *)
(* signal is lost unless u sleeps.                                         *)
GoToAndWake(t, place, u) ==
  pc' = [pc EXCEPT ![t] = place,
                   ![u] = IF At(u, "waiting") THEN "relock" ELSE @]

Fail(t, e) == error' = [error EXCEPT ![t] = e]

-----------------------------------------------------------------------------
(* requestResource and timedRequestResource                                *)

Request(t, type, limited) ==
  /\ At(t, "idle")
  /\ hold[t] = "none"
  /\ (IF limited THEN "timed" ELSE "request") \in Ops[t]
  /\ node' = [node EXCEPT ![t] = [req_type |-> type, error |-> "none"]]
  /\ timed' = [timed EXCEPT ![t] = limited]
  /\ GoTo(t, "lock")
  /\ UNCHANGED <<mutex, Lists, error, hold>>

(* No memory for the node: "goto end" without having locked the mutex.     *)
AllocFails(t) ==
  /\ "alloc" \in Faults
  /\ At(t, "lock")
  /\ Fail(t, "memory")
  /\ GoTo(t, "quit")
  /\ UNCHANGED <<mutex, Lists, node, timed, hold>>

(* The timeout expires while another thread has the mutex: "goto end"      *)
(* without having locked it.                                               *)
TrylockExpires(t) ==
  /\ "trylock" \in Faults
  /\ At(t, "lock")
  /\ timed[t]
  /\ mutex # NoThread
  /\ Fail(t, "timeout")
  /\ GoTo(t, "quit")
  /\ UNCHANGED <<mutex, Lists, node, timed, hold>>

MutexLock(t) ==
  /\ mutex = NoThread
  /\ mutex' = t
  /\ \/ At(t, "lock")         /\ GoTo(t, "decide")
     \/ At(t, "relock")       /\ GoTo(t, "woken")
     \/ At(t, "release_lock") /\ GoTo(t, "remove")
     \/ At(t, "wake_lock")    /\ GoTo(t, "wake")
  /\ UNCHANGED <<Lists, node, timed, error, hold>>

(* The timeout is over by the time the mutex is locked.                    *)
LockedTooLate(t) ==
  /\ At(t, "decide")
  /\ timed[t]
  /\ Fail(t, "timeout")
  /\ GoTo(t, "unlock")
  /\ UNCHANGED <<mutex, Lists, node, timed, hold>>

(* Mutants of Decide: a request joins readers whatever it asks for; a      *)
(* reader joins readers although somebody waits.                           *)
DecideIgnoringType(t) ==
  /\ At(t, "decide")
  /\ GoTo(t, IF wait_list # <<>> THEN "enqueue"
             ELSE IF holder_list = {} THEN "first"
             ELSE IF current_type = "read" THEN "shared"
             ELSE "enqueue")
  /\ UNCHANGED <<mutex, Lists, node, timed, error, hold>>

DecideIgnoringQueue(t) ==
  /\ At(t, "decide")
  /\ GoTo(t, IF holder_list = {} THEN "first"
             ELSE IF node[t].req_type = "read" /\ current_type = "read" THEN "shared"
             ELSE "enqueue")
  /\ UNCHANGED <<mutex, Lists, node, timed, error, hold>>

(* The tests of the two lists: newcomers stand behind every waiter.        *)
Decide(t) ==
  /\ At(t, "decide")
  /\ GoTo(t, IF wait_list # <<>> THEN "enqueue"
             ELSE IF holder_list = {} THEN "first"
             ELSE IF node[t].req_type = "read" /\ current_type = "read" THEN "shared"
             ELSE "enqueue")
  /\ UNCHANGED <<mutex, Lists, node, timed, error, hold>>

GrantFirst(t) ==
  /\ At(t, "first")
  /\ current_type' = node[t].req_type
  /\ holder_list' = holder_list \cup {t}
  /\ GoTo(t, "unlock")
  /\ UNCHANGED <<mutex, wait_list, node, timed, error, hold>>

GrantShared(t) ==
  /\ At(t, "shared")
  /\ holder_list' = holder_list \cup {t}
  /\ GoTo(t, "unlock")
  /\ UNCHANGED <<mutex, current_type, wait_list, node, timed, error, hold>>

(* appendToWaitList and pthread_cond_wait, which unlocks the mutex.        *)
Enqueue(t) ==
  /\ At(t, "enqueue")
  /\ wait_list' = Append(wait_list, t)
  /\ mutex' = NoThread
  /\ GoTo(t, "waiting")
  /\ UNCHANGED <<current_type, holder_list, node, timed, error, hold>>

(* The deadline given to pthread_cond_timedwait is the time already spent, *)
(* taken as an absolute time: it is always in the past.                    *)
WaitTimesOut(t) ==
  /\ At(t, "waiting")
  /\ timed[t]
  /\ Fail(t, "timeout")
  /\ GoTo(t, "relock")
  /\ UNCHANGED <<mutex, Lists, node, timed, hold>>

SpuriousWakeup(t) ==
  /\ "spurious" \in Faults
  /\ At(t, "waiting")
  /\ GoTo(t, "relock")
  /\ UNCHANGED <<mutex, Lists, node, timed, error, hold>>

(* Mutant of AfterWait: the node is only looked for in the wait list.      *)
AfterWaitLeavingHolder(t) ==
  /\ At(t, "woken")
  /\ LET e == IF node[t].error # "none" THEN node[t].error ELSE error[t]
     IN  /\ Fail(t, e)
         /\ wait_list' = IF e = "none" THEN wait_list ELSE RemoveFirst(wait_list, t)
  /\ GoTo(t, "unlock")
  /\ UNCHANGED <<mutex, current_type, holder_list, node, timed, hold>>

(* After the wait.  On an error removeFromWaitList unlinks the node from   *)
(* the list it is in, which is the holder list when a release came first.  *)
AfterWait(t) ==
  /\ At(t, "woken")
  /\ LET e == IF node[t].error # "none" THEN node[t].error ELSE error[t]
     IN  /\ Fail(t, e)
         /\ IF e = "none"
            THEN UNCHANGED Lists
            ELSE /\ wait_list' = RemoveFirst(wait_list, t)
                 /\ holder_list' = holder_list \ {t}
                 /\ UNCHANGED current_type
  /\ GoTo(t, "unlock")
  /\ UNCHANGED <<mutex, node, timed, hold>>

(* "end:" unlocks the mutex and returns.                                   *)
Return(t) ==
  /\ At(t, "unlock")
  /\ mutex' = NoThread
  /\ hold' = [hold EXCEPT ![t] = IF error[t] = "none" THEN node[t].req_type ELSE "none"]
  /\ timed' = [timed EXCEPT ![t] = FALSE]
  /\ Fail(t, "none")
  /\ GoTo(t, "idle")
  /\ UNCHANGED <<Lists, node>>

(* "end:" after the two errors above: a free mutex stays free.             *)
ReturnUnlocked(t) ==
  /\ At(t, "quit")
  /\ mutex = NoThread
  /\ timed' = [timed EXCEPT ![t] = FALSE]
  /\ Fail(t, "none")
  /\ GoTo(t, "idle")
  /\ UNCHANGED <<mutex, Lists, node, hold>>

(* The same while another thread is inside the section.                    *)
StrayUnlock(t) ==
  /\ At(t, "quit")
  /\ mutex # NoThread
  /\ mutex' = NoThread
  /\ GoTo(t, "stray")
  /\ UNCHANGED <<Lists, node, timed, error, hold>>

-----------------------------------------------------------------------------
(* releaseResource                                                         *)

Release(t) ==
  /\ At(t, "idle")
  /\ hold[t] # "none"
  /\ hold' = [hold EXCEPT ![t] = "none"]
  /\ GoTo(t, "release_lock")
  /\ UNCHANGED <<mutex, Lists, node, timed, error>>

(* Two assertions: the holder list is not empty, the caller's node is in it. *)
RemoveHolder(t) ==
  /\ At(t, "remove")
  /\ IF t \in holder_list
     THEN /\ holder_list' = holder_list \ {t}
          /\ GoTo(t, "promote")
     ELSE /\ GoTo(t, "aborted")
          /\ UNCHANGED holder_list
  /\ UNCHANGED <<mutex, current_type, wait_list, node, timed, error, hold>>

(* Mutant of Compatible: a writer is not promoted to a free resource.      *)
CompatibleReaders(u) ==
  node[u].req_type = "read" /\ (holder_list = {} \/ current_type = "read")

Compatible(u) ==
  \/ holder_list = {}
  \/ node[u].req_type = "read" /\ current_type = "read"

(* One round of the loop that moves waiters to the holder list.            *)
PromoteNext(t) ==
  /\ At(t, "promote")
  /\ wait_list # <<>>
  /\ LET u == Head(wait_list)
     IN  /\ Compatible(u)
         /\ wait_list' = Tail(wait_list)
         /\ holder_list' = holder_list \cup {u}
         /\ current_type' = node[u].req_type
         /\ GoToAndWake(t, "promote", u)
  /\ UNCHANGED <<mutex, node, timed, error, hold>>

PromoteDone(t) ==
  /\ At(t, "promote")
  /\ wait_list # <<>> => ~Compatible(Head(wait_list))
  /\ GoTo(t, "leave")
  /\ UNCHANGED <<mutex, Lists, node, timed, error, hold>>

Leave(t) ==
  /\ At(t, "leave")
  /\ mutex' = NoThread
  /\ GoTo(t, "idle")
  /\ UNCHANGED <<Lists, node, timed, error, hold>>

-----------------------------------------------------------------------------
(* rqWakeUpAllWaitingThread                                                *)

WakeAll(t) ==
  /\ At(t, "idle")
  /\ "wake_all" \in Ops[t]
  /\ GoTo(t, "wake_lock")
  /\ UNCHANGED <<mutex, Lists, node, timed, error, hold>>

(* The head waiter gets an error and a signal, but stays the head: the     *)
(* removal is commented out.                                               *)
WakeHead(t) ==
  /\ At(t, "wake")
  /\ wait_list # <<>>
  /\ node' = [node EXCEPT ![Head(wait_list)].error = "abnormal"]
  /\ GoToAndWake(t, "wake", Head(wait_list))
  /\ UNCHANGED <<mutex, Lists, timed, error, hold>>

WakeAllDone(t) ==
  /\ At(t, "wake")
  /\ wait_list = <<>>
  /\ GoTo(t, "leave")
  /\ UNCHANGED <<mutex, Lists, node, timed, error, hold>>

-----------------------------------------------------------------------------

(* A step of t once it is inside an operation.                             *)
Step(t) ==
  \/ MutexLock(t) \/ LockedTooLate(t) \/ Decide(t)
  \/ GrantFirst(t) \/ GrantShared(t) \/ Enqueue(t)
  \/ WaitTimesOut(t) \/ AfterWait(t) \/ Return(t)
  \/ ReturnUnlocked(t) \/ StrayUnlock(t)
  \/ RemoveHolder(t) \/ PromoteNext(t) \/ PromoteDone(t) \/ Leave(t)
  \/ WakeHead(t) \/ WakeAllDone(t)

Fault(t) == AllocFails(t) \/ TrylockExpires(t) \/ SpuriousWakeup(t)

Call(t) ==
  \/ \E type \in Types, limited \in BOOLEAN : Request(t, type, limited)
  \/ Release(t)
  \/ WakeAll(t)

Running == \A t \in Threads : pc[t] \notin {"aborted", "stray"}

(* After an abort() nothing happens any more, after an unlock of another   *)
(* thread's mutex nothing is followed any more.                            *)
Halted == ~Running /\ UNCHANGED vars

Next ==
  \/ Running /\ \E t \in Threads : Step(t) \/ Fault(t) \/ Call(t)
  \/ Halted

Spec == Init /\ [][Next]_vars

(* Threads keep being scheduled and callers release what they hold.  A     *)
(* weakly fair MutexLock may lose the mutex for ever against other         *)
(* threads that keep coming back for it.                                   *)
Fairness ==
  \A t \in Threads : WF_vars(Running /\ Step(t)) /\ WF_vars(Running /\ Release(t))

FairSpec == Spec /\ Fairness

-----------------------------------------------------------------------------
(* Properties                                                              *)

TypeOK ==
  /\ mutex \in Threads \cup {NoThread}
  /\ current_type \in Types
  /\ holder_list \subseteq Threads
  /\ wait_list \in Seq(Threads)
  /\ node \in [Threads -> [req_type : Types, error : Errors]]
  /\ timed \in [Threads -> BOOLEAN]
  /\ error \in [Threads -> Errors]
  /\ pc \in [Threads -> PCs]
  /\ hold \in [Threads -> Types \cup {"none"}]

RW == INSTANCE RWMutex

(* Callers that were told NO_ERROR share the resource as readers or have   *)
(* it alone.                                                               *)
Exclusive == RW!Exclusive

(* The callers' view of the queue is an atomic readers/writer lock.        *)
ImplementsRWMutex == RW!Spec

(* The holder list never holds a writer with somebody else, including      *)
(* holders that were granted the resource and did not return yet, and      *)
(* current_type is their type.                                             *)
HoldersCompatible ==
  \A t \in holder_list :
     /\ node[t].req_type = current_type
     /\ current_type = "write" => holder_list = {t}

(* Nobody waits for a resource nobody holds: whenever the mutex is free,   *)
(* a waiter has a holder before it that will promote it.                   *)
NoIdleQueue == mutex = NoThread /\ wait_list # <<>> => holder_list # {}

(* Every sleeping thread is in the wait list, where a release finds it;    *)
(* every waiting node belongs to a thread that sleeps or just awoke.       *)
SleepersQueued ==
  /\ \A t \in Threads : pc[t] = "waiting" => t \in ToSet(wait_list)
  /\ \A t \in ToSet(wait_list) : pc[t] \in {"waiting", "relock", "woken"}

(* A node is in one list only, once.                                       *)
OneNodePerThread ==
  /\ ToSet(wait_list) \cap holder_list = {}
  /\ IsInjective(wait_list)

(* A node is freed when its request fails or its holder releases it.  No   *)
(* list links a freed node, whichever way the request failed, as long as   *)
(* only its owner unlocks the mutex.                                       *)
FreedNodesUnlinked ==
  \A t \in Threads :
     At(t, "idle") /\ hold[t] = "none" => t \notin holder_list \cup ToSet(wait_list)

(* First come, first served: nobody becomes a holder while somebody who    *)
(* queued earlier goes on waiting.                                         *)
NoOvertaking ==
  [][\A t \in holder_list' \ holder_list :
        wait_list # <<>> => t = Head(wait_list)]_vars

(* A waiter gets the resource if every holder releases it.                 *)
WaitersGetTheResource ==
  \A t \in Threads : pc[t] = "waiting" ~> t \in holder_list

(* releaseResource asserts that it finds the node of its caller in the     *)
(* holder list (resource_queue.c:899 and :910).                            *)
ReleaseFindsHolder == \A t \in Threads : pc[t] # "aborted"

=============================================================================
