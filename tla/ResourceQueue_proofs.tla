------------------------ MODULE ResourceQueue_proofs ------------------------
(***************************************************************************)
(* Proofs about ResourceQueue for any set of threads.                      *)
(*                                                                         *)
(* Part 1 holds whatever operations the threads call, timed requests and   *)
(* rqWakeUpAllWaitingThread included, and whatever faults there are, until *)
(* an error path unlocks the mutex of another thread, where the behaviours *)
(* of the model end.  Part 2 is about threads that only call               *)
(* requestResource and releaseResource and whose waits end by a signal     *)
(* (PlainRequests).                                                        *)
(***************************************************************************)

EXTENDS ResourceQueue, SequenceTheorems, TLAPS

PlainRequests == Faults = {} /\ \A t \in Threads : Ops[t] \subseteq {"request"}

-----------------------------------------------------------------------------
(* Sequences without duplicates                                            *)

(* Appending a new element.                                                *)
LEMMA AppendFacts ==
  ASSUME NEW S, NEW s \in Seq(S), IsInjective(s), NEW e \in S, e \notin ToSet(s)
  PROVE  /\ Append(s, e) \in Seq(S)
         /\ IsInjective(Append(s, e))
         /\ ToSet(Append(s, e)) = ToSet(s) \cup {e}
<1> DEFINE a == Append(s, e)
<1>1. /\ a \in Seq(S) /\ Len(a) = Len(s) + 1 /\ DOMAIN a = 1..Len(a)
      /\ \A i \in 1..Len(s) : a[i] = s[i]
      /\ a[Len(s) + 1] = e
      /\ DOMAIN s = 1..Len(s) /\ Len(s) \in Nat
  BY AppendProperties, LenProperties
<1> HIDE DEF a
<1>2. IsInjective(a)
  BY <1>1 DEF IsInjective, ToSet
<1>3. ToSet(a) = ToSet(s) \cup {e}
  BY <1>1 DEF ToSet
<1>4. QED
  BY <1>1, <1>2, <1>3 DEF a

(* Taking the head.                                                        *)
LEMMA TailFacts ==
  ASSUME NEW S, NEW s \in Seq(S), IsInjective(s), s # <<>>
  PROVE  /\ Head(s) \in S
         /\ Head(s) \in ToSet(s)
         /\ Tail(s) \in Seq(S)
         /\ IsInjective(Tail(s))
         /\ ToSet(Tail(s)) = ToSet(s) \ {Head(s)}
<1> DEFINE r == Tail(s)
<1>1. /\ r \in Seq(S) /\ Len(r) = Len(s) - 1 /\ DOMAIN r = 1..Len(r)
      /\ \A i \in 1..Len(r) : r[i] = s[i + 1]
      /\ DOMAIN s = 1..Len(s) /\ Len(s) \in Nat \ {0} /\ Head(s) = s[1] /\ s[1] \in S
  BY HeadTailProperties, LenProperties, EmptySeq
<1> HIDE DEF r
<1>2. IsInjective(r)
  BY <1>1 DEF IsInjective
<1>3. ToSet(r) = ToSet(s) \ {Head(s)}
  <2>1. ASSUME NEW x \in ToSet(r) PROVE x \in ToSet(s) \ {Head(s)}
    <3>1. PICK i \in 1..Len(r) : x = r[i]
      BY <1>1 DEF ToSet
    <3>2. i + 1 \in 1..Len(s) /\ i + 1 # 1 /\ 1 \in 1..Len(s)
      BY <1>1
    <3>3. QED
      BY <1>1, <3>1, <3>2 DEF ToSet, IsInjective
  <2>2. ASSUME NEW x \in ToSet(s) \ {Head(s)} PROVE x \in ToSet(r)
    <3>1. PICK i \in 1..Len(s) : x = s[i]
      BY <1>1 DEF ToSet
    <3>2. i - 1 \in 1..Len(r) /\ r[i - 1] = s[i]
      BY <1>1, <3>1
    <3>3. QED
      BY <1>1, <3>1, <3>2 DEF ToSet
  <2>3. QED
    BY <2>1, <2>2
<1>4. Head(s) \in ToSet(s)
  BY <1>1 DEF ToSet
<1>5. QED
  BY <1>1, <1>2, <1>3, <1>4 DEF r

(* Unlinking an element from anywhere.                                     *)
LEMMA RemoveFacts ==
  ASSUME NEW S, NEW s \in Seq(S), IsInjective(s), NEW e
  PROVE  /\ RemoveFirst(s, e) \in Seq(S)
         /\ IsInjective(RemoveFirst(s, e))
         /\ ToSet(RemoveFirst(s, e)) = ToSet(s) \ {e}
<1>1. DOMAIN s = 1..Len(s) /\ Len(s) \in Nat
  BY LenProperties
<1>2. CASE e \notin ToSet(s)
  BY <1>1, <1>2 DEF RemoveFirst, ToSet
<1>3. CASE e \in ToSet(s)
  <2>1. PICK k \in 1..Len(s) : s[k] = e
    BY <1>1, <1>3 DEF ToSet
  <2>2. {i \in 1..Len(s) : s[i] = e} = {k}
    BY <1>1, <2>1 DEF IsInjective
  <2>3. Min({k}) = k
    BY <1>1 DEF Min
  <2>4. SelectInSeq(s, LAMBDA v : v = e) = k
    BY <2>2, <2>3 DEF SelectInSeq
  <2> DEFINE r == RemoveAt(s, k)
  <2>5. RemoveFirst(s, e) = r
    BY <2>1, <2>4 DEF RemoveFirst
  <2> DEFINE n == Len(s)
             b == SubSeq(s, 1, k - 1)
             c == SubSeq(s, k + 1, n)
  <2>n. n \in Nat /\ k \in 1..n /\ \A i \in 1..n : s[i] \in S
    BY <1>1, ElementOfSeq
  <2>b. b \in Seq(S) /\ Len(b) = k - 1 /\ \A i \in 1..(k - 1) : b[i] = s[i]
    <3>1. \A i \in 1..(k - 1) : s[i] \in S
      BY <2>n
    <3>2. /\ b \in Seq(S)
          /\ Len(b) = IF 1 <= k - 1 THEN (k - 1) - 1 + 1 ELSE 0
          /\ \A i \in 1..((k - 1) - 1 + 1) : b[i] = s[1 + i - 1]
      BY <2>n, <3>1, SubSeqProperties
    <3> HIDE DEF b
    <3>3. QED
      BY <2>n, <3>2
  <2>c. c \in Seq(S) /\ Len(c) = n - k /\ \A i \in 1..(n - k) : c[i] = s[k + i]
    <3>1. \A i \in (k + 1)..n : s[i] \in S
      BY <2>n
    <3>2. /\ c \in Seq(S)
          /\ Len(c) = IF k + 1 <= n THEN n - (k + 1) + 1 ELSE 0
          /\ \A i \in 1..(n - (k + 1) + 1) : c[i] = s[(k + 1) + i - 1]
      <4> HIDE DEF n
      <4>1. k + 1 \in Int /\ n \in Int
        BY <2>n
      <4>2. QED
        BY <3>1, <4>1, SubSeqProperties
    <3> HIDE DEF c, n
    <3>3. \A i \in 1..(n - k) : (k + 1) + i - 1 = k + i
      BY <2>n
    <3>4. QED
      BY <2>n, <3>2, <3>3
  <2>6. r = b \o c
    BY DEF RemoveAt
  <2> HIDE DEF r, b, c, n
  <2>7. /\ r \in Seq(S) /\ Len(r) = n - 1 /\ DOMAIN r = 1..(n - 1)
        /\ \A i \in 1..(n - 1) : r[i] = IF i < k THEN s[i] ELSE s[i + 1]
    <3>1. /\ r \in Seq(S) /\ Len(r) = Len(b) + Len(c)
          /\ \A i \in 1..(Len(b) + Len(c)) :
                r[i] = IF i <= Len(b) THEN b[i] ELSE c[i - Len(b)]
      BY <2>6, <2>b, <2>c, ConcatProperties
    <3>2. Len(r) = n - 1 /\ DOMAIN r = 1..(n - 1)
      BY <2>n, <2>b, <2>c, <3>1, LenProperties
    <3>3. ASSUME NEW i \in 1..(n - 1), i < k PROVE r[i] = s[i]
      BY <2>n, <2>b, <2>c, <3>1, <3>3
    <3>4. ASSUME NEW i \in 1..(n - 1), ~(i < k) PROVE r[i] = s[i + 1]
      <4>1. i - (k - 1) \in 1..(n - k) /\ k + (i - (k - 1)) = i + 1
        BY <2>n, <3>4
      <4>2. r[i] = c[i - (k - 1)]
        BY <2>n, <2>b, <2>c, <3>1, <3>4
      <4>3. QED
        BY <2>c, <4>1, <4>2
    <3>5. QED
      BY <3>1, <3>2, <3>3, <3>4
  <2>m. DOMAIN s = 1..n
    BY <1>1 DEF n
  <2>8. IsInjective(r)
    <3>1. \A i, j \in 1..n : s[i] = s[j] => i = j
      BY <2>m DEF IsInjective
    <3>2. ASSUME NEW i \in 1..(n - 1), NEW j \in 1..(n - 1), r[i] = r[j] PROVE i = j
      <4> DEFINE at(x) == IF x < k THEN x ELSE x + 1
      <4>1. \A x \in 1..(n - 1) : at(x) \in 1..n /\ r[x] = s[at(x)]
        BY <2>n, <2>7
      <4>2. at(i) = at(j)
        BY <3>1, <3>2, <4>1
      <4>3. QED
        BY <2>n, <4>2
    <3>3. QED
      BY <2>7, <3>2 DEF IsInjective
  <2>9. ToSet(r) = ToSet(s) \ {e}
    <3>1. ASSUME NEW i \in 1..(n - 1) PROVE r[i] \in ToSet(s) \ {e}
      <4>1. PICK j \in 1..n : r[i] = s[j] /\ j # k
        BY <2>n, <2>7
      <4>2. s[j] # e
        BY <2>1, <2>m, <2>n, <4>1 DEF IsInjective
      <4>3. QED
        BY <2>m, <4>1, <4>2 DEF ToSet
    <3>2. ASSUME NEW i \in 1..n, s[i] # e PROVE s[i] \in ToSet(r)
      <4>1. i # k
        BY <2>1, <3>2
      <4>2. CASE i < k
        <5>1. i \in 1..(n - 1) /\ r[i] = s[i]
          BY <2>n, <2>7, <4>2
        <5>2. QED
          BY <2>7, <5>1 DEF ToSet
      <4>3. CASE i > k
        <5>1. i - 1 \in 1..(n - 1) /\ ~(i - 1 < k) /\ (i - 1) + 1 = i
          BY <2>n, <4>3
        <5>2. r[i - 1] = s[i]
          BY <2>7, <5>1
        <5>3. QED
          BY <2>7, <5>1, <5>2 DEF ToSet
      <4>4. QED
        BY <2>n, <4>1, <4>2, <4>3
    <3>3. QED
      BY <2>m, <2>7, <3>1, <3>2 DEF ToSet
  <2>10. QED
    BY <2>5, <2>7, <2>8, <2>9
<1>4. QED
  BY <1>2, <1>3

-----------------------------------------------------------------------------
(* Part 1: the lists and the mutex                                         *)

(* The places inside the section guarded by the mutex.                     *)
Section == {"decide", "first", "shared", "enqueue", "woken", "unlock",
            "remove", "promote", "leave", "wake"}

MutexHeld ==
  \/ \E t \in Threads : pc[t] = "stray"
  \/ \A t \in Threads : pc[t] \in Section => mutex = t

(* What Decide saw still holds when the request acts on it.                *)
DecisionHolds ==
  \A t \in Threads :
     /\ At(t, "first") => holder_list = {} /\ wait_list = <<>>
     /\ At(t, "shared") => /\ wait_list = <<>>
                          /\ current_type = "read"
                          /\ node[t].req_type = "read"

(* The threads whose node some list may link.                              *)
MayBeLinked(t) ==
  \/ pc[t] \in {"waiting", "relock", "woken", "release_lock", "remove", "aborted"}
  \/ pc[t] = "unlock" /\ error[t] = "none"
  \/ pc[t] \in {"idle", "wake_lock", "wake", "leave"} /\ hold[t] # "none"

LinkedNodesInUse ==
  \A t \in Threads : t \in holder_list \cup ToSet(wait_list) => MayBeLinked(t)

ErrorsLate ==
  \A t \in Threads : error[t] # "none" => pc[t] \in {"relock", "woken", "unlock", "quit", "stray"}

IInv ==
  /\ TypeOK
  /\ MutexHeld
  /\ DecisionHolds
  /\ LinkedNodesInUse
  /\ ErrorsLate
  /\ OneNodePerThread
  /\ HoldersCompatible

LEMMA InitInv == Init => IInv
<1> SUFFICES ASSUME Init PROVE IInv
  OBVIOUS
<1>1. ToSet(wait_list) = {} /\ IsInjective(wait_list)
  BY DEF Init, ToSet, IsInjective
<1>2. QED
  BY <1>1, ResourceQueueAssumption
  DEF Init, IInv, TypeOK, MutexHeld, Section, DecisionHolds, LinkedNodesInUse, MayBeLinked,
      ErrorsLate, OneNodePerThread, HoldersCompatible, At, Types, Errors, PCs

(* Who is inside the section is alone there.                               *)
LEMMA AloneInside ==
  ASSUME IInv, Running, NEW t \in Threads, NEW u \in Threads,
         pc[t] \in Section, pc[u] \in Section
  PROVE  t = u
BY DEF IInv, MutexHeld, Running

LEMMA RunningStepInv == ASSUME IInv, Running, [Next]_vars PROVE IInv'
<1> USE ResourceQueueAssumption
<1> USE DEF IInv, Running, At, GoTo, GoToAndWake, Fail, Lists
<1>1. ASSUME NEW t \in Threads, NEW type \in Types, NEW limited \in BOOLEAN,
             Request(t, type, limited)
      PROVE IInv'
  <2>1. TypeOK'
    BY <1>1 DEF Request, TypeOK, Types, Errors, PCs
  <2>2. MutexHeld' /\ DecisionHolds'
    BY <1>1 DEF Request, TypeOK, MutexHeld, DecisionHolds, Section
  <2>3. LinkedNodesInUse' /\ ErrorsLate'
    BY <1>1 DEF Request, TypeOK, LinkedNodesInUse, MayBeLinked, ErrorsLate, Types
  <2>4. OneNodePerThread' /\ HoldersCompatible'
    BY <1>1 DEF Request, TypeOK, OneNodePerThread, HoldersCompatible, LinkedNodesInUse, MayBeLinked
  <2>5. QED
    BY <2>1, <2>2, <2>3, <2>4
<1>2. ASSUME NEW t \in Threads, MutexLock(t) PROVE IInv'
  <2>1. TypeOK'
    BY <1>2 DEF MutexLock, TypeOK, Types, Errors, PCs
  <2>2. MutexHeld' /\ DecisionHolds'
    BY <1>2 DEF MutexLock, TypeOK, MutexHeld, DecisionHolds, Section
  <2>3. LinkedNodesInUse' /\ ErrorsLate'
    BY <1>2 DEF MutexLock, TypeOK, LinkedNodesInUse, MayBeLinked, ErrorsLate, Types
  <2>4. OneNodePerThread' /\ HoldersCompatible'
    BY <1>2 DEF MutexLock, TypeOK, OneNodePerThread, HoldersCompatible
  <2>5. QED
    BY <2>1, <2>2, <2>3, <2>4
<1>3. ASSUME NEW t \in Threads, LockedTooLate(t) PROVE IInv'
  <2>1. TypeOK'
    BY <1>3 DEF LockedTooLate, TypeOK, Types, Errors, PCs
  <2>2. MutexHeld' /\ DecisionHolds'
    BY <1>3 DEF LockedTooLate, TypeOK, MutexHeld, DecisionHolds, Section
  <2>3. LinkedNodesInUse' /\ ErrorsLate'
    BY <1>3 DEF LockedTooLate, TypeOK, LinkedNodesInUse, MayBeLinked, ErrorsLate, Types
  <2>4. OneNodePerThread' /\ HoldersCompatible'
    BY <1>3 DEF LockedTooLate, TypeOK, OneNodePerThread, HoldersCompatible
  <2>5. QED
    BY <2>1, <2>2, <2>3, <2>4
<1>4. ASSUME NEW t \in Threads, Decide(t) PROVE IInv'
  <2>1. TypeOK'
    BY <1>4 DEF Decide, TypeOK, Types, Errors, PCs
  <2>2. MutexHeld' /\ DecisionHolds'
    BY <1>4 DEF Decide, TypeOK, MutexHeld, DecisionHolds, Section
  <2>3. LinkedNodesInUse' /\ ErrorsLate'
    BY <1>4 DEF Decide, TypeOK, LinkedNodesInUse, MayBeLinked, ErrorsLate, Types
  <2>4. OneNodePerThread' /\ HoldersCompatible'
    BY <1>4 DEF Decide, TypeOK, OneNodePerThread, HoldersCompatible
  <2>5. QED
    BY <2>1, <2>2, <2>3, <2>4
<1>5. ASSUME NEW t \in Threads, GrantFirst(t) PROVE IInv'
  <2>1. /\ t \notin holder_list \cup ToSet(wait_list)
        /\ error[t] = "none"
        /\ wait_list = <<>> /\ holder_list = {}
    BY <1>5 DEF GrantFirst, LinkedNodesInUse, MayBeLinked, ErrorsLate, DecisionHolds
  <2>2. TypeOK'
    BY <1>5 DEF GrantFirst, TypeOK, PCs
  <2>3. MutexHeld' /\ DecisionHolds'
    BY <1>5, AloneInside DEF GrantFirst, TypeOK, MutexHeld, DecisionHolds, Section
  <2>4. LinkedNodesInUse' /\ ErrorsLate'
    BY <1>5, <2>1 DEF GrantFirst, TypeOK, LinkedNodesInUse, MayBeLinked, ErrorsLate
  <2>5. OneNodePerThread'
    BY <1>5, <2>1 DEF GrantFirst, OneNodePerThread
  <2>6. HoldersCompatible'
    BY <1>5, <2>1 DEF GrantFirst, HoldersCompatible
  <2>7. QED
    BY <2>2, <2>3, <2>4, <2>5, <2>6
<1>6. ASSUME NEW t \in Threads, GrantShared(t) PROVE IInv'
  <2>1. /\ t \notin holder_list \cup ToSet(wait_list)
        /\ error[t] = "none"
        /\ wait_list = <<>> /\ current_type = "read" /\ node[t].req_type = "read"
    BY <1>6 DEF GrantShared, LinkedNodesInUse, MayBeLinked, ErrorsLate, DecisionHolds
  <2>2. TypeOK'
    BY <1>6 DEF GrantShared, TypeOK, PCs
  <2>3. MutexHeld' /\ DecisionHolds'
    BY <1>6, AloneInside DEF GrantShared, TypeOK, MutexHeld, DecisionHolds, Section
  <2>4. LinkedNodesInUse' /\ ErrorsLate'
    BY <1>6, <2>1 DEF GrantShared, TypeOK, LinkedNodesInUse, MayBeLinked, ErrorsLate
  <2>5. OneNodePerThread'
    BY <1>6, <2>1 DEF GrantShared, OneNodePerThread
  <2>6. HoldersCompatible'
    BY <1>6, <2>1 DEF GrantShared, HoldersCompatible
  <2>7. QED
    BY <2>2, <2>3, <2>4, <2>5, <2>6
<1>7. ASSUME NEW t \in Threads, Enqueue(t) PROVE IInv'
  <2>1. t \notin holder_list \cup ToSet(wait_list) /\ mutex = t
    BY <1>7 DEF Enqueue, LinkedNodesInUse, MayBeLinked, MutexHeld, Section
  <2>2. /\ wait_list' \in Seq(Threads)
        /\ IsInjective(wait_list')
        /\ ToSet(wait_list') = ToSet(wait_list) \cup {t}
    BY <1>7, <2>1, AppendFacts DEF Enqueue, TypeOK, OneNodePerThread
  <2>3. TypeOK'
    BY <1>7, <2>2 DEF Enqueue, TypeOK, PCs
  <2>4. MutexHeld' /\ DecisionHolds'
    BY <1>7, <2>1, AloneInside DEF Enqueue, TypeOK, MutexHeld, DecisionHolds, Section
  <2>5. LinkedNodesInUse' /\ ErrorsLate'
    BY <1>7, <2>1, <2>2 DEF Enqueue, TypeOK, LinkedNodesInUse, MayBeLinked, ErrorsLate
  <2>6. OneNodePerThread'
    BY <1>7, <2>1, <2>2 DEF Enqueue, OneNodePerThread
  <2>7. HoldersCompatible'
    BY <1>7 DEF Enqueue, HoldersCompatible
  <2>8. QED
    BY <2>3, <2>4, <2>5, <2>6, <2>7
<1>8. ASSUME NEW t \in Threads, WaitTimesOut(t) PROVE IInv'
  <2>1. TypeOK'
    BY <1>8 DEF WaitTimesOut, TypeOK, Types, Errors, PCs
  <2>2. MutexHeld' /\ DecisionHolds'
    BY <1>8 DEF WaitTimesOut, TypeOK, MutexHeld, DecisionHolds, Section
  <2>3. LinkedNodesInUse' /\ ErrorsLate'
    BY <1>8 DEF WaitTimesOut, TypeOK, LinkedNodesInUse, MayBeLinked, ErrorsLate, Types
  <2>4. OneNodePerThread' /\ HoldersCompatible'
    BY <1>8 DEF WaitTimesOut, TypeOK, OneNodePerThread, HoldersCompatible
  <2>5. QED
    BY <2>1, <2>2, <2>3, <2>4
<1>9. ASSUME NEW t \in Threads, SpuriousWakeup(t) PROVE IInv'
  <2>1. TypeOK'
    BY <1>9 DEF SpuriousWakeup, TypeOK, Types, Errors, PCs
  <2>2. MutexHeld' /\ DecisionHolds'
    BY <1>9 DEF SpuriousWakeup, TypeOK, MutexHeld, DecisionHolds, Section
  <2>3. LinkedNodesInUse' /\ ErrorsLate'
    BY <1>9 DEF SpuriousWakeup, TypeOK, LinkedNodesInUse, MayBeLinked, ErrorsLate, Types
  <2>4. OneNodePerThread' /\ HoldersCompatible'
    BY <1>9 DEF SpuriousWakeup, TypeOK, OneNodePerThread, HoldersCompatible
  <2>5. QED
    BY <2>1, <2>2, <2>3, <2>4
<1>10. ASSUME NEW t \in Threads, AfterWait(t) PROVE IInv'
  <2> DEFINE e == IF node[t].error # "none" THEN node[t].error ELSE error[t]
  <2>1. /\ pc' = [pc EXCEPT ![t] = "unlock"]
        /\ error' = [error EXCEPT ![t] = e]
        /\ e \in Errors
        /\ UNCHANGED <<mutex, current_type, node, timed, hold>>
        /\ pc[t] = "woken" /\ mutex = t
    BY <1>10 DEF AfterWait, TypeOK, MutexHeld, Section
  <2>2. CASE e = "none"
    <3>1. UNCHANGED <<holder_list, wait_list>>
      BY <1>10, <2>2 DEF AfterWait
    <3>2. TypeOK'
      BY <2>1, <3>1 DEF TypeOK, PCs
    <3>3. MutexHeld' /\ DecisionHolds'
      BY <2>1, <3>1 DEF TypeOK, MutexHeld, DecisionHolds, Section
    <3>4. LinkedNodesInUse' /\ ErrorsLate'
      BY <2>1, <2>2, <3>1 DEF TypeOK, LinkedNodesInUse, MayBeLinked, ErrorsLate
    <3>5. OneNodePerThread' /\ HoldersCompatible'
      BY <2>1, <3>1 DEF OneNodePerThread, HoldersCompatible
    <3>6. QED
      BY <3>2, <3>3, <3>4, <3>5
  <2>3. CASE e # "none"
    <3>1. wait_list' = RemoveFirst(wait_list, t) /\ holder_list' = holder_list \ {t}
      BY <1>10, <2>3 DEF AfterWait
    <3>2. /\ wait_list' \in Seq(Threads)
          /\ IsInjective(wait_list')
          /\ ToSet(wait_list') = ToSet(wait_list) \ {t}
      BY <3>1, RemoveFacts DEF TypeOK, OneNodePerThread
    <3>3. TypeOK'
      BY <2>1, <3>1, <3>2 DEF TypeOK, PCs
    <3>4. MutexHeld' /\ DecisionHolds'
      BY <2>1, AloneInside DEF TypeOK, MutexHeld, DecisionHolds, Section
    <3>5. LinkedNodesInUse' /\ ErrorsLate'
      BY <2>1, <3>1, <3>2 DEF TypeOK, LinkedNodesInUse, MayBeLinked, ErrorsLate
    <3>6. OneNodePerThread'
      BY <3>1, <3>2 DEF OneNodePerThread
    <3>7. HoldersCompatible'
      BY <2>1, <3>1 DEF HoldersCompatible
    <3>8. QED
      BY <3>3, <3>4, <3>5, <3>6, <3>7
  <2>4. QED
    BY <2>2, <2>3
<1>11. ASSUME NEW t \in Threads, Return(t) PROVE IInv'
  <2>1. TypeOK'
    BY <1>11 DEF Return, TypeOK, Types, Errors, PCs
  <2>2. MutexHeld' /\ DecisionHolds'
    BY <1>11 DEF Return, TypeOK, MutexHeld, DecisionHolds, Section
  <2>3. LinkedNodesInUse' /\ ErrorsLate'
    BY <1>11 DEF Return, TypeOK, LinkedNodesInUse, MayBeLinked, ErrorsLate, Types
  <2>4. OneNodePerThread' /\ HoldersCompatible'
    BY <1>11 DEF Return, TypeOK, OneNodePerThread, HoldersCompatible
  <2>5. QED
    BY <2>1, <2>2, <2>3, <2>4
<1>12. ASSUME NEW t \in Threads, Release(t) PROVE IInv'
  <2>1. TypeOK'
    BY <1>12 DEF Release, TypeOK, Types, Errors, PCs
  <2>2. MutexHeld' /\ DecisionHolds'
    BY <1>12 DEF Release, TypeOK, MutexHeld, DecisionHolds, Section
  <2>3. LinkedNodesInUse' /\ ErrorsLate'
    BY <1>12 DEF Release, TypeOK, LinkedNodesInUse, MayBeLinked, ErrorsLate, Types
  <2>4. OneNodePerThread' /\ HoldersCompatible'
    BY <1>12 DEF Release, TypeOK, OneNodePerThread, HoldersCompatible
  <2>5. QED
    BY <2>1, <2>2, <2>3, <2>4
<1>13. ASSUME NEW t \in Threads, RemoveHolder(t) PROVE IInv'
  <2>1. mutex = t
    BY <1>13 DEF RemoveHolder, MutexHeld, Section
  <2>2. TypeOK'
    BY <1>13 DEF RemoveHolder, TypeOK, PCs
  <2>3. MutexHeld' /\ DecisionHolds'
    BY <1>13, <2>1, AloneInside DEF RemoveHolder, TypeOK, MutexHeld, DecisionHolds, Section
  <2>4. LinkedNodesInUse' /\ ErrorsLate'
    BY <1>13 DEF RemoveHolder, TypeOK, LinkedNodesInUse, MayBeLinked, ErrorsLate, OneNodePerThread
  <2>5. OneNodePerThread' /\ HoldersCompatible'
    BY <1>13 DEF RemoveHolder, OneNodePerThread, HoldersCompatible
  <2>6. QED
    BY <2>2, <2>3, <2>4, <2>5
<1>14. ASSUME NEW t \in Threads, PromoteNext(t) PROVE IInv'
  <2> DEFINE u == Head(wait_list)
  <2>1. /\ u \in Threads
        /\ u \in ToSet(wait_list)
        /\ wait_list' \in Seq(Threads)
        /\ IsInjective(wait_list')
        /\ ToSet(wait_list') = ToSet(wait_list) \ {u}
    BY <1>14, TailFacts DEF PromoteNext, TypeOK, OneNodePerThread
  <2>2. /\ pc[t] = "promote" /\ mutex = t
        /\ Compatible(u)
        /\ holder_list' = holder_list \cup {u}
        /\ current_type' = node[u].req_type
        /\ pc' = [pc EXCEPT ![t] = "promote", ![u] = IF pc[u] = "waiting" THEN "relock" ELSE @]
        /\ UNCHANGED <<mutex, node, timed, error, hold>>
    BY <1>14 DEF PromoteNext, MutexHeld, Section
  <2>3. t # u
    BY <2>1, <2>2 DEF LinkedNodesInUse, MayBeLinked
  <2> HIDE DEF u
  <2>4. TypeOK'
    BY <2>1, <2>2, <2>3 DEF TypeOK, PCs
  <2>5. MutexHeld' /\ DecisionHolds'
    BY <2>1, <2>2, <2>3, AloneInside DEF TypeOK, MutexHeld, DecisionHolds, Section
  <2>6. LinkedNodesInUse' /\ ErrorsLate'
    BY <2>1, <2>2, <2>3 DEF TypeOK, LinkedNodesInUse, MayBeLinked, ErrorsLate
  <2>7. OneNodePerThread'
    BY <2>1, <2>2 DEF OneNodePerThread
  <2>8. HoldersCompatible'
    BY <2>1, <2>2 DEF HoldersCompatible, Compatible
  <2>9. QED
    BY <2>4, <2>5, <2>6, <2>7, <2>8
<1>15. ASSUME NEW t \in Threads, PromoteDone(t) PROVE IInv'
  <2>1. TypeOK'
    BY <1>15 DEF PromoteDone, TypeOK, Types, Errors, PCs
  <2>2. MutexHeld' /\ DecisionHolds'
    BY <1>15 DEF PromoteDone, TypeOK, MutexHeld, DecisionHolds, Section
  <2>3. LinkedNodesInUse' /\ ErrorsLate'
    BY <1>15 DEF PromoteDone, TypeOK, LinkedNodesInUse, MayBeLinked, ErrorsLate, Types
  <2>4. OneNodePerThread' /\ HoldersCompatible'
    BY <1>15 DEF PromoteDone, TypeOK, OneNodePerThread, HoldersCompatible
  <2>5. QED
    BY <2>1, <2>2, <2>3, <2>4
<1>16. ASSUME NEW t \in Threads, Leave(t) PROVE IInv'
  <2>1. TypeOK'
    BY <1>16 DEF Leave, TypeOK, Types, Errors, PCs
  <2>2. MutexHeld' /\ DecisionHolds'
    BY <1>16 DEF Leave, TypeOK, MutexHeld, DecisionHolds, Section
  <2>3. LinkedNodesInUse' /\ ErrorsLate'
    BY <1>16 DEF Leave, TypeOK, LinkedNodesInUse, MayBeLinked, ErrorsLate, Types
  <2>4. OneNodePerThread' /\ HoldersCompatible'
    BY <1>16 DEF Leave, TypeOK, OneNodePerThread, HoldersCompatible
  <2>5. QED
    BY <2>1, <2>2, <2>3, <2>4
<1>17. ASSUME NEW t \in Threads, WakeAll(t) PROVE IInv'
  <2>1. TypeOK'
    BY <1>17 DEF WakeAll, TypeOK, Types, Errors, PCs
  <2>2. MutexHeld' /\ DecisionHolds'
    BY <1>17 DEF WakeAll, TypeOK, MutexHeld, DecisionHolds, Section
  <2>3. LinkedNodesInUse' /\ ErrorsLate'
    BY <1>17 DEF WakeAll, TypeOK, LinkedNodesInUse, MayBeLinked, ErrorsLate, Types
  <2>4. OneNodePerThread' /\ HoldersCompatible'
    BY <1>17 DEF WakeAll, TypeOK, OneNodePerThread, HoldersCompatible
  <2>5. QED
    BY <2>1, <2>2, <2>3, <2>4
<1>18. ASSUME NEW t \in Threads, WakeHead(t) PROVE IInv'
  <2> DEFINE u == Head(wait_list)
  <2>1. /\ u \in Threads
        /\ pc[t] = "wake" /\ mutex = t
        /\ node' = [node EXCEPT ![u].error = "abnormal"]
        /\ pc' = [pc EXCEPT ![t] = "wake", ![u] = IF pc[u] = "waiting" THEN "relock" ELSE @]
        /\ UNCHANGED <<mutex, Lists, timed, error, hold>>
    BY <1>18, TailFacts DEF WakeHead, TypeOK, OneNodePerThread, MutexHeld, Section
  <2> HIDE DEF u
  <2>2. TypeOK'
    BY <2>1 DEF TypeOK, PCs, Errors
  <2>3. MutexHeld' /\ DecisionHolds'
    BY <2>1 DEF TypeOK, MutexHeld, DecisionHolds, Section
  <2>4. LinkedNodesInUse' /\ ErrorsLate'
    BY <2>1 DEF TypeOK, LinkedNodesInUse, MayBeLinked, ErrorsLate
  <2>5. OneNodePerThread' /\ HoldersCompatible'
    BY <2>1 DEF TypeOK, OneNodePerThread, HoldersCompatible
  <2>6. QED
    BY <2>2, <2>3, <2>4, <2>5
<1>19. ASSUME NEW t \in Threads, WakeAllDone(t) PROVE IInv'
  <2>1. TypeOK'
    BY <1>19 DEF WakeAllDone, TypeOK, Types, Errors, PCs
  <2>2. MutexHeld' /\ DecisionHolds'
    BY <1>19 DEF WakeAllDone, TypeOK, MutexHeld, DecisionHolds, Section
  <2>3. LinkedNodesInUse' /\ ErrorsLate'
    BY <1>19 DEF WakeAllDone, TypeOK, LinkedNodesInUse, MayBeLinked, ErrorsLate, Types
  <2>4. OneNodePerThread' /\ HoldersCompatible'
    BY <1>19 DEF WakeAllDone, TypeOK, OneNodePerThread, HoldersCompatible
  <2>5. QED
    BY <2>1, <2>2, <2>3, <2>4
<1>20. CASE UNCHANGED vars
  BY <1>20 DEF vars, TypeOK, MutexHeld, DecisionHolds, LinkedNodesInUse, MayBeLinked,
             ErrorsLate, OneNodePerThread, HoldersCompatible
<1>21. ASSUME NEW t \in Threads, AllocFails(t) PROVE IInv'
  <2>1. TypeOK'
    BY <1>21 DEF AllocFails, TypeOK, Types, Errors, PCs
  <2>2. MutexHeld' /\ DecisionHolds'
    BY <1>21 DEF AllocFails, TypeOK, MutexHeld, DecisionHolds, Section
  <2>3. LinkedNodesInUse' /\ ErrorsLate'
    BY <1>21 DEF AllocFails, TypeOK, LinkedNodesInUse, MayBeLinked, ErrorsLate, Types
  <2>4. OneNodePerThread' /\ HoldersCompatible'
    BY <1>21 DEF AllocFails, TypeOK, OneNodePerThread, HoldersCompatible
  <2>5. QED
    BY <2>1, <2>2, <2>3, <2>4
<1>22. ASSUME NEW t \in Threads, TrylockExpires(t) PROVE IInv'
  <2>1. TypeOK'
    BY <1>22 DEF TrylockExpires, TypeOK, Types, Errors, PCs
  <2>2. MutexHeld' /\ DecisionHolds'
    BY <1>22 DEF TrylockExpires, TypeOK, MutexHeld, DecisionHolds, Section
  <2>3. LinkedNodesInUse' /\ ErrorsLate'
    BY <1>22 DEF TrylockExpires, TypeOK, LinkedNodesInUse, MayBeLinked, ErrorsLate, Types
  <2>4. OneNodePerThread' /\ HoldersCompatible'
    BY <1>22 DEF TrylockExpires, TypeOK, OneNodePerThread, HoldersCompatible
  <2>5. QED
    BY <2>1, <2>2, <2>3, <2>4
<1>23. ASSUME NEW t \in Threads, ReturnUnlocked(t) PROVE IInv'
  <2>1. TypeOK'
    BY <1>23 DEF ReturnUnlocked, TypeOK, Types, Errors, PCs
  <2>2. MutexHeld' /\ DecisionHolds'
    BY <1>23 DEF ReturnUnlocked, TypeOK, MutexHeld, DecisionHolds, Section
  <2>3. LinkedNodesInUse' /\ ErrorsLate'
    BY <1>23 DEF ReturnUnlocked, TypeOK, LinkedNodesInUse, MayBeLinked, ErrorsLate, Types
  <2>4. OneNodePerThread' /\ HoldersCompatible'
    BY <1>23 DEF ReturnUnlocked, TypeOK, OneNodePerThread, HoldersCompatible
  <2>5. QED
    BY <2>1, <2>2, <2>3, <2>4
<1>24. ASSUME NEW t \in Threads, StrayUnlock(t) PROVE IInv'
  <2>1. TypeOK'
    BY <1>24 DEF StrayUnlock, TypeOK, Types, Errors, PCs
  <2>2. MutexHeld' /\ DecisionHolds'
    BY <1>24 DEF StrayUnlock, TypeOK, MutexHeld, DecisionHolds, Section
  <2>3. LinkedNodesInUse' /\ ErrorsLate'
    BY <1>24 DEF StrayUnlock, TypeOK, LinkedNodesInUse, MayBeLinked, ErrorsLate, Types
  <2>4. OneNodePerThread' /\ HoldersCompatible'
    BY <1>24 DEF StrayUnlock, TypeOK, OneNodePerThread, HoldersCompatible
  <2>5. QED
    BY <2>1, <2>2, <2>3, <2>4
<1>25. QED
  BY <1>1, <1>2, <1>3, <1>4, <1>5, <1>6, <1>7, <1>8, <1>9, <1>10, <1>11, <1>12, <1>13,
     <1>14, <1>15, <1>16, <1>17, <1>18, <1>19, <1>20, <1>21, <1>22, <1>23, <1>24
  DEF Next, Step, Fault, Call, Halted

LEMMA StepInv == ASSUME IInv, [Next]_vars PROVE IInv'
<1>1. CASE Running
  BY <1>1, RunningStepInv
<1>2. CASE ~Running
  BY <1>2 DEF Next, Halted, vars, Lists, IInv, TypeOK, MutexHeld, DecisionHolds,
              LinkedNodesInUse, MayBeLinked, ErrorsLate, OneNodePerThread, HoldersCompatible, At
<1>3. QED
  BY <1>1, <1>2

LEMMA Overtaking ==
  ASSUME IInv, [Next]_vars, NEW u \in holder_list' \ holder_list, wait_list # <<>>
  PROVE  u = Head(wait_list)
<1> USE DEF IInv, At, Lists
<1>1. PICK t \in Threads : GrantFirst(t) \/ GrantShared(t) \/ PromoteNext(t)
  BY DEF Next, Halted, vars, Step, Fault, Call, Request, AllocFails, TrylockExpires, MutexLock,
         LockedTooLate, Decide, Enqueue, WaitTimesOut, SpuriousWakeup, AfterWait, Return,
         ReturnUnlocked, StrayUnlock, Release, RemoveHolder, PromoteDone, Leave, WakeAll, WakeHead, WakeAllDone
<1>2. CASE GrantFirst(t)
  BY <1>2 DEF GrantFirst, DecisionHolds
<1>3. CASE GrantShared(t)
  BY <1>3 DEF GrantShared, DecisionHolds
<1>4. CASE PromoteNext(t)
  BY <1>4 DEF PromoteNext
<1>5. QED
  BY <1>1, <1>2, <1>3, <1>4

(* The type of every variable, in every reachable state.                   *)
THEOREM TypeCorrect == Spec => []TypeOK
<1>1. IInv => TypeOK
  BY DEF IInv
<1>2. QED
  BY <1>1, InitInv, StepInv, PTL DEF Spec

(* A writer is alone in the holder list, however requests time out, waits  *)
(* are interrupted or threads awake for no reason.                         *)
THEOREM HoldersAgree == Spec => []HoldersCompatible
<1>1. IInv => HoldersCompatible
  BY DEF IInv
<1>2. QED
  BY <1>1, InitInv, StepInv, PTL DEF Spec

(* The lists never share a node and the wait list has no duplicate.        *)
THEOREM NodesLinkedOnce == Spec => []OneNodePerThread
<1>1. IInv => OneNodePerThread
  BY DEF IInv
<1>2. QED
  BY <1>1, InitInv, StepInv, PTL DEF Spec

(* No list links a node that its request or its release has freed, as long *)
(* as no thread unlocks the mutex of another.                              *)
THEOREM NoDanglingNode == Spec => []FreedNodesUnlinked
<1>1. IInv => FreedNodesUnlinked
  BY DEF IInv, LinkedNodesInUse, MayBeLinked, FreedNodesUnlinked, At
<1>2. QED
  BY <1>1, InitInv, StepInv, PTL DEF Spec

(* Requests are granted in the order in which they queued.                 *)
THEOREM FirstComeFirstServed == Spec => NoOvertaking
<1>1. IInv /\ [Next]_vars =>
        [\A t \in holder_list' \ holder_list :
            wait_list # <<>> => t = Head(wait_list)]_vars
  BY Overtaking
<1>2. QED
  BY <1>1, InitInv, StepInv, PTL DEF Spec, NoOvertaking

-----------------------------------------------------------------------------
(* Part 2: the callers, when every wait ends with a grant                  *)

Undisturbed ==
  \A t \in Threads :
     /\ error[t] = "none" /\ node[t].error = "none" /\ ~timed[t]
     /\ pc[t] \notin {"wake_lock", "wake", "quit", "stray", "aborted"}

WaitersSleep == \A t \in Threads : t \in ToSet(wait_list) <=> At(t, "waiting")

(* From the grant to the removal a thread is in the holder list.           *)
GrantsKept ==
  \A t \in Threads :
     \/ pc[t] \in {"relock", "woken", "unlock", "release_lock", "remove"}
     \/ hold[t] # "none"
     => t \in holder_list

HoldIsType ==
  \A t \in Threads : hold[t] # "none" => At(t, "idle") /\ hold[t] = node[t].req_type

(* Waiters without a holder before them are about to be promoted.          *)
QueueServed ==
  /\ wait_list # <<>> /\ holder_list = {} => \E t \in Threads : At(t, "promote")
  /\ \A t \in Threads : At(t, "enqueue") => holder_list # {}

WaitsEndInGrants ==
  /\ Undisturbed
  /\ WaitersSleep
  /\ GrantsKept
  /\ HoldIsType
  /\ QueueServed

PlainInv == IInv /\ WaitsEndInGrants

LEMMA InitPlain == Init => PlainInv
<1> SUFFICES ASSUME Init PROVE PlainInv
  OBVIOUS
<1>1. ToSet(wait_list) = {}
  BY DEF Init, ToSet
<1>2. QED
  BY <1>1, InitInv
  DEF Init, PlainInv, WaitsEndInGrants, Undisturbed, WaitersSleep, GrantsKept, HoldIsType, QueueServed, At

LEMMA StepPlain == ASSUME PlainRequests, PlainInv, [Next]_vars PROVE PlainInv'
<1> USE ResourceQueueAssumption
<1>r. Running
  BY DEF Running, PlainInv, WaitsEndInGrants, Undisturbed
<1> USE DEF PlainInv, WaitsEndInGrants, IInv, At, GoTo, GoToAndWake, Fail, Lists
<1>1. ASSUME NEW t \in Threads, NEW type \in Types, NEW limited \in BOOLEAN,
             Request(t, type, limited)
      PROVE WaitsEndInGrants'
  <2>1. Undisturbed' /\ WaitersSleep'
    BY <1>1 DEF Request, TypeOK, Undisturbed, WaitersSleep, PlainRequests
  <2>2. GrantsKept' /\ HoldIsType'
    BY <1>1 DEF Request, TypeOK, GrantsKept, HoldIsType
  <2>3. QueueServed'
    BY <1>1, <1>r, AloneInside DEF Request, TypeOK, QueueServed, Section
  <2>4. QED
    BY <2>1, <2>2, <2>3 DEF WaitsEndInGrants
<1>2. ASSUME NEW t \in Threads, MutexLock(t) PROVE WaitsEndInGrants'
  <2>1. Undisturbed' /\ WaitersSleep'
    BY <1>2 DEF MutexLock, TypeOK, Undisturbed, WaitersSleep
  <2>2. GrantsKept' /\ HoldIsType'
    BY <1>2 DEF MutexLock, TypeOK, GrantsKept, HoldIsType
  <2>3. QueueServed'
    BY <1>2, <1>r, AloneInside DEF MutexLock, TypeOK, QueueServed, Section
  <2>4. QED
    BY <2>1, <2>2, <2>3 DEF WaitsEndInGrants
<1>3. ASSUME NEW t \in Threads, Decide(t) PROVE WaitsEndInGrants'
  <2>1. Undisturbed' /\ WaitersSleep'
    BY <1>3 DEF Decide, TypeOK, Undisturbed, WaitersSleep
  <2>2. GrantsKept' /\ HoldIsType'
    BY <1>3 DEF Decide, TypeOK, GrantsKept, HoldIsType
  <2>3. QueueServed'
    BY <1>3, <1>r, AloneInside DEF Decide, TypeOK, QueueServed, Section
  <2>4. QED
    BY <2>1, <2>2, <2>3 DEF WaitsEndInGrants
<1>4. ASSUME NEW t \in Threads, GrantFirst(t) PROVE WaitsEndInGrants'
  <2>1. Undisturbed' /\ WaitersSleep'
    BY <1>4 DEF GrantFirst, TypeOK, Undisturbed, WaitersSleep
  <2>2. GrantsKept' /\ HoldIsType'
    BY <1>4 DEF GrantFirst, TypeOK, GrantsKept, HoldIsType
  <2>3. QueueServed'
    BY <1>4, <1>r, AloneInside DEF GrantFirst, TypeOK, QueueServed, Section
  <2>4. QED
    BY <2>1, <2>2, <2>3 DEF WaitsEndInGrants
<1>5. ASSUME NEW t \in Threads, GrantShared(t) PROVE WaitsEndInGrants'
  <2>1. Undisturbed' /\ WaitersSleep'
    BY <1>5 DEF GrantShared, TypeOK, Undisturbed, WaitersSleep
  <2>2. GrantsKept' /\ HoldIsType'
    BY <1>5 DEF GrantShared, TypeOK, GrantsKept, HoldIsType
  <2>3. QueueServed'
    BY <1>5, <1>r, AloneInside DEF GrantShared, TypeOK, QueueServed, Section
  <2>4. QED
    BY <2>1, <2>2, <2>3 DEF WaitsEndInGrants
<1>6. ASSUME NEW t \in Threads, Enqueue(t) PROVE WaitsEndInGrants'
  <2>1. t \notin ToSet(wait_list)
    BY <1>6 DEF Enqueue, LinkedNodesInUse, MayBeLinked
  <2>2. ToSet(wait_list') = ToSet(wait_list) \cup {t}
    BY <1>6, <2>1, AppendFacts DEF Enqueue, TypeOK, OneNodePerThread
  <2>3. Undisturbed' /\ WaitersSleep'
    BY <1>6, <2>2 DEF Enqueue, TypeOK, Undisturbed, WaitersSleep
  <2>4. GrantsKept' /\ HoldIsType'
    BY <1>6 DEF Enqueue, TypeOK, GrantsKept, HoldIsType
  <2>5. QueueServed'
    BY <1>6, <1>r, AloneInside DEF Enqueue, TypeOK, QueueServed, Section
  <2>6. QED
    BY <2>3, <2>4, <2>5 DEF WaitsEndInGrants
<1>7. ASSUME NEW t \in Threads, AfterWait(t) PROVE WaitsEndInGrants'
  <2>1. /\ UNCHANGED <<Lists, mutex, node, timed, error, hold>>
        /\ pc[t] = "woken" /\ pc' = [pc EXCEPT ![t] = "unlock"]
    <3>1. node[t].error = "none" /\ error[t] = "none"
      BY DEF Undisturbed
    <3>2. [error EXCEPT ![t] = "none"] = error
      BY <3>1 DEF TypeOK
    <3>3. QED
      BY <1>7, <3>1, <3>2 DEF AfterWait
  <2>2. Undisturbed' /\ WaitersSleep'
    BY <2>1 DEF TypeOK, Undisturbed, WaitersSleep
  <2>3. GrantsKept' /\ HoldIsType'
    BY <2>1 DEF TypeOK, GrantsKept, HoldIsType
  <2>4. QueueServed'
    BY <2>1 DEF TypeOK, QueueServed
  <2>5. QED
    BY <2>2, <2>3, <2>4 DEF WaitsEndInGrants
<1>8. ASSUME NEW t \in Threads, Return(t) PROVE WaitsEndInGrants'
  <2>1. Undisturbed' /\ WaitersSleep'
    BY <1>8 DEF Return, TypeOK, Undisturbed, WaitersSleep
  <2>2. GrantsKept' /\ HoldIsType'
    BY <1>8 DEF Return, TypeOK, GrantsKept, HoldIsType, Undisturbed
  <2>3. QueueServed'
    BY <1>8, <1>r, AloneInside DEF Return, TypeOK, QueueServed, Section
  <2>4. QED
    BY <2>1, <2>2, <2>3 DEF WaitsEndInGrants
<1>9. ASSUME NEW t \in Threads, Release(t) PROVE WaitsEndInGrants'
  <2>1. Undisturbed' /\ WaitersSleep'
    BY <1>9 DEF Release, TypeOK, Undisturbed, WaitersSleep
  <2>2. GrantsKept' /\ HoldIsType'
    BY <1>9 DEF Release, TypeOK, GrantsKept, HoldIsType
  <2>3. QueueServed'
    BY <1>9, <1>r, AloneInside DEF Release, TypeOK, QueueServed, Section
  <2>4. QED
    BY <2>1, <2>2, <2>3 DEF WaitsEndInGrants
<1>10. ASSUME NEW t \in Threads, RemoveHolder(t) PROVE WaitsEndInGrants'
  <2>1. Undisturbed' /\ WaitersSleep'
    BY <1>10 DEF RemoveHolder, TypeOK, Undisturbed, WaitersSleep, GrantsKept
  <2>2. GrantsKept' /\ HoldIsType'
    BY <1>10 DEF RemoveHolder, TypeOK, GrantsKept, HoldIsType
  <2>3. QueueServed'
    BY <1>10, <1>r, AloneInside DEF RemoveHolder, TypeOK, QueueServed, Section
  <2>4. QED
    BY <2>1, <2>2, <2>3 DEF WaitsEndInGrants
<1>11. ASSUME NEW t \in Threads, PromoteNext(t) PROVE WaitsEndInGrants'
  <2> DEFINE u == Head(wait_list)
  <2>1. /\ u \in Threads
        /\ u \in ToSet(wait_list)
        /\ ToSet(wait_list') = ToSet(wait_list) \ {u}
    BY <1>11, TailFacts DEF PromoteNext, TypeOK, OneNodePerThread
  <2>2. pc[u] = "waiting"
    BY <2>1 DEF WaitersSleep
  <2>3. /\ pc[t] = "promote" /\ t # u
        /\ holder_list' = holder_list \cup {u}
        /\ pc' = [pc EXCEPT ![t] = "promote", ![u] = "relock"]
        /\ UNCHANGED <<mutex, node, timed, error, hold>>
    BY <1>11, <2>2 DEF PromoteNext
  <2> HIDE DEF u
  <2>4. Undisturbed' /\ WaitersSleep'
    BY <2>1, <2>2, <2>3 DEF TypeOK, Undisturbed, WaitersSleep
  <2>5. GrantsKept' /\ HoldIsType'
    BY <2>1, <2>2, <2>3 DEF TypeOK, GrantsKept, HoldIsType
  <2>6. QueueServed'
    BY <2>1, <2>2, <2>3 DEF TypeOK, QueueServed
  <2>7. QED
    BY <2>4, <2>5, <2>6 DEF WaitsEndInGrants
<1>12. ASSUME NEW t \in Threads, PromoteDone(t) PROVE WaitsEndInGrants'
  <2>1. wait_list # <<>> => holder_list # {}
    BY <1>12 DEF PromoteDone, Compatible
  <2>2. Undisturbed' /\ WaitersSleep'
    BY <1>12 DEF PromoteDone, TypeOK, Undisturbed, WaitersSleep
  <2>3. GrantsKept' /\ HoldIsType'
    BY <1>12 DEF PromoteDone, TypeOK, GrantsKept, HoldIsType
  <2>4. QueueServed'
    BY <1>12, <2>1 DEF PromoteDone, TypeOK, QueueServed
  <2>5. QED
    BY <2>2, <2>3, <2>4 DEF WaitsEndInGrants
<1>13. ASSUME NEW t \in Threads, Leave(t) PROVE WaitsEndInGrants'
  <2>1. Undisturbed' /\ WaitersSleep'
    BY <1>13 DEF Leave, TypeOK, Undisturbed, WaitersSleep
  <2>2. GrantsKept' /\ HoldIsType'
    BY <1>13 DEF Leave, TypeOK, GrantsKept, HoldIsType
  <2>3. QueueServed'
    BY <1>13, <1>r, AloneInside DEF Leave, TypeOK, QueueServed, Section
  <2>4. QED
    BY <2>1, <2>2, <2>3 DEF WaitsEndInGrants
<1>14. ASSUME UNCHANGED vars PROVE WaitsEndInGrants'
  <2>1. Undisturbed' /\ WaitersSleep'
    BY <1>14 DEF vars, Undisturbed, WaitersSleep
  <2>2. GrantsKept' /\ HoldIsType' /\ QueueServed'
    BY <1>14 DEF vars, GrantsKept, HoldIsType, QueueServed
  <2>3. QED
    BY <2>1, <2>2 DEF WaitsEndInGrants
<1>15. IInv'
  BY StepInv
<1>16. WaitsEndInGrants'
  <2>1. \A t \in Threads : ~Fault(t) /\ ~LockedTooLate(t) /\ ~WaitTimesOut(t)
    BY DEF Fault, AllocFails, TrylockExpires, SpuriousWakeup, LockedTooLate, WaitTimesOut,
           PlainRequests, Undisturbed
  <2>2. /\ \A t \in Threads : ~WakeAll(t) /\ ~WakeHead(t) /\ ~WakeAllDone(t)
        /\ \A t \in Threads : ~ReturnUnlocked(t) /\ ~StrayUnlock(t)
    BY DEF WakeAll, WakeHead, WakeAllDone, ReturnUnlocked, StrayUnlock, PlainRequests, Undisturbed
  <2>3. QED
    BY <2>1, <2>2, <1>1, <1>2, <1>3, <1>4, <1>5, <1>6, <1>7, <1>8, <1>9, <1>10, <1>11, <1>12, <1>13, <1>14
    DEF Next, Step, Call, Halted
<1>17. QED
  BY <1>15, <1>16 DEF WaitsEndInGrants

LEMMA PlainExclusive == PlainInv => Exclusive
BY DEF PlainInv, IInv, WaitsEndInGrants, GrantsKept, HoldIsType, HoldersCompatible, Exclusive,
       RW!Exclusive

(* Only Return and Release are visible to callers.                         *)
LEMMA StepRefines ==
  ASSUME PlainRequests, PlainInv, [Next]_vars
  PROVE  [RW!Next]_hold
<1> USE DEF At, GoTo, GoToAndWake, Fail, Lists
<1>1. ASSUME NEW t \in Threads, Release(t) PROVE RW!Next
  BY <1>1 DEF Release, RW!Next, RW!Release
<1>2. ASSUME NEW t \in Threads, Return(t) PROVE RW!Next
  <2>1. /\ hold' = [hold EXCEPT ![t] = node[t].req_type]
        /\ node[t].req_type \in Types
        /\ hold[t] = "none"
        /\ t \in holder_list
    BY <1>2 DEF Return, PlainInv, IInv, TypeOK, WaitsEndInGrants, Undisturbed, GrantsKept, HoldIsType
  <2>2. \A u \in Threads : hold[u] # "none" => u \in holder_list /\ hold[u] = node[u].req_type
    BY DEF PlainInv, WaitsEndInGrants, GrantsKept, HoldIsType
  <2>3. CASE node[t].req_type = "read"
    <3>1. RW!Writers = {}
      BY <2>1, <2>2, <2>3 DEF PlainInv, IInv, HoldersCompatible, RW!Writers
    <3>2. QED
      BY <2>1, <2>3, <3>1 DEF RW!Next, RW!AcquireRead
  <2>4. CASE node[t].req_type = "write"
    <3>1. \A u \in Threads : hold[u] = "none"
      BY <2>1, <2>2, <2>4 DEF PlainInv, IInv, HoldersCompatible
    <3>2. RW!Writers = {} /\ RW!Readers = {}
      BY <3>1 DEF RW!Writers, RW!Readers
    <3>3. QED
      BY <2>1, <2>4, <3>2 DEF RW!Next, RW!AcquireWrite
  <2>5. QED
    BY <2>1, <2>3, <2>4 DEF Types
<1>3. ASSUME NEW t \in Threads, Step(t) \/ Fault(t) \/ Call(t), ~Release(t), ~Return(t)
      PROVE  UNCHANGED hold
  BY <1>3
  DEF Step, Fault, Call, Request, AllocFails, TrylockExpires, MutexLock, LockedTooLate, Decide,
      GrantFirst, GrantShared, Enqueue, WaitTimesOut, SpuriousWakeup, AfterWait, RemoveHolder,
      PromoteNext, PromoteDone, Leave, WakeAll, WakeHead, WakeAllDone, ReturnUnlocked, StrayUnlock
<1>4. QED
  BY <1>1, <1>2, <1>3 DEF Next, Halted, vars

(* Mutual exclusion of the callers of the queue, for any number of threads. *)
THEOREM MutualExclusion == ASSUME PlainRequests PROVE Spec => []Exclusive
<1>1. QED
  BY InitPlain, StepPlain, PlainExclusive, PTL DEF Spec

(* Nobody is left waiting for a resource that nobody holds.                *)
THEOREM QueueNeverIdle == ASSUME PlainRequests PROVE Spec => []NoIdleQueue
<1>1. PlainInv => NoIdleQueue
  BY ResourceQueueAssumption
  DEF PlainInv, IInv, MutexHeld, Section, WaitsEndInGrants, QueueServed, NoIdleQueue, At,
      Undisturbed
<1>2. QED
  BY <1>1, InitPlain, StepPlain, PTL DEF Spec

(* Who sleeps is in the wait list, and who is in it sleeps.                *)
THEOREM NoLostSleeper == ASSUME PlainRequests PROVE Spec => []SleepersQueued
<1>1. PlainInv => SleepersQueued
  <2>1. ASSUME TypeOK PROVE \A t \in ToSet(wait_list) : t \in Threads
    BY <2>1, LenProperties, ElementOfSeq DEF TypeOK, ToSet
  <2>2. QED
    BY <2>1 DEF PlainInv, IInv, WaitsEndInGrants, WaitersSleep, SleepersQueued, At
<1>2. QED
  BY <1>1, InitPlain, StepPlain, PTL DEF Spec

(* The assertions of releaseResource cannot fail.                          *)
THEOREM ReleaseSafe == ASSUME PlainRequests PROVE Spec => []ReleaseFindsHolder
<1>1. PlainInv => ReleaseFindsHolder
  BY DEF PlainInv, WaitsEndInGrants, Undisturbed, ReleaseFindsHolder, Running
<1>2. QED
  BY <1>1, InitPlain, StepPlain, PTL DEF Spec

(* The queue implements the atomic readers/writer lock.                    *)
THEOREM Implementation == ASSUME PlainRequests PROVE Spec => ImplementsRWMutex
<1>1. Init => RW!Init
  BY DEF Init, RW!Init
<1>2. QED
  BY <1>1, InitPlain, StepPlain, StepRefines, PTL DEF Spec, ImplementsRWMutex, RW!Spec

=============================================================================
