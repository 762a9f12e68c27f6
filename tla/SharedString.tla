---------------------------- MODULE SharedString ----------------------------
(***************************************************************************)
(* The strings with reference counts of base/base_string.c, as threads     *)
(* share them: a thread takes a further reference and passes it on, edits  *)
(* its string, which is copied first when there are other references, and  *)
(* gives its reference back.  An action is one access that other threads   *)
(* may notice.  editString and freeString read ref_count without the lock. *)
(*                                                                         *)
(* A thread has references to one string at a time, as in                  *)
(* base_string_test.c.  What a string says is one value.  A string that    *)
(* was freed may be handed out again by malloc.                            *)
(***************************************************************************)

EXTENDS Integers, FiniteSets

CONSTANTS
  Threads, Strings,
  Contents,         (* what a string may say                               *)
  Null,
  MaxRefs           (* bound: references of one thread                     *)

(* Assumed by BaseString.                                                  *)
SharedStringAssumption ==
  Null \notin Threads \cup Strings \cup Contents /\ MaxRefs \in Nat \ {0}

VARIABLES
  live,             (* the strings that are allocated                      *)
  ref_count, lock, bytes,     (* the fields of each string                 *)
  pc, op,           (* where each thread is, and in which function         *)
  str,              (* the string each thread works with                   *)
  refs,             (* the references to it that the thread has            *)
  count,            (* the ref_count it has loaded, to store it back       *)
  ret_str,          (* the copy editString is going to return              *)
  late,             (* the threads whose string was freed before they were *)
                    (* done with it                                        *)
  undefined         (* a thread has used memory that was freed             *)

vars == <<live, ref_count, lock, bytes, pc, op, str, refs, count, ret_str, late, undefined>>

Fields == <<live, ref_count, lock, bytes>>
Locals == <<str, refs, count, ret_str>>

Init ==
  /\ live = {}
  /\ ref_count = [s \in Strings |-> 0] /\ lock = [s \in Strings |-> 0]
  /\ bytes = [s \in Strings |-> Null]
  /\ pc = [t \in Threads |-> "idle"] /\ op = [t \in Threads |-> "none"]
  /\ str = [t \in Threads |-> Null] /\ refs = [t \in Threads |-> 0]
  /\ count = [t \in Threads |-> 0] /\ ret_str = [t \in Threads |-> Null]
  /\ late = {} /\ undefined = FALSE

-----------------------------------------------------------------------------

At(t, place) == ~undefined /\ pc[t] = place

Goto(t, place) == pc' = [pc EXCEPT ![t] = place]

(* A string from malloc, with its first reference.                         *)
New(s, c) ==
  /\ s \notin live
  /\ live' = live \cup {s}
  /\ ref_count' = [ref_count EXCEPT ![s] = 1]
  /\ lock' = [lock EXCEPT ![s] = 0]
  /\ bytes' = [bytes EXCEPT ![s] = c]

(* free(str) by t, with all its fields; threads that still work with the   *)
(* string, t too if it has to unlock it, come late.                        *)
Release(t, unlocks) ==
  /\ live' = live \ {str[t]}
  /\ ref_count' = [ref_count EXCEPT ![str[t]] = 0]
  /\ lock' = [lock EXCEPT ![str[t]] = 0]
  /\ bytes' = [bytes EXCEPT ![str[t]] = Null]
  /\ late' = late \cup {u \in Threads : str[u] = str[t] /\ (u = t => unlocks)}

(* Mutant of Alone: off by one.                                            *)
AloneWithOther(t) == ref_count[str[t]] < 3

(* What freeString and editString read without the lock.                   *)
Alone(t) == ref_count[str[t]] < 2

-----------------------------------------------------------------------------
(* The caller                                                              *)

allocString(t) ==
  /\ At(t, "idle") /\ str[t] = Null
  /\ \E s \in Strings, c \in Contents :
       New(s, c) /\ str' = [str EXCEPT ![t] = s]
  /\ refs' = [refs EXCEPT ![t] = 1]
  /\ UNCHANGED <<pc, op, count, ret_str, late, undefined>>

refString(t) ==
  /\ At(t, "idle") /\ str[t] # Null /\ refs[t] < MaxRefs
  /\ op' = [op EXCEPT ![t] = "ref"]
  /\ Goto(t, "lock")
  /\ UNCHANGED <<Fields, Locals, late, undefined>>

(* A reference is passed to a thread that has none.                        *)
Pass(t, u) ==
  /\ At(t, "idle") /\ refs[t] > 1
  /\ At(u, "idle") /\ str[u] = Null
  /\ str' = [str EXCEPT ![u] = str[t]]
  /\ refs' = [refs EXCEPT ![t] = @ - 1, ![u] = 1]
  /\ UNCHANGED <<Fields, pc, op, count, ret_str, late, undefined>>

freeString(t) ==
  /\ At(t, "idle") /\ str[t] # Null
  /\ op' = [op EXCEPT ![t] = "free"]
  /\ Goto(t, "free")
  /\ UNCHANGED <<Fields, Locals, late, undefined>>

editString(t) ==
  /\ At(t, "idle") /\ refs[t] = 1
  /\ IF Alone(t)
     THEN Goto(t, "write") /\ UNCHANGED op
     ELSE Goto(t, "clone") /\ op' = [op EXCEPT ![t] = "edit"]
  /\ UNCHANGED <<Fields, Locals, late, undefined>>

(* The editing itself, of the string that editString returned.             *)
Write(t) ==
  /\ At(t, "write")
  /\ \E c \in Contents : bytes' = [bytes EXCEPT ![str[t]] = c]
  /\ Goto(t, "idle")
  /\ UNCHANGED <<live, ref_count, lock, op, Locals, late, undefined>>

-----------------------------------------------------------------------------
(* editString: the copy of a string that has other references              *)

cloneString(t) ==
  /\ At(t, "clone")
  /\ \E s \in Strings : New(s, bytes[str[t]]) /\ ret_str' = [ret_str EXCEPT ![t] = s]
  /\ Goto(t, "free")
  /\ UNCHANGED <<op, str, refs, count, late, undefined>>

(* No memory: editString still gives the reference back and returns NULL.  *)
CloneFails(t) ==
  /\ At(t, "clone")
  /\ Goto(t, "free")
  /\ UNCHANGED <<Fields, op, Locals, late, undefined>>

(* malloc gives a String and no bytes: the String is returned as it is.    *)
AllocWithoutBytes(t) ==
  /\ At(t, "clone") \/ (At(t, "idle") /\ str[t] = Null)
  /\ undefined' = TRUE
  /\ UNCHANGED <<Fields, pc, op, Locals, late>>

-----------------------------------------------------------------------------
(* freeString and refString                                                *)

(* freeString returns; in editString the copy takes the place of str.      *)
Leave(t, left) ==
  /\ refs' = [refs EXCEPT ![t] = IF ret_str[t] = Null THEN left ELSE 1]
  /\ str' = [str EXCEPT ![t] = IF left > 0 THEN @ ELSE ret_str[t]]
  /\ ret_str' = [ret_str EXCEPT ![t] = Null]
  /\ op' = [op EXCEPT ![t] = "none"]
  /\ Goto(t, IF ret_str[t] = Null THEN "idle" ELSE "write")

FreeAlone(t) ==
  /\ At(t, "free") /\ Alone(t)
  /\ Release(t, FALSE)
  /\ Leave(t, refs[t] - 1)
  /\ UNCHANGED <<count, undefined>>

FreeShared(t) ==
  /\ At(t, "free") /\ ~Alone(t)
  /\ Goto(t, "lock")
  /\ UNCHANGED <<Fields, op, Locals, late, undefined>>

LockInt(t) ==
  /\ At(t, "lock")
  /\ lock[str[t]] = 0 /\ lock' = [lock EXCEPT ![str[t]] = 1]
  /\ Goto(t, "load")
  /\ UNCHANGED <<live, ref_count, bytes, op, Locals, late, undefined>>

Load(t) ==
  /\ At(t, "load")
  /\ count' = [count EXCEPT ![t] = ref_count[str[t]]]
  /\ Goto(t, "store")
  /\ UNCHANGED <<Fields, op, str, refs, ret_str, late, undefined>>

StoreMore(t) ==
  /\ At(t, "store") /\ op[t] = "ref"
  /\ ref_count' = [ref_count EXCEPT ![str[t]] = count[t] + 1]
  /\ count' = [count EXCEPT ![t] = 0]
  /\ refs' = [refs EXCEPT ![t] = @ + 1]
  /\ Goto(t, "unlock")
  /\ UNCHANGED <<live, lock, bytes, op, str, ret_str, late, undefined>>

StoreLess(t) ==
  /\ At(t, "store") /\ op[t] # "ref"
  /\ ref_count' = [ref_count EXCEPT ![str[t]] = count[t] - 1]
  /\ count' = [count EXCEPT ![t] = 0]
  /\ refs' = [refs EXCEPT ![t] = @ - 1]
  /\ Goto(t, "check")
  /\ UNCHANGED <<live, lock, bytes, op, str, ret_str, late, undefined>>

(* Mutant of CheckLast: the last owner does not free the string.           *)
CheckLastWithoutFree(t) ==
  /\ At(t, "check") /\ t \notin late
  /\ Goto(t, "unlock")
  /\ UNCHANGED <<Fields, op, Locals, late, undefined>>

(* ref_count is read once more, and freeString called again if it is 0.    *)
CheckLast(t) ==
  /\ At(t, "check") /\ t \notin late
  /\ IF ref_count[str[t]] < 1
     THEN Release(t, TRUE)
     ELSE UNCHANGED <<Fields, late>>
  /\ Goto(t, "unlock")
  /\ UNCHANGED <<op, Locals, undefined>>

Unlock(t) ==
  /\ At(t, "unlock") /\ t \notin late
  /\ lock' = [lock EXCEPT ![str[t]] = 0]
  /\ Leave(t, refs[t])
  /\ UNCHANGED <<live, ref_count, bytes, count, late, undefined>>

(* The string was freed: what is read or stored is now other memory.       *)
TouchFreed(t) ==
  /\ t \in late /\ (At(t, "check") \/ At(t, "unlock"))
  /\ undefined' = TRUE
  /\ UNCHANGED <<Fields, pc, op, Locals, late>>

Halted == undefined /\ UNCHANGED vars

-----------------------------------------------------------------------------

Step(t) ==
  \/ allocString(t) \/ refString(t) \/ freeString(t) \/ editString(t) \/ Write(t)
  \/ \E u \in Threads : Pass(t, u)
  \/ cloneString(t) \/ CloneFails(t) \/ AllocWithoutBytes(t)
  \/ FreeAlone(t) \/ FreeShared(t) \/ LockInt(t) \/ Load(t)
  \/ StoreMore(t) \/ StoreLess(t) \/ CheckLast(t)
  \/ Unlock(t) \/ TouchFreed(t)

Next == Halted \/ \E t \in Threads : Step(t)

Spec == Init /\ [][Next]_vars

-----------------------------------------------------------------------------
(* Properties                                                              *)

Places == {"idle", "write", "clone", "free", "lock", "load", "store", "check", "unlock"}

(* The variables have their types; the lock is free or taken.              *)
TypeOK ==
  /\ live \subseteq Strings
  /\ ref_count \in [Strings -> Nat] /\ lock \in [Strings -> {0, 1}]
  /\ bytes \in [Strings -> Contents \cup {Null}]
  /\ pc \in [Threads -> Places] /\ op \in [Threads -> {"none", "ref", "free", "edit"}]
  /\ str \in [Threads -> Strings \cup {Null}]
  /\ refs \in [Threads -> 0..MaxRefs] /\ count \in [Threads -> Nat]
  /\ ret_str \in [Threads -> Strings \cup {Null}]
  /\ late \subseteq Threads /\ undefined \in BOOLEAN

Referenced(s) == \E t \in Threads : (str[t] = s /\ refs[t] > 0) \/ ret_str[t] = s

(* The last reference is gone, and the thread that had it frees the string *)
(* next.                                                                   *)
Dying(s) ==
  \E t \in Threads \ late : pc[t] = "check" /\ str[t] = s /\ ref_count[s] < 1

(* A string is allocated exactly as long as somebody has a reference to    *)
(* it: whoever gives back the last one frees it, although ref_count is     *)
(* read without the lock, and nobody frees it earlier or twice.            *)
LiveWhileReferenced ==
  TypeOK /\ \A s \in Strings : s \in live <=> Referenced(s) \/ Dying(s)

(* The one code that may come after a string is freed is the rest of       *)
(* freeString behind its decrement: it reads ref_count again, where two    *)
(* owners give back their references, and unlocks.  No other access of the *)
(* file meets a string that was freed.                                     *)
OnlyRestOfFreeIsLate == \A t \in late : pc[t] \in {"check", "unlock"} /\ op[t] # "ref"

Mine(t) ==
  IF ret_str[t] # Null THEN bytes[ret_str[t]]
  ELSE IF refs[t] = 0 THEN Null
  ELSE bytes[str[t]]

V == INSTANCE OwnValues WITH mine <- [t \in Threads |-> Mine(t)]

(* Copying on write keeps the values of the threads apart: nobody sees the *)
(* edits of another thread, although all decide on an unlocked ref_count.  *)
ImplementsOwnValues == V!Spec

=============================================================================
