------------------------------ MODULE HashMap ------------------------------
(***************************************************************************)
(* What a concurrent hash table promises: every call takes effect at one   *)
(* moment between its begin and its end, and its answer is the one of that *)
(* moment.  The hash table of base_hash.c (module HashTable) is checked    *)
(* against it up to its first rehash.                                      *)
(***************************************************************************)

CONSTANTS Threads, Calls, NoCall, Keys, Values, Absent

VARIABLES
  content,   (* the value of each key, or Absent                           *)
  status,    (* "idle", "called", or "done": took effect, about to return  *)
  call,      (* the call of each thread: operation, key and value          *)
  answer     (* what each thread was told; "none" until its call has taken
                effect                                                     *)

vars == <<content, status, call, answer>>

Init ==
  /\ content = [k \in Keys |-> Absent]
  /\ status = [t \in Threads |-> "idle"]
  /\ call = [t \in Threads |-> NoCall]
  /\ answer = [t \in Threads |-> "none"]

Call(t) ==
  /\ status[t] = "idle"
  /\ status' = [status EXCEPT ![t] = "called"]
  /\ \E c \in Calls : call' = [call EXCEPT ![t] = c]
  /\ UNCHANGED <<content, answer>>

(* The value of its key after a call, and what the caller is told.         *)
Effects(op, old, new) ==
  CASE op = "insert" ->
         {<<old, "memory">>, IF old = Absent THEN <<new, "done">> ELSE <<old, "duplicate">>}
    [] op = "remove" ->
         {IF old = Absent THEN <<old, "missing">> ELSE <<Absent, "done">>}
    [] op = "update" ->
         {IF old = Absent THEN <<old, "missing">> ELSE <<new, "done">>}
    [] op \in {"find", "find_lock"} ->
         {IF old = Absent THEN <<old, "missing">> ELSE <<old, old>>}

TakesEffect(t) ==
  /\ status[t] = "called"
  /\ call[t].op # "map"
  /\ status' = [status EXCEPT ![t] = "done"]
  /\ \E e \in Effects(call[t].op, content[call[t].key], call[t].value) :
       /\ content' = [content EXCEPT ![call[t].key] = e[1]]
       /\ answer' = [answer EXCEPT ![t] = e[2]]
  /\ UNCHANGED call

(* Nothing is promised of what a map function sees.                        *)
Maps(t) ==
  /\ status[t] = "called"
  /\ call[t].op = "map"
  /\ \E a \in {"done", "callback"} : answer' = [answer EXCEPT ![t] = a]
  /\ status' = [status EXCEPT ![t] = "done"]
  /\ UNCHANGED <<content, call>>

(* An insert that took effect may still be told that memory is short: the  *)
(* table could not start a rehash.                                         *)
InsertFails(t) ==
  /\ status[t] = "done"
  /\ call[t].op = "insert"
  /\ answer' = [answer EXCEPT ![t] = "memory"]
  /\ UNCHANGED <<content, status, call>>

Returns(t) ==
  /\ status[t] = "done"
  /\ status' = [status EXCEPT ![t] = "idle"]
  /\ call' = [call EXCEPT ![t] = NoCall]
  /\ answer' = [answer EXCEPT ![t] = "none"]
  /\ UNCHANGED content

Next ==
  \E t \in Threads :
     Call(t) \/ TakesEffect(t) \/ Maps(t) \/ InsertFails(t) \/ Returns(t)

Spec == Init /\ [][Next]_vars

=============================================================================
