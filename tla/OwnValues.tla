----------------------------- MODULE OwnValues -----------------------------
(***************************************************************************)
(* What shared strings promise: each thread has a value of its own.        *)
(* Values are passed on, changed and dropped, and what one thread does     *)
(* with its value is not seen by another.  The strings with reference      *)
(* counts of base_string.c (module SharedString) implement it.             *)
(***************************************************************************)

CONSTANTS Threads, Contents, Null

VARIABLE mine     (* the value of each thread, Null without one            *)

Init == mine = [t \in Threads |-> Null]

Create(t, c) == mine[t] = Null /\ mine' = [mine EXCEPT ![t] = c]

Give(t, u) ==
  mine[t] # Null /\ mine[u] = Null /\ mine' = [mine EXCEPT ![u] = mine[t]]

Edit(t, c) == mine[t] # Null /\ mine' = [mine EXCEPT ![t] = c]

Drop(t) == mine' = [mine EXCEPT ![t] = Null]

Next ==
  \E t \in Threads :
    \/ \E c \in Contents : Create(t, c) \/ Edit(t, c)
    \/ \E u \in Threads : Give(t, u)
    \/ Drop(t)

Spec == Init /\ [][Next]_mine

=============================================================================
