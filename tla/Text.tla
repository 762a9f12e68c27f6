-------------------------------- MODULE Text --------------------------------
(***************************************************************************)
(* What a String that one owner edits promises (module StringBuffer), with *)
(* the one fault of its copyString: a copy may have the byte 0 in place of *)
(* one of its bytes.                                                       *)
(***************************************************************************)

EXTENDS Integers, Sequences

CONSTANTS
  Byte, Zero,
  Null,       (* a string without bytes                                    *)
  Chunks,     (* what appendBytes appends                                  *)
  Texts       (* what a string is set to, or is a copy of                  *)

VARIABLE content

Init == content = Null

(* A new string holds as much of a text as it has room for.                *)
Set == \E t \in Texts : \E n \in 0..Len(t) : content' = SubSeq(t, 1, n)

Read == \E t \in Texts : content' = t

(* A string without bytes is taken for an empty one.                       *)
Written == IF content = Null THEN <<>> ELSE content

Append1 == \E b \in Byte : content' = Append(Written, b)

AppendMany == \E c \in Chunks : content' = Written \o c

Clear == content # Null /\ content' = <<>>

Copy ==
  /\ content # Null
  /\ \E t \in Texts : \/ content' = t
                      \/ \E i \in DOMAIN t : content' = [t EXCEPT ![i] = Zero]

Drop == content' = Null

Next ==
  \/ content = Null /\ Set
  \/ Read
  \/ Append1
  \/ AppendMany
  \/ Clear
  \/ Copy
  \/ Drop

Spec == Init /\ [][Next]_content

=============================================================================
