---------------------------- MODULE StringBuffer ----------------------------
(***************************************************************************)
(* The String of base/base_string.c as its only owner edits it: a buffer   *)
(* that grows, with the length of its text and, after the text, a byte 0.  *)
(* In C a string on the stack; the fields ref_count and lock play no part  *)
(* (module SharedString has them).                                         *)
(*                                                                         *)
(* size is what the code takes the buffer to have room for, capacity what  *)
(* it was allocated with.  Calls that return an error and change nothing,  *)
(* as an append without memory, are steps that change nothing.             *)
(***************************************************************************)

EXTENDS Integers, Sequences, FiniteSets

CONSTANTS
  Byte, Zero,
  Junk,           (* what malloc left in a byte of a new buffer            *)
  Null,           (* no buffer                                             *)
  default_align,  (* of align.h; 8                                         *)
  Sizes,          (* bound: the sizes initString is called with            *)
  SourceSizes,    (* bound: the sizes of the strings that are copied       *)
  Chunks,         (* bound: what is appended by appendBytes                *)
  Texts,          (* bound: what is copied, and what streams hold          *)
  MaxLength       (* bound: of the text                                    *)

ASSUME StringBufferAssumption ==
  /\ Zero \notin Byte /\ Junk \notin Byte \cup {Zero}
  /\ Null \notin Seq(Byte \cup {Zero, Junk})
  /\ default_align \in Nat \ {0}
  /\ Sizes \subseteq Nat \ {0} /\ SourceSizes \subseteq Nat
  /\ Chunks \subseteq Seq(Byte) \ {<<>>} /\ Texts \subseteq Seq(Byte)
  /\ MaxLength \in Nat

VARIABLES
  bytes,         (* the buffer                                             *)
  capacity,      (* what was allocated for it                              *)
  size, length,  (* fields                                                 *)
  overflow,      (* a byte was stored behind the end of the buffer         *)
  null_used      (* bytes were read or stored through NULL                 *)

vars == <<bytes, capacity, size, length, overflow, null_used>>

(* INIT_STRING                                                             *)
Init ==
  /\ bytes = Null /\ capacity = 0
  /\ size = 0 /\ length = 0
  /\ overflow = FALSE /\ null_used = FALSE

-----------------------------------------------------------------------------

ALIGN_DEFAULT(n) == ((n + default_align - 1) \div default_align) * default_align

malloc(n) == [i \in 0..(n - 1) |-> Junk]

(* memcpy of s to the bytes of m from index k on.                          *)
memcpy(m, k, s) ==
  [i \in DOMAIN m |-> IF i \in k..(k + Len(s) - 1) THEN s[i - k + 1] ELSE m[i]]

(* Mutant of Terminated: the byte 0 is forgotten.                          *)
Unterminated(s) == s

Terminated(s) == Append(s, Zero)

(* The text of a buffer.                                                   *)
TextOf(m, n) == [i \in 1..n |-> m[i - 1]]

(* Nothing is said of what comes after a store to other memory.            *)
Running == ~overflow /\ ~null_used

Usable == Running /\ bytes # Null

(* Mutant of Fills: no room for the byte 0.                                *)
FillsWithoutEnd(n) == length + n > size

(* n more bytes and the byte 0 have no room.                               *)
Fills(n) == length + n >= size

Hold(m, n, room, s) ==
  /\ bytes' = m /\ capacity' = room
  /\ size' = s /\ length' = n
  /\ UNCHANGED null_used

(* A new buffer for as much of cstr as there is room for.                  *)
initString(s, cstr) ==
  LET room == ALIGN_DEFAULT(s)
      n    == IF Len(cstr) < room - 1 THEN Len(cstr) ELSE room - 1
      kept == SubSeq(cstr, 1, n)
  IN  /\ bytes = Null /\ Running
      /\ Hold(memcpy(malloc(room), 0, Terminated(kept)), n, room, room)
      /\ UNCHANGED overflow

destroyString ==
  /\ Usable
  /\ bytes' = Null /\ capacity' = 0
  /\ UNCHANGED <<size, length, overflow, null_used>>

(* There is no buffer to store n more bytes in, or to copy the text from.  *)
LacksBuffer(n) == bytes = Null /\ (Fills(n) => length > 0)

(* Append of s, into a buffer of new_size where it has no room, and where  *)
(* there is no buffer and no text.                                         *)
Extend(s, new_size) ==
  LET old  == IF Fills(Len(s))
              THEN memcpy(malloc(new_size), 0, Terminated(TextOf(bytes, length)))
              ELSE bytes
      room == IF Fills(Len(s)) THEN new_size ELSE capacity
  IN  /\ Running /\ ~LacksBuffer(Len(s))
      /\ length + Len(s) <= MaxLength
      /\ Hold(memcpy(old, length, Terminated(s)), length + Len(s), room,
              IF Fills(Len(s)) THEN new_size ELSE size)
      /\ overflow' = (length + Len(s) >= room)

appendByte(b) == Extend(<<b>>, (size * 3) \div 2)

appendBytes(s) == Extend(s, size + (Len(s) * 3) \div 2)

UseNull ==
  /\ Running
  /\ null_used' = TRUE
  /\ UNCHANGED <<bytes, capacity, size, length, overflow>>

(* Neither append asks whether the string has a buffer.                    *)
AppendToNull(n) == LacksBuffer(n) /\ UseNull

resetString ==
  /\ Usable
  /\ bytes' = memcpy(bytes, 0, <<Zero>>) /\ length' = 0
  /\ UNCHANGED <<capacity, size, overflow, null_used>>

(* Mutant of CopyTo: dst keeps its length.                                 *)
CopyToKeepingLength(m, ends, room, s, src) ==
  /\ Hold(memcpy(memcpy(m, 0, src), ends, <<Zero>>), length, room, s)
  /\ UNCHANGED overflow

(* The byte 0 goes where the text of dst ended, not where that of src ends.*)
CopyTo(m, ends, room, s, src) ==
  /\ Hold(memcpy(memcpy(m, 0, src), ends, <<Zero>>), Len(src), room, s)
  /\ UNCHANGED overflow

(* src is a string of src_size.  A buffer that is too small is replaced.   *)
copyString(src, src_size) ==
  /\ Usable
  /\ IF size >= src_size
     THEN CopyTo(bytes, length, capacity, size, src)
     ELSE LET room == ALIGN_DEFAULT(src_size)
          IN  CopyTo(memcpy(malloc(room), 0, <<Zero>>), 0, room, room, src)

(* initString has no memory, after destroyString: dst is without a buffer. *)
CopyFails(src_size) ==
  /\ size < src_size
  /\ destroyString

(* s is what the stream holds.  A larger buffer is kept and forgotten: size *)
(* is what the text takes up.                                              *)
streamToString(s) ==
  LET new  == size <= Len(s)
      room == IF new THEN Len(s) + 1 ELSE capacity
  IN  /\ Running /\ (bytes = Null => new)
      /\ Hold(memcpy(IF new THEN malloc(room) ELSE bytes, 0, Terminated(s)),
              Len(s), room, Len(s) + 1)
      /\ UNCHANGED overflow

(* The size, which destroyString leaves, has room for s, but no buffer is. *)
StreamToNull(s) ==
  /\ bytes = Null /\ size > Len(s)
  /\ UseNull

(* The sizes of the strings that hold s.                                   *)
SizesOf(s) == {n \in SourceSizes : n > Len(s)}

Halted == ~Running /\ UNCHANGED vars

copies == \E s \in Texts : \E n \in SizesOf(s) : copyString(s, n)

Next ==
  \/ \E n \in Sizes, s \in Texts : initString(n, s)
  \/ destroyString
  \/ \E b \in Byte : appendByte(b)
  \/ \E s \in Chunks : appendBytes(s)
  \/ resetString
  \/ copies
  \/ \E s \in Texts : \E n \in SizesOf(s) : CopyFails(n)
  \/ \E s \in Texts : streamToString(s)
  \/ \E b \in Byte : AppendToNull(Len(<<b>>))
  \/ \E s \in Chunks : AppendToNull(Len(s))
  \/ \E s \in Texts : StreamToNull(s)
  \/ Halted

Spec == Init /\ [][Next]_vars

-----------------------------------------------------------------------------
(* Properties                                                              *)

TypeOK ==
  /\ capacity \in Nat /\ size \in Nat /\ length \in Nat
  /\ overflow \in BOOLEAN /\ null_used \in BOOLEAN
  /\ \/ bytes = Null /\ capacity = 0
     \/ bytes \in [0..(capacity - 1) -> Byte \cup {Zero, Junk}]

(* No call of the file stores behind the end of a buffer, or uses the      *)
(* pointer NULL, whatever came before it, with these exceptions.  A string *)
(* of INIT_STRING has size 0, and one that was read from an empty stream   *)
(* size 1: the buffer that appendByte gets for it, one and a half of that, *)
(* and the one that appendBytes gets for one byte and size 0, have no room *)
(* for a byte and the byte 0.  A string that destroyString, or a copy      *)
(* without memory, has left without a buffer keeps its size: appends and   *)
(* streamToString take it for the room there is, or copy the text there    *)
(* was from NULL.                                                          *)
OnlySmallOrDestroyedFault ==
  /\ TypeOK
  /\ overflow => size <= 1 /\ capacity = size /\ length = 1
  /\ null_used => bytes = Null /\ size > 0
  /\ Running /\ bytes = Null => length < size \/ (size = 0 /\ length = 0)
  /\ Usable => length < size /\ size <= capacity

Closed == bytes # Null => bytes[length] = Zero

(* The header promises a "NULL terminated string with length": the calls   *)
(* keep the byte 0 behind the text as long as copyString is not used,      *)
(* which stores it where the text of dst ended before.                     *)
OnlyCopyLeavesOpen ==
  [][~overflow' /\ Closed /\ ~Closed' => copies]_vars

Content == IF bytes = Null THEN Null ELSE TextOf(bytes, length)

T == INSTANCE Text WITH content <- IF overflow THEN Null ELSE Content

(* Through every growth and reuse of the buffer a string says what was put *)
(* into it, but for the byte a copy may lose; bytes that were never        *)
(* written never come into a text.                                         *)
ImplementsText == T!Spec

=============================================================================
