------------------------- MODULE BaseString_proofs -------------------------
(***************************************************************************)
(* The strings of base/base_string.c, and the texts of base/base_coding.c. *)
(*                                                                         *)
(* One owner, for every set of bytes, alignment and text: no call stores   *)
(* behind a buffer or uses NULL but in the cases that                      *)
(* OnlySmallOrDestroyedFault names, and copyString alone takes the byte 0  *)
(* off the end of a text.                                                  *)
(*                                                                         *)
(* Several threads, for every number of threads, strings and references:   *)
(* a string lives as long as its references, and no thread sees what       *)
(* another writes.  The argument is a count: each reference is a token,    *)
(* and ref_count is the number of the tokens of a string (Counted).  Who   *)
(* has a token and reads 1, without the lock, has the only one (Sole).     *)
(*                                                                         *)
(* Texts, for every input: a byte is the sum of its bits, a digit the sum  *)
(* of its own, and shifts move sums; groups are put behind each other at   *)
(* multiples of their size, so the digits of a group are those of the      *)
(* input at their place.  A group's digits are joined to its bytes again.  *)
(***************************************************************************)

EXTENDS BaseString, Coding, FiniteSetTheorems, SequenceTheorems, WellFoundedInduction, TLAPS

Cell == Byte \cup {Zero, Junk}

-----------------------------------------------------------------------------
(* Lemmas about the operators                                              *)

(* The quotient of the division that rounds down.                          *)
LEMMA Division ==
  ASSUME NEW n \in Nat, NEW d \in Nat \ {0}
  PROVE  /\ n \div d \in Nat
         /\ (n \div d) * d \in Nat
         /\ n < (n \div d) * d + d
OBVIOUS

(* An aligned size is a size, and not smaller.                             *)
LEMMA AlignedIsLarger ==
  ASSUME NEW n \in Nat
  PROVE  ALIGN_DEFAULT(n) \in Nat /\ ALIGN_DEFAULT(n) >= n
<1> DEFINE m == n + default_align - 1
<1>1. default_align \in Nat \ {0} /\ m \in Nat
  BY StringBufferAssumption
<1>2. (m \div default_align) * default_align \in Nat
  BY <1>1, Division
<1>3. m < (m \div default_align) * default_align + default_align
  BY <1>1, Division
<1>4. ALIGN_DEFAULT(n) = (m \div default_align) * default_align
  BY DEF ALIGN_DEFAULT
<1> HIDE DEF m
<1>5. m = n + default_align - 1
  BY DEF m
<1> QED
  BY <1>1, <1>2, <1>3, <1>4, <1>5

(* A new buffer holds junk.                                                *)
LEMMA MallocType ==
  ASSUME NEW n \in Nat
  PROVE  malloc(n) \in [0..(n - 1) -> Cell]
BY DEF malloc, Cell

(* A copy into a buffer leaves it a buffer of the same room.               *)
LEMMA MemcpyType ==
  ASSUME NEW n \in Nat, NEW m \in [0..(n - 1) -> Cell], NEW k \in Nat, NEW s \in Seq(Cell)
  PROVE  memcpy(m, k, s) \in [0..(n - 1) -> Cell]
<1>1. ASSUME NEW i \in 0..(n - 1) PROVE (IF i \in k..(k + Len(s) - 1) THEN s[i - k + 1] ELSE m[i]) \in Cell
  <2>1. CASE i \in k..(k + Len(s) - 1)
    <3>1. Len(s) \in Nat /\ i \in Int
      OBVIOUS
    <3>2. i - k + 1 \in 1..Len(s)
      BY <2>1, <3>1
    <3> QED
      BY <2>1, <3>2
  <2>2. CASE i \notin k..(k + Len(s) - 1)
    BY <2>2
  <2> QED
    BY <2>1, <2>2
<1>2. DOMAIN m = 0..(n - 1)
  OBVIOUS
<1> QED
  BY <1>1, <1>2 DEF memcpy

(* A text with its byte 0.                                                 *)
LEMMA TerminatedType ==
  ASSUME NEW s \in Seq(Cell)
  PROVE  /\ Terminated(s) \in Seq(Cell)
         /\ Len(Terminated(s)) = Len(s) + 1
         /\ Terminated(s)[Len(s) + 1] = Zero
BY DEF Terminated, Cell

(* Where the byte 0 of a text is when the text was copied.                 *)
LEMMA MemcpyEnds ==
  ASSUME NEW n \in Nat, NEW m \in [0..(n - 1) -> Cell], NEW k \in Nat, NEW s \in Seq(Cell),
         k + Len(s) < n
  PROVE  memcpy(m, k, Terminated(s))[k + Len(s)] = Zero
<1>1. Len(s) \in Nat /\ k + Len(s) \in 0..(n - 1)
  OBVIOUS
<1>2. k + Len(s) \in k..(k + Len(Terminated(s)) - 1)
  BY <1>1, TerminatedType
<1>3. DOMAIN m = 0..(n - 1)
  OBVIOUS
<1>4. (k + Len(s)) - k + 1 = Len(s) + 1
  BY <1>1
<1>5. memcpy(m, k, Terminated(s))[k + Len(s)] = Terminated(s)[(k + Len(s)) - k + 1]
  BY <1>1, <1>2, <1>3 DEF memcpy
<1> QED
  BY <1>4, <1>5, TerminatedType

(* The text of a buffer is a sequence.                                     *)
LEMMA TextType ==
  ASSUME NEW n \in Nat, NEW m \in [0..(n - 1) -> Cell], NEW k \in Nat, k <= n
  PROVE  TextOf(m, k) \in Seq(Cell) /\ Len(TextOf(m, k)) = k
<1>1. \A i \in 1..k : m[i - 1] \in Cell
  OBVIOUS
<1>2. TextOf(m, k) \in [1..k -> Cell]
  BY <1>1 DEF TextOf
<1> QED
  BY <1>2

(* Texts and chunks are sequences of bytes of a buffer.                    *)
LEMMA InputType ==
  /\ Texts \subseteq Seq(Cell)
  /\ Chunks \subseteq Seq(Cell)
  /\ \A b \in Byte : <<b>> \in Seq(Cell) /\ Len(<<b>>) = 1
<1>1. Byte \subseteq Cell
  BY DEF Cell
<1>2. \A s \in Seq(Byte) : s \in Seq(Cell)
  BY <1>1
<1>3. ASSUME NEW b \in Byte PROVE <<b>> \in Seq(Cell) /\ Len(<<b>>) = 1
  BY <1>1
<1> QED
  BY <1>2, <1>3, StringBufferAssumption

LEMMA ChunkIsNotEmpty ==
  ASSUME NEW s \in Chunks
  PROVE  Len(s) \in Nat /\ Len(s) > 0
<1>1. s \in Seq(Byte) /\ s # << >>
  BY StringBufferAssumption
<1> QED
  BY <1>1

-----------------------------------------------------------------------------
(* What every action does to the invariant                                 *)

Inv == OnlySmallOrDestroyedFault

(* A buffer with a text that it has room for is what the invariant asks.   *)
LEMMA HoldInv ==
  ASSUME NEW room \in Nat, NEW m \in [0..(room - 1) -> Cell], NEW n \in Nat, NEW s \in Nat,
         n < s, s <= room, overflow' = FALSE, null_used = FALSE, Hold(m, n, room, s)
  PROVE  Inv'
<1>1. /\ bytes' = m /\ capacity' = room /\ size' = s /\ length' = n
      /\ null_used' = FALSE
  BY DEF Hold
<1>2. TypeOK'
  BY <1>1 DEF TypeOK, Cell
<1> QED
  BY <1>1, <1>2 DEF Inv, OnlySmallOrDestroyedFault, Usable, Running

(* What is known of a string that can be used.                             *)
LEMMA UsableFacts ==
  ASSUME Inv, Usable
  PROVE  /\ capacity \in Nat /\ size \in Nat /\ length \in Nat
         /\ bytes \in [0..(capacity - 1) -> Cell]
         /\ length < size /\ size <= capacity
         /\ overflow = FALSE /\ null_used = FALSE
BY DEF Inv, OnlySmallOrDestroyedFault, TypeOK, Usable, Running, Cell

(* What is known of a string with or without a buffer.                     *)
LEMMA RunningFacts ==
  ASSUME Inv, Running
  PROVE  /\ capacity \in Nat /\ size \in Nat /\ length \in Nat
         /\ overflow = FALSE /\ null_used = FALSE
         /\ bytes # Null => Usable
         /\ bytes = Null => length < size \/ (size = 0 /\ length = 0)
BY DEF Inv, OnlySmallOrDestroyedFault, TypeOK, Usable, Running

LEMMA InitInv == Init => Inv
<1> SUFFICES ASSUME Init PROVE Inv
  OBVIOUS
<1>1. TypeOK
  BY DEF Init, TypeOK
<1> QED
  BY <1>1 DEF Init, Inv, OnlySmallOrDestroyedFault, Usable, Running

(* The text of a new string is cut off in front of the last slot.          *)
LEMMA NewInv ==
  ASSUME Inv, NEW s \in Sizes, NEW cstr \in Texts, initString(s, cstr)
  PROVE  Inv' /\ Closed'
<1> DEFINE room == ALIGN_DEFAULT(s)
           n    == IF Len(cstr) < room - 1 THEN Len(cstr) ELSE room - 1
           kept == SubSeq(cstr, 1, n)
           m    == memcpy(malloc(room), 0, Terminated(kept))
<1>1. s \in Nat /\ s >= 1
  BY StringBufferAssumption
<1>2. room \in Nat /\ room >= 1
  BY <1>1, AlignedIsLarger
<1>3. cstr \in Seq(Cell)
  BY InputType
<1> HIDE DEF room
<1>4. n \in Nat /\ n < room /\ n <= Len(cstr)
  BY <1>2, <1>3
<1>5. kept \in Seq(Cell) /\ Len(kept) = n
  BY <1>3, <1>4
<1> HIDE DEF n, kept
<1>6. malloc(room) \in [0..(room - 1) -> Cell]
  BY <1>2, MallocType
<1>7. m \in [0..(room - 1) -> Cell]
  BY <1>2, <1>5, <1>6, MemcpyType, TerminatedType
<1>8. m[0 + Len(kept)] = Zero
  BY <1>2, <1>4, <1>5, <1>6, MemcpyEnds
<1>9. Hold(m, n, room, room) /\ overflow' = FALSE /\ null_used = FALSE
  <2>1. Hold(m, n, room, room) /\ Running /\ overflow' = overflow
    BY DEF initString, room, n, kept
  <2> QED
    BY <2>1, RunningFacts
<1> HIDE DEF m
<1>10. Inv'
  <2>1. room <= room
    BY <1>2
  <2> QED
    BY <1>2, <1>4, <1>7, <1>9, <2>1, HoldInv, Zenon
<1>11. bytes' = m /\ length' = n
  BY <1>9 DEF Hold
<1>12. m[n] = Zero
  BY <1>4, <1>5, <1>8
<1> QED
  BY <1>10, <1>11, <1>12 DEF Closed

LEMMA DestroyInv ==
  ASSUME Inv, destroyString
  PROVE  Inv' /\ Closed'
BY UsableFacts DEF Inv, OnlySmallOrDestroyedFault, TypeOK, destroyString, Usable, Running, Closed

(* A pointer NULL is used where a size was left without a buffer.          *)
LEMMA NullInv ==
  ASSUME Inv, UseNull, bytes = Null, size > 0
  PROVE  Inv' /\ (Closed => Closed')
<1>1. Running /\ null_used' = TRUE /\ UNCHANGED <<bytes, capacity, size, length, overflow>>
  BY DEF UseNull
<1>2. TypeOK'
  BY <1>1 DEF Inv, OnlySmallOrDestroyedFault, TypeOK
<1> QED
  BY <1>1, <1>2, RunningFacts
     DEF Inv, OnlySmallOrDestroyedFault, Usable, Running, Closed

LEMMA AppendToNullInv ==
  ASSUME Inv, NEW n \in Nat, AppendToNull(n)
  PROVE  Inv' /\ (Closed => Closed')
<1>1. bytes = Null /\ UseNull /\ (Fills(n) => length > 0)
  BY DEF AppendToNull, LacksBuffer
<1>2. Running
  BY <1>1 DEF UseNull
<1>3. size > 0
  BY <1>1, <1>2, RunningFacts DEF Fills
<1> QED
  BY <1>1, <1>3, NullInv

LEMMA StreamToNullInv ==
  ASSUME Inv, NEW s \in Texts, StreamToNull(s)
  PROVE  Inv' /\ (Closed => Closed')
<1>1. bytes = Null /\ UseNull /\ size > Len(s)
  BY DEF StreamToNull
<1>2. Len(s) \in Nat /\ Running
  BY <1>1, InputType DEF UseNull
<1>3. size > 0
  BY <1>1, <1>2, RunningFacts
<1> QED
  BY <1>1, <1>3, NullInv

(* What an append works with: a buffer, or no buffer and no text.          *)
LEMMA ExtendFacts ==
  ASSUME Inv, NEW s \in Seq(Cell), NEW new_size \in Nat, Extend(s, new_size)
  PROVE  /\ capacity \in Nat /\ size \in Nat /\ length \in Nat
         /\ null_used = FALSE
         /\ bytes # Null => /\ bytes \in [0..(capacity - 1) -> Cell]
                            /\ length < size /\ size <= capacity
         /\ bytes = Null => Fills(Len(s)) /\ length = 0
<1>1. Running /\ ~LacksBuffer(Len(s))
  BY DEF Extend
<1>2. /\ capacity \in Nat /\ size \in Nat /\ length \in Nat /\ null_used = FALSE
      /\ bytes # Null => Usable
  BY <1>1, RunningFacts
<1>3. bytes = Null => Fills(Len(s)) /\ ~(length > 0)
  BY <1>1 DEF LacksBuffer
<1>4. bytes = Null => Fills(Len(s)) /\ length = 0
  BY <1>2, <1>3
<1>5. bytes # Null => /\ bytes \in [0..(capacity - 1) -> Cell]
                      /\ length < size /\ size <= capacity
  BY <1>2, UsableFacts
<1> QED
  BY <1>2, <1>4, <1>5

(* The old text, which goes to the new buffer.                             *)
LEMMA MovedText ==
  ASSUME Inv, NEW s \in Seq(Cell), NEW new_size \in Nat, Extend(s, new_size)
  PROVE  TextOf(bytes, length) \in Seq(Cell) /\ Len(TextOf(bytes, length)) = length
<1>1. CASE bytes # Null
  <2>1. /\ capacity \in Nat /\ length \in Nat /\ size \in Nat
        /\ bytes \in [0..(capacity - 1) -> Cell]
        /\ length < size /\ size <= capacity
    BY <1>1, ExtendFacts
  <2>2. length <= capacity
    BY <2>1
  <2> QED
    BY <2>1, <2>2, TextType
<1>2. CASE bytes = Null
  <2>1. length = 0
    BY <1>2, ExtendFacts
  <2>2. TextOf(bytes, length) = << >>
    BY <2>1 DEF TextOf
  <2>3. << >> \in Seq(Cell) /\ Len(<< >>) = 0
    OBVIOUS
  <2> QED
    BY <2>1, <2>2, <2>3
<1> QED
  BY <1>1, <1>2

(* A new buffer is larger, or its lack of room is the one that is known.   *)
LEMMA ExtendInv ==
  ASSUME Inv, NEW s \in Seq(Cell), NEW new_size \in Nat, Extend(s, new_size),
         Fills(Len(s)) =>
           \/ length + Len(s) < new_size
           \/ new_size <= 1 /\ length + Len(s) = 1
  PROVE  Inv' /\ (~overflow' => Closed')
<1> DEFINE old  == IF Fills(Len(s))
                   THEN memcpy(malloc(new_size), 0, Terminated(TextOf(bytes, length)))
                   ELSE bytes
           room == IF Fills(Len(s)) THEN new_size ELSE capacity
           room_size == IF Fills(Len(s)) THEN new_size ELSE size
           n    == length + Len(s)
           m    == memcpy(old, length, Terminated(s))
<1>1. /\ capacity \in Nat /\ size \in Nat /\ length \in Nat /\ null_used = FALSE
      /\ ~Fills(Len(s)) => /\ bytes \in [0..(capacity - 1) -> Cell]
                           /\ length < size /\ size <= capacity
  BY ExtendFacts
<1>3. n \in Nat /\ room \in Nat /\ room_size \in Nat
  BY <1>1
<1>4. old \in [0..(room - 1) -> Cell]
  <2>1. CASE Fills(Len(s))
    <3>1. Terminated(TextOf(bytes, length)) \in Seq(Cell)
      BY MovedText, TerminatedType
    <3>2. malloc(new_size) \in [0..(new_size - 1) -> Cell]
      BY MallocType
    <3> QED
      BY <2>1, <3>1, <3>2, MemcpyType
  <2>2. CASE ~Fills(Len(s))
    BY <1>1, <2>2
  <2> QED
    BY <2>1, <2>2
<1>5. /\ Hold(m, n, room, room_size)
      /\ overflow' = (n >= room)
  BY DEF Extend
<1>6. room_size <= room
  BY <1>1
<1>7. n < room => n < room_size
  BY <1>1 DEF Fills
<1>8. ~(n < room) => room <= 1 /\ room_size = room /\ n = 1
  BY <1>1 DEF Fills
<1> HIDE DEF old, room, room_size
<1>9. Terminated(s) \in Seq(Cell)
  BY TerminatedType
<1>10. m \in [0..(room - 1) -> Cell]
  BY <1>1, <1>3, <1>4, <1>9, MemcpyType
<1>11. n < room => m[n] = Zero
  BY <1>1, <1>3, <1>4, MemcpyEnds
<1> HIDE DEF m, n
<1>12. CASE n < room
  <2>1. overflow' = FALSE
    <3>1. (n >= room) = FALSE
      BY <1>3, <1>12
    <3> QED
      BY <1>5, <3>1
  <2>2. Inv'
    BY <1>1, <1>3, <1>5, <1>6, <1>7, <1>10, <1>12, <2>1, HoldInv
  <2>3. Closed'
    BY <1>5, <1>11, <1>12 DEF Hold, Closed
  <2> QED
    BY <2>2, <2>3
<1>13. CASE ~(n < room)
  <2>1. overflow' = TRUE
    <3>1. (n >= room) = TRUE
      BY <1>3, <1>13
    <3> QED
      BY <1>5, <3>1
  <2>2. /\ size' = room /\ capacity' = room /\ room <= 1 /\ length' = 1
        /\ bytes' = m /\ null_used' = FALSE
    BY <1>1, <1>5, <1>8, <1>13 DEF Hold
  <2>3. TypeOK'
    BY <1>3, <1>10, <2>1, <2>2 DEF TypeOK, Cell
  <2> QED
    BY <1>3, <2>1, <2>2, <2>3 DEF Inv, OnlySmallOrDestroyedFault, Usable, Running
<1> QED
  BY <1>12, <1>13

(* One and a half of a size is more than the size, unless it is 0 or 1.    *)
LEMMA AppendByteInv ==
  ASSUME Inv, NEW b \in Byte, appendByte(b)
  PROVE  Inv' /\ (~overflow' => Closed')
<1> DEFINE new_size == (size * 3) \div 2
<1>1. Extend(<<b>>, new_size)
  BY DEF appendByte
<1>2. <<b>> \in Seq(Cell) /\ Len(<<b>>) = 1
  BY InputType
<1>3. size \in Nat /\ length \in Nat /\ (length < size \/ length = 0)
  <2>1. Running
    BY <1>1 DEF Extend
  <2> QED
    BY <2>1, RunningFacts, UsableFacts
<1>4. /\ new_size \in Nat /\ (size > 1 => new_size > size)
      /\ (size <= 1 => new_size <= 1)
  BY <1>3
<1>5. Fills(Len(<<b>>)) =>
        \/ length + Len(<<b>>) < new_size
        \/ new_size <= 1 /\ length + Len(<<b>>) = 1
  BY <1>2, <1>3, <1>4 DEF Fills
<1> HIDE DEF new_size
<1> QED
  BY <1>1, <1>2, <1>4, <1>5, ExtendInv

LEMMA AppendBytesInv ==
  ASSUME Inv, NEW s \in Chunks, appendBytes(s)
  PROVE  Inv' /\ (~overflow' => Closed')
<1> DEFINE new_size == size + (Len(s) * 3) \div 2
<1>1. Extend(s, new_size)
  BY DEF appendBytes
<1>2. s \in Seq(Cell) /\ Len(s) \in Nat /\ Len(s) > 0
  BY InputType, ChunkIsNotEmpty
<1>3. size \in Nat /\ length \in Nat /\ (length < size \/ (length = 0 /\ size = 0))
  <2>1. Running
    BY <1>1 DEF Extend
  <2> QED
    BY <2>1, RunningFacts, UsableFacts
<1>4. /\ new_size \in Nat
      /\ \/ length + Len(s) < new_size
         \/ new_size <= 1 /\ length + Len(s) = 1
  BY <1>2, <1>3
<1> HIDE DEF new_size
<1> QED
  BY <1>1, <1>2, <1>4, ExtendInv

LEMMA ResetInv ==
  ASSUME Inv, resetString
  PROVE  Inv' /\ Closed'
<1> DEFINE m == memcpy(bytes, 0, <<Zero>>)
<1>1. Usable
  BY DEF resetString
<1>2. /\ capacity \in Nat /\ size \in Nat /\ overflow = FALSE /\ null_used = FALSE
      /\ bytes \in [0..(capacity - 1) -> Cell]
      /\ 0 < size /\ size <= capacity
  BY <1>1, UsableFacts
<1>3. << >> \in Seq(Cell) /\ Len(<< >>) = 0 /\ Terminated(<< >>) = <<Zero>>
  BY DEF Terminated
<1>4. m \in [0..(capacity - 1) -> Cell]
  BY <1>2, <1>3, MemcpyType, TerminatedType
<1>5. m[0] = Zero
  <2> DEFINE empty == << >>
  <2>1. empty \in Seq(Cell) /\ Len(empty) = 0 /\ Terminated(empty) = <<Zero>>
    BY <1>3
  <2> HIDE DEF empty
  <2>2. memcpy(bytes, 0, Terminated(empty))[0 + Len(empty)] = Zero
    <3>1. 0 \in Nat /\ 0 + Len(empty) < capacity
      BY <1>2, <2>1
    <3> QED
      BY <1>2, <2>1, <3>1, MemcpyEnds, Zenon
  <2> QED
    BY <2>1, <2>2
<1>6. Hold(m, 0, capacity, size) /\ overflow' = FALSE
  BY <1>2 DEF resetString, Hold
<1> HIDE DEF m
<1>7. Inv'
  BY <1>2, <1>4, <1>6, HoldInv
<1> QED
  BY <1>5, <1>6, <1>7 DEF Hold, Closed

(* A copy fits, wherever its byte 0 goes.                                  *)
LEMMA CopyToInv ==
  ASSUME NEW room \in Nat, NEW m \in [0..(room - 1) -> Cell], NEW ends \in Nat,
         NEW s \in Nat, NEW src \in Seq(Cell), Len(src) < s, s <= room,
         overflow = FALSE, null_used = FALSE, CopyTo(m, ends, room, s, src)
  PROVE  Inv'
<1> DEFINE copy == memcpy(memcpy(m, 0, src), ends, <<Zero>>)
<1>1. memcpy(m, 0, src) \in [0..(room - 1) -> Cell]
  BY MemcpyType
<1>2. <<Zero>> \in Seq(Cell)
  BY DEF Cell
<1>3. copy \in [0..(room - 1) -> Cell]
  BY <1>1, <1>2, MemcpyType
<1>4. Hold(copy, Len(src), room, s) /\ overflow' = FALSE
  BY DEF CopyTo
<1> HIDE DEF copy
<1> QED
  BY <1>3, <1>4, HoldInv

LEMMA CopyInv ==
  ASSUME Inv, copies
  PROVE  Inv'
<1>1. PICK src \in Texts : \E n \in SizesOf(src) : copyString(src, n)
  BY DEF copies
<1>2. PICK n \in SizesOf(src) : copyString(src, n)
  BY <1>1
<1>3. src \in Seq(Cell) /\ Len(src) \in Nat
  BY InputType
<1>4. n \in Nat /\ Len(src) < n
  BY <1>3, StringBufferAssumption DEF SizesOf
<1>5. Usable
  BY <1>2 DEF copyString
<1>6. /\ capacity \in Nat /\ size \in Nat /\ length \in Nat
      /\ overflow = FALSE /\ null_used = FALSE
      /\ bytes \in [0..(capacity - 1) -> Cell]
      /\ size <= capacity
  BY <1>5, UsableFacts
<1>7. CASE size >= n
  <2>1. CopyTo(bytes, length, capacity, size, src)
    BY <1>2, <1>7 DEF copyString
  <2>2. Len(src) < size
    BY <1>3, <1>4, <1>6, <1>7
  <2> QED
    BY <1>3, <1>6, <2>1, <2>2, CopyToInv
<1>8. CASE ~(size >= n)
  <2> DEFINE room == ALIGN_DEFAULT(n)
             new  == memcpy(malloc(room), 0, <<Zero>>)
  <2>1. CopyTo(new, 0, room, room, src)
    BY <1>2, <1>8 DEF copyString
  <2>2. room \in Nat /\ room >= n
    BY <1>4, AlignedIsLarger
  <2> HIDE DEF room
  <2>3. malloc(room) \in [0..(room - 1) -> Cell]
    BY <2>2, MallocType
  <2>4. <<Zero>> \in Seq(Cell)
    BY DEF Cell
  <2>5. new \in [0..(room - 1) -> Cell]
    BY <2>2, <2>3, <2>4, MemcpyType
  <2> HIDE DEF new
  <2>6. Len(src) < room /\ room <= room
    BY <1>3, <1>4, <2>2
  <2> QED
    BY <1>3, <1>6, <2>1, <2>2, <2>5, <2>6, CopyToInv
<1> QED
  BY <1>7, <1>8

LEMMA StreamInv ==
  ASSUME Inv, NEW s \in Texts, streamToString(s)
  PROVE  Inv' /\ Closed'
<1> DEFINE new  == size <= Len(s)
           room == IF new THEN Len(s) + 1 ELSE capacity
           old  == IF new THEN malloc(room) ELSE bytes
           m    == memcpy(old, 0, Terminated(s))
<1>1. s \in Seq(Cell) /\ Len(s) \in Nat
  BY InputType
<1>2. /\ size \in Nat /\ capacity \in Nat /\ overflow = FALSE /\ null_used = FALSE
      /\ bytes = Null => new
      /\ bytes # Null => Usable
  <2>1. Running /\ (bytes = Null => new)
    BY DEF streamToString
  <2> QED
    BY <2>1, RunningFacts
<1>3. ~new => Usable
  BY <1>2
<1>4. ~new => bytes \in [0..(capacity - 1) -> Cell] /\ size <= capacity
  BY <1>3, UsableFacts
<1>5. room \in Nat /\ Len(s) + 1 <= room
  BY <1>1, <1>2, <1>4
<1>6. old \in [0..(room - 1) -> Cell]
  BY <1>4, <1>5, MallocType
<1>7. Hold(m, Len(s), room, Len(s) + 1) /\ overflow' = FALSE
  BY <1>2 DEF streamToString
<1> HIDE DEF new, room, old
<1>8. m \in [0..(room - 1) -> Cell]
  BY <1>1, <1>5, <1>6, TerminatedType, MemcpyType
<1>9. m[0 + Len(s)] = Zero
  BY <1>1, <1>5, <1>6, MemcpyEnds
<1> HIDE DEF m
<1>10. Inv'
  BY <1>1, <1>5, <1>7, <1>8, HoldInv
<1>11. m[Len(s)] = Zero
  BY <1>1, <1>9
<1> QED
  BY <1>7, <1>10, <1>11 DEF Hold, Closed

-----------------------------------------------------------------------------
(* The theorems                                                            *)

(* Every step keeps the invariant, and leaves a text with its byte 0 if it *)
(* is not a copy.                                                          *)
LEMMA StepInv ==
  ASSUME Inv, [Next]_vars
  PROVE  /\ Inv'
         /\ ~overflow' /\ Closed /\ ~Closed' => copies
<1>1. ASSUME NEW n \in Sizes, NEW s \in Texts, initString(n, s)
      PROVE  Inv' /\ Closed'
  BY <1>1, NewInv
<1>2. CASE destroyString
  BY <1>2, DestroyInv
<1>3. ASSUME NEW b \in Byte, appendByte(b)
      PROVE  Inv' /\ (~overflow' => Closed')
  BY <1>3, AppendByteInv
<1>4. ASSUME NEW s \in Chunks, appendBytes(s)
      PROVE  Inv' /\ (~overflow' => Closed')
  BY <1>4, AppendBytesInv
<1>5. CASE resetString
  BY <1>5, ResetInv
<1>6. CASE copies
  BY <1>6, CopyInv
<1>7. ASSUME NEW n, CopyFails(n)
      PROVE  Inv' /\ Closed'
  BY <1>7, DestroyInv DEF CopyFails
<1>8. ASSUME NEW s \in Texts, streamToString(s)
      PROVE  Inv' /\ Closed'
  BY <1>8, StreamInv
<1>9. CASE UNCHANGED vars
  BY <1>9 DEF vars, Inv, OnlySmallOrDestroyedFault, TypeOK, Usable, Running, Closed
<1>10. ASSUME NEW b \in Byte, AppendToNull(Len(<<b>>))
       PROVE  Inv' /\ (Closed => Closed')
  BY <1>10, InputType, AppendToNullInv
<1>11. ASSUME NEW s \in Chunks, AppendToNull(Len(s))
       PROVE  Inv' /\ (Closed => Closed')
  BY <1>11, ChunkIsNotEmpty, AppendToNullInv
<1>12. ASSUME NEW s \in Texts, StreamToNull(s)
       PROVE  Inv' /\ (Closed => Closed')
  BY <1>12, StreamToNullInv
<1> QED
  BY <1>1, <1>2, <1>3, <1>4, <1>5, <1>6, <1>7, <1>8, <1>9, <1>10, <1>11, <1>12
     DEF Next, Halted

(* No sequence of calls, from INIT_STRING on, stores behind the end of a   *)
(* buffer or uses the pointer NULL, except an append of one byte to a      *)
(* string of size 0 or 1, and appends to and streams into a string that    *)
(* was left without its buffer: for any bytes, texts, sizes and alignment. *)
THEOREM StaysInside == Spec => []OnlySmallOrDestroyedFault
<1>1. Inv /\ [Next]_vars => Inv'
  BY StepInv
<1>2. Inv = OnlySmallOrDestroyedFault
  BY DEF Inv
<1> QED
  BY InitInv, <1>1, <1>2, PTL DEF Spec, Inv

(* copyString alone leaves a text without the byte 0 behind it.            *)
THEOREM OthersTerminate == Spec => OnlyCopyLeavesOpen
<1>1. Inv /\ [Next]_vars => Inv'
  BY StepInv
<1>2. Inv /\ [Next]_vars => [~overflow' /\ Closed /\ ~Closed' => copies]_vars
  BY StepInv
<1> QED
  BY InitInv, <1>1, <1>2, PTL DEF Spec, OnlyCopyLeavesOpen

-----------------------------------------------------------------------------
(* What a string says                                                      *)

(* The text that Text is about.                                            *)
Said == IF overflow THEN Null ELSE Content

(* n bytes that are copied behind a text of k bytes follow it.             *)
LEMMA TextGrows ==
  ASSUME NEW room \in Nat, NEW m \in [0..(room - 1) -> Cell], NEW k \in Nat, NEW n \in Nat,
         NEW x \in Seq(Cell), n <= Len(x), k + n <= room
  PROVE  TextOf(memcpy(m, k, x), k + n) = TextOf(m, k) \o SubSeq(x, 1, n)
<1> DEFINE old == TextOf(m, k)
           add == SubSeq(x, 1, n)
           new == TextOf(memcpy(m, k, x), k + n)
<1>1. old \in Seq(Cell) /\ Len(old) = k
  BY TextType
<1>2. add \in Seq(Cell) /\ Len(add) = n /\ \A j \in 1..n : add[j] = x[j]
  OBVIOUS
<1>3. memcpy(m, k, x) \in [0..(room - 1) -> Cell]
  BY MemcpyType
<1>4. new \in Seq(Cell) /\ Len(new) = k + n
  BY <1>3, TextType
<1> HIDE DEF old, add, new
<1>5. old \o add \in Seq(Cell) /\ Len(old \o add) = k + n
  BY <1>1, <1>2, ConcatProperties
<1>6. ASSUME NEW i \in 1..(k + n) PROVE new[i] = (old \o add)[i]
  <2>1. DOMAIN m = 0..(room - 1) /\ i - 1 \in DOMAIN m
    OBVIOUS
  <2>2. new[i] = IF i - 1 \in k..(k + Len(x) - 1) THEN x[(i - 1) - k + 1] ELSE m[i - 1]
    BY <2>1 DEF TextOf, memcpy, new
  <2>3. CASE i <= k
    <3>1. i - 1 \notin k..(k + Len(x) - 1) /\ i \in 1..k
      BY <2>3
    <3>2. (old \o add)[i] = old[i]
      BY <1>1, <1>2, <2>3, ConcatProperties
    <3>3. old[i] = m[i - 1]
      BY <3>1 DEF TextOf, old
    <3> QED
      BY <2>2, <3>1, <3>2, <3>3
  <2>4. CASE i > k
    <3>1. i - 1 \in k..(k + Len(x) - 1) /\ i - k \in 1..n /\ (i - 1) - k + 1 = i - k
      BY <2>4
    <3>2. (old \o add)[i] = add[i - k]
      BY <1>1, <1>2, <2>4, ConcatProperties
    <3> QED
      BY <1>2, <2>2, <3>1, <3>2
  <2>5. i <= k \/ i > k
    OBVIOUS
  <2> QED
    BY <2>3, <2>4, <2>5, Zenon
<1>7. new = old \o add
  BY <1>4, <1>5, <1>6
<1> QED
  BY <1>7 DEF old, add, new

(* What is copied to the begin of a buffer is its text.                    *)
LEMMA TextIsCopied ==
  ASSUME NEW room \in Nat, NEW m \in [0..(room - 1) -> Cell], NEW n \in Nat,
         NEW x \in Seq(Cell), n <= Len(x), n <= room
  PROVE  TextOf(memcpy(m, 0, x), n) = SubSeq(x, 1, n)
<1>1. TextOf(memcpy(m, 0, x), 0 + n) = TextOf(m, 0) \o SubSeq(x, 1, n)
  BY TextGrows
<1>2. TextOf(m, 0) \in Seq(Cell) /\ Len(TextOf(m, 0)) = 0
  BY TextType
<1>3. SubSeq(x, 1, n) \in Seq(Cell)
  OBVIOUS
<1>4. TextOf(m, 0) \o SubSeq(x, 1, n) = SubSeq(x, 1, n)
  BY <1>2, <1>3
<1> QED
  BY <1>1, <1>4

(* A text without its byte 0.                                              *)
LEMMA WithoutEnd ==
  ASSUME NEW s \in Seq(Cell)
  PROVE  SubSeq(Terminated(s), 1, Len(s)) = s
BY DEF Terminated, Cell

(* A string that can be used says something.                               *)
LEMMA SaysText ==
  ASSUME Inv, Usable
  PROVE  Said = TextOf(bytes, length) /\ Said \in Seq(Cell) /\ Said # Null
<1>1. TextOf(bytes, length) \in Seq(Cell)
  BY UsableFacts, TextType
<1>2. Null \notin Seq(Cell)
  BY StringBufferAssumption DEF Cell
<1> QED
  BY <1>1, <1>2, UsableFacts DEF Said, Content, Usable

(* A step after which the string has no buffer or cannot be used.          *)
LEMMA SaysNothing ==
  ASSUME overflow' \/ bytes' = Null
  PROVE  Said' = Null
BY DEF Said, Content

(* What a string says behind a step, if it still says something.           *)
LEMMA SaysNew ==
  ASSUME NEW m, NEW n, NEW room, NEW s, Hold(m, n, room, s)
  PROVE  Said' = TextOf(m, n) \/ Said' = Null
BY DEF Hold, Said, Content

LEMMA NewText ==
  ASSUME Inv, NEW s \in Sizes, NEW cstr \in Texts, initString(s, cstr)
  PROVE  T!Next \/ Said' = Said
<1> DEFINE room == ALIGN_DEFAULT(s)
           n    == IF Len(cstr) < room - 1 THEN Len(cstr) ELSE room - 1
           kept == SubSeq(cstr, 1, n)
           m    == memcpy(malloc(room), 0, Terminated(kept))
<1>1. s \in Nat /\ s >= 1
  BY StringBufferAssumption
<1>2. room \in Nat /\ room >= 1
  BY <1>1, AlignedIsLarger
<1>3. cstr \in Seq(Cell)
  BY InputType
<1>4. Hold(m, n, room, room) /\ bytes = Null
  BY DEF initString, room, n, kept
<1> HIDE DEF room
<1>5. n \in Nat /\ n < room /\ n \in 0..Len(cstr)
  BY <1>2, <1>3
<1> HIDE DEF n
<1>6. kept \in Seq(Cell) /\ Len(kept) = n
  BY <1>3, <1>5
<1> HIDE DEF kept
<1>7. TextOf(m, n) = kept
  <2>1. Terminated(kept) \in Seq(Cell) /\ n <= Len(Terminated(kept))
    BY <1>5, <1>6, TerminatedType
  <2>2. malloc(room) \in [0..(room - 1) -> Cell] /\ n <= room
    BY <1>2, <1>5, MallocType
  <2>3. TextOf(m, n) = SubSeq(Terminated(kept), 1, n)
    BY <1>2, <1>5, <2>1, <2>2, TextIsCopied
  <2> QED
    BY <1>6, <2>3, WithoutEnd
<1>8. Said' = kept \/ Said' = Null
  BY <1>4, <1>7, SaysNew
<1> USE DEF kept
<1>9. Said = Null
  BY <1>4 DEF Said, Content
<1> QED
  BY <1>5, <1>8, <1>9 DEF T!Next, T!Set, T!Drop, Said

(* What is appended to is the text of the buffer, or of no buffer.         *)
LEMMA WrittenIs ==
  ASSUME Inv, NEW s \in Seq(Cell), NEW new_size \in Nat, Extend(s, new_size)
  PROVE  T!Written = TextOf(bytes, length)
<1>1. CASE bytes # Null
  <2>1. Running
    BY DEF Extend
  <2>2. Said = TextOf(bytes, length) /\ Said # Null
    BY <1>1, <2>1, RunningFacts, SaysText
  <2> QED
    BY <2>2 DEF T!Written, Said
<1>2. CASE bytes = Null
  <2>1. length = 0
    BY <1>2, ExtendFacts
  <2>2. TextOf(bytes, length) = << >>
    BY <2>1 DEF TextOf
  <2> QED
    BY <1>2, <2>2 DEF T!Written, Content
<1> QED
  BY <1>1, <1>2

(* An append of s.                                                         *)
LEMMA ExtendText ==
  ASSUME Inv, NEW s \in Seq(Cell), NEW new_size \in Nat, Extend(s, new_size)
  PROVE  Said' = T!Written \o s \/ Said' = Null
<1> DEFINE old  == IF Fills(Len(s))
                   THEN memcpy(malloc(new_size), 0, Terminated(TextOf(bytes, length)))
                   ELSE bytes
           room == IF Fills(Len(s)) THEN new_size ELSE capacity
           room_size == IF Fills(Len(s)) THEN new_size ELSE size
           n    == length + Len(s)
           m    == memcpy(old, length, Terminated(s))
           text == TextOf(bytes, length)
<1>2. /\ capacity \in Nat /\ size \in Nat /\ length \in Nat
      /\ ~Fills(Len(s)) => bytes \in [0..(capacity - 1) -> Cell]
  BY ExtendFacts
<1>3. n \in Nat /\ room \in Nat /\ Len(s) \in Nat
  BY <1>2
<1>4. text \in Seq(Cell) /\ Len(text) = length
  BY MovedText
<1>5. Terminated(text) \in Seq(Cell) /\ Len(Terminated(text)) = length + 1
  BY <1>4, TerminatedType
<1>6. malloc(new_size) \in [0..(new_size - 1) -> Cell]
  BY MallocType
<1>7. old \in [0..(room - 1) -> Cell]
  BY <1>2, <1>5, <1>6, MemcpyType
<1>8. /\ Hold(m, n, room, room_size)
      /\ overflow' = (n >= room)
  BY DEF Extend
<1>9. CASE n < room
  <2>1. TextOf(old, length) = text
    <3>1. CASE Fills(Len(s))
      <4>1. length <= new_size /\ length <= Len(Terminated(text))
        BY <1>2, <1>3, <1>5, <1>9, <3>1
      <4>2. TextOf(old, length) = SubSeq(Terminated(text), 1, length)
        BY <1>2, <1>5, <1>6, <3>1, <4>1, TextIsCopied
      <4> QED
        BY <1>4, <4>2, WithoutEnd
    <3>2. CASE ~Fills(Len(s))
      BY <3>2
    <3> QED
      BY <3>1, <3>2
  <2> HIDE DEF old, room, text
  <2>2. Terminated(s) \in Seq(Cell) /\ Len(s) <= Len(Terminated(s))
    BY <1>3, TerminatedType
  <2>3. TextOf(m, n) = text \o SubSeq(Terminated(s), 1, Len(s))
    <3>1. length + Len(s) <= room
      BY <1>2, <1>3, <1>9
    <3>2. TextOf(m, n) = TextOf(old, length) \o SubSeq(Terminated(s), 1, Len(s))
      <4> DEFINE x == Terminated(s)
                 j == Len(s)
      <4>1. /\ length \in Nat /\ j \in Nat /\ room \in Nat
            /\ x \in Seq(Cell) /\ j <= Len(x) /\ length + j <= room
        BY <1>2, <1>3, <2>2, <3>1
      <4> HIDE DEF x, j
      <4>2. TextOf(memcpy(old, length, x), length + j) = TextOf(old, length) \o SubSeq(x, 1, j)
        BY <1>7, <4>1, TextGrows
      <4> QED
        BY <4>2 DEF x, j
    <3> QED
      BY <2>1, <3>2
  <2>4. TextOf(m, n) = text \o s
    BY <2>3, WithoutEnd
  <2>5. T!Written = text
    BY WrittenIs DEF text
  <2> HIDE DEF m, n, room_size
  <2> QED
    BY <1>8, <2>4, <2>5, SaysNew
<1>10. CASE ~(n < room)
  <2>1. n >= room
    BY <1>3, <1>10
  <2>2. overflow'
    BY <1>8, <2>1
  <2> QED
    BY <2>2, SaysNothing
<1> QED
  BY <1>9, <1>10

LEMMA AppendByteText ==
  ASSUME Inv, NEW b \in Byte, appendByte(b)
  PROVE  T!Next
<1> DEFINE new_size == (size * 3) \div 2
<1>1. Extend(<<b>>, new_size)
  BY DEF appendByte
<1>2. new_size \in Nat
  <2>1. size \in Nat
    BY DEF Inv, OnlySmallOrDestroyedFault, TypeOK
  <2> QED
    BY <2>1
<1>3. <<b>> \in Seq(Cell)
  BY InputType
<1> HIDE DEF new_size
<1>4. Said' = T!Written \o <<b>> \/ Said' = Null
  BY <1>1, <1>2, <1>3, ExtendText
<1>5. T!Written \in Seq(Cell) /\ b \in Cell
  BY <1>1, <1>2, <1>3, WrittenIs, MovedText DEF Cell
<1>6. T!Written \o <<b>> = Append(T!Written, b)
  BY <1>5
<1> QED
  BY <1>4, <1>6 DEF T!Next, T!Append1, T!Drop, Said

LEMMA AppendBytesText ==
  ASSUME Inv, NEW s \in Chunks, appendBytes(s)
  PROVE  T!Next
<1> DEFINE new_size == size + (Len(s) * 3) \div 2
<1>1. Extend(s, new_size)
  BY DEF appendBytes
<1>2. s \in Seq(Cell) /\ Len(s) \in Nat
  BY InputType
<1>3. new_size \in Nat
  <2>1. size \in Nat
    BY DEF Inv, OnlySmallOrDestroyedFault, TypeOK
  <2> QED
    BY <1>2, <2>1
<1> HIDE DEF new_size
<1>4. Said' = T!Written \o s \/ Said' = Null
  BY <1>1, <1>2, <1>3, ExtendText
<1> QED
  BY <1>4 DEF T!Next, T!AppendMany, T!Drop, Said

LEMMA ResetText ==
  ASSUME Inv, resetString
  PROVE  T!Next
<1> DEFINE m == memcpy(bytes, 0, <<Zero>>)
<1>1. Usable
  BY DEF resetString
<1>2. Said' = TextOf(m, 0) \/ Said' = Null
  BY <1>1 DEF resetString, Said, Content
<1>3. capacity \in Nat /\ bytes \in [0..(capacity - 1) -> Cell]
  BY <1>1, UsableFacts
<1>4. <<Zero>> \in Seq(Cell)
  BY DEF Cell
<1>5. m \in [0..(capacity - 1) -> Cell]
  BY <1>3, <1>4, MemcpyType
<1> HIDE DEF m
<1>6. TextOf(m, 0) \in Seq(Cell) /\ Len(TextOf(m, 0)) = 0
  BY <1>3, <1>5, TextType
<1>7. TextOf(m, 0) = <<>>
  BY <1>6
<1>8. Said # Null
  BY <1>1, SaysText
<1> QED
  BY <1>2, <1>7, <1>8 DEF T!Next, T!Clear, T!Drop, Said

(* The byte 0 of a copy may fall into the text, in place of a byte.        *)
LEMMA CopyToText ==
  ASSUME NEW room \in Nat, NEW m \in [0..(room - 1) -> Cell], NEW ends \in Nat,
         NEW s, NEW src \in Seq(Cell), Len(src) <= room, CopyTo(m, ends, room, s, src)
  PROVE  \/ Said' = src
         \/ \E i \in DOMAIN src : Said' = [src EXCEPT ![i] = Zero]
         \/ Said' = Null
<1> DEFINE put  == memcpy(m, 0, src)
           copy == memcpy(put, ends, <<Zero>>)
           text == TextOf(copy, Len(src))
<1>1. put \in [0..(room - 1) -> Cell] /\ Len(src) \in Nat
  BY MemcpyType
<1>2. SubSeq(src, 1, Len(src)) = src
  OBVIOUS
<1>3. TextOf(put, Len(src)) = src
  BY <1>1, <1>2, TextIsCopied
<1>4. \A i \in 1..Len(src) : put[i - 1] = src[i]
  BY <1>3 DEF TextOf
<1> HIDE DEF put
<1>5. \A i \in 1..Len(src) : text[i] = IF i - 1 = ends THEN Zero ELSE src[i]
  <2> TAKE i \in 1..Len(src)
  <2>1. DOMAIN put = 0..(room - 1) /\ i - 1 \in DOMAIN put
    BY <1>1
  <2>2. copy[i - 1] = IF i - 1 \in ends..(ends + Len(<<Zero>>) - 1)
                      THEN <<Zero>>[(i - 1) - ends + 1] ELSE put[i - 1]
    BY <2>1 DEF memcpy
  <2>3. Len(<<Zero>>) = 1 /\ <<Zero>>[1] = Zero
    OBVIOUS
  <2>4. i - 1 = ends => (i - 1) - ends + 1 = 1
    OBVIOUS
  <2>5. i - 1 \in ends..(ends + Len(<<Zero>>) - 1) <=> i - 1 = ends
    BY <2>3
  <2>6. copy[i - 1] = IF i - 1 = ends THEN Zero ELSE put[i - 1]
    BY <2>2, <2>3, <2>4, <2>5
  <2> HIDE DEF copy
  <2>7. text[i] = copy[i - 1]
    BY DEF TextOf
  <2> QED
    BY <1>4, <2>6, <2>7
<1>6. text = [i \in 1..Len(src) |-> text[i]]
  BY DEF TextOf
<1>7. Hold(copy, Len(src), room, s)
  BY DEF CopyTo, put
<1>8. Said' = text \/ Said' = Null
  BY <1>7, SaysNew
<1> HIDE DEF text
<1>9. src = [i \in 1..Len(src) |-> src[i]]
  OBVIOUS
<1>10. CASE ends + 1 \in 1..Len(src)
  <2>1. \A i \in 1..Len(src) : text[i] = [src EXCEPT ![ends + 1] = Zero][i]
    BY <1>5, <1>10
  <2>2. text = [src EXCEPT ![ends + 1] = Zero]
    BY <1>6, <2>1
  <2> QED
    BY <1>8, <1>10, <2>2
<1>11. CASE ends + 1 \notin 1..Len(src)
  <2>1. \A i \in 1..Len(src) : text[i] = src[i]
    BY <1>5, <1>11
  <2>2. text = src
    BY <1>6, <1>9, <2>1
  <2> QED
    BY <1>8, <2>2
<1> QED
  BY <1>10, <1>11

LEMMA CopyText ==
  ASSUME Inv, copies
  PROVE  T!Next
<1>1. PICK src \in Texts : \E n \in SizesOf(src) : copyString(src, n)
  BY DEF copies
<1>2. PICK n \in SizesOf(src) : copyString(src, n)
  BY <1>1
<1>3. src \in Seq(Cell) /\ Len(src) \in Nat
  BY InputType
<1>4. n \in Nat /\ Len(src) < n
  BY <1>3, StringBufferAssumption DEF SizesOf
<1>5. Usable
  BY <1>2 DEF copyString
<1>6. /\ capacity \in Nat /\ size \in Nat /\ length \in Nat
      /\ bytes \in [0..(capacity - 1) -> Cell]
      /\ size <= capacity
  BY <1>5, UsableFacts
<1> DEFINE Says ==
      \/ Said' = src
      \/ \E i \in DOMAIN src : Said' = [src EXCEPT ![i] = Zero]
      \/ Said' = Null
<1>7. ASSUME size >= n PROVE Says
  <2>1. CopyTo(bytes, length, capacity, size, src)
    BY <1>2, <1>7 DEF copyString
  <2>2. Len(src) <= capacity
    BY <1>3, <1>4, <1>6, <1>7
  <2> QED
    BY <1>3, <1>6, <2>1, <2>2, CopyToText, Zenon
<1>8. ASSUME ~(size >= n) PROVE Says
  <2> DEFINE room == ALIGN_DEFAULT(n)
             new  == memcpy(malloc(room), 0, <<Zero>>)
  <2>1. CopyTo(new, 0, room, room, src)
    BY <1>2, <1>8 DEF copyString
  <2>2. room \in Nat /\ room >= n
    BY <1>4, AlignedIsLarger
  <2> HIDE DEF room
  <2>3. malloc(room) \in [0..(room - 1) -> Cell]
    BY <2>2, MallocType
  <2>4. <<Zero>> \in Seq(Cell)
    BY DEF Cell
  <2>5. new \in [0..(room - 1) -> Cell]
    BY <2>2, <2>3, <2>4, MemcpyType
  <2> HIDE DEF new
  <2> QED
    <3>1. Len(src) <= room
      BY <1>3, <1>4, <2>2
    <3> QED
      BY <1>3, <2>1, <2>2, <2>5, <3>1, CopyToText, Zenon
<1> HIDE DEF Says
<1>9. Says
  BY <1>7, <1>8
<1>10. Said # Null
  BY <1>5, SaysText
<1> QED
  BY <1>9, <1>10 DEF Says, T!Next, T!Copy, T!Drop, Said

LEMMA StreamText ==
  ASSUME Inv, NEW s \in Texts, streamToString(s)
  PROVE  T!Next
<1> DEFINE new  == size <= Len(s)
           room == IF new THEN Len(s) + 1 ELSE capacity
           old  == IF new THEN malloc(room) ELSE bytes
           m    == memcpy(old, 0, Terminated(s))
<1>1. s \in Seq(Cell) /\ Len(s) \in Nat
  BY InputType
<1>2. /\ size \in Nat /\ capacity \in Nat /\ overflow = FALSE /\ null_used = FALSE
      /\ bytes = Null => new
      /\ bytes # Null => Usable
  <2>1. Running /\ (bytes = Null => new)
    BY DEF streamToString
  <2> QED
    BY <2>1, RunningFacts
<1>3. ~new => Usable
  BY <1>2
<1>4. ~new => bytes \in [0..(capacity - 1) -> Cell] /\ size <= capacity
  BY <1>3, UsableFacts
<1>5. room \in Nat /\ Len(s) <= room
  BY <1>1, <1>2, <1>4
<1>6. old \in [0..(room - 1) -> Cell]
  BY <1>4, <1>5, MallocType
<1>7. Hold(m, Len(s), room, Len(s) + 1)
  BY <1>2 DEF streamToString
<1> HIDE DEF new, room, old
<1>8. Terminated(s) \in Seq(Cell) /\ Len(s) <= Len(Terminated(s))
  BY <1>1, TerminatedType
<1>9. TextOf(m, Len(s)) = SubSeq(Terminated(s), 1, Len(s))
  BY <1>1, <1>5, <1>6, <1>8, TextIsCopied
<1>10. TextOf(m, Len(s)) = s
  BY <1>1, <1>9, WithoutEnd
<1> HIDE DEF m
<1>11. Said' = s \/ Said' = Null
  BY <1>7, <1>10, SaysNew
<1> QED
  BY <1>11 DEF T!Next, T!Read, T!Drop, Said

(* Every step is one of Text, or says nothing new.                         *)
LEMMA TextStep ==
  ASSUME Inv, [Next]_vars
  PROVE  T!Next \/ Said' = Said
<1>1. ASSUME NEW n \in Sizes, NEW s \in Texts, initString(n, s) PROVE T!Next \/ Said' = Said
  BY <1>1, NewText
<1>2. ASSUME destroyString PROVE T!Next
  BY <1>2, SaysNothing DEF destroyString, T!Next, T!Drop, Said
<1>3. ASSUME NEW b \in Byte, appendByte(b) PROVE T!Next
  BY <1>3, AppendByteText
<1>4. ASSUME NEW s \in Chunks, appendBytes(s) PROVE T!Next
  BY <1>4, AppendBytesText
<1>5. ASSUME resetString PROVE T!Next
  BY <1>5, ResetText
<1>6. ASSUME copies PROVE T!Next
  BY <1>6, CopyText
<1>7. ASSUME NEW s \in Texts, NEW n \in SizesOf(s), CopyFails(n) PROVE T!Next
  BY <1>2, <1>7 DEF CopyFails
<1>8. ASSUME NEW s \in Texts, streamToString(s) PROVE T!Next
  BY <1>8, StreamText
<1>9. ASSUME UNCHANGED vars PROVE Said' = Said
  BY <1>9 DEF vars, Said, Content
<1>10. ASSUME UseNull PROVE Said' = Said
  BY <1>10 DEF UseNull, Said, Content
<1> QED
  BY <1>1, <1>2, <1>3, <1>4, <1>5, <1>6, <1>7, <1>8, <1>9, <1>10
     DEF Next, Halted, AppendToNull, StreamToNull

(* Through every growth and reuse of its buffer a string says what was put *)
(* into it, but for the byte a copy may lose: the buffer implements Text.  *)
THEOREM BufferKeepsText == Spec => ImplementsText
<1>1. Init => T!Init
  BY DEF Init, T!Init, Content
<1>2. Inv /\ [Next]_vars => [T!Next]_(IF overflow THEN Null ELSE Content)
  BY TextStep DEF Said
<1>3. Inv /\ [Next]_vars => Inv'
  BY StepInv
<1> QED
  BY InitInv, <1>1, <1>2, <1>3, PTL DEF Spec, ImplementsText, T!Spec

-----------------------------------------------------------------------------
(* The strings that threads share                                          *)

(* One token for each reference: number k of those that t has to s, and    *)
(* number 0 for the copy that editString is about to return.               *)
Tokens(s) ==
  {x \in Threads \X (0..MaxRefs) :
     IF x[2] = 0 THEN ret_str[x[1]] = s ELSE str[x[1]] = s /\ x[2] <= refs[x[1]]}

Counted ==
  \A s \in Strings : IsFiniteSet(Tokens(s)) /\ ref_count[s] = Cardinality(Tokens(s))

(* A string lives while it has references, and a little longer; the        *)
(* threads that do not know have given back theirs.                        *)
LiveStrings ==
  /\ \A s \in Strings \ live : Tokens(s) = {}
  /\ \A s \in live : Tokens(s) # {} \/ S!Dying(s)
  /\ \A s \in live : shared_bytes[s] \in Contents
  /\ \A t \in Threads \ late : str[t] # Null => str[t] \in live
  /\ \A t \in late : pc[t] \in {"check", "unlock"} /\ op[t] # "ref" /\ refs[t] = 0

Owns(t) == pc[t] \in {"load", "store", "check", "unlock"} /\ t \notin late

LockHeld ==
  /\ \A t \in Threads : Owns(t) => lock[str[t]] = 1
  /\ \A t, u \in Threads : Owns(t) /\ Owns(u) /\ str[t] = str[u] => t = u

(* What a thread knows where it is.                                        *)
Station(t) ==
  /\ pc[t] = "idle" => op[t] = "none" /\ (str[t] = Null <=> refs[t] = 0)
  /\ pc[t] # "idle" => str[t] # Null
  /\ pc[t] = "write" => op[t] = "none" /\ refs[t] = 1 /\ ref_count[str[t]] = 1
  /\ pc[t] = "clone" => op[t] = "edit" /\ refs[t] = 1 /\ ret_str[t] = Null
  /\ pc[t] \in {"free", "lock", "load", "store"} =>
        /\ op[t] # "none" /\ refs[t] > 0
        /\ op[t] = "ref" => pc[t] # "free" /\ refs[t] < MaxRefs
        /\ op[t] = "edit" => refs[t] = 1
  /\ pc[t] = "store" => count[t] = ref_count[str[t]]
  /\ pc[t] = "check" => op[t] \in {"free", "edit"}
  /\ pc[t] = "unlock" => op[t] # "none" /\ (op[t] = "ref" => refs[t] > 0)
  /\ pc[t] \in {"check", "unlock"} /\ op[t] = "edit" => refs[t] = 0
  /\ ret_str[t] # Null => op[t] = "edit" /\ ref_count[ret_str[t]] = 1

Stations == \A t \in Threads : Station(t)

SharedInv == S!TypeOK /\ Counted /\ LiveStrings /\ LockHeld /\ Stations

LEMMA SharedInit == S!Init => SharedInv
<1> SUFFICES ASSUME S!Init PROVE SharedInv
  OBVIOUS
<1>1. Null \notin Strings /\ MaxRefs \in Nat \ {0}
  BY BaseStringAssumption DEF S!SharedStringAssumption
<1>2. S!TypeOK
  <2>1. live \subseteq Strings /\ late \subseteq Threads /\ undefined \in BOOLEAN
    BY DEF S!Init
  <2>2. /\ ref_count \in [Strings -> Nat] /\ lock \in [Strings -> {0, 1}]
        /\ shared_bytes \in [Strings -> Contents \cup {Null}]
    BY DEF S!Init
  <2>3. /\ pc \in [Threads -> S!Places] /\ op \in [Threads -> {"none", "ref", "free", "edit"}]
        /\ str \in [Threads -> Strings \cup {Null}] /\ ret_str \in [Threads -> Strings \cup {Null}]
    BY DEF S!Init, S!Places
  <2>4. refs \in [Threads -> 0..MaxRefs] /\ count \in [Threads -> Nat]
    BY <1>1 DEF S!Init
  <2>5. QED
    BY <2>1, <2>2, <2>3, <2>4 DEF S!TypeOK
<1>7. LockHeld
  BY DEF S!Init, LockHeld, Owns
<1>8. Stations
  BY DEF S!Init, Stations, Station
<1>3. \A s \in Strings : Tokens(s) = {}
  BY <1>1 DEF S!Init, Tokens
<1>4. Counted
  BY <1>3, FS_EmptySet DEF Counted, S!Init
<1>5. LiveStrings
  BY <1>3 DEF LiveStrings, S!Init
<1>6. QED
  BY <1>2, <1>4, <1>5, <1>7, <1>8 DEF SharedInv

(* What ref_count tells.                                                   *)
LEMMA TokenCount ==
  ASSUME SharedInv, NEW s \in Strings
  PROVE  /\ ref_count[s] \in Nat
         /\ ref_count[s] = 0 <=> Tokens(s) = {}
         /\ \A x, y \in Tokens(s) : ref_count[s] < 2 => x = y
<1>1. IsFiniteSet(Tokens(s)) /\ ref_count[s] = Cardinality(Tokens(s)) /\ ref_count[s] \in Nat
  BY FS_CardinalityType DEF SharedInv, Counted
<1>2. ref_count[s] = 0 <=> Tokens(s) = {}
  BY <1>1, FS_EmptySet
<1>3. ASSUME NEW x \in Tokens(s), NEW y \in Tokens(s), ref_count[s] < 2 PROVE x = y
  <2>1. ref_count[s] = 1
    BY <1>1, <1>2, <1>3
  <2>2. PICK z : Tokens(s) = {z}
    BY <1>1, <2>1, FS_Singleton
  <2>3. QED
    BY <2>2
<1>4. QED
  BY <1>1, <1>2, <1>3

LEMMA HasToken ==
  ASSUME SharedInv, NEW t \in Threads, refs[t] > 0
  PROVE  <<t, 1>> \in Tokens(str[t]) /\ <<t, refs[t]>> \in Tokens(str[t])
<1>1. refs[t] \in 1..MaxRefs /\ 1 \in 1..MaxRefs /\ 1..MaxRefs \subseteq 0..MaxRefs
  BY BaseStringAssumption DEF S!SharedStringAssumption, SharedInv, S!TypeOK
<1>2. <<t, 1>> \in Threads \X (0..MaxRefs) /\ <<t, refs[t]>> \in Threads \X (0..MaxRefs)
  BY <1>1
<1>3. 1 # 0 /\ refs[t] # 0 /\ 1 <= refs[t] /\ refs[t] <= refs[t]
  BY <1>1
<1>4. QED
  BY <1>2, <1>3 DEF Tokens

(* Who reads a ref_count of less than 2 and has a reference is the only    *)
(* one.                                                                    *)
LEMMA Sole ==
  ASSUME SharedInv, NEW t \in Threads, str[t] \in Strings, refs[t] > 0, ref_count[str[t]] < 2
  PROVE  /\ refs[t] = 1 /\ ref_count[str[t]] = 1 /\ Tokens(str[t]) = {<<t, 1>>}
         /\ \A u \in Threads : /\ u # t /\ str[u] = str[t] => refs[u] = 0
                               /\ ret_str[u] # str[t]
<1>0. /\ refs \in [Threads -> 0..MaxRefs] /\ MaxRefs \in Nat \ {0}
  BY BaseStringAssumption DEF S!SharedStringAssumption, SharedInv, S!TypeOK
<1>1. <<t, 1>> \in Tokens(str[t]) /\ <<t, refs[t]>> \in Tokens(str[t])
  BY HasToken
<1>2. \A x \in Tokens(str[t]) : x = <<t, 1>>
  BY <1>1, TokenCount
<1>3. refs[t] = 1 /\ ref_count[str[t]] = 1 /\ Tokens(str[t]) = {<<t, 1>>}
  BY <1>0, <1>1, <1>2, TokenCount
<1>4. ASSUME NEW u \in Threads, u # t, str[u] = str[t] PROVE refs[u] = 0
  <2>1. refs[u] > 0 => <<u, 1>> \in Tokens(str[t])
    BY <1>4, HasToken
  <2>2. QED
    BY <1>0, <1>2, <1>4, <2>1
<1>5. ASSUME NEW u \in Threads PROVE ret_str[u] # str[t]
  <2>1. ret_str[u] = str[t] => <<u, 0>> \in Tokens(str[t])
    BY <1>0 DEF Tokens
  <2>2. QED
    BY <1>2, <2>1
<1>6. QED
  BY <1>3, <1>4, <1>5

(* A step that moves no reference and no string.                           *)
LEMMA Quiet ==
  ASSUME SharedInv, UNCHANGED <<live, ref_count, shared_bytes, str, refs, ret_str, late>>,
         S!TypeOK', LockHeld', Stations',
         \A t \in Threads : pc[t] \in {"check", "unlock"} => pc'[t] = pc[t] /\ op'[t] = op[t]
  PROVE  SharedInv'
<1>1. \A s \in Strings : Tokens(s)' = Tokens(s)
  BY DEF Tokens
<1>2. Counted'
  BY <1>1 DEF SharedInv, Counted
<1>3. \A s \in Strings : S!Dying(s) => S!Dying(s)'
  BY DEF S!Dying
<1>4. LiveStrings'
  BY <1>1, <1>3 DEF SharedInv, LiveStrings, S!TypeOK
<1>5. QED
  BY <1>2, <1>4 DEF SharedInv

(* A thread that has no reference and still has a string is at the end of  *)
(* freeString.                                                             *)
LEMMA WithoutReference ==
  ASSUME SharedInv, NEW t \in Threads, str[t] # Null, refs[t] = 0
  PROVE  pc[t] \in {"check", "unlock"} /\ op[t] # "ref"
<1>1. Station(t) /\ pc[t] \in S!Places /\ refs[t] \in 0..MaxRefs
  BY DEF SharedInv, Stations, S!TypeOK
<1>2. QED
  BY <1>1 DEF Station, S!Places

LEMMA Calls ==
  ASSUME SharedInv, NEW t \in Threads,
         S!refString(t) \/ S!freeString(t) \/ S!editString(t)
  PROVE  SharedInv'
<1>0. Null \notin Strings /\ MaxRefs \in Nat \ {0}
  BY BaseStringAssumption DEF S!SharedStringAssumption
<1>1. /\ pc[t] = "idle" /\ str[t] \in Strings /\ refs[t] \in 1..MaxRefs
      /\ UNCHANGED <<live, ref_count, lock, shared_bytes, str, refs, count, ret_str, late>>
      /\ undefined' = undefined /\ op[t] = "none" /\ ret_str[t] = Null
  BY <1>0 DEF S!refString, S!freeString, S!editString, S!At, S!Fields, S!Locals, SharedInv, S!TypeOK,
            Stations, Station
<1>2. S!TypeOK'
  BY DEF S!refString, S!freeString, S!editString, S!At, S!Goto, S!Fields, S!Locals,
            SharedInv, S!TypeOK, S!Places
<1>3. \A u \in Threads \ {t} : pc'[u] = pc[u] /\ op'[u] = op[u]
  BY DEF S!refString, S!freeString, S!editString, S!Goto, SharedInv, S!TypeOK
<1>4. \/ pc'[t] = "lock" /\ op'[t] = "ref" /\ refs[t] < MaxRefs
      \/ pc'[t] = "free" /\ op'[t] = "free"
      \/ pc'[t] = "write" /\ op'[t] = "none" /\ refs[t] = 1 /\ ref_count[str[t]] < 2
      \/ pc'[t] = "clone" /\ op'[t] = "edit" /\ refs[t] = 1
  BY <1>1 DEF S!refString, S!freeString, S!editString, S!Goto, S!Alone, SharedInv, S!TypeOK
<1>5. LockHeld'
  <2>1. \A u \in Threads : Owns(u)' => Owns(u)
    BY <1>1, <1>3, <1>4 DEF Owns
  <2>2. QED
    BY <1>1, <2>1 DEF SharedInv, LockHeld
<1>6. Stations'
  <2>1. \A u \in Threads \ {t} : Station(u)'
    BY <1>1, <1>3 DEF SharedInv, Stations, Station
  <2>2. pc'[t] = "write" => ref_count[str[t]] = 1
    BY <1>1, <1>4, Sole
  <2>3. Station(t)'
    BY <1>0, <1>1, <1>4, <2>2 DEF Station
  <2>4. QED
    BY <2>1, <2>3 DEF Stations
<1>7. QED
  BY <1>1, <1>2, <1>3, <1>5, <1>6, Quiet

(* The steps of freeString, refString and editString that only look.       *)
LEMMA Looks ==
  ASSUME SharedInv, NEW t \in Threads,
         S!CloneFails(t) \/ S!FreeShared(t) \/ S!LockInt(t) \/ S!Load(t)
  PROVE  SharedInv'
<1>1. /\ pc[t] \in {"clone", "free", "lock", "load"} /\ Station(t) /\ str[t] \in Strings /\ t \notin late
      /\ UNCHANGED <<live, ref_count, shared_bytes, op, str, refs, ret_str, late>>
  <2>1. pc[t] \in {"clone", "free", "lock", "load"}
    BY DEF S!CloneFails, S!FreeShared, S!LockInt, S!Load, S!At
  <2>2. Station(t) /\ t \notin late
    BY <2>1 DEF SharedInv, Stations, LiveStrings
  <2>3. str[t] \in Strings
    BY <2>1, <2>2 DEF Station, SharedInv, S!TypeOK
  <2>4. UNCHANGED <<live, ref_count, shared_bytes, op, str, refs, ret_str, late>>
    BY DEF S!CloneFails, S!FreeShared, S!LockInt, S!Load, S!Fields, S!Locals
  <2>5. QED
    BY <2>1, <2>2, <2>3, <2>4
<1>2. S!TypeOK'
  BY <1>1 DEF S!CloneFails, S!FreeShared, S!LockInt, S!Load, S!At, S!Goto, S!Fields, S!Locals,
            SharedInv, S!TypeOK, S!Places
<1>3. \A u \in Threads \ {t} : pc'[u] = pc[u] /\ count'[u] = count[u]
  BY DEF S!CloneFails, S!FreeShared, S!LockInt, S!Load, S!Goto, S!Locals, SharedInv, S!TypeOK
<1>4. \/ pc[t] = "clone" /\ pc'[t] = "free" /\ lock' = lock
      \/ pc[t] = "free" /\ pc'[t] = "lock" /\ lock' = lock
      \/ /\ pc[t] = "lock" /\ pc'[t] = "load"
         /\ lock[str[t]] = 0 /\ lock' = [lock EXCEPT ![str[t]] = 1]
      \/ pc[t] = "load" /\ pc'[t] = "store" /\ lock' = lock /\ count'[t] = ref_count[str[t]]
  BY DEF S!CloneFails, S!FreeShared, S!LockInt, S!Load, S!At, S!Goto, S!Fields, S!Locals,
            SharedInv, S!TypeOK
<1>5. LockHeld'
  <2>1. \A u \in Threads \ {t} : Owns(u)' <=> Owns(u)
    BY <1>1, <1>3 DEF Owns
  <2>2. CASE pc[t] = "lock"
    <3>1. \A u \in Threads : Owns(u) => lock[str[u]] = 1 /\ str[u] # str[t]
      BY <1>4, <2>2 DEF SharedInv, LockHeld
    <3>2. ASSUME NEW u \in Threads \ {t}, Owns(u)'
          PROVE  lock'[str'[u]] = 1 /\ str'[u] # str'[t]
      <4>1. lock[str[u]] = 1 /\ str[u] # str[t] /\ str' = str
        BY <1>1, <2>1, <3>1, <3>2
      <4>2. str[u] \in Strings
        BY <1>1, <2>1, <3>2 DEF Owns, SharedInv, Stations, Station, S!TypeOK
      <4>3. QED
        BY <1>4, <2>2, <4>1, <4>2 DEF SharedInv, S!TypeOK
    <3>3. lock'[str'[t]] = 1
      BY <1>1, <1>4, <2>2 DEF SharedInv, S!TypeOK
    <3>4. \A u, v \in Threads \ {t} : Owns(u)' /\ Owns(v)' /\ str'[u] = str'[v] => u = v
      BY <1>1, <2>1 DEF SharedInv, LockHeld
    <3>5. QED
      BY <3>2, <3>3, <3>4 DEF LockHeld
  <2>3. CASE pc[t] # "lock"
    <3>1. Owns(t)' => Owns(t)
      BY <1>1, <1>4, <2>3 DEF Owns
    <3>2. QED
      BY <1>1, <1>4, <2>1, <2>3, <3>1 DEF SharedInv, LockHeld
  <2>4. QED
    BY <2>2, <2>3
<1>6. Stations'
  <2>1. \A u \in Threads \ {t} : Station(u)'
    BY <1>1, <1>3 DEF SharedInv, Stations, Station
  <2>2. Station(t)'
    BY <1>1, <1>4 DEF Station
  <2>3. QED
    BY <2>1, <2>2 DEF Stations
<1>7. QED
  BY <1>1, <1>2, <1>3, <1>5, <1>6, Quiet

(* The steps behind which nothing is known: they end the run.              *)
LEMMA Ends ==
  ASSUME SharedInv,
         S!Halted \/ \E t \in Threads : S!AllocWithoutBytes(t) \/ S!TouchFreed(t)
  PROVE  SharedInv'
<1>1. UNCHANGED <<live, ref_count, lock, shared_bytes, pc, op, str, refs, count, ret_str, late>>
  BY DEF S!Halted, S!AllocWithoutBytes, S!TouchFreed, S!vars, S!Fields, S!Locals
<1>2. undefined' \in BOOLEAN
  BY DEF S!Halted, S!AllocWithoutBytes, S!TouchFreed, S!vars, SharedInv, S!TypeOK
<1>3. S!TypeOK'
  BY <1>1, <1>2 DEF SharedInv, S!TypeOK
<1>4. LockHeld' /\ Stations'
  BY <1>1 DEF SharedInv, LockHeld, Owns, Stations, Station
<1>5. QED
  BY <1>1, <1>3, <1>4, Quiet

LEMMA WriteStep ==
  ASSUME SharedInv, NEW t \in Threads, S!Write(t)
  PROVE  SharedInv'
<1>0. Null \notin Strings
  BY BaseStringAssumption DEF S!SharedStringAssumption
<1>1. /\ pc[t] = "write" /\ Station(t) /\ str[t] \in Strings /\ t \notin late
      /\ UNCHANGED <<live, ref_count, lock, op, str, refs, count, ret_str, late, undefined>>
      /\ pc' = [pc EXCEPT ![t] = "idle"]
  BY <1>0 DEF S!Write, S!At, S!Goto, S!Locals, SharedInv, S!TypeOK, Stations, Station, LiveStrings
<1>2. PICK c \in Contents : shared_bytes' = [shared_bytes EXCEPT ![str[t]] = c]
  BY DEF S!Write
<1>3. \A u \in Threads : u # t => pc'[u] = pc[u]
  BY <1>1 DEF SharedInv, S!TypeOK
<1>4. pc'[t] = "idle"
  BY <1>1 DEF SharedInv, S!TypeOK
<1>5. S!TypeOK'
  <2>1. pc' \in [Threads -> S!Places]
    BY <1>1 DEF SharedInv, S!TypeOK, S!Places
  <2>2. shared_bytes' \in [Strings -> Contents \cup {Null}]
    BY <1>1, <1>2 DEF SharedInv, S!TypeOK
  <2>3. QED
    BY <1>1, <2>1, <2>2 DEF SharedInv, S!TypeOK
<1>6. \A s \in Strings : Tokens(s)' = Tokens(s)
  BY <1>1 DEF Tokens
<1>7. Counted'
  BY <1>1, <1>6 DEF SharedInv, Counted
<1>8. LiveStrings'
  <2>1. \A s \in Strings : S!Dying(s) => S!Dying(s)'
    BY <1>1, <1>3 DEF S!Dying
  <2>2. \A s \in live : shared_bytes'[s] \in Contents
    BY <1>2 DEF SharedInv, LiveStrings, S!TypeOK
  <2>3. QED
    BY <1>1, <1>3, <1>6, <2>1, <2>2 DEF SharedInv, LiveStrings, S!TypeOK
<1>9. LockHeld'
  <2>1. \A u \in Threads : Owns(u)' => Owns(u)
    BY <1>1, <1>3, <1>4 DEF Owns
  <2>2. QED
    BY <1>1, <2>1 DEF SharedInv, LockHeld
<1>10. Stations'
  <2>1. \A u \in Threads \ {t} : Station(u)'
    BY <1>1, <1>3 DEF SharedInv, Stations, Station
  <2>2. Station(t)'
    BY <1>0, <1>1, <1>4 DEF Station
  <2>3. QED
    BY <2>1, <2>2 DEF Stations
<1>11. QED
  BY <1>5, <1>7, <1>8, <1>9, <1>10 DEF SharedInv

(* What holds of every string that is not allocated.                       *)
LEMMA Unknown ==
  ASSUME SharedInv, NEW s \in Strings, s \notin live
  PROVE  /\ Tokens(s) = {}
         /\ \A u \in Threads : ret_str[u] # s
         /\ \A u \in Threads \ late : str[u] # s
<1>1. Tokens(s) = {}
  BY DEF SharedInv, LiveStrings
<1>2. \A u \in Threads : ret_str[u] # s
  <2>1. SUFFICES ASSUME NEW u \in Threads, ret_str[u] = s PROVE <<u, 0>> \in Tokens(s)
    BY <1>1
  <2>2. QED
    BY <2>1, BaseStringAssumption DEF Tokens, S!SharedStringAssumption
<1>3. \A u \in Threads \ late : str[u] # s
  BY BaseStringAssumption DEF SharedInv, LiveStrings, S!SharedStringAssumption
<1>4. QED
  BY <1>1, <1>2, <1>3

(* A new string disturbs nobody.                                           *)
LEMMA NewString ==
  ASSUME SharedInv, NEW s \in Strings, NEW c \in Contents, S!New(s, c)
  PROVE  /\ s \notin live /\ live' = live \cup {s}
         /\ ref_count'[s] = 1 /\ shared_bytes'[s] \in Contents
         /\ ref_count' \in [Strings -> Nat] /\ lock' \in [Strings -> {0, 1}]
         /\ shared_bytes' \in [Strings -> Contents \cup {Null}]
         /\ \A r \in Strings \ {s} : /\ ref_count'[r] = ref_count[r] /\ lock'[r] = lock[r]
                                     /\ shared_bytes'[r] = shared_bytes[r]
BY DEF S!New, SharedInv, S!TypeOK

LEMMA AllocStep ==
  ASSUME SharedInv, NEW t \in Threads, S!allocString(t)
  PROVE  SharedInv'
<1>0. Null \notin Strings /\ MaxRefs \in Nat \ {0}
  BY BaseStringAssumption DEF S!SharedStringAssumption
<1>1. /\ pc[t] = "idle" /\ str[t] = Null /\ t \notin late /\ op[t] = "none" /\ ret_str[t] = Null
      /\ UNCHANGED <<pc, op, count, ret_str, late, undefined>>
      /\ refs' = [refs EXCEPT ![t] = 1] /\ refs[t] = 0
  BY DEF S!allocString, S!At, SharedInv, LiveStrings, Stations, Station
<1>2. PICK s \in Strings, c \in Contents : S!New(s, c) /\ str' = [str EXCEPT ![t] = s]
  BY DEF S!allocString
<1>3. /\ s \notin live /\ live' = live \cup {s}
      /\ ref_count'[s] = 1 /\ shared_bytes'[s] \in Contents
      /\ ref_count' \in [Strings -> Nat] /\ lock' \in [Strings -> {0, 1}]
      /\ shared_bytes' \in [Strings -> Contents \cup {Null}]
      /\ \A r \in Strings \ {s} : /\ ref_count'[r] = ref_count[r] /\ lock'[r] = lock[r]
                                  /\ shared_bytes'[r] = shared_bytes[r]
  BY <1>2, NewString
<1>4. /\ \A u \in Threads \ {t} : str'[u] = str[u] /\ refs'[u] = refs[u]
      /\ str'[t] = s /\ refs'[t] = 1
  BY <1>1, <1>2 DEF SharedInv, S!TypeOK
<1>5. S!TypeOK'
  <2>1. str' \in [Threads -> Strings \cup {Null}]
    BY <1>2 DEF SharedInv, S!TypeOK
  <2>2. refs' \in [Threads -> 0..MaxRefs]
    BY <1>0, <1>1 DEF SharedInv, S!TypeOK
  <2>3. QED
    BY <1>1, <1>3, <2>1, <2>2 DEF SharedInv, S!TypeOK
<1>6. /\ Tokens(s) = {}
      /\ \A u \in Threads : ret_str[u] # s
      /\ \A u \in Threads \ late : str[u] # s
  BY <1>3, Unknown
<1>7. /\ Tokens(s)' = {<<t, 1>>}
      /\ \A r \in Strings \ {s} : Tokens(r)' = Tokens(r)
  <2>1. ASSUME NEW u \in Threads, NEW k \in 0..MaxRefs
        PROVE  /\ <<u, k>> \in Tokens(s)' <=> u = t /\ k = 1
               /\ \A r \in Strings \ {s} : <<u, k>> \in Tokens(r)' <=> <<u, k>> \in Tokens(r)
    <3>1. <<u, k>> \notin Tokens(s)
      BY <1>6
    <3>2. CASE u = t
      BY <1>0, <1>1, <1>4, <1>6, <3>2 DEF Tokens
    <3>3. CASE u # t
      BY <1>1, <1>4, <3>1, <3>3 DEF Tokens
    <3>4. QED
      BY <3>2, <3>3
  <2>2. <<t, 1>> \in Threads \X (0..MaxRefs)
    BY <1>0
  <2>3. \A r \in Strings : /\ Tokens(r) \subseteq Threads \X (0..MaxRefs)
                           /\ Tokens(r)' \subseteq Threads \X (0..MaxRefs)
    BY DEF Tokens
  <2>4. QED
    BY <2>1, <2>2, <2>3
<1>8. Counted'
  <2>1. IsFiniteSet({<<t, 1>>}) /\ Cardinality({<<t, 1>>}) = 1
    BY FS_Singleton
  <2>2. IsFiniteSet(Tokens(s)') /\ ref_count'[s] = Cardinality(Tokens(s)')
    BY <1>3, <1>7, <2>1
  <2>3. ASSUME NEW r \in Strings \ {s}
        PROVE  IsFiniteSet(Tokens(r)') /\ ref_count'[r] = Cardinality(Tokens(r)')
    <3>1. Tokens(r)' = Tokens(r) /\ ref_count'[r] = ref_count[r]
      BY <1>3, <1>7
    <3>2. QED
      BY <3>1 DEF SharedInv, Counted
  <2>4. QED
    BY <2>2, <2>3 DEF Counted
<1>9. LiveStrings'
  <2>1. \A r \in live : S!Dying(r) => S!Dying(r)'
    BY <1>1, <1>3, <1>4 DEF S!Dying, SharedInv, S!TypeOK
  <2>2. \A r \in live' : Tokens(r)' # {} \/ S!Dying(r)'
    BY <1>3, <1>7, <2>1 DEF SharedInv, LiveStrings, S!TypeOK
  <2>3. \A r \in Strings \ live' : Tokens(r)' = {}
    BY <1>3, <1>7 DEF SharedInv, LiveStrings
  <2>4. \A r \in live' : shared_bytes'[r] \in Contents
    BY <1>3 DEF SharedInv, LiveStrings, S!TypeOK
  <2>5. \A u \in Threads \ late' : str'[u] # Null => str'[u] \in live'
    BY <1>1, <1>3, <1>4 DEF SharedInv, LiveStrings
  <2>6. \A u \in late' : pc'[u] \in {"check", "unlock"} /\ op'[u] # "ref" /\ refs'[u] = 0
    BY <1>1, <1>4 DEF SharedInv, LiveStrings, S!TypeOK
  <2>7. QED
    BY <2>2, <2>3, <2>4, <2>5, <2>6 DEF LiveStrings
<1>10. LockHeld'
  <2>1. \A u \in Threads : Owns(u)' => Owns(u) /\ u # t
    BY <1>1 DEF Owns
  <2>2. \A u \in Threads : Owns(u) => str[u] \in Strings \ {s}
    BY <1>6 DEF Owns, SharedInv, Stations, Station, S!TypeOK
  <2>3. QED
    BY <1>3, <1>4, <2>1, <2>2 DEF SharedInv, LockHeld
<1>11. Stations'
  <2>1. ASSUME NEW u \in Threads \ {t} PROVE Station(u)'
    <3>1. /\ pc'[u] = pc[u] /\ op'[u] = op[u] /\ str'[u] = str[u] /\ refs'[u] = refs[u]
          /\ count'[u] = count[u] /\ ret_str'[u] = ret_str[u] /\ Station(u)
      BY <1>1, <1>4 DEF SharedInv, Stations
    <3>2. ret_str[u] # Null => ref_count'[ret_str[u]] = ref_count[ret_str[u]]
      BY <1>3, <1>6 DEF SharedInv, S!TypeOK
    <3>3. pc[u] \in {"write", "store"} => ref_count'[str[u]] = ref_count[str[u]]
      BY <1>3, <1>6, <3>1 DEF SharedInv, S!TypeOK, Station, LiveStrings
    <3>4. QED
      BY <3>1, <3>2, <3>3 DEF Station
  <2>2. Station(t)'
    BY <1>0, <1>1, <1>4 DEF Station
  <2>3. QED
    BY <2>1, <2>2 DEF Stations
<1>12. QED
  BY <1>5, <1>8, <1>9, <1>10, <1>11 DEF SharedInv

LEMMA CloneStep ==
  ASSUME SharedInv, NEW t \in Threads, S!cloneString(t)
  PROVE  SharedInv'
<1>0. Null \notin Strings /\ MaxRefs \in Nat \ {0}
  BY BaseStringAssumption DEF S!SharedStringAssumption
<1>1. /\ pc[t] = "clone" /\ str[t] \in live /\ t \notin late /\ Station(t) /\ ret_str[t] = Null
      /\ UNCHANGED <<op, str, refs, count, late, undefined>>
      /\ pc' = [pc EXCEPT ![t] = "free"]
  BY DEF S!cloneString, S!At, S!Goto, SharedInv, LiveStrings, Stations, Station
<1>2. PICK s \in Strings : /\ S!New(s, shared_bytes[str[t]])
                           /\ ret_str' = [ret_str EXCEPT ![t] = s]
  BY DEF S!cloneString
<1>3. /\ s \notin live /\ live' = live \cup {s}
      /\ ref_count'[s] = 1 /\ shared_bytes'[s] \in Contents
      /\ ref_count' \in [Strings -> Nat] /\ lock' \in [Strings -> {0, 1}]
      /\ shared_bytes' \in [Strings -> Contents \cup {Null}]
      /\ \A r \in Strings \ {s} : /\ ref_count'[r] = ref_count[r] /\ lock'[r] = lock[r]
                                  /\ shared_bytes'[r] = shared_bytes[r]
  <2>1. shared_bytes[str[t]] \in Contents
    BY <1>1 DEF SharedInv, LiveStrings
  <2>2. QED
    BY <1>2, <2>1, NewString
<1>4. /\ \A u \in Threads \ {t} : pc'[u] = pc[u] /\ ret_str'[u] = ret_str[u]
      /\ pc'[t] = "free" /\ ret_str'[t] = s
  BY <1>1, <1>2 DEF SharedInv, S!TypeOK
<1>5. S!TypeOK'
  <2>1. ret_str' \in [Threads -> Strings \cup {Null}]
    BY <1>2 DEF SharedInv, S!TypeOK
  <2>2. pc' \in [Threads -> S!Places]
    BY <1>1 DEF SharedInv, S!TypeOK, S!Places
  <2>3. QED
    BY <1>1, <1>3, <2>1, <2>2 DEF SharedInv, S!TypeOK
<1>6. /\ Tokens(s) = {}
      /\ \A u \in Threads : ret_str[u] # s
      /\ \A u \in Threads \ late : str[u] # s
  BY <1>3, Unknown
<1>7. /\ Tokens(s)' = {<<t, 0>>}
      /\ \A r \in Strings \ {s} : Tokens(r)' = Tokens(r)
  <2>1. ASSUME NEW u \in Threads, NEW k \in 0..MaxRefs
        PROVE  /\ <<u, k>> \in Tokens(s)' <=> u = t /\ k = 0
               /\ \A r \in Strings \ {s} : <<u, k>> \in Tokens(r)' <=> <<u, k>> \in Tokens(r)
    <3>1. <<u, k>> \notin Tokens(s)
      BY <1>6
    <3>2. CASE u = t
      BY <1>0, <1>1, <1>4, <1>6, <3>2 DEF Tokens
    <3>3. CASE u # t
      BY <1>1, <1>4, <3>1, <3>3 DEF Tokens
    <3>4. QED
      BY <3>2, <3>3
  <2>2. <<t, 0>> \in Threads \X (0..MaxRefs)
    BY <1>0
  <2>3. \A r \in Strings : /\ Tokens(r) \subseteq Threads \X (0..MaxRefs)
                           /\ Tokens(r)' \subseteq Threads \X (0..MaxRefs)
    BY DEF Tokens
  <2>4. QED
    BY <2>1, <2>2, <2>3
<1>8. Counted'
  <2>1. IsFiniteSet({<<t, 0>>}) /\ Cardinality({<<t, 0>>}) = 1
    BY FS_Singleton
  <2>2. IsFiniteSet(Tokens(s)') /\ ref_count'[s] = Cardinality(Tokens(s)')
    BY <1>3, <1>7, <2>1
  <2>3. ASSUME NEW r \in Strings \ {s}
        PROVE  IsFiniteSet(Tokens(r)') /\ ref_count'[r] = Cardinality(Tokens(r)')
    <3>1. Tokens(r)' = Tokens(r) /\ ref_count'[r] = ref_count[r]
      BY <1>3, <1>7
    <3>2. QED
      BY <3>1 DEF SharedInv, Counted
  <2>4. QED
    BY <2>2, <2>3 DEF Counted
<1>9. LiveStrings'
  <2>1. \A r \in live : S!Dying(r) => S!Dying(r)'
    BY <1>1, <1>3, <1>4 DEF S!Dying, SharedInv, S!TypeOK
  <2>2. \A r \in live' : Tokens(r)' # {} \/ S!Dying(r)'
    BY <1>3, <1>7, <2>1 DEF SharedInv, LiveStrings, S!TypeOK
  <2>3. \A r \in Strings \ live' : Tokens(r)' = {}
    BY <1>3, <1>7 DEF SharedInv, LiveStrings
  <2>4. \A r \in live' : shared_bytes'[r] \in Contents
    BY <1>3 DEF SharedInv, LiveStrings, S!TypeOK
  <2>5. \A u \in Threads \ late' : str'[u] # Null => str'[u] \in live'
    BY <1>1, <1>3, <1>4 DEF SharedInv, LiveStrings
  <2>6. \A u \in late' : pc'[u] \in {"check", "unlock"} /\ op'[u] # "ref" /\ refs'[u] = 0
    BY <1>1, <1>4 DEF SharedInv, LiveStrings, S!TypeOK
  <2>7. QED
    BY <2>2, <2>3, <2>4, <2>5, <2>6 DEF LiveStrings
<1>10. LockHeld'
  <2>1. \A u \in Threads : Owns(u)' => Owns(u) /\ u # t
    BY <1>1, <1>4 DEF Owns
  <2>2. \A u \in Threads : Owns(u) => str[u] \in Strings \ {s}
    BY <1>6 DEF Owns, SharedInv, Stations, Station, S!TypeOK
  <2>3. QED
    BY <1>1, <1>3, <2>1, <2>2 DEF SharedInv, LockHeld
<1>11. Stations'
  <2>1. ASSUME NEW u \in Threads \ {t} PROVE Station(u)'
    <3>1. /\ pc'[u] = pc[u] /\ op'[u] = op[u] /\ str'[u] = str[u] /\ refs'[u] = refs[u]
          /\ count'[u] = count[u] /\ ret_str'[u] = ret_str[u] /\ Station(u)
      BY <1>1, <1>4 DEF SharedInv, Stations
    <3>2. ret_str[u] # Null => ref_count'[ret_str[u]] = ref_count[ret_str[u]]
      BY <1>3, <1>6 DEF SharedInv, S!TypeOK
    <3>3. pc[u] \in {"write", "store"} => ref_count'[str[u]] = ref_count[str[u]]
      BY <1>3, <1>6, <3>1 DEF SharedInv, S!TypeOK, Station, LiveStrings
    <3>4. QED
      BY <3>1, <3>2, <3>3 DEF Station
  <2>2. Station(t)'
    BY <1>0, <1>1, <1>3, <1>4 DEF Station
  <2>3. QED
    BY <2>1, <2>2 DEF Stations
<1>12. QED
  BY <1>5, <1>8, <1>9, <1>10, <1>11 DEF SharedInv

LEMMA TokenIs ==
  ASSUME NEW s, NEW t \in Threads, NEW k \in 0..MaxRefs
  PROVE  /\ <<t, k>> \in Tokens(s) <=>
              (k = 0 /\ ret_str[t] = s) \/ (k # 0 /\ str[t] = s /\ k <= refs[t])
         /\ <<t, k>> \in Tokens(s)' <=>
              (k = 0 /\ ret_str'[t] = s) \/ (k # 0 /\ str'[t] = s /\ k <= refs'[t])
BY DEF Tokens

LEMMA SameTokens ==
  ASSUME NEW s, NEW U, U \subseteq Threads \X (0..MaxRefs),
         \A t \in Threads, k \in 0..MaxRefs : <<t, k>> \in Tokens(s)' <=> <<t, k>> \in U
  PROVE  Tokens(s)' = U
<1>1. Tokens(s)' \subseteq Threads \X (0..MaxRefs)
  BY DEF Tokens
<1>2. QED
  BY <1>1

LEMMA PassStep ==
  ASSUME SharedInv, NEW t \in Threads, NEW u \in Threads, S!Pass(t, u)
  PROVE  SharedInv'
<1>0. Null \notin Strings /\ MaxRefs \in Nat \ {0}
  BY BaseStringAssumption DEF S!SharedStringAssumption
<1>1. /\ pc[t] = "idle" /\ pc[u] = "idle" /\ str[u] = Null /\ refs[t] \in 2..MaxRefs
      /\ str[t] \in Strings /\ str[t] \in live /\ t # u /\ t \notin late /\ u \notin late /\ refs[u] = 0
      /\ Station(t) /\ Station(u)
      /\ str' = [str EXCEPT ![u] = str[t]] /\ refs' = [refs EXCEPT ![t] = @ - 1, ![u] = 1]
      /\ UNCHANGED <<live, ref_count, lock, shared_bytes, pc, op, count, ret_str, late, undefined>>
  <2>1. pc[t] = "idle" /\ pc[u] = "idle" /\ str[u] = Null /\ refs[t] \in 2..MaxRefs
    BY <1>0 DEF S!Pass, S!At, SharedInv, S!TypeOK
  <2>2. Station(t) /\ Station(u) /\ t \notin late /\ u \notin late
    BY <2>1 DEF SharedInv, Stations, LiveStrings
  <2>3. refs[u] = 0 /\ t # u /\ str[t] # Null
    BY <2>1, <2>2 DEF Station
  <2>4. str[t] \in Strings /\ str[t] \in live
    BY <2>2, <2>3 DEF SharedInv, S!TypeOK, LiveStrings
  <2>5. /\ str' = [str EXCEPT ![u] = str[t]] /\ refs' = [refs EXCEPT ![t] = @ - 1, ![u] = 1]
        /\ UNCHANGED <<live, ref_count, lock, shared_bytes, pc, op, count, ret_str, late, undefined>>
    BY DEF S!Pass, S!Fields
  <2>6. QED
    BY <2>1, <2>2, <2>3, <2>4, <2>5
<1>12. PICK s \in live : s = str[t] /\ s \in Strings
  BY <1>1
<1>2. /\ \A v \in Threads \ {u} : str'[v] = str[v]
      /\ \A v \in Threads \ {t, u} : refs'[v] = refs[v]
      /\ str'[u] = s /\ refs'[u] = 1 /\ refs'[t] = refs[t] - 1 /\ str[t] = s
  BY <1>1, <1>12 DEF SharedInv, S!TypeOK
<1>3. S!TypeOK'
  <2>1. str' \in [Threads -> Strings \cup {Null}]
    BY <1>1 DEF SharedInv, S!TypeOK
  <2>2. refs' \in [Threads -> 0..MaxRefs]
    <3>1. refs[t] - 1 \in 0..MaxRefs /\ 1 \in 0..MaxRefs
      BY <1>0, <1>1
    <3>2. QED
      BY <1>1, <3>1 DEF SharedInv, S!TypeOK
  <2>3. QED
    BY <1>1, <2>1, <2>2 DEF SharedInv, S!TypeOK
<1>4. /\ Tokens(s)' = (Tokens(s) \ {<<t, refs[t]>>}) \cup {<<u, 1>>}
      /\ \A r \in Strings \ {s} : Tokens(r)' = Tokens(r)
  <2>1. ASSUME NEW v \in Threads, NEW k \in 0..MaxRefs, NEW r \in Strings
        PROVE  <<v, k>> \in Tokens(r)' <=>
                    \/ r = s /\ v = u /\ k = 1
                    \/ <<v, k>> \in Tokens(r) /\ ~(r = s /\ v = t /\ k = refs[t])
    <3>1. k \in Nat /\ refs[v] \in Nat /\ refs'[v] \in Nat
      BY <1>0, <1>3 DEF SharedInv, S!TypeOK
    <3>6. /\ <<v, k>> \in Tokens(r) <=>
                (k = 0 /\ ret_str[v] = r) \/ (k # 0 /\ str[v] = r /\ k <= refs[v])
          /\ <<v, k>> \in Tokens(r)' <=>
                (k = 0 /\ ret_str'[v] = r) \/ (k # 0 /\ str'[v] = r /\ k <= refs'[v])
          /\ ret_str'[v] = ret_str[v]
      BY <1>1, TokenIs
    <3>2. CASE v = u
      <4>1. str[v] # r /\ (str'[v] = r <=> r = s) /\ refs'[v] = 1 /\ v # t
        BY <1>0, <1>1, <1>2, <3>2
      <4>2. k # 0 => (k <= 1 <=> k = 1)
        BY <3>1
      <4>3. QED
        BY <3>2, <3>6, <4>1, <4>2
    <3>3. CASE v = t
      <4>1. (str[v] = r <=> r = s) /\ str'[v] = str[v] /\ refs'[v] = refs[v] - 1 /\ v # u
        BY <1>1, <1>2, <1>12, <3>3
      <4>2. k <= refs[v] - 1 <=> k <= refs[v] /\ k # refs[v]
        BY <3>1
      <4>3. refs[v] # 0
        BY <1>1, <3>3
      <4>4. QED
        BY <3>3, <3>6, <4>1, <4>2, <4>3
    <3>4. CASE v # u /\ v # t
      BY <1>1, <1>2, <3>1, <3>4, TokenIs
    <3>5. QED
      BY <3>2, <3>3, <3>4
  <2>2. <<u, 1>> \in Threads \X (0..MaxRefs)
    BY <1>0
  <2>3. \A r \in Strings : Tokens(r) \subseteq Threads \X (0..MaxRefs)
    BY DEF Tokens
  <2>4. Tokens(s)' = (Tokens(s) \ {<<t, refs[t]>>}) \cup {<<u, 1>>}
    <3>1. s \in Strings
      BY <1>12
    <3>2. (Tokens(s) \ {<<t, refs[t]>>}) \cup {<<u, 1>>} \subseteq Threads \X (0..MaxRefs)
      BY <2>2, <2>3, <3>1
    <3>3. \A v \in Threads, k \in 0..MaxRefs :
            <<v, k>> \in Tokens(s)' <=> <<v, k>> \in (Tokens(s) \ {<<t, refs[t]>>}) \cup {<<u, 1>>}
      BY <2>1, <3>1
    <3>4. QED
      BY <3>2, <3>3, SameTokens
  <2>5. ASSUME NEW r \in Strings \ {s} PROVE Tokens(r)' = Tokens(r)
    BY <2>1, <2>3, SameTokens
  <2>6. QED
    BY <2>4, <2>5
<1>5. <<t, refs[t]>> \in Tokens(s) /\ <<t, 1>> \in Tokens(s)
  <2>1. refs[t] > 0
    BY <1>1
  <2>2. QED
    BY <1>12, <2>1, HasToken
<1>6. <<u, 1>> \notin Tokens(s)
  BY <1>0, <1>1, <1>12 DEF Tokens
<1>7. Counted'
  <2>1. IsFiniteSet(Tokens(s)) /\ ref_count[s] = Cardinality(Tokens(s)) /\ ref_count[s] \in Nat
    BY <1>1 DEF SharedInv, Counted, S!TypeOK
  <2>2. /\ IsFiniteSet(Tokens(s) \ {<<t, refs[t]>>})
        /\ Cardinality(Tokens(s) \ {<<t, refs[t]>>}) = ref_count[s] - 1
    BY <1>5, <2>1, FS_RemoveElement
  <2>3. /\ IsFiniteSet(Tokens(s)')
        /\ Cardinality(Tokens(s)') = ref_count[s] - 1 + 1
    <3>1. <<u, 1>> \notin Tokens(s) \ {<<t, refs[t]>>}
      BY <1>6
    <3>2. QED
      BY <1>4, <2>2, <3>1, FS_AddElement
  <2>4. IsFiniteSet(Tokens(s)') /\ ref_count'[s] = Cardinality(Tokens(s)')
    BY <1>1, <2>1, <2>3
  <2>5. ASSUME NEW r \in Strings \ {s}
        PROVE  IsFiniteSet(Tokens(r)') /\ ref_count'[r] = Cardinality(Tokens(r)')
    <3>1. Tokens(r)' = Tokens(r) /\ ref_count'[r] = ref_count[r]
      BY <1>1, <1>4
    <3>2. QED
      BY <3>1 DEF SharedInv, Counted
  <2>6. QED
    BY <2>4, <2>5 DEF Counted
<1>8. LiveStrings'
  <2>1. \A r \in live : S!Dying(r) => S!Dying(r)'
    BY <1>1, <1>2 DEF S!Dying, SharedInv, S!TypeOK
  <2>2. \A r \in live' : Tokens(r)' # {} \/ S!Dying(r)'
    BY <1>1, <1>4, <2>1 DEF SharedInv, LiveStrings, S!TypeOK
  <2>3. \A r \in Strings \ live' : Tokens(r)' = {}
    BY <1>1, <1>4 DEF SharedInv, LiveStrings
  <2>4. \A r \in live' : shared_bytes'[r] \in Contents
    BY <1>1 DEF SharedInv, LiveStrings
  <2>5. \A v \in Threads \ late' : str'[v] # Null => str'[v] \in live'
    BY <1>1, <1>2 DEF SharedInv, LiveStrings
  <2>6. \A v \in late' : pc'[v] \in {"check", "unlock"} /\ op'[v] # "ref" /\ refs'[v] = 0
    BY <1>1, <1>2 DEF SharedInv, LiveStrings, S!TypeOK
  <2>7. QED
    BY <2>2, <2>3, <2>4, <2>5, <2>6 DEF LiveStrings
<1>9. LockHeld'
  <2>1. \A v \in Threads : Owns(v)' => Owns(v) /\ v # u
    BY <1>1 DEF Owns
  <2>2. QED
    BY <1>1, <1>2, <2>1 DEF SharedInv, LockHeld
<1>10. Stations'
  <2>1. ASSUME NEW v \in Threads \ {t, u} PROVE Station(v)'
    <3>1. /\ pc'[v] = pc[v] /\ op'[v] = op[v] /\ str'[v] = str[v] /\ refs'[v] = refs[v]
          /\ count'[v] = count[v] /\ ret_str'[v] = ret_str[v] /\ Station(v)
      BY <1>1, <1>2 DEF SharedInv, Stations
    <3>2. QED
      BY <1>1, <3>1 DEF Station
  <2>2. Station(t)'
    BY <1>0, <1>1, <1>2 DEF Station
  <2>3. Station(u)'
    BY <1>0, <1>1, <1>2 DEF Station
  <2>4. QED
    BY <2>1, <2>2, <2>3 DEF Stations
<1>11. QED
  BY <1>3, <1>7, <1>8, <1>9, <1>10 DEF SharedInv

(* Whoever works with a string that another thread has too sees it in      *)
(* ref_count.                                                              *)
LEMMA Others ==
  ASSUME SharedInv, NEW t \in Threads, str[t] \in Strings, refs[t] > 0, NEW u \in Threads
  PROVE  /\ u # t /\ str[u] = str[t] /\ refs[u] > 0 => ref_count[str[t]] > 1
         /\ ret_str[u] = str[t] => ref_count[str[t]] > 1
         /\ ref_count[str[t]] > 0
<1>1. ref_count[str[t]] \in Nat /\ refs \in [Threads -> 0..MaxRefs] /\ MaxRefs \in Nat \ {0}
  BY BaseStringAssumption DEF S!SharedStringAssumption, SharedInv, S!TypeOK
<1>2. ref_count[str[t]] > 0
  <2>1. Tokens(str[t]) # {}
    BY HasToken
  <2>2. QED
    BY <1>1, <2>1, TokenCount
<1>3. ref_count[str[t]] < 2 =>
        /\ u # t /\ str[u] = str[t] => refs[u] = 0
        /\ ret_str[u] # str[t]
  BY <1>1, Sole
<1>4. QED
  BY <1>1, <1>2, <1>3

(* The decrement and the increment, under the lock.                        *)
LEMMA Storing ==
  ASSUME SharedInv, NEW t \in Threads, S!StoreMore(t) \/ S!StoreLess(t)
  PROVE  /\ pc[t] = "store" /\ str[t] \in Strings /\ str[t] \in live /\ t \notin late /\ Station(t)
         /\ refs[t] \in 1..MaxRefs /\ ref_count[str[t]] \in Nat \ {0}
         /\ count[t] = ref_count[str[t]]
         /\ \A u \in Threads \ {t} :
              pc[u] \in {"write", "store"} => str[u] # str[t]
         /\ \A u \in Threads : ret_str[u] # Null => ret_str[u] # str[t]
<1>0. Null \notin Strings /\ MaxRefs \in Nat \ {0}
  BY BaseStringAssumption DEF S!SharedStringAssumption
<1>1. pc[t] = "store" /\ Station(t) /\ t \notin late
  BY DEF S!StoreMore, S!StoreLess, S!At, SharedInv, Stations, LiveStrings
<1>2. /\ str[t] \in Strings /\ str[t] \in live /\ refs[t] \in 1..MaxRefs /\ refs[t] > 0
      /\ count[t] = ref_count[str[t]]
  <2>1. str[t] # Null /\ refs[t] > 0 /\ count[t] = ref_count[str[t]]
    BY <1>1 DEF Station
  <2>2. QED
    BY <1>0, <1>1, <2>1 DEF SharedInv, S!TypeOK, LiveStrings
<1>3. ref_count[str[t]] \in Nat \ {0}
  BY <1>2, Others DEF SharedInv, S!TypeOK
<1>4. ASSUME NEW u \in Threads \ {t}, pc[u] = "write" PROVE str[u] # str[t]
  <2>1. refs[u] = 1 /\ ref_count[str[u]] = 1
    BY <1>4 DEF SharedInv, Stations, Station
  <2>2. QED
    BY <1>2, <2>1, Others
<1>5. ASSUME NEW u \in Threads \ {t}, pc[u] = "store" PROVE str[u] # str[t]
  <2>1. Owns(u) /\ Owns(t)
    BY <1>1, <1>5 DEF Owns, SharedInv, LiveStrings
  <2>2. QED
    BY <2>1 DEF SharedInv, LockHeld
<1>6. ASSUME NEW u \in Threads, ret_str[u] # Null PROVE ret_str[u] # str[t]
  <2>1. ref_count[ret_str[u]] = 1
    BY <1>6 DEF SharedInv, Stations, Station
  <2>2. QED
    BY <1>2, <2>1, Others
<1>7. QED
  BY <1>1, <1>2, <1>3, <1>4, <1>5, <1>6

LEMMA StoreMoreStep ==
  ASSUME SharedInv, NEW t \in Threads, S!StoreMore(t)
  PROVE  SharedInv'
<1>0. Null \notin Strings /\ MaxRefs \in Nat \ {0}
  BY BaseStringAssumption DEF S!SharedStringAssumption
<1>1. /\ pc[t] = "store" /\ str[t] \in Strings /\ str[t] \in live /\ t \notin late /\ Station(t)
      /\ refs[t] \in 1..MaxRefs /\ ref_count[str[t]] \in Nat \ {0}
      /\ count[t] = ref_count[str[t]]
      /\ \A u \in Threads \ {t} : pc[u] \in {"write", "store"} => str[u] # str[t]
      /\ \A u \in Threads : ret_str[u] # Null => ret_str[u] # str[t]
  BY Storing
<1>2. PICK s \in Strings : s = str[t]
  BY <1>1
<1>3. /\ op[t] = "ref" /\ ref_count' = [ref_count EXCEPT ![s] = ref_count[s] + 1]
      /\ count' = [count EXCEPT ![t] = 0] /\ refs' = [refs EXCEPT ![t] = refs[t] + 1]
      /\ pc' = [pc EXCEPT ![t] = "unlock"] /\ refs[t] < MaxRefs
      /\ UNCHANGED <<live, lock, shared_bytes, op, str, ret_str, late, undefined>>
  BY <1>1, <1>2 DEF S!StoreMore, S!Goto, Station
<1>4. /\ \A u \in Threads \ {t} : refs'[u] = refs[u] /\ pc'[u] = pc[u] /\ count'[u] = count[u]
      /\ refs'[t] = refs[t] + 1 /\ pc'[t] = "unlock"
      /\ ref_count'[s] = ref_count[s] + 1
      /\ \A r \in Strings \ {s} : ref_count'[r] = ref_count[r]
  BY <1>3 DEF SharedInv, S!TypeOK
<1>5. S!TypeOK'
  <2>1. ref_count[s] + 1 \in Nat /\ refs[t] + 1 \in 0..MaxRefs /\ 0 \in Nat
    BY <1>0, <1>1, <1>2, <1>3
  <2>2. ref_count' \in [Strings -> Nat] /\ refs' \in [Threads -> 0..MaxRefs] /\ count' \in [Threads -> Nat]
    BY <1>3, <2>1 DEF SharedInv, S!TypeOK
  <2>3. pc' \in [Threads -> S!Places]
    BY <1>3 DEF SharedInv, S!TypeOK, S!Places
  <2>4. QED
    BY <1>3, <2>2, <2>3 DEF SharedInv, S!TypeOK
<1>6. /\ Tokens(s)' = Tokens(s) \cup {<<t, refs[t] + 1>>}
      /\ \A r \in Strings \ {s} : Tokens(r)' = Tokens(r)
      /\ <<t, refs[t] + 1>> \notin Tokens(s)
  <2>0. refs[t] + 1 \in 1..MaxRefs
    BY <1>0, <1>1, <1>3
  <2>1. ASSUME NEW v \in Threads, NEW k \in 0..MaxRefs, NEW r \in Strings
        PROVE  <<v, k>> \in Tokens(r)' <=>
                    (r = s /\ v = t /\ k = refs[t] + 1) \/ <<v, k>> \in Tokens(r)
    <3>1. k \in Nat /\ refs[v] \in Nat /\ refs'[v] \in Nat
      BY <1>0, <1>5 DEF SharedInv, S!TypeOK
    <3>2. /\ <<v, k>> \in Tokens(r) <=>
                (k = 0 /\ ret_str[v] = r) \/ (k # 0 /\ str[v] = r /\ k <= refs[v])
          /\ <<v, k>> \in Tokens(r)' <=>
                (k = 0 /\ ret_str[v] = r) \/ (k # 0 /\ str[v] = r /\ k <= refs'[v])
      BY <1>3, TokenIs
    <3>3. CASE v = t
      <4>1. k <= refs'[v] <=> k <= refs[v] \/ k = refs[v] + 1
        BY <1>4, <3>1, <3>3
      <4>2. refs[t] + 1 # 0
        BY <2>0
      <4>3. QED
        BY <1>2, <3>2, <3>3, <4>1, <4>2
    <3>4. CASE v # t
      BY <1>4, <3>2, <3>4
    <3>5. QED
      BY <3>3, <3>4
  <2>2. <<t, refs[t] + 1>> \in Threads \X (0..MaxRefs)
    BY <2>0
  <2>3. \A r \in Strings : Tokens(r) \subseteq Threads \X (0..MaxRefs)
    BY DEF Tokens
  <2>4. Tokens(s)' = Tokens(s) \cup {<<t, refs[t] + 1>>}
    <3>1. Tokens(s) \cup {<<t, refs[t] + 1>>} \subseteq Threads \X (0..MaxRefs)
      BY <2>2, <2>3
    <3>2. \A v \in Threads, k \in 0..MaxRefs :
            <<v, k>> \in Tokens(s)' <=> <<v, k>> \in Tokens(s) \cup {<<t, refs[t] + 1>>}
      BY <2>1
    <3>3. QED
      BY <3>1, <3>2, SameTokens
  <2>5. ASSUME NEW r \in Strings \ {s} PROVE Tokens(r)' = Tokens(r)
    BY <2>1, <2>3, SameTokens
  <2>6. <<t, refs[t] + 1>> \notin Tokens(s)
    <3>1. refs[t] + 1 \in 0..MaxRefs /\ refs[t] + 1 # 0 /\ ~(refs[t] + 1 <= refs[t])
      BY <1>0, <1>1, <2>0
    <3>2. QED
      BY <3>1, TokenIs
  <2>7. QED
    BY <2>4, <2>5, <2>6
<1>7. Counted'
  <2>1. IsFiniteSet(Tokens(s)) /\ ref_count[s] = Cardinality(Tokens(s))
    BY DEF SharedInv, Counted
  <2>2. /\ IsFiniteSet(Tokens(s) \cup {<<t, refs[t] + 1>>})
        /\ Cardinality(Tokens(s) \cup {<<t, refs[t] + 1>>}) = ref_count[s] + 1
    BY <1>6, <2>1, FS_AddElement
  <2>3. IsFiniteSet(Tokens(s)') /\ ref_count'[s] = Cardinality(Tokens(s)')
    BY <1>4, <1>6, <2>2
  <2>4. ASSUME NEW r \in Strings \ {s}
        PROVE  IsFiniteSet(Tokens(r)') /\ ref_count'[r] = Cardinality(Tokens(r)')
    <3>1. Tokens(r)' = Tokens(r) /\ ref_count'[r] = ref_count[r]
      BY <1>4, <1>6
    <3>2. QED
      BY <3>1 DEF SharedInv, Counted
  <2>5. QED
    BY <2>3, <2>4 DEF Counted
<1>8. LiveStrings'
  <2>1. \A r \in live : r # s /\ S!Dying(r) => S!Dying(r)'
    BY <1>1, <1>3, <1>4 DEF S!Dying, SharedInv, S!TypeOK
  <2>2. \A r \in live' : Tokens(r)' # {} \/ S!Dying(r)'
    BY <1>3, <1>6, <2>1 DEF SharedInv, LiveStrings, S!TypeOK
  <2>3. \A r \in Strings \ live' : Tokens(r)' = {}
    BY <1>1, <1>2, <1>3, <1>6 DEF SharedInv, LiveStrings
  <2>4. \A r \in live' : shared_bytes'[r] \in Contents
    BY <1>3 DEF SharedInv, LiveStrings
  <2>5. \A v \in Threads \ late' : str'[v] # Null => str'[v] \in live'
    BY <1>3 DEF SharedInv, LiveStrings
  <2>6. \A v \in late' : pc'[v] \in {"check", "unlock"} /\ op'[v] # "ref" /\ refs'[v] = 0
    BY <1>1, <1>3, <1>4 DEF SharedInv, LiveStrings, S!TypeOK
  <2>7. QED
    BY <2>2, <2>3, <2>4, <2>5, <2>6 DEF LiveStrings
<1>9. LockHeld'
  <2>1. \A v \in Threads : Owns(v)' => Owns(v)
    BY <1>1, <1>3, <1>4 DEF Owns
  <2>2. QED
    BY <1>3, <2>1 DEF SharedInv, LockHeld
<1>10. Stations'
  <2>1. ASSUME NEW v \in Threads \ {t} PROVE Station(v)'
    <3>1. /\ pc'[v] = pc[v] /\ op'[v] = op[v] /\ str'[v] = str[v] /\ refs'[v] = refs[v]
          /\ count'[v] = count[v] /\ ret_str'[v] = ret_str[v] /\ Station(v)
      BY <1>3, <1>4 DEF SharedInv, Stations
    <3>2. ret_str[v] # Null => ref_count'[ret_str[v]] = ref_count[ret_str[v]]
      BY <1>1, <1>2, <1>4 DEF SharedInv, S!TypeOK
    <3>3. pc[v] \in {"write", "store"} => ref_count'[str[v]] = ref_count[str[v]]
      BY <1>1, <1>2, <1>4, <3>1 DEF SharedInv, S!TypeOK, Station
    <3>4. QED
      BY <3>1, <3>2, <3>3 DEF Station
  <2>2. Station(t)'
    <3>1. refs'[t] > 0 /\ str'[t] # Null /\ op'[t] = "ref" /\ pc'[t] = "unlock" /\ ret_str'[t] = Null
      BY <1>0, <1>1, <1>3, <1>4 DEF Station
    <3>2. QED
      BY <3>1 DEF Station
  <2>3. QED
    BY <2>1, <2>2 DEF Stations
<1>11. QED
  BY <1>5, <1>7, <1>8, <1>9, <1>10 DEF SharedInv

LEMMA StoreLessStep ==
  ASSUME SharedInv, NEW t \in Threads, S!StoreLess(t)
  PROVE  SharedInv'
<1>0. Null \notin Strings /\ MaxRefs \in Nat \ {0}
  BY BaseStringAssumption DEF S!SharedStringAssumption
<1>1. /\ pc[t] = "store" /\ str[t] \in Strings /\ str[t] \in live /\ t \notin late /\ Station(t)
      /\ refs[t] \in 1..MaxRefs /\ ref_count[str[t]] \in Nat \ {0}
      /\ count[t] = ref_count[str[t]]
      /\ \A u \in Threads \ {t} : pc[u] \in {"write", "store"} => str[u] # str[t]
      /\ \A u \in Threads : ret_str[u] # Null => ret_str[u] # str[t]
  BY Storing
<1>2. PICK s \in Strings : s = str[t]
  BY <1>1
<1>3. /\ op[t] \in {"free", "edit"} /\ ref_count' = [ref_count EXCEPT ![s] = ref_count[s] - 1]
      /\ count' = [count EXCEPT ![t] = 0] /\ refs' = [refs EXCEPT ![t] = refs[t] - 1]
      /\ pc' = [pc EXCEPT ![t] = "check"]
      /\ UNCHANGED <<live, lock, shared_bytes, op, str, ret_str, late, undefined>>
  BY <1>1, <1>2 DEF S!StoreLess, S!Goto, Station, SharedInv, S!TypeOK
<1>4. /\ \A u \in Threads \ {t} : refs'[u] = refs[u] /\ pc'[u] = pc[u] /\ count'[u] = count[u]
      /\ refs'[t] = refs[t] - 1 /\ pc'[t] = "check"
      /\ ref_count'[s] = ref_count[s] - 1
      /\ \A r \in Strings \ {s} : ref_count'[r] = ref_count[r]
  BY <1>3 DEF SharedInv, S!TypeOK
<1>5. S!TypeOK'
  <2>1. ref_count[s] - 1 \in Nat /\ refs[t] - 1 \in 0..MaxRefs /\ 0 \in Nat
    BY <1>0, <1>1, <1>2, <1>3
  <2>2. ref_count' \in [Strings -> Nat] /\ refs' \in [Threads -> 0..MaxRefs] /\ count' \in [Threads -> Nat]
    BY <1>3, <2>1 DEF SharedInv, S!TypeOK
  <2>3. pc' \in [Threads -> S!Places]
    BY <1>3 DEF SharedInv, S!TypeOK, S!Places
  <2>4. QED
    BY <1>3, <2>2, <2>3 DEF SharedInv, S!TypeOK
<1>6. /\ Tokens(s)' = Tokens(s) \ {<<t, refs[t]>>}
      /\ \A r \in Strings \ {s} : Tokens(r)' = Tokens(r)
      /\ <<t, refs[t]>> \in Tokens(s)
  <2>1. ASSUME NEW v \in Threads, NEW k \in 0..MaxRefs, NEW r \in Strings
        PROVE  <<v, k>> \in Tokens(r)' <=>
                    <<v, k>> \in Tokens(r) /\ ~(r = s /\ v = t /\ k = refs[t])
    <3>1. k \in Nat /\ refs[v] \in Nat /\ refs'[v] \in Nat
      BY <1>0, <1>5 DEF SharedInv, S!TypeOK
    <3>2. /\ <<v, k>> \in Tokens(r) <=>
                (k = 0 /\ ret_str[v] = r) \/ (k # 0 /\ str[v] = r /\ k <= refs[v])
          /\ <<v, k>> \in Tokens(r)' <=>
                (k = 0 /\ ret_str[v] = r) \/ (k # 0 /\ str[v] = r /\ k <= refs'[v])
      BY <1>3, TokenIs
    <3>3. CASE v = t
      <4>1. k <= refs'[v] <=> k <= refs[v] /\ k # refs[v]
        BY <1>4, <3>1, <3>3
      <4>2. refs[t] # 0
        BY <1>1
      <4>3. QED
        BY <1>2, <3>2, <3>3, <4>1, <4>2
    <3>4. CASE v # t
      BY <1>4, <3>2, <3>4
    <3>5. QED
      BY <3>3, <3>4
  <2>2. \A r \in Strings : Tokens(r) \subseteq Threads \X (0..MaxRefs)
    BY DEF Tokens
  <2>3. Tokens(s)' = Tokens(s) \ {<<t, refs[t]>>}
    <3> DEFINE U == Tokens(s) \ {<<t, refs[t]>>}
    <3>1. U \subseteq Threads \X (0..MaxRefs)
      BY <2>2
    <3>2. \A v \in Threads, k \in 0..MaxRefs : <<v, k>> \in Tokens(s)' <=> <<v, k>> \in U
      BY <2>1
    <3> HIDE DEF U
    <3>3. Tokens(s)' = U
      BY <3>1, <3>2, SameTokens
    <3>4. QED
      BY <3>3 DEF U
  <2>4. ASSUME NEW r \in Strings \ {s} PROVE Tokens(r)' = Tokens(r)
    BY <2>1, <2>2, SameTokens
  <2>5. <<t, refs[t]>> \in Tokens(s)
    <3>1. refs[t] > 0
      BY <1>1
    <3>2. QED
      BY <1>2, <3>1, HasToken
  <2>6. QED
    BY <2>3, <2>4, <2>5
<1>7. Counted'
  <2>1. IsFiniteSet(Tokens(s)) /\ ref_count[s] = Cardinality(Tokens(s))
    BY DEF SharedInv, Counted
  <2>2. /\ IsFiniteSet(Tokens(s) \ {<<t, refs[t]>>})
        /\ Cardinality(Tokens(s) \ {<<t, refs[t]>>}) = ref_count[s] - 1
    BY <1>6, <2>1, FS_RemoveElement
  <2>3. IsFiniteSet(Tokens(s)') /\ ref_count'[s] = Cardinality(Tokens(s)')
    BY <1>4, <1>6, <2>2
  <2>4. ASSUME NEW r \in Strings \ {s}
        PROVE  IsFiniteSet(Tokens(r)') /\ ref_count'[r] = Cardinality(Tokens(r)')
    <3>1. Tokens(r)' = Tokens(r) /\ ref_count'[r] = ref_count[r]
      BY <1>4, <1>6
    <3>2. QED
      BY <3>1 DEF SharedInv, Counted
  <2>5. QED
    BY <2>3, <2>4 DEF Counted
<1>8. LiveStrings'
  <2>1. \A r \in live : r # s /\ S!Dying(r) => S!Dying(r)'
    BY <1>1, <1>3, <1>4 DEF S!Dying, SharedInv, S!TypeOK
  <2>2. Tokens(s)' = {} => S!Dying(s)'
    <3>1. SUFFICES ASSUME Tokens(s)' = {} PROVE S!Dying(s)'
      OBVIOUS
    <3>2. ref_count'[s] = 0
      BY <1>7, <3>1, FS_EmptySet DEF Counted
    <3>3. QED
      BY <1>1, <1>2, <1>3, <1>4, <3>2 DEF S!Dying
  <2>3. \A r \in live' : Tokens(r)' # {} \/ S!Dying(r)'
    BY <1>3, <1>6, <2>1, <2>2 DEF SharedInv, LiveStrings, S!TypeOK
  <2>4. \A r \in Strings \ live' : Tokens(r)' = {}
    BY <1>1, <1>2, <1>3, <1>6 DEF SharedInv, LiveStrings
  <2>5. \A r \in live' : shared_bytes'[r] \in Contents
    BY <1>3 DEF SharedInv, LiveStrings
  <2>6. \A v \in Threads \ late' : str'[v] # Null => str'[v] \in live'
    BY <1>3 DEF SharedInv, LiveStrings
  <2>7. \A v \in late' : pc'[v] \in {"check", "unlock"} /\ op'[v] # "ref" /\ refs'[v] = 0
    BY <1>1, <1>3, <1>4 DEF SharedInv, LiveStrings, S!TypeOK
  <2>8. QED
    BY <2>3, <2>4, <2>5, <2>6, <2>7 DEF LiveStrings
<1>9. LockHeld'
  <2>1. \A v \in Threads : Owns(v)' => Owns(v)
    BY <1>1, <1>3, <1>4 DEF Owns
  <2>2. QED
    BY <1>3, <2>1 DEF SharedInv, LockHeld
<1>10. Stations'
  <2>1. ASSUME NEW v \in Threads \ {t} PROVE Station(v)'
    <3>1. /\ pc'[v] = pc[v] /\ op'[v] = op[v] /\ str'[v] = str[v] /\ refs'[v] = refs[v]
          /\ count'[v] = count[v] /\ ret_str'[v] = ret_str[v] /\ Station(v)
      BY <1>3, <1>4 DEF SharedInv, Stations
    <3>2. ret_str[v] # Null => ref_count'[ret_str[v]] = ref_count[ret_str[v]]
      BY <1>1, <1>2, <1>4 DEF SharedInv, S!TypeOK
    <3>3. pc[v] \in {"write", "store"} => ref_count'[str[v]] = ref_count[str[v]]
      BY <1>1, <1>2, <1>4, <3>1 DEF SharedInv, S!TypeOK, Station
    <3>4. QED
      BY <3>1, <3>2, <3>3 DEF Station
  <2>2. Station(t)'
    <3>1. /\ str'[t] # Null /\ op'[t] \in {"free", "edit"} /\ pc'[t] = "check"
          /\ op'[t] = "edit" => refs'[t] = 0
      BY <1>0, <1>1, <1>3, <1>4 DEF Station
    <3>2. ret_str'[t] # Null => op'[t] = "edit" /\ ref_count'[ret_str'[t]] = 1
      BY <1>1, <1>2, <1>3, <1>4 DEF Station, SharedInv, S!TypeOK
    <3>3. QED
      BY <3>1, <3>2 DEF Station
  <2>3. QED
    BY <2>1, <2>2 DEF Stations
<1>11. QED
  BY <1>5, <1>7, <1>8, <1>9, <1>10 DEF SharedInv

(* The copy that editString returns is the caller's alone.                 *)
LEMMA SoleCopy ==
  ASSUME SharedInv, NEW t \in Threads, ret_str[t] # Null
  PROVE  /\ ret_str[t] \in Strings /\ ret_str[t] \in live
         /\ ref_count[ret_str[t]] = 1 /\ Tokens(ret_str[t]) = {<<t, 0>>}
         /\ op[t] = "edit"
         /\ \A u \in Threads : str[u] = ret_str[t] => refs[u] = 0
<1>0. MaxRefs \in Nat \ {0} /\ refs \in [Threads -> 0..MaxRefs]
  BY BaseStringAssumption DEF S!SharedStringAssumption, SharedInv, S!TypeOK
<1>1. ret_str[t] \in Strings /\ op[t] = "edit" /\ ref_count[ret_str[t]] = 1
  BY DEF SharedInv, S!TypeOK, Stations, Station
<1>2. <<t, 0>> \in Tokens(ret_str[t])
  BY <1>0, TokenIs
<1>3. Tokens(ret_str[t]) = {<<t, 0>>}
  BY <1>1, <1>2, TokenCount
<1>4. ret_str[t] \in live
  BY <1>1, <1>3 DEF SharedInv, LiveStrings
<1>5. ASSUME NEW u \in Threads, str[u] = ret_str[t] PROVE refs[u] = 0
  <2>1. refs[u] > 0 => <<u, 1>> \in Tokens(ret_str[t])
    BY <1>5, HasToken
  <2>2. QED
    BY <1>0, <1>3, <2>1
<1>6. QED
  BY <1>1, <1>3, <1>4, <1>5

LEMMA FreeAloneStep ==
  ASSUME SharedInv, NEW t \in Threads, S!FreeAlone(t)
  PROVE  SharedInv'
<1>0. Null \notin Strings /\ MaxRefs \in Nat \ {0}
  BY BaseStringAssumption DEF S!SharedStringAssumption
<1>1. /\ pc[t] = "free" /\ str[t] \in Strings /\ str[t] \in live /\ t \notin late /\ Station(t)
      /\ refs[t] > 0 /\ ref_count[str[t]] < 2 /\ op[t] \in {"free", "edit"}
  <2>1. pc[t] = "free" /\ ref_count[str[t]] < 2
    BY DEF S!FreeAlone, S!At, S!Alone
  <2>2. Station(t) /\ t \notin late
    BY <2>1 DEF SharedInv, Stations, LiveStrings
  <2>3. str[t] # Null /\ refs[t] > 0 /\ op[t] \in {"free", "edit"}
    BY <2>1, <2>2 DEF Station, SharedInv, S!TypeOK
  <2>4. QED
    BY <2>1, <2>2, <2>3 DEF SharedInv, S!TypeOK, LiveStrings
<1>2. PICK s \in Strings : s = str[t]
  BY <1>1
<1>3. PICK r \in Strings \cup {Null} : r = ret_str[t]
  BY DEF SharedInv, S!TypeOK
<1>4. /\ refs[t] = 1 /\ ref_count[s] = 1 /\ Tokens(s) = {<<t, 1>>}
      /\ \A u \in Threads : /\ u # t /\ str[u] = s => refs[u] = 0
                            /\ ret_str[u] # s
  BY <1>1, <1>2, Sole
<1>5. /\ live' = live \ {s} /\ late' = late \cup {u \in Threads : str[u] = s /\ u # t}
      /\ ref_count' = [ref_count EXCEPT ![s] = 0] /\ lock' = [lock EXCEPT ![s] = 0]
      /\ shared_bytes' = [shared_bytes EXCEPT ![s] = Null]
      /\ refs' = [refs EXCEPT ![t] = IF r = Null THEN 0 ELSE 1]
      /\ str' = [str EXCEPT ![t] = r] /\ ret_str' = [ret_str EXCEPT ![t] = Null]
      /\ op' = [op EXCEPT ![t] = "none"]
      /\ pc' = [pc EXCEPT ![t] = IF r = Null THEN "idle" ELSE "write"]
      /\ UNCHANGED <<count, undefined>>
  <2>1. refs[t] - 1 = 0
    BY <1>2, <1>4
  <2>2. late' = late \cup {u \in Threads : str[u] = s /\ u # t}
    BY <1>2 DEF S!FreeAlone, S!Release
  <2>3. /\ live' = live \ {s} /\ ref_count' = [ref_count EXCEPT ![s] = 0]
        /\ lock' = [lock EXCEPT ![s] = 0] /\ shared_bytes' = [shared_bytes EXCEPT ![s] = Null]
        /\ UNCHANGED <<count, undefined>>
    BY <1>2 DEF S!FreeAlone, S!Release
  <2>4. S!Leave(t, 0)
    BY <2>1 DEF S!FreeAlone
  <2>5. /\ refs' = [refs EXCEPT ![t] = IF r = Null THEN 0 ELSE 1]
        /\ str' = [str EXCEPT ![t] = r] /\ ret_str' = [ret_str EXCEPT ![t] = Null]
        /\ op' = [op EXCEPT ![t] = "none"]
        /\ pc' = [pc EXCEPT ![t] = IF r = Null THEN "idle" ELSE "write"]
    BY <1>3, <2>4 DEF S!Leave, S!Goto
  <2>6. QED
    BY <2>2, <2>3, <2>5
<1>6. /\ \A u \in Threads \ {t} : /\ refs'[u] = refs[u] /\ pc'[u] = pc[u] /\ str'[u] = str[u]
                                  /\ ret_str'[u] = ret_str[u] /\ op'[u] = op[u]
      /\ refs'[t] = (IF r = Null THEN 0 ELSE 1) /\ str'[t] = r /\ ret_str'[t] = Null
      /\ op'[t] = "none" /\ pc'[t] = (IF r = Null THEN "idle" ELSE "write")
      /\ \A q \in Strings \ {s} : /\ ref_count'[q] = ref_count[q] /\ lock'[q] = lock[q]
                                  /\ shared_bytes'[q] = shared_bytes[q]
      /\ ref_count'[s] = 0
  BY <1>5 DEF SharedInv, S!TypeOK
<1>7. r # Null => /\ r \in live /\ ref_count[r] = 1 /\ Tokens(r) = {<<t, 0>>} /\ r # s
  BY <1>3, <1>4, SoleCopy
<1>8. S!TypeOK'
  <2>1. /\ live' \subseteq Strings /\ late' \subseteq Threads
        /\ ref_count' \in [Strings -> Nat] /\ lock' \in [Strings -> {0, 1}]
        /\ shared_bytes' \in [Strings -> Contents \cup {Null}]
    BY <1>5 DEF SharedInv, S!TypeOK
  <2>2. /\ pc' \in [Threads -> S!Places] /\ op' \in [Threads -> {"none", "ref", "free", "edit"}]
        /\ str' \in [Threads -> Strings \cup {Null}] /\ ret_str' \in [Threads -> Strings \cup {Null}]
    BY <1>5 DEF SharedInv, S!TypeOK, S!Places
  <2>3. refs' \in [Threads -> 0..MaxRefs] /\ count' \in [Threads -> Nat] /\ undefined' \in BOOLEAN
    BY <1>0, <1>5 DEF SharedInv, S!TypeOK
  <2>4. QED
    BY <2>1, <2>2, <2>3 DEF S!TypeOK
<1>9. /\ Tokens(s)' = {}
      /\ r # Null => Tokens(r)' = {<<t, 1>>}
      /\ \A q \in Strings \ {s, r} : Tokens(q)' = Tokens(q)
  <2>1. ASSUME NEW v \in Threads, NEW k \in 0..MaxRefs, NEW q \in Strings
        PROVE  <<v, k>> \in Tokens(q)' <=>
                    \/ v # t /\ <<v, k>> \in Tokens(q)
                    \/ v = t /\ k = 1 /\ q = r
    <3>1. /\ <<v, k>> \in Tokens(q) <=>
                (k = 0 /\ ret_str[v] = q) \/ (k # 0 /\ str[v] = q /\ k <= refs[v])
          /\ <<v, k>> \in Tokens(q)' <=>
                (k = 0 /\ ret_str'[v] = q) \/ (k # 0 /\ str'[v] = q /\ k <= refs'[v])
          /\ k \in Nat
      BY <1>0, TokenIs
    <3>2. CASE v = t
      BY <1>0, <1>6, <3>1, <3>2
    <3>3. CASE v # t
      BY <1>6, <3>1, <3>3
    <3>4. QED
      BY <3>2, <3>3
  <2>2. \A q \in Strings : Tokens(q) \subseteq Threads \X (0..MaxRefs)
    BY DEF Tokens
  <2>3. Tokens(s)' = {}
    <3>1. \A v \in Threads, k \in 0..MaxRefs : <<v, k>> \in Tokens(s)' <=> <<v, k>> \in {}
      BY <1>3, <1>4, <2>1
    <3>2. QED
      BY <3>1, SameTokens
  <2>4. ASSUME r # Null PROVE Tokens(r)' = {<<t, 1>>}
    <3>1. \A v \in Threads, k \in 0..MaxRefs : <<v, k>> \in Tokens(r)' <=> <<v, k>> \in {<<t, 1>>}
      BY <1>7, <2>1, <2>4
    <3>2. {<<t, 1>>} \subseteq Threads \X (0..MaxRefs)
      BY <1>0
    <3>3. QED
      BY <3>1, <3>2, SameTokens
  <2>5. ASSUME NEW q \in Strings \ {s, r} PROVE Tokens(q)' = Tokens(q)
    <3>1. \A k \in 0..MaxRefs : <<t, k>> \notin Tokens(q)
      BY <1>2, <1>3, TokenIs
    <3>2. \A v \in Threads, k \in 0..MaxRefs : <<v, k>> \in Tokens(q)' <=> <<v, k>> \in Tokens(q)
      BY <2>1, <3>1
    <3>3. QED
      BY <2>2, <3>2, SameTokens
  <2>6. QED
    BY <2>3, <2>4, <2>5
<1>10. Counted'
  <2>1. IsFiniteSet(Tokens(s)') /\ ref_count'[s] = Cardinality(Tokens(s)')
    BY <1>6, <1>9, FS_EmptySet
  <2>2. ASSUME r # Null
        PROVE  IsFiniteSet(Tokens(r)') /\ ref_count'[r] = Cardinality(Tokens(r)')
    <3>1. IsFiniteSet({<<t, 1>>}) /\ Cardinality({<<t, 1>>}) = 1
      BY FS_Singleton
    <3>2. QED
      BY <1>6, <1>7, <1>9, <2>2, <3>1
  <2>3. ASSUME NEW q \in Strings \ {s, r}
        PROVE  IsFiniteSet(Tokens(q)') /\ ref_count'[q] = Cardinality(Tokens(q)')
    <3>1. Tokens(q)' = Tokens(q) /\ ref_count'[q] = ref_count[q]
      BY <1>6, <1>9
    <3>2. QED
      BY <3>1 DEF SharedInv, Counted
  <2>4. QED
    BY <1>0, <2>1, <2>2, <2>3 DEF Counted
<1>11. LiveStrings'
  <2>1. \A q \in live \ {s} : S!Dying(q) => S!Dying(q)'
    BY <1>1, <1>2, <1>5, <1>6 DEF S!Dying, SharedInv, S!TypeOK
  <2>2. \A q \in live' : Tokens(q)' # {} \/ S!Dying(q)'
    BY <1>0, <1>5, <1>9, <2>1 DEF SharedInv, LiveStrings, S!TypeOK
  <2>3. \A q \in Strings \ live' : Tokens(q)' = {}
    BY <1>0, <1>5, <1>7, <1>9 DEF SharedInv, LiveStrings
  <2>4. \A q \in live' : shared_bytes'[q] \in Contents
    BY <1>5, <1>6 DEF SharedInv, LiveStrings, S!TypeOK
  <2>5. \A v \in Threads \ late' : str'[v] # Null => str'[v] \in live'
    BY <1>5, <1>6, <1>7 DEF SharedInv, LiveStrings
  <2>6. \A v \in late' : pc'[v] \in {"check", "unlock"} /\ op'[v] # "ref" /\ refs'[v] = 0
    <3>1. SUFFICES ASSUME NEW v \in late'
                   PROVE  pc'[v] \in {"check", "unlock"} /\ op'[v] # "ref" /\ refs'[v] = 0
      OBVIOUS
    <3>2. v \in Threads \ {t}
      BY <1>1, <1>5, <3>1 DEF SharedInv, S!TypeOK
    <3>3. pc[v] \in {"check", "unlock"} /\ op[v] # "ref" /\ refs[v] = 0
      <4>1. CASE v \in late
        BY <4>1 DEF SharedInv, LiveStrings
      <4>2. CASE v \notin late
        <5>1. str[v] = s
          BY <1>5, <3>1, <4>2
        <5>2. refs[v] = 0 /\ str[v] # Null
          BY <1>0, <1>4, <3>2, <5>1
        <5>3. QED
          BY <3>2, <5>2, WithoutReference
      <4>3. QED
        BY <4>1, <4>2
    <3>4. QED
      BY <1>6, <3>2, <3>3
  <2>7. QED
    BY <2>2, <2>3, <2>4, <2>5, <2>6 DEF LiveStrings
<1>12. LockHeld'
  <2>1. \A v \in Threads : Owns(v)' => Owns(v) /\ v # t /\ str[v] # s
    BY <1>5, <1>6 DEF Owns
  <2>2. \A v \in Threads : Owns(v) => str[v] \in Strings
    BY DEF Owns, SharedInv, S!TypeOK, Stations, Station
  <2>3. QED
    BY <1>6, <2>1, <2>2 DEF SharedInv, LockHeld
<1>13. Stations'
  <2>1. ASSUME NEW v \in Threads \ {t} PROVE Station(v)'
    <3>1. /\ pc'[v] = pc[v] /\ op'[v] = op[v] /\ str'[v] = str[v] /\ refs'[v] = refs[v]
          /\ count'[v] = count[v] /\ ret_str'[v] = ret_str[v] /\ Station(v)
      BY <1>5, <1>6 DEF SharedInv, Stations
    <3>2. ret_str[v] # Null => ref_count'[ret_str[v]] = ref_count[ret_str[v]]
      BY <1>4, <1>6 DEF SharedInv, S!TypeOK
    <3>3. pc[v] \in {"write", "store"} => ref_count'[str[v]] = ref_count[str[v]]
      <4>1. SUFFICES ASSUME pc[v] \in {"write", "store"} PROVE str[v] \in Strings \ {s}
        BY <1>6
      <4>2. str[v] # Null /\ refs[v] > 0
        BY <3>1, <4>1 DEF Station
      <4>3. QED
        BY <1>4, <4>2 DEF SharedInv, S!TypeOK
    <3>4. QED
      BY <3>1, <3>2, <3>3 DEF Station
  <2>2. Station(t)'
    BY <1>0, <1>6, <1>7 DEF Station
  <2>3. QED
    BY <2>1, <2>2 DEF Stations
<1>14. QED
  BY <1>8, <1>10, <1>11, <1>12, <1>13 DEF SharedInv

(* What a thread knows that has not been late behind its decrement.        *)
LEMMA Behind ==
  ASSUME SharedInv, NEW t \in Threads, pc[t] \in {"check", "unlock"}, t \notin late
  PROVE  Station(t) /\ str[t] \in Strings /\ str[t] \in live /\ op[t] \in {"ref", "free", "edit"}
<1>1. Station(t) /\ str[t] # Null
  BY DEF SharedInv, Stations, Station
<1>2. QED
  BY <1>1 DEF SharedInv, S!TypeOK, LiveStrings, Station

LEMMA CheckLastStep ==
  ASSUME SharedInv, NEW t \in Threads, S!CheckLast(t)
  PROVE  SharedInv'
<1>0. Null \notin Strings /\ MaxRefs \in Nat \ {0} /\ refs \in [Threads -> 0..MaxRefs]
  BY BaseStringAssumption DEF S!SharedStringAssumption, SharedInv, S!TypeOK
<1>1. /\ pc[t] = "check" /\ t \notin late /\ Station(t) /\ str[t] \in Strings /\ str[t] \in live
      /\ op[t] \in {"free", "edit"}
      /\ pc' = [pc EXCEPT ![t] = "unlock"]
      /\ UNCHANGED <<op, str, refs, count, ret_str, undefined>>
  <2>1. pc[t] = "check" /\ t \notin late
    BY DEF S!CheckLast, S!At
  <2>2. Station(t) /\ str[t] \in Strings /\ str[t] \in live
    BY <2>1, Behind
  <2>3. pc' = [pc EXCEPT ![t] = "unlock"] /\ UNCHANGED <<op, str, refs, count, ret_str, undefined>>
    BY DEF S!CheckLast, S!Goto, S!Locals
  <2>4. QED
    BY <2>1, <2>2, <2>3 DEF Station
<1>2. PICK s \in Strings : s = str[t]
  BY <1>1
<1>3. (\A u \in Threads \ {t} : pc'[u] = pc[u]) /\ pc'[t] = "unlock" /\ pc' \in [Threads -> S!Places]
  BY <1>1 DEF SharedInv, S!TypeOK, S!Places
<1>4. \A q \in Strings : Tokens(q)' = Tokens(q)
  BY <1>1 DEF Tokens
<1>5. CASE ref_count[s] >= 1
  <2>1. UNCHANGED <<live, ref_count, lock, shared_bytes, late>>
    <3>1. ~(ref_count[str[t]] < 1)
      BY <1>2, <1>5 DEF SharedInv, S!TypeOK
    <3>2. QED
      BY <3>1 DEF S!CheckLast, S!Fields
  <2>2. S!TypeOK'
    BY <1>1, <1>3, <2>1 DEF SharedInv, S!TypeOK
  <2>3. Counted'
    BY <1>4, <2>1 DEF SharedInv, Counted
  <2>4. LiveStrings'
    <3>1. \A q \in Strings : S!Dying(q) => S!Dying(q)'
      BY <1>1, <1>2, <1>3, <1>5, <2>1 DEF S!Dying, SharedInv, S!TypeOK
    <3>2. \A q \in live' : Tokens(q)' # {} \/ S!Dying(q)'
      BY <1>4, <2>1, <3>1 DEF SharedInv, LiveStrings, S!TypeOK
    <3>3. \A v \in late' : pc'[v] \in {"check", "unlock"} /\ op'[v] # "ref" /\ refs'[v] = 0
      BY <1>1, <1>3, <2>1 DEF SharedInv, LiveStrings, S!TypeOK
    <3>4. QED
      BY <1>1, <1>4, <2>1, <3>2, <3>3 DEF SharedInv, LiveStrings
  <2>5. LockHeld'
    <3>1. \A v \in Threads : Owns(v)' => Owns(v)
      BY <1>1, <1>3, <2>1 DEF Owns
    <3>2. QED
      BY <1>1, <2>1, <3>1 DEF SharedInv, LockHeld
  <2>6. Stations'
    <3>1. \A v \in Threads \ {t} : Station(v)'
      BY <1>1, <1>3, <2>1 DEF SharedInv, Stations, Station
    <3>2. Station(t)'
      BY <1>1, <1>3, <2>1 DEF Station
    <3>3. QED
      BY <3>1, <3>2 DEF Stations
  <2>7. QED
    BY <2>2, <2>3, <2>4, <2>5, <2>6 DEF SharedInv
<1>6. CASE ref_count[s] < 1
  <2>1. /\ live' = live \ {s} /\ late' = late \cup {u \in Threads : str[u] = s}
        /\ ref_count' = [ref_count EXCEPT ![s] = 0] /\ lock' = [lock EXCEPT ![s] = 0]
        /\ shared_bytes' = [shared_bytes EXCEPT ![s] = Null]
    BY <1>2, <1>6 DEF S!CheckLast, S!Release
  <2>2. /\ \A q \in Strings \ {s} : /\ ref_count'[q] = ref_count[q] /\ lock'[q] = lock[q]
                                    /\ shared_bytes'[q] = shared_bytes[q]
        /\ ref_count'[s] = 0 /\ ref_count[s] = 0
    BY <1>6, <2>1 DEF SharedInv, S!TypeOK
  <2>3. Tokens(s) = {}
    BY <2>2, TokenCount
  <2>4. \A u \in Threads : ret_str[u] # s /\ (str[u] = s => refs[u] = 0)
    <3>1. SUFFICES ASSUME NEW u \in Threads PROVE ret_str[u] # s /\ (str[u] = s => refs[u] = 0)
      OBVIOUS
    <3>2. <<u, 0>> \notin Tokens(s) /\ <<u, 1>> \notin Tokens(s)
      BY <2>3
    <3>3. ret_str[u] # s
      BY <1>0, <3>2, TokenIs
    <3>4. str[u] = s => ~(refs[u] > 0)
      BY <3>2, HasToken
    <3>5. QED
      BY <1>0, <3>3, <3>4
  <2>5. S!TypeOK'
    <3>1. /\ live' \subseteq Strings /\ late' \subseteq Threads
          /\ ref_count' \in [Strings -> Nat] /\ lock' \in [Strings -> {0, 1}]
          /\ shared_bytes' \in [Strings -> Contents \cup {Null}]
      BY <2>1 DEF SharedInv, S!TypeOK
    <3>2. QED
      BY <1>1, <1>3, <3>1 DEF SharedInv, S!TypeOK
  <2>6. Counted'
    <3>1. \A q \in Strings : ref_count'[q] = ref_count[q]
      BY <2>2
    <3>2. QED
      BY <1>4, <3>1 DEF SharedInv, Counted
  <2>7. LiveStrings'
    <3>1. \A q \in Strings \ {s} : S!Dying(q) => S!Dying(q)'
      BY <1>1, <1>2, <1>3, <2>1, <2>2 DEF S!Dying
    <3>2. \A q \in live' : Tokens(q)' # {} \/ S!Dying(q)'
      BY <1>4, <2>1, <3>1 DEF SharedInv, LiveStrings, S!TypeOK
    <3>3. \A q \in Strings \ live' : Tokens(q)' = {}
      BY <1>4, <2>1, <2>3 DEF SharedInv, LiveStrings
    <3>4. \A q \in live' : shared_bytes'[q] \in Contents
      BY <2>1, <2>2 DEF SharedInv, LiveStrings, S!TypeOK
    <3>5. \A v \in Threads \ late' : str'[v] # Null => str'[v] \in live'
      BY <1>1, <2>1 DEF SharedInv, LiveStrings
    <3>6. ASSUME NEW v \in late'
          PROVE  pc'[v] \in {"check", "unlock"} /\ op'[v] # "ref" /\ refs'[v] = 0
      <4>1. v \in Threads
        BY <2>1, <3>6 DEF SharedInv, S!TypeOK
      <4>2. pc[v] \in {"check", "unlock"} /\ op[v] # "ref" /\ refs[v] = 0
        <5>1. CASE v \in late
          BY <5>1 DEF SharedInv, LiveStrings
        <5>2. CASE v \notin late
          <6>1. str[v] = s
            BY <2>1, <3>6, <5>2
          <6>2. refs[v] = 0 /\ str[v] # Null
            BY <1>0, <2>4, <4>1, <6>1
          <6>3. QED
            BY <4>1, <6>2, WithoutReference
        <5>3. QED
          BY <5>1, <5>2
      <4>3. QED
        BY <1>1, <1>3, <4>1, <4>2
    <3>7. QED
      BY <3>2, <3>3, <3>4, <3>5, <3>6 DEF LiveStrings
  <2>8. LockHeld'
    <3>1. \A v \in Threads : Owns(v)' => Owns(v) /\ str[v] # s
      BY <1>1, <1>3, <2>1 DEF Owns
    <3>2. \A v \in Threads : Owns(v) => str[v] \in Strings
      BY DEF Owns, SharedInv, S!TypeOK, Stations, Station
    <3>3. QED
      BY <1>1, <2>2, <3>1, <3>2 DEF SharedInv, LockHeld
  <2>9. Stations'
    <3>1. \A q \in Strings : ref_count'[q] = ref_count[q]
      BY <2>2
    <3>2. ASSUME NEW v \in Threads PROVE Station(v)'
      <4>1. /\ op'[v] = op[v] /\ str'[v] = str[v] /\ refs'[v] = refs[v]
            /\ count'[v] = count[v] /\ ret_str'[v] = ret_str[v] /\ Station(v)
        BY <1>1 DEF SharedInv, Stations
      <4>2. ret_str[v] # Null => ref_count'[ret_str[v]] = ref_count[ret_str[v]]
        BY <3>1 DEF SharedInv, S!TypeOK
      <4>3. str[v] # Null => ref_count'[str[v]] = ref_count[str[v]]
        BY <3>1 DEF SharedInv, S!TypeOK
      <4>4. CASE v = t
        BY <1>1, <1>3, <4>1, <4>2, <4>4 DEF Station
      <4>5. CASE v # t
        BY <1>3, <4>1, <4>2, <4>3, <4>5 DEF Station
      <4>6. QED
        BY <4>4, <4>5
    <3>3. QED
      BY <3>2 DEF Stations
  <2>10. QED
    BY <2>5, <2>6, <2>7, <2>8, <2>9 DEF SharedInv
<1>7. ref_count[s] \in Nat
  BY DEF SharedInv, S!TypeOK
<1>8. QED
  BY <1>5, <1>6, <1>7

LEMMA UnlockStep ==
  ASSUME SharedInv, NEW t \in Threads, S!Unlock(t)
  PROVE  SharedInv'
<1>0. Null \notin Strings /\ MaxRefs \in Nat \ {0} /\ refs \in [Threads -> 0..MaxRefs]
  BY BaseStringAssumption DEF S!SharedStringAssumption, SharedInv, S!TypeOK
<1>1. /\ pc[t] = "unlock" /\ t \notin late /\ Station(t) /\ str[t] \in Strings /\ str[t] \in live
      /\ S!Leave(t, refs[t]) /\ lock' = [lock EXCEPT ![str[t]] = 0]
      /\ UNCHANGED <<live, ref_count, shared_bytes, count, late, undefined>>
  <2>1. pc[t] = "unlock" /\ t \notin late
    BY DEF S!Unlock, S!At
  <2>2. Station(t) /\ str[t] \in Strings /\ str[t] \in live
    BY <2>1, Behind
  <2>3. QED
    BY <2>1, <2>2 DEF S!Unlock
<1>2. PICK s \in Strings : s = str[t]
  BY <1>1
<1>3. PICK r \in Strings \cup {Null} : r = ret_str[t]
  BY DEF SharedInv, S!TypeOK
<1>4. /\ refs' = [refs EXCEPT ![t] = IF r = Null THEN refs[t] ELSE 1]
      /\ str' = [str EXCEPT ![t] = IF refs[t] > 0 THEN s ELSE r]
      /\ ret_str' = [ret_str EXCEPT ![t] = Null] /\ op' = [op EXCEPT ![t] = "none"]
      /\ pc' = [pc EXCEPT ![t] = IF r = Null THEN "idle" ELSE "write"]
  BY <1>1, <1>2, <1>3 DEF S!Leave, S!Goto
<1>5. /\ \A u \in Threads \ {t} : /\ refs'[u] = refs[u] /\ pc'[u] = pc[u] /\ str'[u] = str[u]
                                  /\ ret_str'[u] = ret_str[u] /\ op'[u] = op[u]
      /\ refs'[t] = (IF r = Null THEN refs[t] ELSE 1)
      /\ str'[t] = (IF refs[t] > 0 THEN s ELSE r) /\ ret_str'[t] = Null
      /\ op'[t] = "none" /\ pc'[t] = (IF r = Null THEN "idle" ELSE "write")
      /\ \A q \in Strings \ {s} : lock'[q] = lock[q]
  BY <1>1, <1>2, <1>4 DEF SharedInv, S!TypeOK
<1>6. r # Null => /\ r \in live /\ ref_count[r] = 1 /\ Tokens(r) = {<<t, 0>>}
                  /\ op[t] = "edit" /\ refs[t] = 0
  BY <1>1, <1>3, SoleCopy DEF Station
<1>7. S!TypeOK'
  <2>1. lock' \in [Strings -> {0, 1}]
    BY <1>1 DEF SharedInv, S!TypeOK
  <2>2. /\ pc' \in [Threads -> S!Places] /\ op' \in [Threads -> {"none", "ref", "free", "edit"}]
        /\ str' \in [Threads -> Strings \cup {Null}] /\ ret_str' \in [Threads -> Strings \cup {Null}]
    BY <1>4 DEF SharedInv, S!TypeOK, S!Places
  <2>3. refs' \in [Threads -> 0..MaxRefs]
    BY <1>0, <1>4
  <2>4. QED
    BY <1>1, <2>1, <2>2, <2>3 DEF SharedInv, S!TypeOK
<1>8. /\ r # Null => Tokens(r)' = {<<t, 1>>}
      /\ \A q \in Strings \ {r} : Tokens(q)' = Tokens(q)
  <2>1. ASSUME NEW v \in Threads, NEW k \in 0..MaxRefs, NEW q \in Strings
        PROVE  <<v, k>> \in Tokens(q)' <=>
                    \/ q # r /\ <<v, k>> \in Tokens(q)
                    \/ v = t /\ k = 1 /\ q = r
    <3>1. /\ <<v, k>> \in Tokens(q) <=>
                (k = 0 /\ ret_str[v] = q) \/ (k # 0 /\ str[v] = q /\ k <= refs[v])
          /\ <<v, k>> \in Tokens(q)' <=>
                (k = 0 /\ ret_str'[v] = q) \/ (k # 0 /\ str'[v] = q /\ k <= refs'[v])
          /\ k \in Nat
      BY <1>0, TokenIs
    <3>2. CASE v = t
      <4>1. CASE r = Null
        <5>1. q # r /\ refs'[t] = refs[t] /\ refs[t] \in Nat /\ ret_str[t] # q /\ ret_str'[t] # q
          BY <1>0, <1>3, <1>5, <4>1
        <5>2. k # 0 /\ k <= refs[t] => (str'[t] = q <=> str[t] = q)
          BY <1>2, <1>5, <3>1, <5>1
        <5>3. QED
          BY <3>1, <3>2, <5>1, <5>2
      <4>2. CASE r # Null
        <5>1. refs'[t] = 1 /\ str'[t] = r /\ refs[t] = 0 /\ ret_str[t] = r /\ ret_str'[t] # q
          BY <1>0, <1>3, <1>5, <1>6, <4>2
        <5>2. (k # 0 /\ k <= 1 <=> k = 1) /\ ~(k # 0 /\ k <= 0)
          BY <3>1
        <5>3. QED
          BY <3>1, <3>2, <5>1, <5>2
      <4>3. QED
        BY <4>1, <4>2
    <3>3. CASE v # t
      <4>1. q = r => <<v, k>> \notin Tokens(q)
        BY <1>0, <1>6, <3>3
      <4>2. QED
        BY <1>5, <3>1, <3>3, <4>1
    <3>4. QED
      BY <3>2, <3>3
  <2>2. \A q \in Strings : Tokens(q) \subseteq Threads \X (0..MaxRefs)
    BY DEF Tokens
  <2>3. ASSUME r # Null PROVE Tokens(r)' = {<<t, 1>>}
    <3>1. \A v \in Threads, k \in 0..MaxRefs : <<v, k>> \in Tokens(r)' <=> <<v, k>> \in {<<t, 1>>}
      BY <2>1, <2>3
    <3>2. {<<t, 1>>} \subseteq Threads \X (0..MaxRefs)
      BY <1>0
    <3>3. QED
      BY <3>1, <3>2, SameTokens
  <2>4. ASSUME NEW q \in Strings \ {r} PROVE Tokens(q)' = Tokens(q)
    <3>1. \A v \in Threads, k \in 0..MaxRefs : <<v, k>> \in Tokens(q)' <=> <<v, k>> \in Tokens(q)
      BY <2>1
    <3>2. QED
      BY <2>2, <3>1, SameTokens
  <2>5. QED
    BY <2>3, <2>4
<1>9. Counted'
  <2>1. ASSUME r # Null
        PROVE  IsFiniteSet(Tokens(r)') /\ ref_count'[r] = Cardinality(Tokens(r)')
    <3>1. IsFiniteSet({<<t, 1>>}) /\ Cardinality({<<t, 1>>}) = 1
      BY FS_Singleton
    <3>2. QED
      BY <1>1, <1>6, <1>8, <2>1, <3>1
  <2>2. ASSUME NEW q \in Strings \ {r}
        PROVE  IsFiniteSet(Tokens(q)') /\ ref_count'[q] = Cardinality(Tokens(q)')
    <3>1. Tokens(q)' = Tokens(q) /\ ref_count'[q] = ref_count[q]
      BY <1>1, <1>8
    <3>2. QED
      BY <3>1 DEF SharedInv, Counted
  <2>3. QED
    BY <1>0, <2>1, <2>2 DEF Counted
<1>10. LiveStrings'
  <2>1. \A q \in live : S!Dying(q) => S!Dying(q)'
    BY <1>1, <1>5 DEF S!Dying, SharedInv, S!TypeOK
  <2>2. \A q \in live' : Tokens(q)' # {} \/ S!Dying(q)'
    BY <1>0, <1>1, <1>8, <2>1 DEF SharedInv, LiveStrings, S!TypeOK
  <2>3. \A q \in Strings \ live' : Tokens(q)' = {}
    BY <1>0, <1>1, <1>6, <1>8 DEF SharedInv, LiveStrings
  <2>4. \A v \in Threads \ late' : str'[v] # Null => str'[v] \in live'
    BY <1>1, <1>2, <1>5, <1>6 DEF SharedInv, LiveStrings
  <2>5. \A v \in late' : pc'[v] \in {"check", "unlock"} /\ op'[v] # "ref" /\ refs'[v] = 0
    BY <1>1, <1>5 DEF SharedInv, LiveStrings, S!TypeOK
  <2>6. QED
    BY <1>1, <2>2, <2>3, <2>4, <2>5 DEF SharedInv, LiveStrings
<1>11. LockHeld'
  <2>1. Owns(t)
    BY <1>1 DEF Owns
  <2>2. \A v \in Threads : Owns(v)' => Owns(v) /\ v # t
    BY <1>1, <1>5 DEF Owns
  <2>3. \A v \in Threads : Owns(v) => str[v] \in Strings
    BY DEF Owns, SharedInv, S!TypeOK, Stations, Station
  <2>4. \A v \in Threads : Owns(v)' => str[v] # s
    BY <1>2, <2>1, <2>2 DEF SharedInv, LockHeld
  <2>5. QED
    BY <1>5, <2>2, <2>3, <2>4 DEF SharedInv, LockHeld
<1>12. Stations'
  <2>1. ASSUME NEW v \in Threads \ {t} PROVE Station(v)'
    <3>1. /\ pc'[v] = pc[v] /\ op'[v] = op[v] /\ str'[v] = str[v] /\ refs'[v] = refs[v]
          /\ count'[v] = count[v] /\ ret_str'[v] = ret_str[v] /\ Station(v)
      BY <1>1, <1>5 DEF SharedInv, Stations
    <3>2. QED
      BY <1>1, <3>1 DEF Station
  <2>2. Station(t)'
    <3>1. CASE r = Null
      BY <1>0, <1>5, <3>1 DEF Station
    <3>2. CASE r # Null
      BY <1>0, <1>1, <1>5, <1>6, <3>2 DEF Station
    <3>3. QED
      BY <3>1, <3>2
  <2>3. QED
    BY <2>1, <2>2 DEF Stations
<1>13. QED
  BY <1>7, <1>9, <1>10, <1>11, <1>12 DEF SharedInv

LEMMA SharedStepInv == SharedInv /\ [S!Next]_sharedVars => SharedInv'
<1> SUFFICES ASSUME SharedInv, [S!Next]_sharedVars PROVE SharedInv'
  OBVIOUS
<1>1. ASSUME NEW t \in Threads, S!Step(t) PROVE SharedInv'
  <2>1. CASE S!refString(t) \/ S!freeString(t) \/ S!editString(t)
    BY <2>1, Calls
  <2>2. CASE S!CloneFails(t) \/ S!FreeShared(t) \/ S!LockInt(t) \/ S!Load(t)
    BY <2>2, Looks
  <2>3. CASE S!AllocWithoutBytes(t) \/ S!TouchFreed(t)
    BY <2>3, Ends
  <2>4. CASE S!allocString(t)
    BY <2>4, AllocStep
  <2>5. CASE S!Write(t)
    BY <2>5, WriteStep
  <2>6. CASE \E u \in Threads : S!Pass(t, u)
    BY <2>6, PassStep
  <2>7. CASE S!cloneString(t)
    BY <2>7, CloneStep
  <2>8. CASE S!FreeAlone(t)
    BY <2>8, FreeAloneStep
  <2>9. CASE S!StoreMore(t)
    BY <2>9, StoreMoreStep
  <2>10. CASE S!StoreLess(t)
    BY <2>10, StoreLessStep
  <2>11. CASE S!CheckLast(t)
    BY <2>11, CheckLastStep
  <2>12. CASE S!Unlock(t)
    BY <2>12, UnlockStep
  <2>13. QED
    BY <1>1, <2>1, <2>2, <2>3, <2>4, <2>5, <2>6, <2>7, <2>8, <2>9, <2>10, <2>11, <2>12 DEF S!Step
<1>2. CASE S!Halted
  BY <1>2, Ends
<1>3. CASE UNCHANGED sharedVars
  <2>1. \A s : Tokens(s)' = Tokens(s)
    BY <1>3 DEF sharedVars, Tokens
  <2>2. S!TypeOK' /\ Stations' /\ LockHeld'
    BY <1>3 DEF sharedVars, SharedInv, S!TypeOK, Stations, Station, LockHeld, Owns
  <2>3. Counted' /\ LiveStrings'
    BY <1>3, <2>1 DEF sharedVars, SharedInv, Counted, LiveStrings, S!Dying
  <2>4. QED
    BY <2>2, <2>3 DEF SharedInv
<1>4. QED
  BY <1>1, <1>2, <1>3 DEF S!Next

LEMMA SharedTheorem == StringsSpec => []SharedInv
<1>1. StringsInit => SharedInv
  BY SharedInit DEF StringsInit
<1>2. SharedInv /\ [StringsNext]_<<sharedVars, vars>> => SharedInv'
  BY SharedStepInv DEF StringsNext, SharedStep, OwnerStep
<1> QED
  BY <1>1, <1>2, PTL DEF StringsSpec

(* A string is allocated exactly as long as somebody has a reference to    *)
(* it, for any number of threads, strings and references: what freeString  *)
(* and editString read without the lock tells them enough.                 *)
THEOREM StringsLiveLongEnough == StringsSpec => []LiveWhileReferenced
<1>1. ASSUME SharedInv PROVE LiveWhileReferenced
  <2>0. Null \notin Strings /\ MaxRefs \in Nat \ {0}
    BY BaseStringAssumption DEF S!SharedStringAssumption
  <2>1. ASSUME NEW s \in Strings, S!Referenced(s) PROVE s \in live
    <3>1. PICK t \in Threads : (str[t] = s /\ refs[t] > 0) \/ ret_str[t] = s
      BY <2>1 DEF S!Referenced
    <3>2. CASE ret_str[t] = s
      BY <1>1, <2>0, <3>2, SoleCopy
    <3>3. CASE str[t] = s /\ refs[t] > 0
      BY <1>1, <3>3, HasToken DEF SharedInv, LiveStrings
    <3>4. QED
      BY <3>1, <3>2, <3>3
  <2>2. ASSUME NEW s \in Strings, S!Dying(s) PROVE s \in live
    BY <1>1, <2>0, <2>2 DEF S!Dying, SharedInv, LiveStrings
  <2>3. ASSUME NEW s \in live, ~S!Dying(s) PROVE S!Referenced(s)
    <3>1. s \in Strings
      BY <1>1, <2>3 DEF SharedInv, S!TypeOK
    <3>2. Tokens(s) # {}
      BY <1>1, <2>3 DEF SharedInv, LiveStrings
    <3>3. PICK t \in Threads, k \in 0..MaxRefs : <<t, k>> \in Tokens(s)
      BY <3>2 DEF Tokens
    <3>4. ret_str[t] = s \/ (k # 0 /\ str[t] = s /\ k <= refs[t])
      BY <3>3, TokenIs
    <3>5. refs[t] \in Nat
      BY <1>1, <2>0 DEF SharedInv, S!TypeOK
    <3>6. QED
      BY <2>0, <3>4, <3>5 DEF S!Referenced
  <2>4. QED
    BY <1>1, <2>1, <2>2, <2>3 DEF LiveWhileReferenced, S!LiveWhileReferenced, SharedInv, S!TypeOK
<1> QED
  BY <1>1, SharedTheorem, PTL

(* Of all code of the file, only the rest of freeString behind its         *)
(* decrement may meet a string that was freed.                             *)
THEOREM OnlyFreeIsLate == StringsSpec => []OnlyRestOfFreeIsLate
<1>1. SharedInv => OnlyRestOfFreeIsLate
  BY DEF SharedInv, LiveStrings, OnlyRestOfFreeIsLate, S!OnlyRestOfFreeIsLate
<1> QED
  BY <1>1, SharedTheorem, PTL

(* The string of one owner is edited in the whole of the file as it is by  *)
(* itself.                                                                 *)
LEMMA OwnerAlone == StringsSpec => Spec
<1>1. StringsInit => Init
  BY DEF StringsInit
<1>2. [StringsNext]_<<sharedVars, vars>> => [Next]_vars
  BY DEF StringsNext, SharedStep, OwnerStep
<1> QED
  BY <1>1, <1>2, PTL DEF StringsSpec, Spec

(* Among the strings that are shared, one owner's string is edited as it   *)
(* is alone: what is proved above of its buffer, its end and its text      *)
(* holds, with the same exceptions.                                        *)
THEOREM OwnerIsUndisturbed ==
  StringsSpec => []OnlySmallOrDestroyedFault /\ OnlyCopyLeavesOpen /\ ImplementsText
BY OwnerAlone, StaysInside, OthersTerminate, BufferKeepsText

-----------------------------------------------------------------------------
(* Every thread sees the edits of its own                                  *)
Values == [t \in Threads |-> S!Mine(t)]

LEMMA ValueInit == S!Init => S!V!Init
BY DEF S!Init, S!V!Init, S!Mine

(* Where a thread has its value.                                           *)
LEMMA ValueIs ==
  ASSUME SharedInv, NEW t \in Threads
  PROVE  /\ ret_str[t] # Null => S!Mine(t) = shared_bytes[ret_str[t]] /\ S!Mine(t) # Null
         /\ ret_str[t] = Null /\ refs[t] = 0 => S!Mine(t) = Null
         /\ ret_str[t] = Null /\ refs[t] # 0 => S!Mine(t) = shared_bytes[str[t]] /\ S!Mine(t) # Null
         /\ refs[t] # 0 => str[t] \in Strings /\ refs[t] > 0
<1>0. Null \notin Contents /\ MaxRefs \in Nat \ {0} /\ refs[t] \in 0..MaxRefs
  BY BaseStringAssumption DEF S!SharedStringAssumption, SharedInv, S!TypeOK
<1>1. ASSUME ret_str[t] # Null PROVE shared_bytes[ret_str[t]] # Null
  BY <1>0, <1>1, SoleCopy DEF SharedInv, LiveStrings
<1>2. refs[t] # 0 => str[t] # Null
  BY DEF SharedInv, Stations, Station
<1>3. ASSUME refs[t] # 0 PROVE str[t] \in Strings /\ shared_bytes[str[t]] # Null /\ refs[t] > 0
  <2>1. str[t] \in Strings /\ refs[t] > 0
    BY <1>0, <1>2, <1>3 DEF SharedInv, S!TypeOK
  <2>2. Tokens(str[t]) # {}
    BY <2>1, HasToken
  <2>3. str[t] \in live
    BY <2>1, <2>2 DEF SharedInv, LiveStrings
  <2>4. QED
    BY <1>0, <2>1, <2>3 DEF SharedInv, LiveStrings
<1>4. QED
  BY <1>1, <1>3 DEF S!Mine

(* A thread does not notice what happens to a string that it does not      *)
(* refer to.                                                               *)
LEMMA OtherValue ==
  ASSUME SharedInv, NEW t \in Threads, NEW s,
         str'[t] = str[t], refs'[t] = refs[t], ret_str'[t] = ret_str[t],
         \A q \in Strings \ {s} : shared_bytes'[q] = shared_bytes[q],
         ret_str[t] # s, str[t] = s => refs[t] = 0
  PROVE  S!Mine(t)' = S!Mine(t)
<1>1. ret_str[t] # Null => ret_str[t] \in Strings
  BY DEF SharedInv, S!TypeOK
<1>2. refs[t] # 0 => str[t] \in Strings
  BY ValueIs
<1>3. QED
  BY <1>1, <1>2 DEF S!Mine

LEMMA CreateStep ==
  ASSUME SharedInv, NEW t \in Threads, S!allocString(t)
  PROVE  S!V!Next
<1>1. /\ pc[t] = "idle" /\ str[t] = Null /\ UNCHANGED ret_str /\ refs' = [refs EXCEPT ![t] = 1]
  BY DEF S!allocString, S!At
<1>2. PICK s \in Strings, c \in Contents : S!New(s, c) /\ str' = [str EXCEPT ![t] = s]
  BY DEF S!allocString
<1>3. /\ s \notin live /\ shared_bytes'[s] = c
      /\ \A q \in Strings \ {s} : shared_bytes'[q] = shared_bytes[q]
  BY <1>2 DEF S!New, SharedInv, S!TypeOK
<1>4. ret_str[t] = Null /\ refs[t] = 0
  BY <1>1 DEF SharedInv, Stations, Station
<1>5. S!Mine(t) = Null
  BY <1>4, ValueIs
<1>6. S!Mine(t)' = c
  BY <1>1, <1>2, <1>3, <1>4 DEF S!Mine, SharedInv, S!TypeOK
<1>7. ASSUME NEW u \in Threads, u # t PROVE S!Mine(u)' = S!Mine(u)
  <2>1. str'[u] = str[u] /\ refs'[u] = refs[u] /\ ret_str'[u] = ret_str[u]
    BY <1>1, <1>2, <1>7 DEF SharedInv, S!TypeOK
  <2>2. ret_str[u] # s /\ Tokens(s) = {}
    BY <1>3, Unknown
  <2>3. str[u] = s => refs[u] = 0
    BY <2>2, HasToken, ValueIs, <1>7
  <2>4. QED
    BY <1>3, <2>1, <2>2, <2>3, OtherValue
<1>8. Values' = [Values EXCEPT ![t] = c] /\ Values[t] = Null
  BY <1>5, <1>6, <1>7 DEF Values
<1>9. S!V!Create(t, c)
  BY <1>8 DEF Values, S!V!Create
<1>10. QED
  BY <1>9 DEF S!V!Next

LEMMA GiveStep ==
  ASSUME SharedInv, NEW t \in Threads, NEW u \in Threads, S!Pass(t, u)
  PROVE  S!V!Next
<1>1. /\ pc[t] = "idle" /\ pc[u] = "idle" /\ str[u] = Null /\ refs[t] > 1
      /\ UNCHANGED <<shared_bytes, ret_str>> /\ refs[t] \in Nat
      /\ str' = [str EXCEPT ![u] = str[t]] /\ refs' = [refs EXCEPT ![t] = @ - 1, ![u] = 1]
  BY BaseStringAssumption
  DEF S!SharedStringAssumption, S!Pass, S!At, S!Fields, SharedInv, S!TypeOK
<1>2. /\ ret_str[t] = Null /\ ret_str[u] = Null /\ refs[u] = 0 /\ t # u /\ refs[t] # 0
  BY <1>1 DEF SharedInv, Stations, Station
<1>3. /\ refs'[t] # 0 /\ refs'[u] = 1 /\ str'[t] = str[t] /\ str'[u] = str[t]
      /\ \A v \in Threads \ {t, u} : refs'[v] = refs[v] /\ str'[v] = str[v]
  BY <1>1, <1>2 DEF SharedInv, S!TypeOK
<1>4. S!Mine(t) # Null /\ S!Mine(t) = shared_bytes[str[t]] /\ S!Mine(u) = Null
  BY <1>2, ValueIs
<1>5. S!Mine(t)' = S!Mine(t) /\ S!Mine(u)' = S!Mine(t)
  BY <1>1, <1>2, <1>3, <1>4 DEF S!Mine
<1>6. ASSUME NEW v \in Threads \ {t, u} PROVE S!Mine(v)' = S!Mine(v)
  <2>1. refs'[v] = refs[v] /\ str'[v] = str[v] /\ ret_str' = ret_str /\ shared_bytes' = shared_bytes
    BY <1>1, <1>3
  <2>2. QED
    BY <2>1 DEF S!Mine
<1>7. Values' = [Values EXCEPT ![u] = Values[t]] /\ Values[t] # Null /\ Values[u] = Null
  BY <1>4, <1>5, <1>6 DEF Values
<1>8. S!V!Give(t, u)
  BY <1>7 DEF Values, S!V!Give
<1>9. QED
  BY <1>8 DEF S!V!Next

LEMMA EditStep ==
  ASSUME SharedInv, NEW t \in Threads, S!Write(t)
  PROVE  S!V!Next
<1>1. pc[t] = "write" /\ UNCHANGED <<str, refs, ret_str>>
  BY DEF S!Write, S!At, S!Locals
<1>2. PICK c \in Contents : shared_bytes' = [shared_bytes EXCEPT ![str[t]] = c]
  BY DEF S!Write
<1>3. refs[t] = 1 /\ ref_count[str[t]] = 1 /\ ret_str[t] = Null
  BY <1>1 DEF SharedInv, Stations, Station
<1>4. PICK s \in Strings : s = str[t]
  BY <1>3, ValueIs
<1>5. shared_bytes'[s] = c /\ \A q \in Strings \ {s} : shared_bytes'[q] = shared_bytes[q]
  BY <1>2, <1>4 DEF SharedInv, S!TypeOK
<1>6. S!Mine(t) # Null /\ S!Mine(t)' = c
  <2>1. S!Mine(t) # Null
    BY <1>3, ValueIs
  <2>2. S!Mine(t)' = c
    BY <1>1, <1>3, <1>4, <1>5 DEF S!Mine
  <2>3. QED
    BY <2>1, <2>2
<1>7. ASSUME NEW u \in Threads, u # t PROVE S!Mine(u)' = S!Mine(u)
  <2>1. (str[u] = s => refs[u] = 0) /\ ret_str[u] # s
    BY <1>3, <1>4, <1>7, Sole
  <2>2. QED
    BY <1>1, <1>5, <2>1, OtherValue
<1>8. Values' = [Values EXCEPT ![t] = c] /\ Values[t] # Null
  BY <1>6, <1>7 DEF Values
<1>9. S!V!Edit(t, c)
  BY <1>8 DEF Values, S!V!Edit
<1>10. QED
  BY <1>9 DEF S!V!Next

LEMMA CopyStep ==
  ASSUME SharedInv, NEW t \in Threads, S!cloneString(t)
  PROVE  Values' = Values
<1>1. pc[t] = "clone" /\ UNCHANGED <<str, refs>>
  BY DEF S!cloneString, S!At
<1>2. PICK s \in Strings : S!New(s, shared_bytes[str[t]]) /\ ret_str' = [ret_str EXCEPT ![t] = s]
  BY DEF S!cloneString
<1>3. /\ s \notin live /\ shared_bytes'[s] = shared_bytes[str[t]]
      /\ \A q \in Strings \ {s} : shared_bytes'[q] = shared_bytes[q]
  BY <1>2 DEF S!New, SharedInv, S!TypeOK
<1>4. ret_str[t] = Null /\ refs[t] = 1
  BY <1>1 DEF SharedInv, Stations, Station
<1>5. S!Mine(t)' = S!Mine(t)
  <2>1. ret_str'[t] = s /\ s # Null
    BY <1>2, BaseStringAssumption DEF SharedInv, S!TypeOK, S!SharedStringAssumption
  <2>2. S!Mine(t) = shared_bytes[str[t]]
    BY <1>4, ValueIs
  <2>3. QED
    BY <1>3, <2>1, <2>2 DEF S!Mine
<1>6. ASSUME NEW u \in Threads, u # t PROVE S!Mine(u)' = S!Mine(u)
  <2>1. str'[u] = str[u] /\ refs'[u] = refs[u] /\ ret_str'[u] = ret_str[u]
    BY <1>1, <1>2, <1>6 DEF SharedInv, S!TypeOK
  <2>2. ret_str[u] # s /\ Tokens(s) = {}
    BY <1>3, Unknown
  <2>3. str[u] = s => refs[u] = 0
    BY <2>2, HasToken, ValueIs, <1>6
  <2>4. QED
    BY <1>3, <2>1, <2>2, <2>3, OtherValue
<1>7. QED
  BY <1>5, <1>6 DEF Values

(* freeString of the only owner: the value is gone, unless editString has  *)
(* made its copy.                                                          *)
LEMMA DropAlone ==
  ASSUME SharedInv, NEW t \in Threads, S!FreeAlone(t)
  PROVE  S!V!Next \/ Values' = Values
<1>0. Null \notin Strings
  BY BaseStringAssumption DEF S!SharedStringAssumption
<1>1. /\ pc[t] = "free" /\ ref_count[str[t]] < 2 /\ S!Leave(t, refs[t] - 1)
      /\ shared_bytes' = [shared_bytes EXCEPT ![str[t]] = Null]
  BY DEF S!FreeAlone, S!At, S!Alone, S!Release
<1>2. refs[t] # 0
  BY <1>1, BaseStringAssumption
  DEF SharedInv, Stations, Station, S!TypeOK, S!SharedStringAssumption
<1>3. str[t] \in Strings /\ refs[t] > 0
  BY <1>2, ValueIs
<1>4. PICK s \in Strings : s = str[t]
  BY <1>3
<1>5. /\ refs[t] = 1
      /\ \A u \in Threads : /\ u # t /\ str[u] = s => refs[u] = 0
                            /\ ret_str[u] # s
  BY <1>1, <1>3, <1>4, Sole
<1>6. /\ refs' = [refs EXCEPT ![t] = IF ret_str[t] = Null THEN 0 ELSE 1]
      /\ str' = [str EXCEPT ![t] = ret_str[t]] /\ ret_str' = [ret_str EXCEPT ![t] = Null]
  <2>1. refs[t] - 1 = 0
    BY <1>5
  <2>2. S!Leave(t, 0)
    BY <1>1, <2>1
  <2>3. QED
    BY <2>2 DEF S!Leave
<1>7. /\ refs'[t] = (IF ret_str[t] = Null THEN 0 ELSE 1) /\ str'[t] = ret_str[t] /\ ret_str'[t] = Null
      /\ \A q \in Strings \ {s} : shared_bytes'[q] = shared_bytes[q]
  BY <1>1, <1>4, <1>6 DEF SharedInv, S!TypeOK
<1>8. ASSUME NEW u \in Threads, u # t PROVE S!Mine(u)' = S!Mine(u)
  <2>1. str'[u] = str[u] /\ refs'[u] = refs[u] /\ ret_str'[u] = ret_str[u]
    BY <1>6, <1>8 DEF SharedInv, S!TypeOK
  <2>2. QED
    BY <1>5, <1>7, <1>8, <2>1, OtherValue
<1>9. CASE ret_str[t] = Null
  <2>1. S!Mine(t)' = Null
    BY <1>7, <1>9 DEF S!Mine
  <2>2. Values' = [Values EXCEPT ![t] = Null]
    BY <1>8, <2>1 DEF Values
  <2>3. S!V!Drop(t)
    BY <2>2 DEF Values, S!V!Drop
  <2>4. QED
    BY <2>3 DEF S!V!Next
<1>10. CASE ret_str[t] # Null
  <2>1. S!Mine(t)' = shared_bytes'[ret_str[t]]
    BY <1>7, <1>10 DEF S!Mine
  <2>2. ret_str[t] \in Strings \ {s} /\ S!Mine(t) = shared_bytes[ret_str[t]]
    BY <1>5, <1>10, SoleCopy, ValueIs
  <2>3. Values' = Values
    BY <1>7, <1>8, <2>1, <2>2 DEF Values
  <2>4. QED
    BY <2>3
<1>11. QED
  BY <1>9, <1>10

(* The decrement of an owner among others.                                 *)
LEMMA DropShared ==
  ASSUME SharedInv, NEW t \in Threads, S!StoreLess(t)
  PROVE  S!V!Next \/ Values' = Values
<1>1. /\ pc[t] = "store" /\ UNCHANGED <<shared_bytes, str, ret_str>>
      /\ refs' = [refs EXCEPT ![t] = refs[t] - 1]
  BY DEF S!StoreLess, S!At
<1>2. refs[t] # 0 /\ refs'[t] = refs[t] - 1 /\ refs[t] \in Nat
  BY <1>1, BaseStringAssumption
  DEF SharedInv, Stations, Station, S!TypeOK, S!SharedStringAssumption
<1>3. ASSUME NEW u \in Threads, u # t PROVE S!Mine(u)' = S!Mine(u)
  <2>1. refs'[u] = refs[u]
    BY <1>1, <1>3 DEF SharedInv, S!TypeOK
  <2>2. QED
    BY <1>1, <2>1 DEF S!Mine
<1>4. CASE ret_str[t] = Null /\ refs[t] = 1
  <2>1. S!Mine(t)' = Null
    BY <1>1, <1>2, <1>4 DEF S!Mine
  <2>2. Values' = [Values EXCEPT ![t] = Null]
    BY <1>3, <2>1 DEF Values
  <2>3. S!V!Drop(t)
    BY <2>2 DEF Values, S!V!Drop
  <2>4. QED
    BY <2>3 DEF S!V!Next
<1>5. CASE ~(ret_str[t] = Null /\ refs[t] = 1)
  <2>1. refs[t] # 1 => refs'[t] # 0
    BY <1>2
  <2>2. S!Mine(t)' = S!Mine(t)
    BY <1>1, <1>2, <1>5, <2>1 DEF S!Mine
  <2>3. Values' = Values
    BY <1>3, <2>2 DEF Values
  <2>4. QED
    BY <2>3
<1>6. QED
  BY <1>4, <1>5

LEMMA MoreStep ==
  ASSUME SharedInv, NEW t \in Threads, S!StoreMore(t)
  PROVE  Values' = Values
<1>1. /\ pc[t] = "store" /\ UNCHANGED <<shared_bytes, str, ret_str>>
      /\ refs' = [refs EXCEPT ![t] = refs[t] + 1]
  BY DEF S!StoreMore, S!At
<1>2. refs[t] # 0 /\ refs'[t] # 0
  BY <1>1, BaseStringAssumption
  DEF SharedInv, Stations, Station, S!TypeOK, S!SharedStringAssumption
<1>3. ASSUME NEW u \in Threads PROVE S!Mine(u)' = S!Mine(u)
  <2>1. refs'[u] = 0 <=> refs[u] = 0
    BY <1>1, <1>2 DEF SharedInv, S!TypeOK
  <2>2. QED
    BY <1>1, <2>1 DEF S!Mine
<1>4. QED
  BY <1>3 DEF Values

(* The string that is freed is nobody's value.                             *)
LEMMA LastStep ==
  ASSUME SharedInv, NEW t \in Threads, S!CheckLast(t)
  PROVE  Values' = Values
<1>0. MaxRefs \in Nat \ {0} /\ Null \notin Strings
  BY BaseStringAssumption DEF S!SharedStringAssumption
<1>1. pc[t] = "check" /\ t \notin late /\ UNCHANGED <<str, refs, ret_str>>
  BY DEF S!CheckLast, S!At, S!Locals
<1>2. str[t] \in Strings
  BY <1>1, Behind
<1>3. PICK s \in Strings : s = str[t]
  BY <1>2
<1>4. CASE ref_count[s] < 1
  <2>1. shared_bytes' = [shared_bytes EXCEPT ![s] = Null]
    BY <1>3, <1>4 DEF S!CheckLast, S!Release
  <2>2. Tokens(s) = {}
    <3>1. ref_count[s] = 0
      BY <1>4, TokenCount
    <3>2. QED
      BY <3>1, TokenCount
  <2>3. ASSUME NEW u \in Threads PROVE S!Mine(u)' = S!Mine(u)
    <3>1. ret_str[u] # s
      <4>1. <<u, 0>> \notin Tokens(s) /\ 0 \in 0..MaxRefs
        BY <1>0, <2>2
      <4>2. QED
        BY <4>1, TokenIs
    <3>2. str[u] = s => refs[u] = 0
      BY <2>2, HasToken, ValueIs
    <3>3. \A q \in Strings \ {s} : shared_bytes'[q] = shared_bytes[q]
      BY <2>1 DEF SharedInv, S!TypeOK
    <3>4. QED
      BY <1>1, <3>1, <3>2, <3>3, OtherValue
  <2>4. QED
    BY <2>3 DEF Values
<1>5. CASE ~(ref_count[s] < 1)
  <2>1. UNCHANGED shared_bytes
    BY <1>3, <1>5 DEF S!CheckLast, S!Fields
  <2>2. QED
    BY <1>1, <2>1 DEF Values, S!Mine
<1>6. QED
  BY <1>4, <1>5

(* The copy takes the place of the string it was made from.                *)
LEMMA ReturnStep ==
  ASSUME SharedInv, NEW t \in Threads, S!Unlock(t)
  PROVE  Values' = Values
<1>0. Null \notin Strings
  BY BaseStringAssumption DEF S!SharedStringAssumption
<1>1. /\ pc[t] = "unlock" /\ t \notin late /\ UNCHANGED shared_bytes
      /\ refs' = [refs EXCEPT ![t] = IF ret_str[t] = Null THEN refs[t] ELSE 1]
      /\ str' = [str EXCEPT ![t] = IF refs[t] > 0 THEN @ ELSE ret_str[t]]
      /\ ret_str' = [ret_str EXCEPT ![t] = Null]
  BY DEF S!Unlock, S!At, S!Leave
<1>2. /\ refs'[t] = (IF ret_str[t] = Null THEN refs[t] ELSE 1) /\ ret_str'[t] = Null
      /\ str'[t] = (IF refs[t] > 0 THEN str[t] ELSE ret_str[t])
      /\ \A u \in Threads \ {t} : /\ refs'[u] = refs[u] /\ str'[u] = str[u]
                                  /\ ret_str'[u] = ret_str[u]
  BY <1>1 DEF SharedInv, S!TypeOK
<1>3. ASSUME NEW u \in Threads, u # t PROVE S!Mine(u)' = S!Mine(u)
  <2>1. refs'[u] = refs[u] /\ str'[u] = str[u] /\ ret_str'[u] = ret_str[u] /\ shared_bytes' = shared_bytes
    BY <1>1, <1>2, <1>3
  <2>2. QED
    BY <2>1 DEF S!Mine
<1>4. S!Mine(t)' = S!Mine(t)
  <2>1. CASE ret_str[t] = Null
    <3>1. refs'[t] = refs[t] /\ (refs[t] # 0 => str'[t] = str[t])
      BY <1>2, <2>1, ValueIs
    <3>2. QED
      BY <1>1, <1>2, <2>1, <3>1 DEF S!Mine
  <2>2. CASE ret_str[t] # Null
    <3>1. op[t] = "edit"
      BY <2>2, SoleCopy
    <3>2. refs[t] = 0
      BY <1>1, <3>1 DEF SharedInv, Stations, Station
    <3>3. QED
      BY <1>1, <1>2, <2>2, <3>2 DEF S!Mine
  <2>3. QED
    BY <2>1, <2>2
<1>5. QED
  BY <1>3, <1>4 DEF Values

LEMMA ValueStep ==
  ASSUME SharedInv, [S!Next]_sharedVars
  PROVE  S!V!Next \/ Values' = Values
<1>1. ASSUME NEW t \in Threads, S!Step(t) PROVE S!V!Next \/ Values' = Values
  <2>1. CASE \/ S!refString(t) \/ S!freeString(t) \/ S!editString(t) \/ S!CloneFails(t)
             \/ S!AllocWithoutBytes(t) \/ S!FreeShared(t) \/ S!LockInt(t) \/ S!Load(t)
             \/ S!TouchFreed(t)
    <3>1. UNCHANGED <<shared_bytes, str, refs, ret_str>>
      BY <2>1 DEF S!refString, S!freeString, S!editString, S!CloneFails, S!AllocWithoutBytes,
                  S!FreeShared, S!LockInt, S!Load, S!TouchFreed, S!Fields, S!Locals
    <3>2. QED
      BY <3>1 DEF Values, S!Mine
  <2>2. CASE S!allocString(t)
    BY <2>2, CreateStep
  <2>3. CASE \E u \in Threads : S!Pass(t, u)
    BY <2>3, GiveStep
  <2>4. CASE S!Write(t)
    BY <2>4, EditStep
  <2>5. CASE S!cloneString(t)
    BY <2>5, CopyStep
  <2>6. CASE S!FreeAlone(t)
    BY <2>6, DropAlone
  <2>7. CASE S!StoreLess(t)
    BY <2>7, DropShared
  <2>8. CASE S!StoreMore(t)
    BY <2>8, MoreStep
  <2>9. CASE S!CheckLast(t)
    BY <2>9, LastStep
  <2>10. CASE S!Unlock(t)
    BY <2>10, ReturnStep
  <2>11. QED
    BY <1>1, <2>1, <2>2, <2>3, <2>4, <2>5, <2>6, <2>7, <2>8, <2>9, <2>10 DEF S!Step
<1>2. CASE S!Halted
  BY <1>2 DEF S!Halted, S!vars, Values, S!Mine
<1>3. CASE UNCHANGED sharedVars
  BY <1>3 DEF sharedVars, Values, S!Mine
<1>4. QED
  BY <1>1, <1>2, <1>3 DEF S!Next

(* Copying on write keeps the threads apart: the strings, with all that    *)
(* happens to their counts and locks, implement threads that each have a   *)
(* value of their own (OwnValues).                                         *)
THEOREM ThreadsKeepTheirValues == StringsSpec => ImplementsOwnValues
<1>1. StringsInit => S!V!Init
  BY ValueInit DEF StringsInit
<1>2. SharedInv /\ [StringsNext]_<<sharedVars, vars>>
        => [S!V!Next]_([t \in Threads |-> S!Mine(t)])
  BY ValueStep DEF StringsNext, SharedStep, OwnerStep, Values
<1> QED
  BY <1>1, <1>2, SharedTheorem, PTL
  DEF StringsSpec, ImplementsOwnValues, S!ImplementsOwnValues, S!V!Spec

-----------------------------------------------------------------------------
(* Coding                                                                  *)
(*                                                                         *)
(* Sequences behind each other                                             *)

(* A set of numbers that is not empty has a least one.                     *)
LEMMA LeastOf ==
  ASSUME NEW Z \in SUBSET Nat, Z # {}
  PROVE  \E i \in Z : \A j \in Z : ~(j < i)
<1>1. PICK i \in Z : \A j \in Z : ~(<<j, i>> \in OpToRel(<, Nat))
  BY WFMin, NatLessThanWellFounded
<1>2. QED
  BY <1>1 DEF OpToRel

(* f holds the first of n sequences, the first two behind each other...    *)
Flattens(f, seqs, n) ==
  /\ f[1] = seqs[1]
  /\ \A i \in 2..n : f[i] = f[i - 1] \o seqs[i]
  /\ FlattenSeq(seqs) = f[n]

(* FlattenSeq puts the sequences behind each other one by one.             *)
LEMMA FlattenIs ==
  ASSUME NEW n \in Nat \ {0}, NEW seqs, Len(seqs) = n
  PROVE  \E f : Flattens(f, seqs, n)
<1> DEFINE Is(f, m) == f = [i \in 1..m |-> IF i = 1 THEN seqs[i] ELSE f[i - 1] \o seqs[i]]
           Some(m) == \E f : Is(f, m)
           Open == {m \in 1..n : ~Some(m)}
<1>1. Open = {}
  <2>1. SUFFICES ASSUME Open # {} PROVE FALSE
    OBVIOUS
  <2> HIDE DEF Some
  <2>a. Open \in SUBSET Nat
    OBVIOUS
  <2>2. PICK m \in Open : \A j \in Open : ~(j < m)
    BY <2>1, <2>a, LeastOf
  <2>3. m \in 1..n /\ m # 1
    <3>1. Is([i \in 1..1 |-> seqs[1]], 1)
      OBVIOUS
    <3>2. Some(1)
      BY <3>1 DEF Some
    <3>3. QED
      BY <2>2, <3>2
  <2>b. Some(m - 1)
    BY <2>2, <2>3
  <2>4. PICK g : Is(g, m - 1)
    BY <2>b DEF Some
  <2> DEFINE f == [i \in 1..m |-> IF i = m THEN g[m - 1] \o seqs[m] ELSE g[i]]
  <2>5. \A i \in 1..m : f[i] = IF i = 1 THEN seqs[i] ELSE f[i - 1] \o seqs[i]
    <3>1. TAKE i \in 1..m
    <3>2. CASE i = m
      <4>1. i # 1 /\ i - 1 \in 1..m /\ i - 1 # m
        BY <2>3, <3>2
      <4>2. f[i] = g[m - 1] \o seqs[m] /\ f[i - 1] = g[i - 1]
        BY <3>2, <4>1
      <4>3. QED
        BY <3>2, <4>1, <4>2
    <3>3. CASE i # m
      <4>1. i \in 1..(m - 1) /\ f[i] = g[i] /\ (i # 1 => f[i - 1] = g[i - 1])
        BY <2>3, <3>3
      <4>2. g[i] = IF i = 1 THEN seqs[i] ELSE g[i - 1] \o seqs[i]
        BY <2>4, <4>1
      <4>3. QED
        BY <4>1, <4>2
    <3>4. QED
      BY <3>2, <3>3
  <2>6. Is(f, m)
    BY <2>5, Zenon
  <2>7. Some(m)
    BY <2>6 DEF Some
  <2>8. QED
    BY <2>2, <2>7
<1>a. Some(n)
  <2> HIDE DEF Some
  <2> QED
    BY <1>1
<1>2. PICK g : Is(g, n)
  BY <1>a
<1> DEFINE f == CHOOSE f : Is(f, n)
<1>3. Is(f, n)
  BY <1>2
<1>4. FlattenSeq(seqs) = f[n]
  BY DEF FlattenSeq
<1> HIDE DEF f
<1>5. f[1] = seqs[1]
  BY <1>3, 1 \in 1..n
<1>6. ASSUME NEW i \in 2..n PROVE f[i] = f[i - 1] \o seqs[i]
  <2>1. i \in 1..n /\ i # 1
    OBVIOUS
  <2>2. QED
    BY <1>3, <2>1
<1>7. QED
  <2>1. Flattens(f, seqs, n)
    BY <1>4, <1>5, <1>6 DEF Flattens
  <2>2. QED
    BY <2>1

LEMMA Multiples ==
  ASSUME NEW a \in Nat, NEW b \in Nat, NEW d \in Nat, a <= b
  PROVE  a * d <= b * d /\ a * d \in Nat /\ (b + 1) * d = b * d + d
OBVIOUS

(* n sequences of V, all but the last of the same length.                  *)
Uniform(seqs, n, width, V) ==
  /\ Len(seqs) = n
  /\ \A i \in 1..n : seqs[i] \in Seq(V)
  /\ \A i \in 1..(n - 1) : Len(seqs[i]) = width

(* text has n sequences of V behind each other, at multiples of width.     *)
Joined(text, seqs, n, width, V) ==
  /\ text \in Seq(V)
  /\ Len(text) = (n - 1) * width + Len(seqs[n])
  /\ \A i \in 1..n : \A j \in 1..Len(seqs[i]) : text[(i - 1) * width + j] = seqs[i][j]

(* Behind each other, each is where the ones before it end.                *)
LEMMA FlattenUniform ==
  ASSUME NEW n \in Nat \ {0}, NEW width \in Nat, NEW V, NEW seqs, Uniform(seqs, n, width, V)
  PROVE  Joined(FlattenSeq(seqs), seqs, n, width, V)
<1>u. Len(seqs) = n /\ (\A i \in 1..n : seqs[i] \in Seq(V)) /\ \A i \in 1..(n - 1) : Len(seqs[i]) = width
  BY DEF Uniform
<1>a. PICK f : Flattens(f, seqs, n)
  BY <1>u, FlattenIs
<1>1. /\ f[1] = seqs[1]
      /\ \A i \in 2..n : f[i] = f[i - 1] \o seqs[i]
      /\ FlattenSeq(seqs) = f[n]
  BY <1>a DEF Flattens
<1> DEFINE Good(m) == /\ f[m] \in Seq(V)
                      /\ Len(f[m]) = (m - 1) * width + Len(seqs[m])
                      /\ \A i \in 1..m : \A j \in 1..Len(seqs[i]) :
                           f[m][(i - 1) * width + j] = seqs[i][j]
           Open == {m \in 1..n : ~Good(m)}
<1>2. Good(1)
  <2>1. 1 \in 1..n /\ f[1] \in Seq(V) /\ Len(seqs[1]) \in Nat
    BY <1>1, <1>u
  <2>2. Len(f[1]) = (1 - 1) * width + Len(seqs[1])
    BY <1>1, <1>u, <2>1
  <2>3. ASSUME NEW i \in 1..1, NEW j \in 1..Len(seqs[i]) PROVE f[1][(i - 1) * width + j] = seqs[i][j]
    <3>1. i = 1 /\ j \in Nat
      BY <2>1
    <3>2. (i - 1) * width + j = j
      BY <3>1
    <3>3. QED
      BY <1>1, <3>1, <3>2
  <2>4. QED
    BY <2>1, <2>2, <2>3
<1>3. ASSUME NEW m \in 2..n, Good(m - 1) PROVE Good(m)
  <2>1. /\ m \in 1..n /\ m - 1 \in 1..(n - 1) /\ m - 1 \in 1..n
        /\ f[m] = f[m - 1] \o seqs[m] /\ f[m - 1] \in Seq(V)
        /\ seqs[m] \in Seq(V) /\ Len(seqs[m - 1]) = width
    <3>1. m \in 1..n /\ m - 1 \in 1..(n - 1) /\ m - 1 \in 1..n
      OBVIOUS
    <3>2. f[m] = f[m - 1] \o seqs[m]
      BY <1>1
    <3>3. QED
      BY <1>3, <1>u, <3>1, <3>2
  <2>2. Len(f[m - 1]) = (m - 1) * width /\ Len(f[m - 1]) \in Nat /\ Len(seqs[m]) \in Nat
    <3>1. Len(f[m - 1]) = (m - 1 - 1) * width + width
      BY <1>3, <2>1
    <3>2. m - 2 \in Nat /\ m - 1 = (m - 2) + 1 /\ m - 1 - 1 = m - 2
      OBVIOUS
    <3>3. (m - 2 + 1) * width = (m - 2) * width + width
      BY <3>2, Multiples
    <3>4. QED
      BY <2>1, <3>1, <3>2, <3>3
  <2>3. /\ f[m] \in Seq(V)
        /\ Len(f[m]) = Len(f[m - 1]) + Len(seqs[m])
        /\ \A i \in 1..(Len(f[m - 1]) + Len(seqs[m])) :
             f[m][i] = IF i <= Len(f[m - 1]) THEN f[m - 1][i] ELSE seqs[m][i - Len(f[m - 1])]
    BY <1>u, <2>1, ConcatProperties
  <2>4. ASSUME NEW i \in 1..m, NEW j \in 1..Len(seqs[i]) PROVE f[m][(i - 1) * width + j] = seqs[i][j]
    <3>1. CASE i = m
      <4>1. (i - 1) * width + j = Len(f[m - 1]) + j /\ j \in 1..Len(seqs[m])
        BY <2>2, <3>1
      <4>2. QED
        <5> DEFINE d == Len(f[m - 1])
                   e == Len(seqs[m])
        <5>1. d \in Nat /\ e \in Nat /\ j \in 1..e
          BY <2>2, <4>1
        <5>2. d + j \in 1..(d + e) /\ ~(d + j <= d) /\ (d + j) - d = j
          <6>1. \A x, y, z \in Nat : z \in 1..y =>
                  x + z \in 1..(x + y) /\ ~(x + z <= x) /\ (x + z) - x = z
            OBVIOUS
          <6>2. j \in Nat
            BY <5>1
          <6> HIDE DEF d, e
          <6>3. QED
            BY <5>1, <6>1, <6>2
        <5> HIDE DEF d, e
        <5>3. f[m][d + j] = seqs[m][j]
          BY <2>3, <5>2 DEF d, e
        <5>4. QED
          BY <3>1, <4>1, <5>3 DEF d
    <3>2. CASE i # m
      <4>1. i \in 1..(m - 1) /\ i \in 1..(n - 1) /\ Len(seqs[i]) = width /\ j \in 1..width
        BY <1>u, <3>2
      <4>2. (i - 1) * width \in Nat /\ i * width = (i - 1) * width + width /\ i * width <= (m - 1) * width
        <5>1. i - 1 \in Nat /\ i \in Nat /\ m - 1 \in Nat /\ i <= m - 1 /\ i = (i - 1) + 1
          BY <4>1
        <5>2. (i - 1) * width \in Nat /\ (i - 1 + 1) * width = (i - 1) * width + width
          BY <5>1, Multiples
        <5>3. i * width <= (m - 1) * width
          BY <5>1, Multiples
        <5>4. QED
          BY <5>1, <5>2, <5>3
      <4>3. (i - 1) * width + j \in 1..Len(f[m - 1])
        <5> DEFINE a == (i - 1) * width
                   b == i * width
                   d == Len(f[m - 1])
        <5>1. a \in Nat /\ b = a + width /\ b <= d /\ d \in Nat /\ j \in 1..width
          BY <2>2, <4>1, <4>2
        <5> HIDE DEF a, b, d
        <5>2. a + j \in 1..d
          BY <5>1
        <5>3. QED
          BY <5>2 DEF a, d
      <4>4. f[m][(i - 1) * width + j] = f[m - 1][(i - 1) * width + j]
        <5> DEFINE d == Len(f[m - 1])
                   e == Len(seqs[m])
                   p == (i - 1) * width + j
        <5>1. d \in Nat /\ e \in Nat /\ p \in 1..d
          BY <2>2, <4>3
        <5> HIDE DEF d, e, p
        <5>2. p \in 1..(d + e) /\ p <= d
          BY <5>1
        <5>3. f[m][p] = f[m - 1][p]
          BY <2>3, <5>2 DEF d, e
        <5>4. QED
          BY <5>3 DEF p
      <4>5. QED
        BY <1>3, <4>1, <4>4
    <3>3. QED
      BY <3>1, <3>2
  <2>5. QED
    BY <2>2, <2>3, <2>4
<1> HIDE DEF Good
<1>4. Open = {}
  <2>1. SUFFICES ASSUME Open # {} PROVE FALSE
    OBVIOUS
  <2>2. PICK m \in Open : \A j \in Open : ~(j < m)
    BY <2>1, LeastOf, Open \in SUBSET Nat
  <2>3. m \in 2..n
    BY <1>2, <2>2
  <2>4. m - 1 \in 1..n /\ m - 1 < m
    BY <2>3
  <2>5. QED
    BY <1>3, <2>2, <2>3, <2>4
<1>5. Good(n)
  BY <1>4
<1>6. QED
  BY <1>1, <1>5 DEF Good, Joined

(* A byte is the number its bits write.                                    *)
LEMMA ByteIsItsBits ==
  ASSUME NEW x \in 0..255
  PROVE  /\ BitOf(x, 0) \in 0..1 /\ BitOf(x, 1) \in 0..1 /\ BitOf(x, 2) \in 0..1 /\ BitOf(x, 3) \in 0..1
         /\ BitOf(x, 4) \in 0..1 /\ BitOf(x, 5) \in 0..1 /\ BitOf(x, 6) \in 0..1 /\ BitOf(x, 7) \in 0..1
         /\ x = 128 * BitOf(x, 0) + 64 * BitOf(x, 1) + 32 * BitOf(x, 2) + 16 * BitOf(x, 3)
                + 8 * BitOf(x, 4) + 4 * BitOf(x, 5) + 2 * BitOf(x, 6) + BitOf(x, 7)
<1> DEFINE p == <<128, 64, 32, 16, 8, 4, 2, 1>>
<1>1. /\ p[0 + 1] = 128 /\ p[1 + 1] = 64 /\ p[2 + 1] = 32 /\ p[3 + 1] = 16
      /\ p[4 + 1] = 8 /\ p[5 + 1] = 4 /\ p[6 + 1] = 2 /\ p[7 + 1] = 1
  OBVIOUS
<1>2. /\ BitOf(x, 0) = (x \div 128) % 2 /\ BitOf(x, 1) = (x \div 64) % 2
      /\ BitOf(x, 2) = (x \div 32) % 2 /\ BitOf(x, 3) = (x \div 16) % 2
      /\ BitOf(x, 4) = (x \div 8) % 2 /\ BitOf(x, 5) = (x \div 4) % 2
      /\ BitOf(x, 6) = (x \div 2) % 2 /\ BitOf(x, 7) = (x \div 1) % 2
  BY <1>1 DEF BitOf
<1>3. /\ BitOf(x, 0) \in 0..1 /\ BitOf(x, 1) \in 0..1 /\ BitOf(x, 2) \in 0..1 /\ BitOf(x, 3) \in 0..1
      /\ BitOf(x, 4) \in 0..1 /\ BitOf(x, 5) \in 0..1 /\ BitOf(x, 6) \in 0..1 /\ BitOf(x, 7) \in 0..1
  BY <1>2
<1>5. \A y \in Nat : y = 2 * (y \div 2) + (y % 2)
  OBVIOUS
<1>6. /\ x \div 1 = x /\ x \div 4 = (x \div 2) \div 2 /\ x \div 8 = (x \div 4) \div 2
      /\ x \div 16 = (x \div 8) \div 2 /\ x \div 32 = (x \div 16) \div 2
      /\ x \div 64 = (x \div 32) \div 2 /\ x \div 128 = (x \div 64) \div 2
      /\ (x \div 128) \div 2 = 0
  OBVIOUS
<1>7. x = 128 * BitOf(x, 0) + 64 * BitOf(x, 1) + 32 * BitOf(x, 2) + 16 * BitOf(x, 3)
          + 8 * BitOf(x, 4) + 4 * BitOf(x, 5) + 2 * BitOf(x, 6) + BitOf(x, 7)
  BY <1>2, <1>5, <1>6
<1>8. QED
  BY <1>3, <1>7

(* f has the numbers that the first bits of the k-th digit write.          *)
DigitSums(f, c, s, k) ==
  /\ f[0] = 0
  /\ \A j \in 1..Width(c) : f[j] = 2 * f[j - 1] + Bit(s, (k - 1) * Width(c) + j - 1)
  /\ DigitOf(c, s, k) = f[Width(c)]

LEMMA DigitSteps ==
  ASSUME NEW c \in Codings, NEW s, NEW k
  PROVE  \E f : DigitSums(f, c, s, k)
<1> DEFINE w == Width(c)
           b(j) == Bit(s, (k - 1) * w + j - 1)
           Is(f, m) == f = [j \in 0..m |-> IF j = 0 THEN 0 ELSE 2 * f[j - 1] + b(j)]
           Some(m) == \E f : Is(f, m)
           Open == {m \in 0..w : ~Some(m)}
<1>w. w \in Nat
  BY DEF Codings, Width
<1>d. DigitOf(c, s, k) = (CHOOSE f : Is(f, w))[w]
  BY DEF DigitOf
<1> HIDE DEF w, b
<1>1. Some(0)
  <2>1. Is([j \in 0..0 |-> 0], 0)
    OBVIOUS
  <2>2. QED
    BY <2>1
<1>2. ASSUME NEW m \in 1..w, Some(m - 1) PROVE Some(m)
  <2>1. PICK g : Is(g, m - 1)
    BY <1>2
  <2> DEFINE f == [j \in 0..m |-> IF j = m THEN 2 * g[m - 1] + b(m) ELSE g[j]]
  <2>2. \A j \in 0..m : f[j] = IF j = 0 THEN 0 ELSE 2 * f[j - 1] + b(j)
    <3>1. TAKE j \in 0..m
    <3>2. CASE j = m
      <4>1. j # 0 /\ j - 1 \in 0..m /\ j - 1 # m
        BY <3>2
      <4>2. f[j] = 2 * g[m - 1] + b(m) /\ f[j - 1] = g[j - 1]
        BY <3>2, <4>1
      <4>3. QED
        BY <3>2, <4>1, <4>2
    <3>3. CASE j # m
      <4>1. j \in 0..(m - 1) /\ f[j] = g[j] /\ (j # 0 => f[j - 1] = g[j - 1])
        BY <3>3
      <4>2. g[j] = IF j = 0 THEN 0 ELSE 2 * g[j - 1] + b(j)
        BY <2>1, <4>1
      <4>3. QED
        BY <4>1, <4>2
    <3>4. QED
      BY <3>2, <3>3
  <2>3. Is(f, m)
    BY <2>2, Zenon
  <2>4. QED
    BY <2>3
<1> HIDE DEF Some
<1>3. Some(w)
  <2>1. SUFFICES ASSUME ~Some(w) PROVE FALSE
    OBVIOUS
  <2>2. Open # {} /\ Open \in SUBSET Nat
    BY <1>w, <2>1
  <2>3. PICK m \in Open : \A j \in Open : ~(j < m)
    BY <2>2, LeastOf
  <2>4. m \in 1..w /\ m - 1 \in 0..w /\ m - 1 < m
    BY <1>1, <1>w, <2>3
  <2>5. QED
    BY <1>2, <2>3, <2>4
<1>4. PICK g : Is(g, w)
  BY <1>3 DEF Some
<1> DEFINE f == CHOOSE f : Is(f, w)
<1>5. Is(f, w)
  BY <1>4
<1> HIDE DEF f
<1>6. f[0] = 0 /\ \A j \in 1..w : f[j] = 2 * f[j - 1] + b(j)
  <2>1. f[0] = 0
    BY <1>5, <1>w, 0 \in 0..w
  <2>2. ASSUME NEW j \in 1..w PROVE f[j] = 2 * f[j - 1] + b(j)
    <3>1. j \in 0..w /\ j # 0
      BY <1>w
    <3>2. QED
      BY <1>5, <3>1
  <2>3. QED
    BY <2>1, <2>2
<1>7. DigitOf(c, s, k) = f[w]
  BY <1>d DEF f
<1>8. DigitSums(f, c, s, k)
  BY <1>6, <1>7 DEF w, b, DigitSums
<1>9. QED
  BY <1>8

LEMMA BitOfByte ==
  ASSUME NEW x \in 0..255, NEW i \in 0..7
  PROVE  BitOf(x, i) \in 0..1
<1>1. i \in {0, 1, 2, 3, 4, 5, 6, 7}
  OBVIOUS
<1>2. QED
  BY <1>1, ByteIsItsBits

(* A byte.                                                                 *)
Octet == 0..255

(* The byte at a place of s, or 0 behind its end.                          *)
At(s, p) == IF p \in 1..Len(s) THEN s[p] ELSE 0

LEMMA AtIsByte ==
  ASSUME NEW s \in Seq(Octet), NEW p \in Nat
  PROVE  At(s, p) \in 0..255
<1>1. CASE p \in 1..Len(s)
  <2>1. s[p] \in Octet
    BY <1>1
  <2>2. QED
    BY <1>1, <2>1 DEF At, Octet
<1>2. QED
  BY <1>1 DEF At

(* The bit at a place of a sequence is one of the byte at its place.       *)
LEMMA BitAt ==
  ASSUME NEW s \in Seq(Octet), NEW p \in Nat \ {0}, NEW r \in 0..7,
         NEW i \in Nat, i = 8 * (p - 1) + r
  PROVE  Bit(s, i) = BitOf(At(s, p), r)
<1>1. i \div 8 = p - 1 /\ i % 8 = r /\ (p - 1) + 1 = p
  OBVIOUS
<1>2. CASE p - 1 < Len(s)
  <2>1. p \in 1..Len(s)
    BY <1>2
  <2>2. QED
    BY <1>1, <1>2, <2>1 DEF Bit, At
<1>3. CASE ~(p - 1 < Len(s))
  <2>1. At(s, p) = 0
    BY <1>3 DEF At
  <2>2. BitOf(0, r) = 0
    <3>1. r + 1 \in 1..8
      OBVIOUS
    <3>2. <<128, 64, 32, 16, 8, 4, 2, 1>>[r + 1] \in {128, 64, 32, 16, 8, 4, 2, 1}
      BY <3>1
    <3>3. \A d \in {128, 64, 32, 16, 8, 4, 2, 1} : (0 \div d) % 2 = 0
      OBVIOUS
    <3>4. QED
      BY <3>2, <3>3 DEF BitOf
  <2>3. QED
    BY <1>1, <1>3, <2>1, <2>2 DEF Bit
<1>4. QED
  BY <1>2, <1>3

(* The high and the low bits of a byte.                                    *)
LEMMA ByteParts ==
  ASSUME NEW x \in 0..255
  PROVE  /\ x \div 2 = 64 * BitOf(x, 0) + 32 * BitOf(x, 1) + 16 * BitOf(x, 2) + 8 * BitOf(x, 3) + 4 * BitOf(x, 4) + 2 * BitOf(x, 5) + BitOf(x, 6)
         /\ x % 2 = BitOf(x, 7)
         /\ x \div 4 = 32 * BitOf(x, 0) + 16 * BitOf(x, 1) + 8 * BitOf(x, 2) + 4 * BitOf(x, 3) + 2 * BitOf(x, 4) + BitOf(x, 5)
         /\ x % 4 = 2 * BitOf(x, 6) + BitOf(x, 7)
         /\ x \div 8 = 16 * BitOf(x, 0) + 8 * BitOf(x, 1) + 4 * BitOf(x, 2) + 2 * BitOf(x, 3) + BitOf(x, 4)
         /\ x % 8 = 4 * BitOf(x, 5) + 2 * BitOf(x, 6) + BitOf(x, 7)
         /\ x \div 16 = 8 * BitOf(x, 0) + 4 * BitOf(x, 1) + 2 * BitOf(x, 2) + BitOf(x, 3)
         /\ x % 16 = 8 * BitOf(x, 4) + 4 * BitOf(x, 5) + 2 * BitOf(x, 6) + BitOf(x, 7)
         /\ x \div 32 = 4 * BitOf(x, 0) + 2 * BitOf(x, 1) + BitOf(x, 2)
         /\ x % 32 = 16 * BitOf(x, 3) + 8 * BitOf(x, 4) + 4 * BitOf(x, 5) + 2 * BitOf(x, 6) + BitOf(x, 7)
         /\ x \div 64 = 2 * BitOf(x, 0) + BitOf(x, 1)
         /\ x % 64 = 32 * BitOf(x, 2) + 16 * BitOf(x, 3) + 8 * BitOf(x, 4) + 4 * BitOf(x, 5) + 2 * BitOf(x, 6) + BitOf(x, 7)
         /\ x \div 128 = BitOf(x, 0)
         /\ x % 128 = 64 * BitOf(x, 1) + 32 * BitOf(x, 2) + 16 * BitOf(x, 3) + 8 * BitOf(x, 4) + 4 * BitOf(x, 5) + 2 * BitOf(x, 6) + BitOf(x, 7)
         /\ (x % 64) \div 2 = 16 * BitOf(x, 2) + 8 * BitOf(x, 3) + 4 * BitOf(x, 4) + 2 * BitOf(x, 5) + BitOf(x, 6)
         /\ (x % 128) \div 4 = 16 * BitOf(x, 1) + 8 * BitOf(x, 2) + 4 * BitOf(x, 3) + 2 * BitOf(x, 4) + BitOf(x, 5)
<1> DEFINE b0 == BitOf(x, 0)
           b1 == BitOf(x, 1)
           b2 == BitOf(x, 2)
           b3 == BitOf(x, 3)
           b4 == BitOf(x, 4)
           b5 == BitOf(x, 5)
           b6 == BitOf(x, 6)
           b7 == BitOf(x, 7)
<1>1. /\ b0 \in 0..1 /\ b1 \in 0..1 /\ b2 \in 0..1 /\ b3 \in 0..1 /\ b4 \in 0..1 /\ b5 \in 0..1 /\ b6 \in 0..1 /\ b7 \in 0..1
      /\ x = 128 * b0 + 64 * b1 + 32 * b2 + 16 * b3 + 8 * b4 + 4 * b5 + 2 * b6 + b7
  BY ByteIsItsBits
<1> HIDE DEF b0, b1, b2, b3, b4, b5, b6, b7
<1>2. x \div 2 = 64 * b0 + 32 * b1 + 16 * b2 + 8 * b3 + 4 * b4 + 2 * b5 + b6 /\ x % 2 = b7
  BY <1>1
<1>3. x \div 4 = 32 * b0 + 16 * b1 + 8 * b2 + 4 * b3 + 2 * b4 + b5 /\ x % 4 = 2 * b6 + b7
  BY <1>1
<1>4. x \div 8 = 16 * b0 + 8 * b1 + 4 * b2 + 2 * b3 + b4 /\ x % 8 = 4 * b5 + 2 * b6 + b7
  BY <1>1
<1>5. x \div 16 = 8 * b0 + 4 * b1 + 2 * b2 + b3 /\ x % 16 = 8 * b4 + 4 * b5 + 2 * b6 + b7
  BY <1>1
<1>6. x \div 32 = 4 * b0 + 2 * b1 + b2 /\ x % 32 = 16 * b3 + 8 * b4 + 4 * b5 + 2 * b6 + b7
  BY <1>1
<1>7. x \div 64 = 2 * b0 + b1 /\ x % 64 = 32 * b2 + 16 * b3 + 8 * b4 + 4 * b5 + 2 * b6 + b7
  BY <1>1
<1>8. x \div 128 = b0 /\ x % 128 = 64 * b1 + 32 * b2 + 16 * b3 + 8 * b4 + 4 * b5 + 2 * b6 + b7
  BY <1>1
<1>9. (x % 64) \div 2 = 16 * b2 + 8 * b3 + 4 * b4 + 2 * b5 + b6
  BY <1>1, <1>7
<1>10. (x % 128) \div 4 = 16 * b1 + 8 * b2 + 4 * b3 + 2 * b4 + b5
  BY <1>1, <1>8
<1>11. QED
  BY <1>2, <1>3, <1>4, <1>5, <1>6, <1>7, <1>8, <1>9, <1>10 DEF b0, b1, b2, b3, b4, b5, b6, b7

LEMMA BitType ==
  ASSUME NEW s \in Seq(Octet), NEW i \in Nat
  PROVE  Bit(s, i) \in 0..1
<1>1. i \div 8 \in Nat /\ i % 8 \in 0..7
  OBVIOUS
<1>2. CASE i \div 8 < Len(s)
  <2>1. i \div 8 + 1 \in 1..Len(s) /\ s[i \div 8 + 1] \in Octet
    BY <1>1, <1>2
  <2>2. QED
    BY <1>1, <1>2, <2>1, BitOfByte DEF Bit, Octet
<1>3. QED
  BY <1>2 DEF Bit

(* The sum that defines a digit, term by term.                             *)
LEMMA DigitOf64 ==
  ASSUME NEW s \in Seq(Octet), NEW k \in Nat, NEW q \in Nat, q = (k - 1) * 6
  PROVE  DigitOf(64, s, k) =
           32 * Bit(s, q + 0) + 16 * Bit(s, q + 1) + 8 * Bit(s, q + 2) + 4 * Bit(s, q + 3) + 2 * Bit(s, q + 4) + Bit(s, q + 5)
<1> DEFINE b(j) == Bit(s, q + j)
<1>1. Width(64) = 6 /\ 64 \in Codings
  BY DEF Width, Codings
<1>2. PICK f : DigitSums(f, 64, s, k)
  BY <1>1, DigitSteps
<1>3. f[0] = 0 /\ DigitOf(64, s, k) = f[6]
  BY <1>1, <1>2 DEF DigitSums
<1>4. \A j \in 1..6 : f[j] = 2 * f[j - 1] + b(j - 1)
  BY <1>1, <1>2 DEF DigitSums
<1>5. b(0) \in 0..1 /\ b(1) \in 0..1 /\ b(2) \in 0..1 /\ b(3) \in 0..1 /\ b(4) \in 0..1 /\ b(5) \in 0..1
  BY BitType
<1> HIDE DEF b
<1>f1. f[1] = 2 * f[0] + b(0)
  BY <1>4
<1>f2. f[2] = 2 * f[1] + b(1)
  BY <1>4
<1>f3. f[3] = 2 * f[2] + b(2)
  BY <1>4
<1>f4. f[4] = 2 * f[3] + b(3)
  BY <1>4
<1>f5. f[5] = 2 * f[4] + b(4)
  BY <1>4
<1>f6. f[6] = 2 * f[5] + b(5)
  BY <1>4
<1>7. f[1] = b(0)
  BY <1>5, <1>f1, <1>3
<1>8. f[2] = 2 * b(0) + b(1)
  BY <1>5, <1>f2, <1>7
<1>9. f[3] = 4 * b(0) + 2 * b(1) + b(2)
  BY <1>5, <1>f3, <1>8
<1>10. f[4] = 8 * b(0) + 4 * b(1) + 2 * b(2) + b(3)
  BY <1>5, <1>f4, <1>9
<1>11. f[5] = 16 * b(0) + 8 * b(1) + 4 * b(2) + 2 * b(3) + b(4)
  BY <1>5, <1>f5, <1>10
<1>12. f[6] = 32 * b(0) + 16 * b(1) + 8 * b(2) + 4 * b(3) + 2 * b(4) + b(5)
  BY <1>5, <1>f6, <1>11
<1>13. QED
  BY <1>3, <1>12 DEF b

LEMMA DigitOf32 ==
  ASSUME NEW s \in Seq(Octet), NEW k \in Nat, NEW q \in Nat, q = (k - 1) * 5
  PROVE  DigitOf(32, s, k) =
           16 * Bit(s, q + 0) + 8 * Bit(s, q + 1) + 4 * Bit(s, q + 2) + 2 * Bit(s, q + 3) + Bit(s, q + 4)
<1> DEFINE b(j) == Bit(s, q + j)
<1>1. Width(32) = 5 /\ 32 \in Codings
  BY DEF Width, Codings
<1>2. PICK f : DigitSums(f, 32, s, k)
  BY <1>1, DigitSteps
<1>3. f[0] = 0 /\ DigitOf(32, s, k) = f[5]
  BY <1>1, <1>2 DEF DigitSums
<1>4. \A j \in 1..5 : f[j] = 2 * f[j - 1] + b(j - 1)
  BY <1>1, <1>2 DEF DigitSums
<1>5. b(0) \in 0..1 /\ b(1) \in 0..1 /\ b(2) \in 0..1 /\ b(3) \in 0..1 /\ b(4) \in 0..1
  BY BitType
<1> HIDE DEF b
<1>f1. f[1] = 2 * f[0] + b(0)
  BY <1>4
<1>f2. f[2] = 2 * f[1] + b(1)
  BY <1>4
<1>f3. f[3] = 2 * f[2] + b(2)
  BY <1>4
<1>f4. f[4] = 2 * f[3] + b(3)
  BY <1>4
<1>f5. f[5] = 2 * f[4] + b(4)
  BY <1>4
<1>7. f[1] = b(0)
  BY <1>5, <1>f1, <1>3
<1>8. f[2] = 2 * b(0) + b(1)
  BY <1>5, <1>f2, <1>7
<1>9. f[3] = 4 * b(0) + 2 * b(1) + b(2)
  BY <1>5, <1>f3, <1>8
<1>10. f[4] = 8 * b(0) + 4 * b(1) + 2 * b(2) + b(3)
  BY <1>5, <1>f4, <1>9
<1>11. f[5] = 16 * b(0) + 8 * b(1) + 4 * b(2) + 2 * b(3) + b(4)
  BY <1>5, <1>f5, <1>10
<1>12. QED
  BY <1>3, <1>11 DEF b

LEMMA DigitOf16 ==
  ASSUME NEW s \in Seq(Octet), NEW k \in Nat, NEW q \in Nat, q = (k - 1) * 4
  PROVE  DigitOf(16, s, k) =
           8 * Bit(s, q + 0) + 4 * Bit(s, q + 1) + 2 * Bit(s, q + 2) + Bit(s, q + 3)
<1> DEFINE b(j) == Bit(s, q + j)
<1>1. Width(16) = 4 /\ 16 \in Codings
  BY DEF Width, Codings
<1>2. PICK f : DigitSums(f, 16, s, k)
  BY <1>1, DigitSteps
<1>3. f[0] = 0 /\ DigitOf(16, s, k) = f[4]
  BY <1>1, <1>2 DEF DigitSums
<1>4. \A j \in 1..4 : f[j] = 2 * f[j - 1] + b(j - 1)
  BY <1>1, <1>2 DEF DigitSums
<1>5. b(0) \in 0..1 /\ b(1) \in 0..1 /\ b(2) \in 0..1 /\ b(3) \in 0..1
  BY BitType
<1> HIDE DEF b
<1>f1. f[1] = 2 * f[0] + b(0)
  BY <1>4
<1>f2. f[2] = 2 * f[1] + b(1)
  BY <1>4
<1>f3. f[3] = 2 * f[2] + b(2)
  BY <1>4
<1>f4. f[4] = 2 * f[3] + b(3)
  BY <1>4
<1>7. f[1] = b(0)
  BY <1>5, <1>f1, <1>3
<1>8. f[2] = 2 * b(0) + b(1)
  BY <1>5, <1>f2, <1>7
<1>9. f[3] = 4 * b(0) + 2 * b(1) + b(2)
  BY <1>5, <1>f3, <1>8
<1>10. f[4] = 8 * b(0) + 4 * b(1) + 2 * b(2) + b(3)
  BY <1>5, <1>f4, <1>9
<1>11. QED
  BY <1>3, <1>10 DEF b

(* The m-th group of the bytes of s, from 0 on, with zeros behind its end. *)
Block(s, m, width) == [t \in 1..width |-> At(s, m * width + t)]

(* The digits of a group of bytes, by the bits.                            *)
LEMMA SplitBits64 ==
  ASSUME NEW F \in [1..3 -> 0..255]
  PROVE  /\ Split64(F)[1] = 32 * BitOf(F[1], 0) + 16 * BitOf(F[1], 1) + 8 * BitOf(F[1], 2) + 4 * BitOf(F[1], 3) + 2 * BitOf(F[1], 4) + BitOf(F[1], 5)
         /\ Split64(F)[2] = 32 * BitOf(F[1], 6) + 16 * BitOf(F[1], 7) + 8 * BitOf(F[2], 0) + 4 * BitOf(F[2], 1) + 2 * BitOf(F[2], 2) + BitOf(F[2], 3)
         /\ Split64(F)[3] = 32 * BitOf(F[2], 4) + 16 * BitOf(F[2], 5) + 8 * BitOf(F[2], 6) + 4 * BitOf(F[2], 7) + 2 * BitOf(F[3], 0) + BitOf(F[3], 1)
         /\ Split64(F)[4] = 32 * BitOf(F[3], 2) + 16 * BitOf(F[3], 3) + 8 * BitOf(F[3], 4) + 4 * BitOf(F[3], 5) + 2 * BitOf(F[3], 6) + BitOf(F[3], 7)
<1> DEFINE x1 == F[1]
           x2 == F[2]
           x3 == F[3]
<1>1. x1 \in 0..255 /\ x2 \in 0..255 /\ x3 \in 0..255
  OBVIOUS
<1>2. /\ Split64(F)[1] = x1 \div 4
      /\ Split64(F)[2] = (x1 % 4) * 16 + x2 \div 16
      /\ Split64(F)[3] = (x2 % 16) * 4 + x3 \div 64
      /\ Split64(F)[4] = x3 % 64
  BY DEF Split64
<1> HIDE DEF x1, x2, x3
<1>3. Split64(F)[1] = 32 * BitOf(x1, 0) + 16 * BitOf(x1, 1) + 8 * BitOf(x1, 2) + 4 * BitOf(x1, 3) + 2 * BitOf(x1, 4) + BitOf(x1, 5)
  BY <1>1, <1>2, ByteParts
<1>4. Split64(F)[2] = 32 * BitOf(x1, 6) + 16 * BitOf(x1, 7) + 8 * BitOf(x2, 0) + 4 * BitOf(x2, 1) + 2 * BitOf(x2, 2) + BitOf(x2, 3)
  <2> DEFINE high == x1 % 4
             low == x2 \div 16
  <2>1. Split64(F)[2] = high * 16 + low
    BY <1>2
  <2>2. high = 2 * BitOf(x1, 6) + BitOf(x1, 7) /\ low = 8 * BitOf(x2, 0) + 4 * BitOf(x2, 1) + 2 * BitOf(x2, 2) + BitOf(x2, 3)
    BY <1>1, ByteParts
  <2>3. BitOf(x1, 6) \in 0..1 /\ BitOf(x1, 7) \in 0..1 /\ BitOf(x2, 0) \in 0..1 /\ BitOf(x2, 1) \in 0..1 /\ BitOf(x2, 2) \in 0..1 /\ BitOf(x2, 3) \in 0..1
    BY <1>1, ByteIsItsBits
  <2> HIDE DEF high, low
  <2>4. high * 16 = 32 * BitOf(x1, 6) + 16 * BitOf(x1, 7)
    BY <2>2, <2>3
  <2>5. QED
    BY <2>1, <2>2, <2>3, <2>4
<1>5. Split64(F)[3] = 32 * BitOf(x2, 4) + 16 * BitOf(x2, 5) + 8 * BitOf(x2, 6) + 4 * BitOf(x2, 7) + 2 * BitOf(x3, 0) + BitOf(x3, 1)
  <2> DEFINE high == x2 % 16
             low == x3 \div 64
  <2>1. Split64(F)[3] = high * 4 + low
    BY <1>2
  <2>2. high = 8 * BitOf(x2, 4) + 4 * BitOf(x2, 5) + 2 * BitOf(x2, 6) + BitOf(x2, 7) /\ low = 2 * BitOf(x3, 0) + BitOf(x3, 1)
    BY <1>1, ByteParts
  <2>3. BitOf(x2, 4) \in 0..1 /\ BitOf(x2, 5) \in 0..1 /\ BitOf(x2, 6) \in 0..1 /\ BitOf(x2, 7) \in 0..1 /\ BitOf(x3, 0) \in 0..1 /\ BitOf(x3, 1) \in 0..1
    BY <1>1, ByteIsItsBits
  <2> HIDE DEF high, low
  <2>4. high * 4 = 32 * BitOf(x2, 4) + 16 * BitOf(x2, 5) + 8 * BitOf(x2, 6) + 4 * BitOf(x2, 7)
    BY <2>2, <2>3
  <2>5. QED
    BY <2>1, <2>2, <2>3, <2>4
<1>6. Split64(F)[4] = 32 * BitOf(x3, 2) + 16 * BitOf(x3, 3) + 8 * BitOf(x3, 4) + 4 * BitOf(x3, 5) + 2 * BitOf(x3, 6) + BitOf(x3, 7)
  BY <1>1, <1>2, ByteParts
<1>7. QED
  BY <1>3, <1>4, <1>5, <1>6 DEF x1, x2, x3

LEMMA DigitAt64 ==
  ASSUME NEW s \in Seq(Octet), NEW m \in Nat
  PROVE  \A i \in 1..4 : DigitOf(64, s, m * 4 + i) = Split64(Block(s, m, 3))[i]
<1> DEFINE F == Block(s, m, 3)
           x1 == At(s, m * 3 + 1)
           x2 == At(s, m * 3 + 2)
           x3 == At(s, m * 3 + 3)
<1>0. m * 3 + 1 \in Nat /\ m * 3 + 2 \in Nat /\ m * 3 + 3 \in Nat
  OBVIOUS
<1>1. x1 \in 0..255 /\ x2 \in 0..255 /\ x3 \in 0..255
  BY <1>0, AtIsByte
<1>2. F[1] = x1 /\ F[2] = x2 /\ F[3] = x3
  BY DEF Block
<1>b1. \A r \in 0..7 : \A i \in Nat : i = 24 * m + 0 + r => Bit(s, i) = BitOf(x1, r)
  <2> DEFINE p == m * 3 + 1
  <2>1. p \in Nat \ {0} /\ \A r \in 0..7 : 24 * m + 0 + r = 8 * (p - 1) + r
    OBVIOUS
  <2> HIDE DEF p
  <2>2. \A r \in 0..7 : \A i \in Nat : i = 8 * (p - 1) + r => Bit(s, i) = BitOf(At(s, p), r)
    BY <2>1, BitAt
  <2>3. QED
    BY <2>1, <2>2 DEF p
<1>b2. \A r \in 0..7 : \A i \in Nat : i = 24 * m + 8 + r => Bit(s, i) = BitOf(x2, r)
  <2> DEFINE p == m * 3 + 2
  <2>1. p \in Nat \ {0} /\ \A r \in 0..7 : 24 * m + 8 + r = 8 * (p - 1) + r
    OBVIOUS
  <2> HIDE DEF p
  <2>2. \A r \in 0..7 : \A i \in Nat : i = 8 * (p - 1) + r => Bit(s, i) = BitOf(At(s, p), r)
    BY <2>1, BitAt
  <2>3. QED
    BY <2>1, <2>2 DEF p
<1>b3. \A r \in 0..7 : \A i \in Nat : i = 24 * m + 16 + r => Bit(s, i) = BitOf(x3, r)
  <2> DEFINE p == m * 3 + 3
  <2>1. p \in Nat \ {0} /\ \A r \in 0..7 : 24 * m + 16 + r = 8 * (p - 1) + r
    OBVIOUS
  <2> HIDE DEF p
  <2>2. \A r \in 0..7 : \A i \in Nat : i = 8 * (p - 1) + r => Bit(s, i) = BitOf(At(s, p), r)
    BY <2>1, BitAt
  <2>3. QED
    BY <2>1, <2>2 DEF p
<1>c. F \in [1..3 -> 0..255]
  <2>1. ASSUME NEW t \in 1..3 PROVE At(s, m * 3 + t) \in 0..255
    <3>1. m * 3 + t \in Nat
      OBVIOUS
    <3>2. QED
      BY <3>1, AtIsByte
  <2>2. QED
    BY <2>1 DEF Block
<1> HIDE DEF F, x1, x2, x3
<1>3. /\ Split64(F)[1] = 32 * BitOf(x1, 0) + 16 * BitOf(x1, 1) + 8 * BitOf(x1, 2) + 4 * BitOf(x1, 3) + 2 * BitOf(x1, 4) + BitOf(x1, 5)
      /\ Split64(F)[2] = 32 * BitOf(x1, 6) + 16 * BitOf(x1, 7) + 8 * BitOf(x2, 0) + 4 * BitOf(x2, 1) + 2 * BitOf(x2, 2) + BitOf(x2, 3)
      /\ Split64(F)[3] = 32 * BitOf(x2, 4) + 16 * BitOf(x2, 5) + 8 * BitOf(x2, 6) + 4 * BitOf(x2, 7) + 2 * BitOf(x3, 0) + BitOf(x3, 1)
      /\ Split64(F)[4] = 32 * BitOf(x3, 2) + 16 * BitOf(x3, 3) + 8 * BitOf(x3, 4) + 4 * BitOf(x3, 5) + 2 * BitOf(x3, 6) + BitOf(x3, 7)
  BY <1>2, <1>c, SplitBits64
<1>4. DigitOf(64, s, m * 4 + 1) = Split64(F)[1]
  <2> DEFINE q == 24 * m + 0
  <2>1. m * 4 + 1 \in Nat /\ q \in Nat /\ q = (m * 4 + 1 - 1) * 6
    OBVIOUS
  <2>2. /\ Bit(s, q + 0) = BitOf(x1, 0) /\ Bit(s, q + 1) = BitOf(x1, 1) /\ Bit(s, q + 2) = BitOf(x1, 2)
        /\ Bit(s, q + 3) = BitOf(x1, 3) /\ Bit(s, q + 4) = BitOf(x1, 4) /\ Bit(s, q + 5) = BitOf(x1, 5)
    BY <1>b1
  <2> HIDE DEF q
  <2>3. DigitOf(64, s, m * 4 + 1) =
          32 * Bit(s, q + 0) + 16 * Bit(s, q + 1) + 8 * Bit(s, q + 2) + 4 * Bit(s, q + 3) + 2 * Bit(s, q + 4) + Bit(s, q + 5)
    BY <2>1, DigitOf64
  <2>4. QED
    BY <1>3, <2>2, <2>3
<1>5. DigitOf(64, s, m * 4 + 2) = Split64(F)[2]
  <2> DEFINE q == 24 * m + 6
  <2>1. m * 4 + 2 \in Nat /\ q \in Nat /\ q = (m * 4 + 2 - 1) * 6
    OBVIOUS
  <2>2. /\ Bit(s, q + 0) = BitOf(x1, 6) /\ Bit(s, q + 1) = BitOf(x1, 7) /\ Bit(s, q + 2) = BitOf(x2, 0)
        /\ Bit(s, q + 3) = BitOf(x2, 1) /\ Bit(s, q + 4) = BitOf(x2, 2) /\ Bit(s, q + 5) = BitOf(x2, 3)
    BY <1>b1, <1>b2
  <2> HIDE DEF q
  <2>3. DigitOf(64, s, m * 4 + 2) =
          32 * Bit(s, q + 0) + 16 * Bit(s, q + 1) + 8 * Bit(s, q + 2) + 4 * Bit(s, q + 3) + 2 * Bit(s, q + 4) + Bit(s, q + 5)
    BY <2>1, DigitOf64
  <2>4. QED
    BY <1>3, <2>2, <2>3
<1>6. DigitOf(64, s, m * 4 + 3) = Split64(F)[3]
  <2> DEFINE q == 24 * m + 12
  <2>1. m * 4 + 3 \in Nat /\ q \in Nat /\ q = (m * 4 + 3 - 1) * 6
    OBVIOUS
  <2>2. /\ Bit(s, q + 0) = BitOf(x2, 4) /\ Bit(s, q + 1) = BitOf(x2, 5) /\ Bit(s, q + 2) = BitOf(x2, 6)
        /\ Bit(s, q + 3) = BitOf(x2, 7) /\ Bit(s, q + 4) = BitOf(x3, 0) /\ Bit(s, q + 5) = BitOf(x3, 1)
    BY <1>b2, <1>b3
  <2> HIDE DEF q
  <2>3. DigitOf(64, s, m * 4 + 3) =
          32 * Bit(s, q + 0) + 16 * Bit(s, q + 1) + 8 * Bit(s, q + 2) + 4 * Bit(s, q + 3) + 2 * Bit(s, q + 4) + Bit(s, q + 5)
    BY <2>1, DigitOf64
  <2>4. QED
    BY <1>3, <2>2, <2>3
<1>7. DigitOf(64, s, m * 4 + 4) = Split64(F)[4]
  <2> DEFINE q == 24 * m + 18
  <2>1. m * 4 + 4 \in Nat /\ q \in Nat /\ q = (m * 4 + 4 - 1) * 6
    OBVIOUS
  <2>2. /\ Bit(s, q + 0) = BitOf(x3, 2) /\ Bit(s, q + 1) = BitOf(x3, 3) /\ Bit(s, q + 2) = BitOf(x3, 4)
        /\ Bit(s, q + 3) = BitOf(x3, 5) /\ Bit(s, q + 4) = BitOf(x3, 6) /\ Bit(s, q + 5) = BitOf(x3, 7)
    BY <1>b3
  <2> HIDE DEF q
  <2>3. DigitOf(64, s, m * 4 + 4) =
          32 * Bit(s, q + 0) + 16 * Bit(s, q + 1) + 8 * Bit(s, q + 2) + 4 * Bit(s, q + 3) + 2 * Bit(s, q + 4) + Bit(s, q + 5)
    BY <2>1, DigitOf64
  <2>4. QED
    BY <1>3, <2>2, <2>3
<1>8. QED
  <2>1. \A i \in 1..4 : i \in {1, 2, 3, 4}
    OBVIOUS
  <2>2. QED
    BY <2>1, <1>4, <1>5, <1>6, <1>7 DEF F

LEMMA SplitBits32 ==
  ASSUME NEW F \in [1..5 -> 0..255]
  PROVE  /\ Split32(F)[1] = 16 * BitOf(F[1], 0) + 8 * BitOf(F[1], 1) + 4 * BitOf(F[1], 2) + 2 * BitOf(F[1], 3) + BitOf(F[1], 4)
         /\ Split32(F)[2] = 16 * BitOf(F[1], 5) + 8 * BitOf(F[1], 6) + 4 * BitOf(F[1], 7) + 2 * BitOf(F[2], 0) + BitOf(F[2], 1)
         /\ Split32(F)[3] = 16 * BitOf(F[2], 2) + 8 * BitOf(F[2], 3) + 4 * BitOf(F[2], 4) + 2 * BitOf(F[2], 5) + BitOf(F[2], 6)
         /\ Split32(F)[4] = 16 * BitOf(F[2], 7) + 8 * BitOf(F[3], 0) + 4 * BitOf(F[3], 1) + 2 * BitOf(F[3], 2) + BitOf(F[3], 3)
         /\ Split32(F)[5] = 16 * BitOf(F[3], 4) + 8 * BitOf(F[3], 5) + 4 * BitOf(F[3], 6) + 2 * BitOf(F[3], 7) + BitOf(F[4], 0)
         /\ Split32(F)[6] = 16 * BitOf(F[4], 1) + 8 * BitOf(F[4], 2) + 4 * BitOf(F[4], 3) + 2 * BitOf(F[4], 4) + BitOf(F[4], 5)
         /\ Split32(F)[7] = 16 * BitOf(F[4], 6) + 8 * BitOf(F[4], 7) + 4 * BitOf(F[5], 0) + 2 * BitOf(F[5], 1) + BitOf(F[5], 2)
         /\ Split32(F)[8] = 16 * BitOf(F[5], 3) + 8 * BitOf(F[5], 4) + 4 * BitOf(F[5], 5) + 2 * BitOf(F[5], 6) + BitOf(F[5], 7)
<1> DEFINE x1 == F[1]
           x2 == F[2]
           x3 == F[3]
           x4 == F[4]
           x5 == F[5]
<1>1. x1 \in 0..255 /\ x2 \in 0..255 /\ x3 \in 0..255 /\ x4 \in 0..255 /\ x5 \in 0..255
  OBVIOUS
<1>2. /\ Split32(F)[1] = x1 \div 8
      /\ Split32(F)[2] = (x1 % 8) * 4 + x2 \div 64
      /\ Split32(F)[3] = (x2 % 64) \div 2
      /\ Split32(F)[4] = (x2 % 2) * 16 + x3 \div 16
      /\ Split32(F)[5] = (x3 % 16) * 2 + x4 \div 128
      /\ Split32(F)[6] = (x4 % 128) \div 4
      /\ Split32(F)[7] = (x4 % 4) * 8 + x5 \div 32
      /\ Split32(F)[8] = x5 % 32
  BY DEF Split32
<1> HIDE DEF x1, x2, x3, x4, x5
<1>3. Split32(F)[1] = 16 * BitOf(x1, 0) + 8 * BitOf(x1, 1) + 4 * BitOf(x1, 2) + 2 * BitOf(x1, 3) + BitOf(x1, 4)
  BY <1>1, <1>2, ByteParts
<1>4. Split32(F)[2] = 16 * BitOf(x1, 5) + 8 * BitOf(x1, 6) + 4 * BitOf(x1, 7) + 2 * BitOf(x2, 0) + BitOf(x2, 1)
  <2> DEFINE high == x1 % 8
             low == x2 \div 64
  <2>1. Split32(F)[2] = high * 4 + low
    BY <1>2
  <2>2. high = 4 * BitOf(x1, 5) + 2 * BitOf(x1, 6) + BitOf(x1, 7) /\ low = 2 * BitOf(x2, 0) + BitOf(x2, 1)
    BY <1>1, ByteParts
  <2>3. BitOf(x1, 5) \in 0..1 /\ BitOf(x1, 6) \in 0..1 /\ BitOf(x1, 7) \in 0..1 /\ BitOf(x2, 0) \in 0..1 /\ BitOf(x2, 1) \in 0..1
    BY <1>1, ByteIsItsBits
  <2> HIDE DEF high, low
  <2>4. high * 4 = 16 * BitOf(x1, 5) + 8 * BitOf(x1, 6) + 4 * BitOf(x1, 7)
    BY <2>2, <2>3
  <2>5. QED
    BY <2>1, <2>2, <2>3, <2>4
<1>5. Split32(F)[3] = 16 * BitOf(x2, 2) + 8 * BitOf(x2, 3) + 4 * BitOf(x2, 4) + 2 * BitOf(x2, 5) + BitOf(x2, 6)
  BY <1>1, <1>2, ByteParts
<1>6. Split32(F)[4] = 16 * BitOf(x2, 7) + 8 * BitOf(x3, 0) + 4 * BitOf(x3, 1) + 2 * BitOf(x3, 2) + BitOf(x3, 3)
  <2> DEFINE high == x2 % 2
             low == x3 \div 16
  <2>1. Split32(F)[4] = high * 16 + low
    BY <1>2
  <2>2. high = BitOf(x2, 7) /\ low = 8 * BitOf(x3, 0) + 4 * BitOf(x3, 1) + 2 * BitOf(x3, 2) + BitOf(x3, 3)
    BY <1>1, ByteParts
  <2>3. BitOf(x2, 7) \in 0..1 /\ BitOf(x3, 0) \in 0..1 /\ BitOf(x3, 1) \in 0..1 /\ BitOf(x3, 2) \in 0..1 /\ BitOf(x3, 3) \in 0..1
    BY <1>1, ByteIsItsBits
  <2> HIDE DEF high, low
  <2>4. high * 16 = 16 * BitOf(x2, 7)
    BY <2>2, <2>3
  <2>5. QED
    BY <2>1, <2>2, <2>3, <2>4
<1>7. Split32(F)[5] = 16 * BitOf(x3, 4) + 8 * BitOf(x3, 5) + 4 * BitOf(x3, 6) + 2 * BitOf(x3, 7) + BitOf(x4, 0)
  <2> DEFINE high == x3 % 16
             low == x4 \div 128
  <2>1. Split32(F)[5] = high * 2 + low
    BY <1>2
  <2>2. high = 8 * BitOf(x3, 4) + 4 * BitOf(x3, 5) + 2 * BitOf(x3, 6) + BitOf(x3, 7) /\ low = BitOf(x4, 0)
    BY <1>1, ByteParts
  <2>3. BitOf(x3, 4) \in 0..1 /\ BitOf(x3, 5) \in 0..1 /\ BitOf(x3, 6) \in 0..1 /\ BitOf(x3, 7) \in 0..1 /\ BitOf(x4, 0) \in 0..1
    BY <1>1, ByteIsItsBits
  <2> HIDE DEF high, low
  <2>4. high * 2 = 16 * BitOf(x3, 4) + 8 * BitOf(x3, 5) + 4 * BitOf(x3, 6) + 2 * BitOf(x3, 7)
    BY <2>2, <2>3
  <2>5. QED
    BY <2>1, <2>2, <2>3, <2>4
<1>8. Split32(F)[6] = 16 * BitOf(x4, 1) + 8 * BitOf(x4, 2) + 4 * BitOf(x4, 3) + 2 * BitOf(x4, 4) + BitOf(x4, 5)
  BY <1>1, <1>2, ByteParts
<1>9. Split32(F)[7] = 16 * BitOf(x4, 6) + 8 * BitOf(x4, 7) + 4 * BitOf(x5, 0) + 2 * BitOf(x5, 1) + BitOf(x5, 2)
  <2> DEFINE high == x4 % 4
             low == x5 \div 32
  <2>1. Split32(F)[7] = high * 8 + low
    BY <1>2
  <2>2. high = 2 * BitOf(x4, 6) + BitOf(x4, 7) /\ low = 4 * BitOf(x5, 0) + 2 * BitOf(x5, 1) + BitOf(x5, 2)
    BY <1>1, ByteParts
  <2>3. BitOf(x4, 6) \in 0..1 /\ BitOf(x4, 7) \in 0..1 /\ BitOf(x5, 0) \in 0..1 /\ BitOf(x5, 1) \in 0..1 /\ BitOf(x5, 2) \in 0..1
    BY <1>1, ByteIsItsBits
  <2> HIDE DEF high, low
  <2>4. high * 8 = 16 * BitOf(x4, 6) + 8 * BitOf(x4, 7)
    BY <2>2, <2>3
  <2>5. QED
    BY <2>1, <2>2, <2>3, <2>4
<1>10. Split32(F)[8] = 16 * BitOf(x5, 3) + 8 * BitOf(x5, 4) + 4 * BitOf(x5, 5) + 2 * BitOf(x5, 6) + BitOf(x5, 7)
  BY <1>1, <1>2, ByteParts
<1>11. QED
  BY <1>3, <1>4, <1>5, <1>6, <1>7, <1>8, <1>9, <1>10 DEF x1, x2, x3, x4, x5

LEMMA DigitAt32 ==
  ASSUME NEW s \in Seq(Octet), NEW m \in Nat
  PROVE  \A i \in 1..8 : DigitOf(32, s, m * 8 + i) = Split32(Block(s, m, 5))[i]
<1> DEFINE F == Block(s, m, 5)
           x1 == At(s, m * 5 + 1)
           x2 == At(s, m * 5 + 2)
           x3 == At(s, m * 5 + 3)
           x4 == At(s, m * 5 + 4)
           x5 == At(s, m * 5 + 5)
<1>0. m * 5 + 1 \in Nat /\ m * 5 + 2 \in Nat /\ m * 5 + 3 \in Nat /\ m * 5 + 4 \in Nat /\ m * 5 + 5 \in Nat
  OBVIOUS
<1>1. x1 \in 0..255 /\ x2 \in 0..255 /\ x3 \in 0..255 /\ x4 \in 0..255 /\ x5 \in 0..255
  BY <1>0, AtIsByte
<1>2. F[1] = x1 /\ F[2] = x2 /\ F[3] = x3 /\ F[4] = x4 /\ F[5] = x5
  BY DEF Block
<1>b1. \A r \in 0..7 : \A i \in Nat : i = 40 * m + 0 + r => Bit(s, i) = BitOf(x1, r)
  <2> DEFINE p == m * 5 + 1
  <2>1. p \in Nat \ {0} /\ \A r \in 0..7 : 40 * m + 0 + r = 8 * (p - 1) + r
    OBVIOUS
  <2> HIDE DEF p
  <2>2. \A r \in 0..7 : \A i \in Nat : i = 8 * (p - 1) + r => Bit(s, i) = BitOf(At(s, p), r)
    BY <2>1, BitAt
  <2>3. QED
    BY <2>1, <2>2 DEF p
<1>b2. \A r \in 0..7 : \A i \in Nat : i = 40 * m + 8 + r => Bit(s, i) = BitOf(x2, r)
  <2> DEFINE p == m * 5 + 2
  <2>1. p \in Nat \ {0} /\ \A r \in 0..7 : 40 * m + 8 + r = 8 * (p - 1) + r
    OBVIOUS
  <2> HIDE DEF p
  <2>2. \A r \in 0..7 : \A i \in Nat : i = 8 * (p - 1) + r => Bit(s, i) = BitOf(At(s, p), r)
    BY <2>1, BitAt
  <2>3. QED
    BY <2>1, <2>2 DEF p
<1>b3. \A r \in 0..7 : \A i \in Nat : i = 40 * m + 16 + r => Bit(s, i) = BitOf(x3, r)
  <2> DEFINE p == m * 5 + 3
  <2>1. p \in Nat \ {0} /\ \A r \in 0..7 : 40 * m + 16 + r = 8 * (p - 1) + r
    OBVIOUS
  <2> HIDE DEF p
  <2>2. \A r \in 0..7 : \A i \in Nat : i = 8 * (p - 1) + r => Bit(s, i) = BitOf(At(s, p), r)
    BY <2>1, BitAt
  <2>3. QED
    BY <2>1, <2>2 DEF p
<1>b4. \A r \in 0..7 : \A i \in Nat : i = 40 * m + 24 + r => Bit(s, i) = BitOf(x4, r)
  <2> DEFINE p == m * 5 + 4
  <2>1. p \in Nat \ {0} /\ \A r \in 0..7 : 40 * m + 24 + r = 8 * (p - 1) + r
    OBVIOUS
  <2> HIDE DEF p
  <2>2. \A r \in 0..7 : \A i \in Nat : i = 8 * (p - 1) + r => Bit(s, i) = BitOf(At(s, p), r)
    BY <2>1, BitAt
  <2>3. QED
    BY <2>1, <2>2 DEF p
<1>b5. \A r \in 0..7 : \A i \in Nat : i = 40 * m + 32 + r => Bit(s, i) = BitOf(x5, r)
  <2> DEFINE p == m * 5 + 5
  <2>1. p \in Nat \ {0} /\ \A r \in 0..7 : 40 * m + 32 + r = 8 * (p - 1) + r
    OBVIOUS
  <2> HIDE DEF p
  <2>2. \A r \in 0..7 : \A i \in Nat : i = 8 * (p - 1) + r => Bit(s, i) = BitOf(At(s, p), r)
    BY <2>1, BitAt
  <2>3. QED
    BY <2>1, <2>2 DEF p
<1>c. F \in [1..5 -> 0..255]
  <2>1. ASSUME NEW t \in 1..5 PROVE At(s, m * 5 + t) \in 0..255
    <3>1. m * 5 + t \in Nat
      OBVIOUS
    <3>2. QED
      BY <3>1, AtIsByte
  <2>2. QED
    BY <2>1 DEF Block
<1> HIDE DEF F, x1, x2, x3, x4, x5
<1>3. /\ Split32(F)[1] = 16 * BitOf(x1, 0) + 8 * BitOf(x1, 1) + 4 * BitOf(x1, 2) + 2 * BitOf(x1, 3) + BitOf(x1, 4)
      /\ Split32(F)[2] = 16 * BitOf(x1, 5) + 8 * BitOf(x1, 6) + 4 * BitOf(x1, 7) + 2 * BitOf(x2, 0) + BitOf(x2, 1)
      /\ Split32(F)[3] = 16 * BitOf(x2, 2) + 8 * BitOf(x2, 3) + 4 * BitOf(x2, 4) + 2 * BitOf(x2, 5) + BitOf(x2, 6)
      /\ Split32(F)[4] = 16 * BitOf(x2, 7) + 8 * BitOf(x3, 0) + 4 * BitOf(x3, 1) + 2 * BitOf(x3, 2) + BitOf(x3, 3)
      /\ Split32(F)[5] = 16 * BitOf(x3, 4) + 8 * BitOf(x3, 5) + 4 * BitOf(x3, 6) + 2 * BitOf(x3, 7) + BitOf(x4, 0)
      /\ Split32(F)[6] = 16 * BitOf(x4, 1) + 8 * BitOf(x4, 2) + 4 * BitOf(x4, 3) + 2 * BitOf(x4, 4) + BitOf(x4, 5)
      /\ Split32(F)[7] = 16 * BitOf(x4, 6) + 8 * BitOf(x4, 7) + 4 * BitOf(x5, 0) + 2 * BitOf(x5, 1) + BitOf(x5, 2)
      /\ Split32(F)[8] = 16 * BitOf(x5, 3) + 8 * BitOf(x5, 4) + 4 * BitOf(x5, 5) + 2 * BitOf(x5, 6) + BitOf(x5, 7)
  BY <1>2, <1>c, SplitBits32
<1>4. DigitOf(32, s, m * 8 + 1) = Split32(F)[1]
  <2> DEFINE q == 40 * m + 0
  <2>1. m * 8 + 1 \in Nat /\ q \in Nat /\ q = (m * 8 + 1 - 1) * 5
    OBVIOUS
  <2>2. /\ Bit(s, q + 0) = BitOf(x1, 0) /\ Bit(s, q + 1) = BitOf(x1, 1) /\ Bit(s, q + 2) = BitOf(x1, 2)
        /\ Bit(s, q + 3) = BitOf(x1, 3) /\ Bit(s, q + 4) = BitOf(x1, 4)
    BY <1>b1
  <2> HIDE DEF q
  <2>3. DigitOf(32, s, m * 8 + 1) =
          16 * Bit(s, q + 0) + 8 * Bit(s, q + 1) + 4 * Bit(s, q + 2) + 2 * Bit(s, q + 3) + Bit(s, q + 4)
    BY <2>1, DigitOf32
  <2>4. QED
    BY <1>3, <2>2, <2>3
<1>5. DigitOf(32, s, m * 8 + 2) = Split32(F)[2]
  <2> DEFINE q == 40 * m + 5
  <2>1. m * 8 + 2 \in Nat /\ q \in Nat /\ q = (m * 8 + 2 - 1) * 5
    OBVIOUS
  <2>2. /\ Bit(s, q + 0) = BitOf(x1, 5) /\ Bit(s, q + 1) = BitOf(x1, 6) /\ Bit(s, q + 2) = BitOf(x1, 7)
        /\ Bit(s, q + 3) = BitOf(x2, 0) /\ Bit(s, q + 4) = BitOf(x2, 1)
    BY <1>b1, <1>b2
  <2> HIDE DEF q
  <2>3. DigitOf(32, s, m * 8 + 2) =
          16 * Bit(s, q + 0) + 8 * Bit(s, q + 1) + 4 * Bit(s, q + 2) + 2 * Bit(s, q + 3) + Bit(s, q + 4)
    BY <2>1, DigitOf32
  <2>4. QED
    BY <1>3, <2>2, <2>3
<1>6. DigitOf(32, s, m * 8 + 3) = Split32(F)[3]
  <2> DEFINE q == 40 * m + 10
  <2>1. m * 8 + 3 \in Nat /\ q \in Nat /\ q = (m * 8 + 3 - 1) * 5
    OBVIOUS
  <2>2. /\ Bit(s, q + 0) = BitOf(x2, 2) /\ Bit(s, q + 1) = BitOf(x2, 3) /\ Bit(s, q + 2) = BitOf(x2, 4)
        /\ Bit(s, q + 3) = BitOf(x2, 5) /\ Bit(s, q + 4) = BitOf(x2, 6)
    BY <1>b2
  <2> HIDE DEF q
  <2>3. DigitOf(32, s, m * 8 + 3) =
          16 * Bit(s, q + 0) + 8 * Bit(s, q + 1) + 4 * Bit(s, q + 2) + 2 * Bit(s, q + 3) + Bit(s, q + 4)
    BY <2>1, DigitOf32
  <2>4. QED
    BY <1>3, <2>2, <2>3
<1>7. DigitOf(32, s, m * 8 + 4) = Split32(F)[4]
  <2> DEFINE q == 40 * m + 15
  <2>1. m * 8 + 4 \in Nat /\ q \in Nat /\ q = (m * 8 + 4 - 1) * 5
    OBVIOUS
  <2>2. /\ Bit(s, q + 0) = BitOf(x2, 7) /\ Bit(s, q + 1) = BitOf(x3, 0) /\ Bit(s, q + 2) = BitOf(x3, 1)
        /\ Bit(s, q + 3) = BitOf(x3, 2) /\ Bit(s, q + 4) = BitOf(x3, 3)
    BY <1>b2, <1>b3
  <2> HIDE DEF q
  <2>3. DigitOf(32, s, m * 8 + 4) =
          16 * Bit(s, q + 0) + 8 * Bit(s, q + 1) + 4 * Bit(s, q + 2) + 2 * Bit(s, q + 3) + Bit(s, q + 4)
    BY <2>1, DigitOf32
  <2>4. QED
    BY <1>3, <2>2, <2>3
<1>8. DigitOf(32, s, m * 8 + 5) = Split32(F)[5]
  <2> DEFINE q == 40 * m + 20
  <2>1. m * 8 + 5 \in Nat /\ q \in Nat /\ q = (m * 8 + 5 - 1) * 5
    OBVIOUS
  <2>2. /\ Bit(s, q + 0) = BitOf(x3, 4) /\ Bit(s, q + 1) = BitOf(x3, 5) /\ Bit(s, q + 2) = BitOf(x3, 6)
        /\ Bit(s, q + 3) = BitOf(x3, 7) /\ Bit(s, q + 4) = BitOf(x4, 0)
    BY <1>b3, <1>b4
  <2> HIDE DEF q
  <2>3. DigitOf(32, s, m * 8 + 5) =
          16 * Bit(s, q + 0) + 8 * Bit(s, q + 1) + 4 * Bit(s, q + 2) + 2 * Bit(s, q + 3) + Bit(s, q + 4)
    BY <2>1, DigitOf32
  <2>4. QED
    BY <1>3, <2>2, <2>3
<1>9. DigitOf(32, s, m * 8 + 6) = Split32(F)[6]
  <2> DEFINE q == 40 * m + 25
  <2>1. m * 8 + 6 \in Nat /\ q \in Nat /\ q = (m * 8 + 6 - 1) * 5
    OBVIOUS
  <2>2. /\ Bit(s, q + 0) = BitOf(x4, 1) /\ Bit(s, q + 1) = BitOf(x4, 2) /\ Bit(s, q + 2) = BitOf(x4, 3)
        /\ Bit(s, q + 3) = BitOf(x4, 4) /\ Bit(s, q + 4) = BitOf(x4, 5)
    BY <1>b4
  <2> HIDE DEF q
  <2>3. DigitOf(32, s, m * 8 + 6) =
          16 * Bit(s, q + 0) + 8 * Bit(s, q + 1) + 4 * Bit(s, q + 2) + 2 * Bit(s, q + 3) + Bit(s, q + 4)
    BY <2>1, DigitOf32
  <2>4. QED
    BY <1>3, <2>2, <2>3
<1>10. DigitOf(32, s, m * 8 + 7) = Split32(F)[7]
  <2> DEFINE q == 40 * m + 30
  <2>1. m * 8 + 7 \in Nat /\ q \in Nat /\ q = (m * 8 + 7 - 1) * 5
    OBVIOUS
  <2>2. /\ Bit(s, q + 0) = BitOf(x4, 6) /\ Bit(s, q + 1) = BitOf(x4, 7) /\ Bit(s, q + 2) = BitOf(x5, 0)
        /\ Bit(s, q + 3) = BitOf(x5, 1) /\ Bit(s, q + 4) = BitOf(x5, 2)
    BY <1>b4, <1>b5
  <2> HIDE DEF q
  <2>3. DigitOf(32, s, m * 8 + 7) =
          16 * Bit(s, q + 0) + 8 * Bit(s, q + 1) + 4 * Bit(s, q + 2) + 2 * Bit(s, q + 3) + Bit(s, q + 4)
    BY <2>1, DigitOf32
  <2>4. QED
    BY <1>3, <2>2, <2>3
<1>11. DigitOf(32, s, m * 8 + 8) = Split32(F)[8]
  <2> DEFINE q == 40 * m + 35
  <2>1. m * 8 + 8 \in Nat /\ q \in Nat /\ q = (m * 8 + 8 - 1) * 5
    OBVIOUS
  <2>2. /\ Bit(s, q + 0) = BitOf(x5, 3) /\ Bit(s, q + 1) = BitOf(x5, 4) /\ Bit(s, q + 2) = BitOf(x5, 5)
        /\ Bit(s, q + 3) = BitOf(x5, 6) /\ Bit(s, q + 4) = BitOf(x5, 7)
    BY <1>b5
  <2> HIDE DEF q
  <2>3. DigitOf(32, s, m * 8 + 8) =
          16 * Bit(s, q + 0) + 8 * Bit(s, q + 1) + 4 * Bit(s, q + 2) + 2 * Bit(s, q + 3) + Bit(s, q + 4)
    BY <2>1, DigitOf32
  <2>4. QED
    BY <1>3, <2>2, <2>3
<1>12. QED
  <2>1. \A i \in 1..8 : i \in {1, 2, 3, 4, 5, 6, 7, 8}
    OBVIOUS
  <2>2. QED
    BY <2>1, <1>4, <1>5, <1>6, <1>7, <1>8, <1>9, <1>10, <1>11 DEF F

LEMMA SplitBits16 ==
  ASSUME NEW F \in [1..1 -> 0..255]
  PROVE  /\ Split16(F)[1] = 8 * BitOf(F[1], 0) + 4 * BitOf(F[1], 1) + 2 * BitOf(F[1], 2) + BitOf(F[1], 3)
         /\ Split16(F)[2] = 8 * BitOf(F[1], 4) + 4 * BitOf(F[1], 5) + 2 * BitOf(F[1], 6) + BitOf(F[1], 7)
<1> DEFINE x1 == F[1]
<1>1. x1 \in 0..255
  OBVIOUS
<1>2. /\ Split16(F)[1] = x1 \div 16
      /\ Split16(F)[2] = x1 % 16
  BY DEF Split16
<1> HIDE DEF x1
<1>3. Split16(F)[1] = 8 * BitOf(x1, 0) + 4 * BitOf(x1, 1) + 2 * BitOf(x1, 2) + BitOf(x1, 3)
  BY <1>1, <1>2, ByteParts
<1>4. Split16(F)[2] = 8 * BitOf(x1, 4) + 4 * BitOf(x1, 5) + 2 * BitOf(x1, 6) + BitOf(x1, 7)
  BY <1>1, <1>2, ByteParts
<1>5. QED
  BY <1>3, <1>4 DEF x1

LEMMA DigitAt16 ==
  ASSUME NEW s \in Seq(Octet), NEW m \in Nat
  PROVE  \A i \in 1..2 : DigitOf(16, s, m * 2 + i) = Split16(Block(s, m, 1))[i]
<1> DEFINE F == Block(s, m, 1)
           x1 == At(s, m * 1 + 1)
<1>0. m * 1 + 1 \in Nat
  OBVIOUS
<1>1. x1 \in 0..255
  BY <1>0, AtIsByte
<1>2. F[1] = x1
  BY DEF Block
<1>b1. \A r \in 0..7 : \A i \in Nat : i = 8 * m + 0 + r => Bit(s, i) = BitOf(x1, r)
  <2> DEFINE p == m * 1 + 1
  <2>1. p \in Nat \ {0} /\ \A r \in 0..7 : 8 * m + 0 + r = 8 * (p - 1) + r
    OBVIOUS
  <2> HIDE DEF p
  <2>2. \A r \in 0..7 : \A i \in Nat : i = 8 * (p - 1) + r => Bit(s, i) = BitOf(At(s, p), r)
    BY <2>1, BitAt
  <2>3. QED
    BY <2>1, <2>2 DEF p
<1>c. F \in [1..1 -> 0..255]
  <2>1. ASSUME NEW t \in 1..1 PROVE At(s, m * 1 + t) \in 0..255
    <3>1. m * 1 + t \in Nat
      OBVIOUS
    <3>2. QED
      BY <3>1, AtIsByte
  <2>2. QED
    BY <2>1 DEF Block
<1> HIDE DEF F, x1
<1>3. /\ Split16(F)[1] = 8 * BitOf(x1, 0) + 4 * BitOf(x1, 1) + 2 * BitOf(x1, 2) + BitOf(x1, 3)
      /\ Split16(F)[2] = 8 * BitOf(x1, 4) + 4 * BitOf(x1, 5) + 2 * BitOf(x1, 6) + BitOf(x1, 7)
  BY <1>2, <1>c, SplitBits16
<1>4. DigitOf(16, s, m * 2 + 1) = Split16(F)[1]
  <2> DEFINE q == 8 * m + 0
  <2>1. m * 2 + 1 \in Nat /\ q \in Nat /\ q = (m * 2 + 1 - 1) * 4
    OBVIOUS
  <2>2. /\ Bit(s, q + 0) = BitOf(x1, 0) /\ Bit(s, q + 1) = BitOf(x1, 1) /\ Bit(s, q + 2) = BitOf(x1, 2)
        /\ Bit(s, q + 3) = BitOf(x1, 3)
    BY <1>b1
  <2> HIDE DEF q
  <2>3. DigitOf(16, s, m * 2 + 1) =
          8 * Bit(s, q + 0) + 4 * Bit(s, q + 1) + 2 * Bit(s, q + 2) + Bit(s, q + 3)
    BY <2>1, DigitOf16
  <2>4. QED
    BY <1>3, <2>2, <2>3
<1>5. DigitOf(16, s, m * 2 + 2) = Split16(F)[2]
  <2> DEFINE q == 8 * m + 4
  <2>1. m * 2 + 2 \in Nat /\ q \in Nat /\ q = (m * 2 + 2 - 1) * 4
    OBVIOUS
  <2>2. /\ Bit(s, q + 0) = BitOf(x1, 4) /\ Bit(s, q + 1) = BitOf(x1, 5) /\ Bit(s, q + 2) = BitOf(x1, 6)
        /\ Bit(s, q + 3) = BitOf(x1, 7)
    BY <1>b1
  <2> HIDE DEF q
  <2>3. DigitOf(16, s, m * 2 + 2) =
          8 * Bit(s, q + 0) + 4 * Bit(s, q + 1) + 2 * Bit(s, q + 2) + Bit(s, q + 3)
    BY <2>1, DigitOf16
  <2>4. QED
    BY <1>3, <2>2, <2>3
<1>6. QED
  <2>1. \A i \in 1..2 : i \in {1, 2}
    OBVIOUS
  <2>2. QED
    BY <2>1, <1>4, <1>5 DEF F

-----------------------------------------------------------------------------
(* Groups                                                                  *)

(* The sizes of the groups.                                                *)
LEMMA GroupSizes ==
  ASSUME NEW c \in Codings
  PROVE  \/ c = 64 /\ Bytes(c) = 3 /\ Chars(c) = 4 /\ Width(c) = 6
         \/ c = 32 /\ Bytes(c) = 5 /\ Chars(c) = 8 /\ Width(c) = 5
         \/ c = 16 /\ Bytes(c) = 1 /\ Chars(c) = 2 /\ Width(c) = 4
BY DEF Codings, Bytes, Chars, Width

(* A sequence has as many groups as it needs, and none is empty.           *)
LEMMA GroupCount ==
  ASSUME NEW c \in Codings, NEW s \in Seq(Octet), NEW g, g = Groups(s, Bytes(c))
  PROVE  /\ g \in Nat
         /\ g = 0 <=> Len(s) = 0
         /\ g > 0 => (g - 1) * Bytes(c) < Len(s) /\ Len(s) <= g * Bytes(c)
<1>1. Len(s) \in Nat /\ g = (Len(s) + Bytes(c) - 1) \div Bytes(c)
  BY DEF Groups
<1>2. \A n \in Nat : LET h == (n + 3 - 1) \div 3
                     IN  h \in Nat /\ (h = 0 <=> n = 0) /\ (h > 0 => (h - 1) * 3 < n /\ n <= h * 3)
  OBVIOUS
<1>3. \A n \in Nat : LET h == (n + 5 - 1) \div 5
                     IN  h \in Nat /\ (h = 0 <=> n = 0) /\ (h > 0 => (h - 1) * 5 < n /\ n <= h * 5)
  OBVIOUS
<1>4. \A n \in Nat : LET h == (n + 1 - 1) \div 1
                     IN  h \in Nat /\ (h = 0 <=> n = 0) /\ (h > 0 => (h - 1) * 1 < n /\ n <= h * 1)
  OBVIOUS
<1>5. QED
  BY <1>1, <1>2, <1>3, <1>4, GroupSizes

(* The length of the n-th group of N bytes.                                *)
Room(n, N, width) == IF n * width < N THEN width ELSE N - (n - 1) * width

LEMMA RoomIs ==
  ASSUME NEW c \in Codings, NEW s \in Seq(Octet), NEW n \in 1..Groups(s, Bytes(c))
  PROVE  /\ (n - 1) * Bytes(c) \in Nat /\ (n - 1) * Bytes(c) < Len(s)
         /\ Room(n, Len(s), Bytes(c)) \in 1..Bytes(c)
         /\ n < Groups(s, Bytes(c)) => Room(n, Len(s), Bytes(c)) = Bytes(c)
         /\ n = Groups(s, Bytes(c)) => (n - 1) * Bytes(c) + Room(n, Len(s), Bytes(c)) = Len(s)
         /\ (n - 1) * Bytes(c) + Room(n, Len(s), Bytes(c)) =
              IF n * Bytes(c) < Len(s) THEN n * Bytes(c) ELSE Len(s)
<1> DEFINE g == Groups(s, Bytes(c))
           N == Len(s)
<1>1. g \in Nat /\ N \in Nat /\ n \in 1..g /\ (g - 1) * Bytes(c) < N /\ N <= g * Bytes(c)
  BY GroupCount
<1> HIDE DEF g, N
<1>2. \A B \in {3, 5, 1} : B = Bytes(c) =>
        /\ (n - 1) * B \in Nat /\ (n - 1) * B < N
        /\ Room(n, N, B) \in 1..B
        /\ n < g => Room(n, N, B) = B
        /\ n = g => (n - 1) * B + Room(n, N, B) = N
        /\ (n - 1) * B + Room(n, N, B) = IF n * B < N THEN n * B ELSE N
  <2>1. CASE Bytes(c) = 3
    BY <1>1, <2>1 DEF Room
  <2>2. CASE Bytes(c) = 5
    BY <1>1, <2>2 DEF Room
  <2>3. CASE Bytes(c) = 1
    BY <1>1, <2>3 DEF Room
  <2>4. QED
    BY <2>1, <2>2, <2>3
<1>3. QED
  BY <1>2, GroupSizes DEF g, N

(* A group of bytes, filled with zeros, is a block.                        *)
LEMMA GroupIsBlock ==
  ASSUME NEW c \in Codings, NEW s \in Seq(Octet), NEW n \in 1..Groups(s, Bytes(c))
  PROVE  /\ Len(Group(s, n, Bytes(c))) = Room(n, Len(s), Bytes(c))
         /\ Fill(Group(s, n, Bytes(c)), Bytes(c), 0) = Block(s, n - 1, Bytes(c))
<1> DEFINE B == Bytes(c)
           N == Len(s)
           d == (n - 1) * B
           r == Room(n, N, B)
           t == Group(s, n, B)
<1>1. B \in Nat /\ N \in Nat /\ d \in Nat /\ r \in 1..B /\ d < N
      /\ d + r = IF n * B < N THEN n * B ELSE N
  BY GroupSizes, RoomIs
<1>2. d + r <= N /\ (d + r < N => r = B)
  <2> DEFINE e == n * B
  <2>1. r = IF e < N THEN B ELSE N - d
    BY DEF Room
  <2>2. d + r = IF e < N THEN e ELSE N
    BY <1>1
  <2> HIDE DEF B, N, d, r, e
  <2>3. QED
    BY <1>1, <2>1, <2>2
<1>3. t = SubSeq(s, d + 1, d + r)
  BY <1>1 DEF Group
<1> HIDE DEF B, N, d, r, t
<1>4. \A i \in (d + 1)..(d + r) : s[i] \in Octet
  <2>1. \A i \in (d + 1)..(d + r) : i \in 1..N
    BY <1>1, <1>2
  <2>2. QED
    BY <2>1 DEF N
<1>5. Len(t) = r /\ \A i \in 1..r : t[i] = s[d + i]
  <2>1. d + 1 \in Int /\ d + r \in Int /\ d + 1 <= d + r /\ (d + r) - (d + 1) + 1 = r
    BY <1>1
  <2>2. /\ Len(t) = (d + r) - (d + 1) + 1
        /\ \A i \in 1..((d + r) - (d + 1) + 1) : t[i] = s[d + 1 + i - 1]
    BY <1>3, <1>4, <2>1, SubSeqProperties
  <2>3. \A i \in 1..r : d + 1 + i - 1 = d + i
    BY <1>1
  <2>4. QED
    BY <2>1, <2>2, <2>3
<1>6. ASSUME NEW i \in 1..B PROVE (IF i <= Len(t) THEN t[i] ELSE 0) = At(s, d + i)
  <2>1. CASE i <= r
    <3>1. i \in 1..r /\ d + i \in 1..N
      BY <1>1, <1>2, <2>1
    <3>2. QED
      BY <1>5, <2>1, <3>1 DEF At, N
  <2>2. CASE ~(i <= r)
    <3>1. r < B /\ d + r = N /\ ~(d + i \in 1..N)
      BY <1>1, <1>2, <2>2
    <3>2. QED
      BY <1>5, <2>2, <3>1 DEF At, N
  <2>3. QED
    BY <2>1, <2>2
<1>7. Fill(t, B, 0) = [i \in 1..B |-> At(s, d + i)]
  BY <1>6 DEF Fill
<1>8. QED
  BY <1>5, <1>7 DEF Block, B, N, d, r, t

LEMMA BlockType ==
  ASSUME NEW s \in Seq(Octet), NEW m \in Nat, NEW width \in Nat
  PROVE  Block(s, m, width) \in [1..width -> 0..255]
<1>1. ASSUME NEW t \in 1..width PROVE At(s, m * width + t) \in 0..255
  <2>1. m * width + t \in Nat
    OBVIOUS
  <2>2. QED
    BY <2>1, AtIsByte
<1>2. QED
  BY <1>1 DEF Block

-----------------------------------------------------------------------------
(* Encoding                                                                *)

(* The numbers that a character stands for.                                *)
DigitValues(c) == CASE c = 64 -> 0..63 [] c = 32 -> 0..31 [] c = 16 -> 0..15

(* The digits that r bytes need.                                           *)
LEMMA UsedIs ==
  ASSUME NEW c \in Codings, NEW b \in 1..Bytes(c)
  PROVE  /\ Used(c, b) \in 1..Chars(c)
         /\ c = 64 => Used(c, b) = b + 1
         /\ c = 32 => Used(c, b) = IF b = 1 THEN 2 ELSE IF b = 2 THEN 4 ELSE IF b = 3 THEN 5
                                   ELSE IF b = 4 THEN 7 ELSE 8
         /\ c = 16 => Used(c, b) = 2
<1>1. CASE c = 64
  <2>1. Bytes(c) = 3 /\ Chars(c) = 4 /\ b \in {1, 2, 3}
    BY <1>1, GroupSizes
  <2>2. <<2, 3>>[1] = 2 /\ <<2, 3>>[2] = 3
    OBVIOUS
  <2>3. QED
    BY <1>1, <2>1, <2>2 DEF Used
<1>2. CASE c = 32
  <2>1. Bytes(c) = 5 /\ Chars(c) = 8 /\ b \in {1, 2, 3, 4, 5}
    BY <1>2, GroupSizes
  <2>2. <<2, 4, 5, 7>>[1] = 2 /\ <<2, 4, 5, 7>>[2] = 4 /\ <<2, 4, 5, 7>>[3] = 5 /\ <<2, 4, 5, 7>>[4] = 7
    OBVIOUS
  <2>3. QED
    BY <1>2, <2>1, <2>2 DEF Used
<1>3. CASE c = 16
  <2>1. Bytes(c) = 1 /\ Chars(c) = 2 /\ b = 1
    BY <1>3, GroupSizes
  <2>2. QED
    BY <1>3, <2>1 DEF Used
<1>4. QED
  BY <1>1, <1>2, <1>3 DEF Codings

(* Tuples are functions.                                                   *)
LEMMA Tuple2 ==
  ASSUME NEW Z, NEW d1 \in Z, NEW d2 \in Z
  PROVE  <<d1, d2>> \in [1..2 -> Z]
<1> DEFINE t == <<d1, d2>>
<1>1. t \in Seq(Z) /\ Len(t) = 2
  OBVIOUS
<1> HIDE DEF t
<1>2. t \in [1..2 -> Z]
  BY <1>1, LenProperties
<1>3. QED
  BY <1>2 DEF t

LEMMA Tuple4 ==
  ASSUME NEW Z, NEW d1 \in Z, NEW d2 \in Z, NEW d3 \in Z, NEW d4 \in Z
  PROVE  <<d1, d2, d3, d4>> \in [1..4 -> Z]
<1> DEFINE t == <<d1, d2, d3, d4>>
<1>1. t \in Seq(Z) /\ Len(t) = 4
  OBVIOUS
<1> HIDE DEF t
<1>2. t \in [1..4 -> Z]
  BY <1>1, LenProperties
<1>3. QED
  BY <1>2 DEF t

LEMMA Tuple8 ==
  ASSUME NEW Z, NEW d1 \in Z, NEW d2 \in Z, NEW d3 \in Z, NEW d4 \in Z, NEW d5 \in Z, NEW d6 \in Z, NEW d7 \in Z, NEW d8 \in Z
  PROVE  <<d1, d2, d3, d4, d5, d6, d7, d8>> \in [1..8 -> Z]
<1> DEFINE t == <<d1, d2, d3, d4, d5, d6, d7, d8>>
<1>1. t \in Seq(Z) /\ Len(t) = 8
  OBVIOUS
<1> HIDE DEF t
<1>2. t \in [1..8 -> Z]
  BY <1>1, LenProperties
<1>3. QED
  BY <1>2 DEF t

(* The digits of a group are in the range of the alphabet.                 *)
LEMMA SplitType ==
  ASSUME NEW c \in Codings, NEW F \in [1..Bytes(c) -> 0..255]
  PROVE  Split(c, F) \in [1..Chars(c) -> DigitValues(c)]
<1>1. CASE c = 64
  <2> DEFINE x1 == F[1]
             x2 == F[2]
             x3 == F[3]
  <2>1. x1 \in 0..255 /\ x2 \in 0..255 /\ x3 \in 0..255
    BY <1>1 DEF Bytes
  <2>2. Split(c, F) = << x1 \div 4, (x1 % 4) * 16 + x2 \div 16, (x2 % 16) * 4 + x3 \div 64, x3 % 64 >>
    BY <1>1 DEF Split, Split64
  <2> HIDE DEF x1, x2, x3
  <2>3. /\ x1 \div 4 \in 0..63 /\ (x1 % 4) * 16 + x2 \div 16 \in 0..63
        /\ (x2 % 16) * 4 + x3 \div 64 \in 0..63 /\ x3 % 64 \in 0..63
    BY <2>1
  <2>4. Split(c, F) \in [1..4 -> 0..63]
    BY <2>2, <2>3, Tuple4
  <2>5. QED
    BY <1>1, <2>4 DEF Chars, DigitValues
<1>2. CASE c = 32
  <2> DEFINE x1 == F[1]
             x2 == F[2]
             x3 == F[3]
             x4 == F[4]
             x5 == F[5]
  <2>1. x1 \in 0..255 /\ x2 \in 0..255 /\ x3 \in 0..255 /\ x4 \in 0..255 /\ x5 \in 0..255
    BY <1>2 DEF Bytes
  <2>2. Split(c, F) =
          << x1 \div 8, (x1 % 8) * 4 + x2 \div 64, (x2 % 64) \div 2, (x2 % 2) * 16 + x3 \div 16,
             (x3 % 16) * 2 + x4 \div 128, (x4 % 128) \div 4, (x4 % 4) * 8 + x5 \div 32, x5 % 32 >>
    BY <1>2 DEF Split, Split32
  <2> HIDE DEF x1, x2, x3, x4, x5
  <2>3. /\ x1 \div 8 \in 0..31 /\ (x1 % 8) * 4 + x2 \div 64 \in 0..31
        /\ (x2 % 64) \div 2 \in 0..31 /\ (x2 % 2) * 16 + x3 \div 16 \in 0..31
        /\ (x3 % 16) * 2 + x4 \div 128 \in 0..31 /\ (x4 % 128) \div 4 \in 0..31
        /\ (x4 % 4) * 8 + x5 \div 32 \in 0..31 /\ x5 % 32 \in 0..31
    BY <2>1
  <2>4. Split(c, F) \in [1..8 -> 0..31]
    BY <2>2, <2>3, Tuple8
  <2>5. QED
    BY <1>2, <2>4 DEF Chars, DigitValues
<1>3. CASE c = 16
  <2> DEFINE x1 == F[1]
  <2>1. x1 \in 0..255
    BY <1>3 DEF Bytes
  <2>2. Split(c, F) = << x1 \div 16, x1 % 16 >>
    BY <1>3 DEF Split, Split16
  <2> HIDE DEF x1
  <2>3. x1 \div 16 \in 0..15 /\ x1 % 16 \in 0..15
    BY <2>1
  <2>4. Split(c, F) \in [1..2 -> 0..15]
    BY <2>2, <2>3, Tuple2
  <2>5. QED
    BY <1>3, <2>4 DEF Chars, DigitValues
<1>4. QED
  BY <1>1, <1>2, <1>3 DEF Codings

(* A character of the alphabet is no padding, and is decoded.              *)
LEMMA CharacterIs ==
  ASSUME NEW c \in Codings, NEW d \in DigitValues(c)
  PROVE  /\ Character(c, d) \in Nat
         /\ Character(c, d) # Padding
         /\ Digit(c, Character(c, d)) = d
<1>1. CASE c = 64
  <2>1. d \in 0..63
    BY <1>1 DEF DigitValues
  <2>2. Character(c, d) = IF d < 26 THEN 65 + d ELSE IF d < 52 THEN 97 + d - 26
                          ELSE IF d < 62 THEN 48 + d - 52 ELSE IF d = 62 THEN 43 ELSE 47
    BY <1>1, <2>1 DEF Character, base64_table
  <2>3. \A b \in Nat : Digit(c, b) =
          CASE b \in 65..90 -> b - 65 [] b \in 97..122 -> b - 97 + 26 [] b \in 48..57 -> b - 48 + 52
            [] b = 43 -> 62 [] b = 47 -> 63 [] OTHER -> Bad
    BY <1>1 DEF Digit, getBase64Base
  <2>4. Character(c, d) \in Nat /\ Character(c, d) # 61
    BY <2>1, <2>2
  <2>5. Digit(c, Character(c, d)) = d
    BY <2>1, <2>2, <2>3, <2>4
  <2>6. QED
    BY <2>4, <2>5 DEF Padding
<1>2. CASE c = 32
  <2>1. d \in 0..31
    BY <1>2 DEF DigitValues
  <2>2. Character(c, d) = IF d < 26 THEN 65 + d ELSE 50 + d - 26
    BY <1>2, <2>1 DEF Character, base32_table
  <2>3. \A b \in Nat : Digit(c, b) =
          CASE b \in 65..90 -> b - 65 [] b \in 50..55 -> b - 50 + 26 [] OTHER -> Bad
    BY <1>2 DEF Digit, getBase32Base
  <2>4. Character(c, d) \in Nat /\ Character(c, d) # 61
    BY <2>1, <2>2
  <2>5. Digit(c, Character(c, d)) = d
    BY <2>1, <2>2, <2>3, <2>4
  <2>6. QED
    BY <2>4, <2>5 DEF Padding
<1>3. CASE c = 16
  <2>1. d \in 0..15
    BY <1>3 DEF DigitValues
  <2>2. Character(c, d) = IF d < 10 THEN 48 + d ELSE 65 + d - 10
    BY <1>3, <2>1 DEF Character, base16_table
  <2>3. \A b \in Nat : Digit(c, b) =
          CASE b \in 48..57 -> b - 48 [] b \in 65..70 -> b - 65 + 10 [] OTHER -> Bad
    BY <1>3 DEF Digit, getBase16Base
  <2>4. Character(c, d) \in Nat /\ Character(c, d) # 61
    BY <2>1, <2>2
  <2>5. Digit(c, Character(c, d)) = d
    BY <2>1, <2>2, <2>3, <2>4
  <2>6. QED
    BY <2>4, <2>5 DEF Padding
<1>4. QED
  BY <1>1, <1>2, <1>3 DEF Codings

(* The digits of the n-th group of s, and how many of them are written.    *)
Digits(c, s, n) == Split(c, Block(s, n - 1, Bytes(c)))

Significants(c, s, n) == Used(c, Room(n, Len(s), Bytes(c)))

LEMMA DigitsType ==
  ASSUME NEW c \in Codings, NEW s \in Seq(Octet), NEW n \in 1..Groups(s, Bytes(c))
  PROVE  /\ Digits(c, s, n) \in [1..Chars(c) -> DigitValues(c)]
         /\ Significants(c, s, n) \in 1..Chars(c)
<1>1. Block(s, n - 1, Bytes(c)) \in [1..Bytes(c) -> 0..255]
  <2>1. n - 1 \in Nat /\ Bytes(c) \in Nat
    BY GroupSizes, GroupCount
  <2>2. QED
    BY <2>1, BlockType
<1>2. Room(n, Len(s), Bytes(c)) \in 1..Bytes(c)
  BY RoomIs
<1>3. QED
  BY <1>1, <1>2, SplitType, UsedIs DEF Digits, Significants

(* A group is encoded to its digits, and padding behind them.              *)
LEMMA EncodeGroupIs ==
  ASSUME NEW c \in Codings, NEW s \in Seq(Octet), NEW n \in 1..Groups(s, Bytes(c))
  PROVE  EncodeGroup(c, Group(s, n, Bytes(c))) =
           [j \in 1..Chars(c) |-> IF j <= Significants(c, s, n) THEN Character(c, Digits(c, s, n)[j])
                                  ELSE Padding]
<1> DEFINE F == Digits(c, s, n)
           u == Significants(c, s, n)
           digits == SubSeq(F, 1, u)
<1>1. F \in [1..Chars(c) -> DigitValues(c)] /\ u \in 1..Chars(c) /\ Chars(c) \in Nat
  BY DigitsType, GroupSizes
<1>2. EncodeGroup(c, Group(s, n, Bytes(c))) =
        Fill([i \in 1..Len(digits) |-> Character(c, digits[i])], Chars(c), Padding)
  BY GroupIsBlock DEF EncodeGroup, Digits, Significants
<1> HIDE DEF F, u
<1>3. Len(digits) = u /\ \A i \in 1..u : digits[i] = F[i]
  <2>1. \A i \in 1..u : F[i] \in DigitValues(c)
    BY <1>1
  <2>2. /\ Len(digits) = IF 1 <= u THEN u - 1 + 1 ELSE 0
        /\ \A i \in 1..(u - 1 + 1) : digits[i] = F[1 + i - 1]
    BY <1>1, <2>1, SubSeqProperties
  <2>3. u - 1 + 1 = u /\ 1 <= u /\ \A i \in 1..u : 1 + i - 1 = i
    BY <1>1
  <2>4. QED
    BY <2>2, <2>3
<1> DEFINE text == [i \in 1..Len(digits) |-> Character(c, digits[i])]
<1>4. Len(text) = u /\ \A i \in 1..u : text[i] = Character(c, F[i])
  BY <1>1, <1>3
<1>5. Fill(text, Chars(c), Padding) = [j \in 1..Chars(c) |-> IF j <= u THEN Character(c, F[j]) ELSE Padding]
  <2> HIDE DEF text
  <2>1. \A j \in 1..Chars(c) : (IF j <= Len(text) THEN text[j] ELSE Padding) =
                               (IF j <= u THEN Character(c, F[j]) ELSE Padding)
    BY <1>1, <1>4
  <2>2. QED
    BY <2>1 DEF Fill
<1>6. QED
  BY <1>2, <1>5 DEF F, u

(* A text is the encoded groups behind each other.                         *)
LEMMA EncodeIs ==
  ASSUME NEW c \in Codings, NEW s \in Seq(Octet)
  PROVE  /\ Encode(c, s) \in Seq(Nat)
         /\ Len(Encode(c, s)) = Groups(s, Bytes(c)) * Chars(c)
         /\ \A n \in 1..Groups(s, Bytes(c)) : \A j \in 1..Chars(c) :
              Encode(c, s)[(n - 1) * Chars(c) + j] =
                IF j <= Significants(c, s, n) THEN Character(c, Digits(c, s, n)[j]) ELSE Padding
<1> DEFINE g == Groups(s, Bytes(c))
           C == Chars(c)
           code(n, j) == IF j <= Significants(c, s, n) THEN Character(c, Digits(c, s, n)[j]) ELSE Padding
           seqs == [n \in 1..g |-> EncodeGroup(c, Group(s, n, Bytes(c)))]
<1>1. g \in Nat /\ C \in Nat
  BY GroupCount, GroupSizes
<1>2. Encode(c, s) = FlattenSeq(seqs)
  BY DEF Encode
<1>3. \A n \in 1..g : \A j \in 1..C : code(n, j) \in Nat
  <2>1. TAKE n \in 1..g
  <2>2. TAKE j \in 1..C
  <2>3. Digits(c, s, n)[j] \in DigitValues(c)
    BY DigitsType
  <2>4. Character(c, Digits(c, s, n)[j]) \in Nat
    BY <2>3, CharacterIs
  <2>5. QED
    BY <2>4 DEF Padding
<1>4. \A n \in 1..g : seqs[n] = [j \in 1..C |-> code(n, j)]
  BY EncodeGroupIs
<1>5. Len(seqs) = g
  BY <1>1
<1> HIDE DEF g, C, code, seqs
<1>6. ASSUME NEW n \in 1..g
      PROVE  seqs[n] \in Seq(Nat) /\ Len(seqs[n]) = C /\ \A j \in 1..C : seqs[n][j] = code(n, j)
  <2> DEFINE h == [j \in 1..C |-> code(n, j)]
  <2>1. h \in Seq(Nat) /\ Len(h) = C /\ \A j \in 1..C : h[j] = code(n, j)
    BY <1>1, <1>3
  <2>2. seqs[n] = h
    BY <1>4
  <2>3. QED
    BY <2>1, <2>2
<1>7. CASE g = 0
  <2>1. FlattenSeq(seqs) = seqs
    BY <1>5, <1>7 DEF FlattenSeq
  <2>2. seqs = << >>
    BY <1>7 DEF seqs
  <2>3. g * C = 0 /\ 1..g = {}
    BY <1>1, <1>7
  <2>4. Encode(c, s) \in Seq(Nat) /\ Len(Encode(c, s)) = g * C
    BY <1>2, <2>1, <2>2, <2>3
  <2>5. QED
    BY <2>3, <2>4 DEF g, C
<1>8. CASE g # 0
  <2>1. g \in Nat \ {0} /\ g \in 1..g
    BY <1>1, <1>8
  <2>2. /\ FlattenSeq(seqs) \in Seq(Nat)
        /\ Len(FlattenSeq(seqs)) = (g - 1) * C + Len(seqs[g])
        /\ \A n \in 1..g : \A j \in 1..Len(seqs[n]) : FlattenSeq(seqs)[(n - 1) * C + j] = seqs[n][j]
    <3>1. \A n \in 1..g : seqs[n] \in Seq(Nat)
      BY <1>6
    <3>2. \A n \in 1..(g - 1) : Len(seqs[n]) = C
      BY <1>1, <1>6
    <3>3. Uniform(seqs, g, C, Nat)
      BY <1>5, <3>1, <3>2 DEF Uniform
    <3>4. Joined(FlattenSeq(seqs), seqs, g, C, Nat)
      BY <1>1, <2>1, <3>3, FlattenUniform
    <3>5. QED
      BY <3>4 DEF Joined
  <2>3. (g - 1) * C + C = g * C
    BY <1>1, <2>1
  <2>4. \A n \in 1..g : \A j \in 1..C : FlattenSeq(seqs)[(n - 1) * C + j] = code(n, j)
    BY <1>6, <2>2
  <2>5. Len(FlattenSeq(seqs)) = g * C
    BY <1>6, <2>1, <2>2, <2>3
  <2>6. QED
    BY <1>2, <2>2, <2>4, <2>5 DEF g, C, code
<1>9. QED
  BY <1>7, <1>8

(* The digits that the bits of s fill are those that are written.          *)
LEMMA DigitIsWritten ==
  ASSUME NEW c \in Codings, NEW s \in Seq(Octet), NEW n \in 1..Groups(s, Bytes(c)), NEW j \in 1..Chars(c)
  PROVE  (n - 1) * Chars(c) + j <= (8 * Len(s) + Width(c) - 1) \div Width(c)
           <=> j <= Significants(c, s, n)
<1> DEFINE g == Groups(s, Bytes(c))
           N == Len(s)
           r == Room(n, Len(s), Bytes(c))
           u == Used(c, r)
<1>1. /\ g \in Nat /\ N \in Nat /\ n \in 1..g /\ r \in 1..Bytes(c)
      /\ (n - 1) * Bytes(c) < N
      /\ (n - 1) * Bytes(c) + r = IF n * Bytes(c) < N THEN n * Bytes(c) ELSE N
  BY GroupCount, RoomIs
<1>2. u = Significants(c, s, n)
  BY DEF Significants
<1>3. \A b \in 1..Bytes(c) :
        /\ c = 64 => Used(c, b) = b + 1
        /\ c = 32 => Used(c, b) = IF b = 1 THEN 2 ELSE IF b = 2 THEN 4 ELSE IF b = 3 THEN 5
                                   ELSE IF b = 4 THEN 7 ELSE 8
        /\ c = 16 => Used(c, b) = 2
  BY UsedIs
<1> HIDE DEF g, N, r
<1>4. CASE c = 64
  <2>1. Bytes(c) = 3 /\ Chars(c) = 4 /\ Width(c) = 6 /\ u = r + 1 /\ r \in 1..3
    BY <1>1, <1>3, <1>4, GroupSizes
  <2>2. j \in 1..4 /\ n \in Nat /\ (n - 1) * 3 + r = IF n * 3 < N THEN n * 3 ELSE N
    BY <1>1, <2>1
  <2> HIDE DEF u
  <2>3. (n - 1) * 4 + j <= (8 * N + 6 - 1) \div 6 <=> 6 * ((n - 1) * 4 + j) <= 8 * N + 5
    BY <1>1, <2>2
  <2>4. 6 * ((n - 1) * 4 + j) <= 8 * N + 5 <=> j <= u
    BY <1>1, <2>1, <2>2
  <2>5. QED
    BY <1>2, <2>1, <2>3, <2>4 DEF N
<1>5. CASE c = 32
  <2>1. /\ Bytes(c) = 5 /\ Chars(c) = 8 /\ Width(c) = 5 /\ r \in 1..5
        /\ u = IF r = 1 THEN 2 ELSE IF r = 2 THEN 4 ELSE IF r = 3 THEN 5 ELSE IF r = 4 THEN 7 ELSE 8
    BY <1>1, <1>3, <1>5, GroupSizes
  <2>2. j \in 1..8 /\ n \in Nat /\ (n - 1) * 5 + r = IF n * 5 < N THEN n * 5 ELSE N
    BY <1>1, <2>1
  <2> HIDE DEF u
  <2>3. (n - 1) * 8 + j <= (8 * N + 5 - 1) \div 5 <=> 5 * ((n - 1) * 8 + j) <= 8 * N + 4
    BY <1>1, <2>2
  <2>4. 5 * ((n - 1) * 8 + j) <= 8 * N + 4 <=> j <= u
    BY <1>1, <2>1, <2>2
  <2>5. QED
    BY <1>2, <2>1, <2>3, <2>4 DEF N
<1>6. CASE c = 16
  <2>1. Bytes(c) = 1 /\ Chars(c) = 2 /\ Width(c) = 4 /\ u = 2 /\ r = 1
    BY <1>1, <1>3, <1>6, GroupSizes
  <2>2. j \in 1..2 /\ n \in Nat /\ (n - 1) * 1 + r = IF n * 1 < N THEN n * 1 ELSE N
    BY <1>1, <2>1
  <2> HIDE DEF u
  <2>3. (n - 1) * 2 + j <= (8 * N + 4 - 1) \div 4 <=> 4 * ((n - 1) * 2 + j) <= 8 * N + 3
    BY <1>1, <2>2
  <2>4. 4 * ((n - 1) * 2 + j) <= 8 * N + 3 <=> j <= u
    BY <1>1, <2>1, <2>2
  <2>5. QED
    BY <1>2, <2>1, <2>3, <2>4 DEF N
<1>7. QED
  BY <1>4, <1>5, <1>6 DEF Codings

(* A character of a text belongs to a group.                               *)
LEMMA Position ==
  ASSUME NEW c \in Codings, NEW g \in Nat, NEW k \in 1..(g * Chars(c))
  PROVE  \E n \in 1..g : \E j \in 1..Chars(c) : k = (n - 1) * Chars(c) + j
<1> DEFINE n == (k - 1) \div Chars(c) + 1
           j == ((k - 1) % Chars(c)) + 1
<1>1. n \in 1..g /\ j \in 1..Chars(c) /\ k = (n - 1) * Chars(c) + j
  <2>1. CASE Chars(c) = 4
    BY <2>1
  <2>2. CASE Chars(c) = 8
    BY <2>2
  <2>3. CASE Chars(c) = 2
    BY <2>3
  <2>4. QED
    BY <2>1, <2>2, <2>3, GroupSizes
<1> HIDE DEF n, j
<1>2. QED
  BY <1>1

(* The digit that the bits of s write at a place is the one that Split     *)
(* gives.                                                                  *)
LEMMA DigitAt ==
  ASSUME NEW c \in Codings, NEW s \in Seq(Octet), NEW n \in 1..Groups(s, Bytes(c)), NEW j \in 1..Chars(c)
  PROVE  DigitOf(c, s, (n - 1) * Chars(c) + j) = Digits(c, s, n)[j]
<1>1. n - 1 \in Nat
  BY GroupCount
<1>2. CASE c = 64
  <2>1. Chars(c) = 4 /\ Digits(c, s, n) = Split64(Block(s, n - 1, 3))
    BY <1>2 DEF Chars, Bytes, Digits, Split
  <2>2. QED
    BY <1>1, <1>2, <2>1, DigitAt64
<1>3. CASE c = 32
  <2>1. Chars(c) = 8 /\ Digits(c, s, n) = Split32(Block(s, n - 1, 5))
    BY <1>3 DEF Chars, Bytes, Digits, Split
  <2>2. QED
    BY <1>1, <1>3, <2>1, DigitAt32
<1>4. CASE c = 16
  <2>1. Chars(c) = 2 /\ Digits(c, s, n) = Split16(Block(s, n - 1, 1))
    BY <1>4 DEF Chars, Bytes, Digits, Split
  <2>2. QED
    BY <1>1, <1>4, <2>1, DigitAt16
<1>5. QED
  BY <1>2, <1>3, <1>4 DEF Codings

(* The input is a sequence of bytes.                                       *)
BytesType == input \in Seq(Octet)

LEMMA TypeOfInput == CodingSpec => []BytesType
<1>1. CodingInit => BytesType
  BY DEF CodingInit, BytesType
<1>2. BytesType /\ [CodingNext]_input => BytesType'
  <2>1. Inputs \subseteq Octet
    BY CodingAssumption DEF Octet
  <2>2. SUFFICES ASSUME BytesType, CodingNext PROVE BytesType'
    BY DEF BytesType
  <2>3. CASE Len(input) < MaxInput
    <3>1. PICK b \in Inputs : input' = Append(input, b)
      BY <2>2, <2>3 DEF CodingNext
    <3>2. QED
      BY <2>1, <2>2, <3>1 DEF BytesType
  <2>4. CASE ~(Len(input) < MaxInput)
    BY <2>2, <2>4 DEF CodingNext, BytesType
  <2>5. QED
    BY <2>3, <2>4
<1>3. QED
  BY <1>1, <1>2, PTL DEF CodingSpec

LEMMA BitsAreEncoded == BytesType => EncodesBits
<1> SUFFICES ASSUME BytesType, NEW c \in Codings
             PROVE  LET text   == Encode(c, input)
                        digits == (8 * Len(input) + Width(c) - 1) \div Width(c)
                    IN  /\ Len(text) = Chars(c) * Groups(input, Bytes(c))
                        /\ \A k \in 1..Len(text) :
                             text[k] = IF k <= digits THEN Character(c, DigitOf(c, input, k)) ELSE Padding
  BY DEF EncodesBits
<1> DEFINE text == Encode(c, input)
           g == Groups(input, Bytes(c))
           digits == (8 * Len(input) + Width(c) - 1) \div Width(c)
<1>1. input \in Seq(Octet)
  BY DEF BytesType
<1>2. g \in Nat /\ Chars(c) \in Nat
  BY <1>1, GroupCount, GroupSizes
<1>3. Len(text) = g * Chars(c)
  BY <1>1, EncodeIs
<1>4. Len(text) = Chars(c) * g
  BY <1>2, <1>3
<1>5. ASSUME NEW k \in 1..Len(text)
      PROVE  text[k] = IF k <= digits THEN Character(c, DigitOf(c, input, k)) ELSE Padding
  <2>1. PICK n \in 1..g : \E j \in 1..Chars(c) : k = (n - 1) * Chars(c) + j
    <3>1. k \in 1..(g * Chars(c))
      BY <1>3
    <3> HIDE DEF g
    <3>2. QED
      BY <1>2, <3>1, Position
  <2>a. PICK j \in 1..Chars(c) : k = (n - 1) * Chars(c) + j
    BY <2>1
  <2>2. text[k] = IF j <= Significants(c, input, n) THEN Character(c, Digits(c, input, n)[j]) ELSE Padding
    BY <1>1, <2>a, EncodeIs
  <2>3. k <= digits <=> j <= Significants(c, input, n)
    BY <1>1, <2>a, DigitIsWritten
  <2>4. DigitOf(c, input, k) = Digits(c, input, n)[j]
    BY <1>1, <2>a, DigitAt
  <2>5. QED
    BY <2>2, <2>3, <2>4
<1>6. QED
  BY <1>4, <1>5

(* The text has the bits of the input in groups of 6, 5 or 4, a character  *)
(* for each, and padding up to a whole group.                              *)
THEOREM TextHasTheBits == CodingSpec => []EncodesBits
BY TypeOfInput, BitsAreEncoded, PTL

-----------------------------------------------------------------------------
(* Decoding                                                                *)

(* How many digits the last group of a text can have.                      *)
Counts(c) == CASE c = 64 -> {2, 3, 4} [] c = 32 -> {2, 4, 5, 7, 8} [] c = 16 -> {2}

(* A count of digits but the whole group has its padding asked for, and    *)
(* writes bytes.                                                           *)
LEMMA CountsAre ==
  ASSUME NEW c \in Codings, NEW u \in Counts(c)
  PROVE  /\ u \in 1..Chars(c)
         /\ u < Chars(c) => u + 1 \in Asked(c)
         /\ Written(c, u) \in 1..Bytes(c)
         /\ u = Chars(c) => Written(c, u) = Bytes(c)
<1>1. CASE c = 64
  <2>1. Chars(c) = 4 /\ Bytes(c) = 3 /\ Asked(c) = {3, 4} /\ u \in {2, 3, 4}
    BY <1>1 DEF Chars, Bytes, Asked, Counts
  <2>2. QED
    BY <2>1 DEF Written
<1>2. CASE c = 32
  <2>1. Chars(c) = 8 /\ Bytes(c) = 5 /\ Asked(c) = {3, 5, 6, 8} /\ u \in {2, 4, 5, 7, 8}
    BY <1>2 DEF Chars, Bytes, Asked, Counts
  <2>2. QED
    BY <2>1 DEF Written
<1>3. CASE c = 16
  <2>1. Chars(c) = 2 /\ Bytes(c) = 1 /\ u = 2
    BY <1>3 DEF Chars, Bytes, Counts
  <2>2. QED
    BY <2>1 DEF Written
<1>4. QED
  BY <1>1, <1>2, <1>3 DEF Codings

(* The padding of a text, and the digits of its last group.                *)
LEMMA PaddingsAre ==
  ASSUME NEW c \in Codings
  PROVE  /\ \A p \in Paddings(c) : p \in Nat /\ p < Chars(c) /\ Chars(c) - p \in Counts(c)
         /\ \A u \in Counts(c) : Chars(c) - u \in Paddings(c)
         /\ 0 \in Paddings(c) /\ Chars(c) \in Counts(c)
<1>1. CASE c = 64
  <2>1. Chars(c) = 4 /\ Paddings(c) = 0..2 /\ Counts(c) = {2, 3, 4}
    BY <1>1 DEF Chars, Paddings, Counts
  <2>2. QED
    BY <2>1
<1>2. CASE c = 32
  <2>1. Chars(c) = 8 /\ Paddings(c) = {0, 1, 3, 4, 6} /\ Counts(c) = {2, 4, 5, 7, 8}
    BY <1>2 DEF Chars, Paddings, Counts
  <2>2. QED
    BY <2>1
<1>3. CASE c = 16
  <2>1. Chars(c) = 2 /\ Paddings(c) = {0} /\ Counts(c) = {2}
    BY <1>3 DEF Chars, Paddings, Counts
  <2>2. QED
    BY <2>1
<1>4. QED
  BY <1>1, <1>2, <1>3 DEF Codings

(* = is no character of an alphabet.                                       *)
LEMMA PaddingIsNoDigit ==
  ASSUME NEW c \in Codings
  PROVE  Digit(c, Padding) = Bad
<1>1. CASE c = 64
  BY <1>1 DEF Digit, getBase64Base, Padding
<1>2. CASE c = 32
  BY <1>2 DEF Digit, getBase32Base, Padding
<1>3. CASE c = 16
  BY <1>3 DEF Digit, getBase16Base, Padding
<1>4. QED
  BY <1>1, <1>2, <1>3 DEF Codings

LEMMA DigitType ==
  ASSUME NEW c \in Codings, NEW b \in Nat, Digit(c, b) # Bad
  PROVE  Digit(c, b) \in DigitValues(c)
<1>1. CASE c = 64
  BY <1>1 DEF Digit, getBase64Base, DigitValues
<1>2. CASE c = 32
  BY <1>2 DEF Digit, getBase32Base, DigitValues
<1>3. CASE c = 16
  BY <1>3 DEF Digit, getBase16Base, DigitValues
<1>4. QED
  BY <1>1, <1>2, <1>3 DEF Codings

(* The first place that is asked for padding and has it.                   *)
FirstAsked(c, g, i) == g[i] = Padding /\ \A j \in Asked(c) : g[j] = Padding => i <= j

LEMMA AskedType ==
  ASSUME NEW c \in Codings
  PROVE  Asked(c) \subseteq 1..Chars(c) /\ \A i \in Asked(c) : i - 1 \in Counts(c)
<1>1. CASE c = 64
  <2>1. Chars(c) = 4 /\ Asked(c) = {3, 4} /\ Counts(c) = {2, 3, 4}
    BY <1>1 DEF Chars, Asked, Counts
  <2>2. QED
    BY <2>1
<1>2. CASE c = 32
  <2>1. Chars(c) = 8 /\ Asked(c) = {3, 5, 6, 8} /\ Counts(c) = {2, 4, 5, 7, 8}
    BY <1>2 DEF Chars, Asked, Counts
  <2>2. QED
    BY <2>1
<1>3. CASE c = 16
  BY <1>3 DEF Asked
<1>4. QED
  BY <1>1, <1>2, <1>3 DEF Codings

(* The digits are counted up to the first padding that is asked for.       *)
LEMMA SignificantIs ==
  ASSUME NEW c \in Codings, NEW g
  PROVE  IF \E i \in Asked(c) : g[i] = Padding
         THEN \E i \in Asked(c) : FirstAsked(c, g, i) /\ Significant(c, g) = i - 1
         ELSE Significant(c, g) = Chars(c)
<1>1. CASE ~(\E i \in Asked(c) : g[i] = Padding)
  BY <1>1 DEF Significant
<1>2. CASE \E i \in Asked(c) : g[i] = Padding
  <2> DEFINE Z == {i \in Asked(c) : g[i] = Padding}
             f == CHOOSE i \in Asked(c) : FirstAsked(c, g, i)
  <2>1. Z # {} /\ Z \in SUBSET Nat
    <3>1. Asked(c) \subseteq Nat
      BY AskedType, GroupSizes
    <3>2. QED
      BY <1>2, <3>1
  <2>2. PICK i \in Z : \A j \in Z : ~(j < i)
    BY <2>1, LeastOf
  <2>3. i \in Asked(c) /\ FirstAsked(c, g, i)
    <3>1. \A j \in Z : i <= j
      BY <2>1, <2>2
    <3>2. QED
      BY <2>2, <3>1 DEF FirstAsked
  <2>4. f \in Asked(c) /\ FirstAsked(c, g, f)
    BY <2>3
  <2>5. Significant(c, g) = f - 1
    BY <1>2 DEF Significant, FirstAsked
  <2> HIDE DEF f
  <2>6. QED
    BY <1>2, <2>4, <2>5
<1>3. QED
  BY <1>1, <1>2

LEMMA SignificantType ==
  ASSUME NEW c \in Codings, NEW g
  PROVE  Significant(c, g) \in Counts(c)
BY SignificantIs, AskedType, PaddingsAre

(* A group that is accepted has its digits counted right.                  *)
LEMMA AcceptedIsCounted ==
  ASSUME NEW c \in Codings, NEW g, NEW u \in Counts(c), Accepted(c, g, u)
  PROVE  Significant(c, g) = u
<1>1. u \in 1..Chars(c) /\ Chars(c) \in Nat /\ (u < Chars(c) => u + 1 \in Asked(c))
  BY CountsAre, GroupSizes
<1>2. (\A i \in 1..u : g[i] # Padding) /\ \A i \in (u + 1)..Chars(c) : g[i] = Padding
  BY PaddingIsNoDigit DEF Accepted
<1>3. ASSUME NEW i \in Asked(c) PROVE i \in 1..Chars(c) /\ (g[i] = Padding <=> u + 1 <= i)
  <2>1. i \in 1..Chars(c)
    BY AskedType
  <2>2. CASE i <= u
    <3>1. i \in 1..u
      BY <1>1, <2>1, <2>2
    <3>2. QED
      BY <1>1, <1>2, <2>1, <3>1
  <2>3. CASE ~(i <= u)
    <3>1. i \in (u + 1)..Chars(c)
      BY <1>1, <2>1, <2>3
    <3>2. QED
      BY <1>1, <1>2, <2>1, <3>1
  <2>4. QED
    BY <2>2, <2>3
<1>4. CASE u = Chars(c)
  <2>1. \A i \in Asked(c) : g[i] # Padding
    BY <1>1, <1>3, <1>4
  <2>2. QED
    BY <1>4, <2>1, SignificantIs
<1>5. CASE u # Chars(c)
  <2>1. u + 1 \in Asked(c) /\ g[u + 1] = Padding
    BY <1>1, <1>3, <1>5
  <2>2. PICK i \in Asked(c) : FirstAsked(c, g, i) /\ Significant(c, g) = i - 1
    BY <2>1, SignificantIs
  <2>3. i <= u + 1 /\ u + 1 <= i
    BY <1>3, <2>1, <2>2 DEF FirstAsked
  <2>4. QED
    BY <1>1, <1>3, <2>2, <2>3
<1>6. QED
  BY <1>4, <1>5

(* A text in whole groups.                                                 *)
LEMMA TextGroup ==
  ASSUME NEW c \in Codings, NEW s \in Seq(Nat), NEW last \in Nat, Len(s) = last * Chars(c),
         NEW n \in 1..last
  PROVE  /\ Group(s, n, Chars(c)) \in Seq(Nat)
         /\ Len(Group(s, n, Chars(c))) = Chars(c)
         /\ \A j \in 1..Chars(c) : /\ (n - 1) * Chars(c) + j \in 1..Len(s)
                                   /\ Group(s, n, Chars(c))[j] = s[(n - 1) * Chars(c) + j]
<1> DEFINE C == Chars(c)
           N == Len(s)
           d == (n - 1) * C
           e == n * C
           t == Group(s, n, C)
<1>1. C \in Nat /\ N \in Nat /\ d \in Nat /\ e \in Nat /\ d + C = e /\ e <= N /\ C >= 1
  <2>1. C \in {4, 8, 2}
    BY GroupSizes
  <2>2. N \in Nat
    OBVIOUS
  <2>3. N = last * C
    OBVIOUS
  <2> HIDE DEF C, N
  <2>4. CASE C = 4
    BY <2>2, <2>3, <2>4
  <2>5. CASE C = 8
    BY <2>2, <2>3, <2>5
  <2>6. CASE C = 2
    BY <2>2, <2>3, <2>6
  <2>7. QED
    BY <2>1, <2>4, <2>5, <2>6
<1>2. t = SubSeq(s, d + 1, d + C)
  <2>1. (IF e < N THEN e ELSE N) = d + C
    <3> HIDE DEF C, N, d, e
    <3>1. QED
      BY <1>1
  <2>2. QED
    BY <2>1 DEF Group
<1> HIDE DEF C, N, d, e, t
<1>3. d + 1 \in Int /\ d + C \in Int /\ d + 1 <= d + C /\ (d + C) - (d + 1) + 1 = C
  BY <1>1
<1>4. \A i \in (d + 1)..(d + C) : i \in 1..N
  BY <1>1
<1>5. \A i \in (d + 1)..(d + C) : s[i] \in Nat
  BY <1>4 DEF N
<1>6. /\ t \in Seq(Nat) /\ Len(t) = (d + C) - (d + 1) + 1
      /\ \A i \in 1..((d + C) - (d + 1) + 1) : t[i] = s[d + 1 + i - 1]
  BY <1>2, <1>3, <1>5, SubSeqProperties
<1>7. \A j \in 1..C : d + 1 + j - 1 = d + j /\ d + j \in (d + 1)..(d + C)
  BY <1>1
<1>8. t \in Seq(Nat) /\ Len(t) = C /\ \A j \in 1..C : d + j \in 1..N /\ t[j] = s[d + j]
  BY <1>3, <1>4, <1>6, <1>7
<1>9. QED
  BY <1>8 DEF C, N, d, t

LEMMA Tuple1 ==
  ASSUME NEW Z, NEW d1 \in Z
  PROVE  <<d1>> \in [1..1 -> Z]
<1> DEFINE t == <<d1>>
<1>1. t \in Seq(Z) /\ Len(t) = 1
  OBVIOUS
<1> HIDE DEF t
<1>2. t \in [1..1 -> Z]
  BY <1>1, LenProperties
<1>3. QED
  BY <1>2 DEF t

LEMMA Tuple3 ==
  ASSUME NEW Z, NEW d1 \in Z, NEW d2 \in Z, NEW d3 \in Z
  PROVE  <<d1, d2, d3>> \in [1..3 -> Z]
<1> DEFINE t == <<d1, d2, d3>>
<1>1. t \in Seq(Z) /\ Len(t) = 3
  OBVIOUS
<1> HIDE DEF t
<1>2. t \in [1..3 -> Z]
  BY <1>1, LenProperties
<1>3. QED
  BY <1>2 DEF t

LEMMA Tuple5 ==
  ASSUME NEW Z, NEW d1 \in Z, NEW d2 \in Z, NEW d3 \in Z, NEW d4 \in Z, NEW d5 \in Z
  PROVE  <<d1, d2, d3, d4, d5>> \in [1..5 -> Z]
<1> DEFINE t == <<d1, d2, d3, d4, d5>>
<1>1. t \in Seq(Z) /\ Len(t) = 5
  OBVIOUS
<1> HIDE DEF t
<1>2. t \in [1..5 -> Z]
  BY <1>1, LenProperties
<1>3. QED
  BY <1>2 DEF t

(* The bytes that a group of digits is decoded to.                         *)
LEMMA JoinType ==
  ASSUME NEW c \in Codings, NEW d \in [1..Chars(c) -> Nat]
  PROVE  Join(c, d) \in [1..Bytes(c) -> Nat]
<1>0. \A x \in Nat : Low(x) \in Nat
  BY DEF Low
<1>1. CASE c = 64
  <2> DEFINE x1 == d[1]
             x2 == d[2]
             x3 == d[3]
             x4 == d[4]
  <2>1. x1 \in Nat /\ x2 \in Nat /\ x3 \in Nat /\ x4 \in Nat
    BY <1>1 DEF Chars
  <2>2. Join(c, d) =
          << Low(x1 * 4) + x2 \div 16,
             Low(x2 * 16) + x3 \div 4,
             Low(x3 * 64) + x4 >>
    BY <1>1 DEF Join, Join64
  <2> HIDE DEF x1, x2, x3, x4
  <2>6. x1 * 4 \in Nat /\ x2 * 16 \in Nat /\ x3 * 64 \in Nat
    BY <2>1
  <2>7. /\ Low(x1 * 4) \in Nat
        /\ Low(x2 * 16) \in Nat
        /\ Low(x3 * 64) \in Nat
    BY <2>6, <1>0
  <2>8. /\ x2 \div 16 \in Nat
        /\ x3 \div 4 \in Nat
    BY <2>1
  <2>3. /\ Low(x1 * 4) + x2 \div 16 \in Nat
        /\ Low(x2 * 16) + x3 \div 4 \in Nat
        /\ Low(x3 * 64) + x4 \in Nat
    BY <2>1, <2>7, <2>8
  <2>4. QED
    BY <1>1, <2>2, <2>3, Tuple3 DEF Bytes
<1>2. CASE c = 32
  <2> DEFINE x1 == d[1]
             x2 == d[2]
             x3 == d[3]
             x4 == d[4]
             x5 == d[5]
             x6 == d[6]
             x7 == d[7]
             x8 == d[8]
  <2>1. x1 \in Nat /\ x2 \in Nat /\ x3 \in Nat /\ x4 \in Nat /\ x5 \in Nat /\ x6 \in Nat /\ x7 \in Nat /\ x8 \in Nat
    BY <1>2 DEF Chars
  <2>2. Join(c, d) =
          << Low(x1 * 8) + x2 \div 4,
             Low(x2 * 64) + x3 * 2 + x4 \div 16,
             Low(x4 * 16) + x5 \div 2,
             Low(x5 * 128) + x6 * 4 + x7 \div 8,
             Low(x7 * 32) + x8 >>
    BY <1>2 DEF Join, Join32
  <2> HIDE DEF x1, x2, x3, x4, x5, x6, x7, x8
  <2>6. x1 * 8 \in Nat /\ x2 * 64 \in Nat /\ x4 * 16 \in Nat /\ x5 * 128 \in Nat /\ x7 * 32 \in Nat
    BY <2>1
  <2>7. /\ Low(x1 * 8) \in Nat
        /\ Low(x2 * 64) \in Nat
        /\ Low(x4 * 16) \in Nat
        /\ Low(x5 * 128) \in Nat
        /\ Low(x7 * 32) \in Nat
    BY <2>6, <1>0
  <2>8. /\ x2 \div 4 \in Nat
        /\ x4 \div 16 \in Nat
        /\ x5 \div 2 \in Nat
        /\ x7 \div 8 \in Nat
        /\ x3 * 2 \in Nat
        /\ x6 * 4 \in Nat
    BY <2>1
  <2>3. Low(x1 * 8) + x2 \div 4 \in Nat
    BY <2>1, <2>7, <2>8
  <2>9. Low(x2 * 64) + x3 * 2 + x4 \div 16 \in Nat
    BY <2>1, <2>7, <2>8
  <2>10. Low(x4 * 16) + x5 \div 2 \in Nat
    BY <2>1, <2>7, <2>8
  <2>11. Low(x5 * 128) + x6 * 4 + x7 \div 8 \in Nat
    BY <2>1, <2>7, <2>8
  <2>12. Low(x7 * 32) + x8 \in Nat
    BY <2>1, <2>7, <2>8
  <2>4. QED
    BY <1>2, <2>2, <2>3, <2>9, <2>10, <2>11, <2>12, Tuple5 DEF Bytes
<1>3. CASE c = 16
  <2> DEFINE x1 == d[1]
             x2 == d[2]
  <2>1. x1 \in Nat /\ x2 \in Nat
    BY <1>3 DEF Chars
  <2>2. Join(c, d) =
          << x1 * 16 + x2 >>
    BY <1>3 DEF Join, Join16
  <2> HIDE DEF x1, x2
  <2>3. /\ x1 * 16 + x2 \in Nat
    BY <1>0, <2>1
  <2>4. QED
    BY <1>3, <2>2, <2>3, Tuple1 DEF Bytes
<1>4. QED
  BY <1>1, <1>2, <1>3 DEF Codings

LEMMA DigitValuesType ==
  ASSUME NEW c \in Codings, NEW v \in DigitValues(c)
  PROVE  v \in Nat
<1>1. CASE c = 64
  BY <1>1 DEF DigitValues
<1>2. CASE c = 32
  BY <1>2 DEF DigitValues
<1>3. CASE c = 16
  BY <1>3 DEF DigitValues
<1>4. QED
  BY <1>1, <1>2, <1>3 DEF Codings

(* A group is decoded to the bytes that its digits write.                  *)
LEMMA DecodeGroupIs ==
  ASSUME NEW c \in Codings, NEW g \in Seq(Nat), Len(g) = Chars(c), NEW u \in Counts(c), Accepted(c, g, u),
         NEW F, F = Join(c, [i \in 1..Chars(c) |-> IF i <= u THEN Digit(c, g[i]) ELSE 0])
  PROVE  /\ DecodeGroup(c, g, u) \in Seq(Nat)
         /\ Len(DecodeGroup(c, g, u)) = Written(c, u)
         /\ \A i \in 1..Written(c, u) : DecodeGroup(c, g, u)[i] = F[i]
<1> DEFINE digits == [i \in 1..Chars(c) |-> IF i <= u THEN Digit(c, g[i]) ELSE 0]
           w == Written(c, u)
<1>1. u \in 1..Chars(c) /\ Chars(c) \in Nat /\ Bytes(c) \in Nat /\ w \in 1..Bytes(c)
  BY CountsAre, GroupSizes
<1>2. digits \in [1..Chars(c) -> Nat]
  <2>1. ASSUME NEW i \in 1..Chars(c), i <= u PROVE Digit(c, g[i]) \in Nat
    <3>1. i \in 1..u /\ i \in 1..Len(g)
      BY <1>1, <2>1
    <3>2. g[i] \in Nat /\ Digit(c, g[i]) # Bad
      BY <3>1 DEF Accepted
    <3>3. Digit(c, g[i]) \in DigitValues(c)
      BY <3>2, DigitType
    <3>4. Digit(c, g[i]) \in Nat
      BY <3>3, DigitValuesType
    <3>5. QED
      BY <3>4
  <2>2. QED
    BY <2>1
<1>3. F \in [1..Bytes(c) -> Nat]
  BY <1>2, JoinType
<1>4. DecodeGroup(c, g, u) = SubSeq(F, 1, w)
  <2>1. DecodeGroup(c, g, u) = SubSeq(Join(c, digits), 1, w)
    BY DEF DecodeGroup
  <2>2. F = Join(c, digits)
    OBVIOUS
  <2> HIDE DEF digits, w
  <2>3. QED
    BY <2>1, <2>2
<1> HIDE DEF digits, w
<1>5. \A i \in 1..w : F[i] \in Nat
  <2>1. \A i \in 1..w : i \in 1..Bytes(c)
    BY <1>1
  <2>2. QED
    BY <1>3, <2>1
<1>6. /\ SubSeq(F, 1, w) \in Seq(Nat)
      /\ Len(SubSeq(F, 1, w)) = IF 1 <= w THEN w - 1 + 1 ELSE 0
      /\ \A i \in 1..(w - 1 + 1) : SubSeq(F, 1, w)[i] = F[1 + i - 1]
  BY <1>1, <1>5, SubSeqProperties
<1>7. 1 <= w /\ w - 1 + 1 = w /\ \A i \in 1..w : 1 + i - 1 = i
  BY <1>1
<1>8. QED
  BY <1>4, <1>6, <1>7 DEF w

(* The text is in whole groups, each of which is accepted.                 *)
LastGroup(c, s) == Len(s) \div Chars(c)

DigitCount(c, s, n) ==
  IF n = LastGroup(c, s) THEN Significant(c, Group(s, n, Chars(c))) ELSE Chars(c)

IsAccepted(c, s) ==
  /\ Len(s) % Chars(c) = 0
  /\ \A n \in 1..LastGroup(c, s) : Accepted(c, Group(s, n, Chars(c)), DigitCount(c, s, n))

LEMMA WholeGroups ==
  ASSUME NEW c \in Codings, NEW s \in Seq(Nat)
  PROVE  /\ LastGroup(c, s) \in Nat
         /\ Len(s) % Chars(c) = 0 => Len(s) = LastGroup(c, s) * Chars(c)
         /\ \A n \in Nat : DigitCount(c, s, n) \in Counts(c)
<1>1. Len(s) \in Nat
  OBVIOUS
<1>2. LastGroup(c, s) \in Nat /\ (Len(s) % Chars(c) = 0 => Len(s) = LastGroup(c, s) * Chars(c))
  <2>1. CASE Chars(c) = 4
    BY <1>1, <2>1 DEF LastGroup
  <2>2. CASE Chars(c) = 8
    BY <1>1, <2>2 DEF LastGroup
  <2>3. CASE Chars(c) = 2
    BY <1>1, <2>3 DEF LastGroup
  <2>4. QED
    BY <2>1, <2>2, <2>3, GroupSizes
<1>3. \A n \in Nat : DigitCount(c, s, n) \in Counts(c)
  BY SignificantType, PaddingsAre DEF DigitCount
<1>4. QED
  BY <1>2, <1>3

Decoded(c, s) ==
  [n \in 1..LastGroup(c, s) |-> DecodeGroup(c, Group(s, n, Chars(c)), DigitCount(c, s, n))]

(* A text is decoded where it is accepted, its groups behind each other.   *)
LEMMA DecodeIs ==
  ASSUME NEW c \in Codings, NEW s \in Seq(Nat)
  PROVE  Decode(c, s) = IF IsAccepted(c, s) THEN FlattenSeq(Decoded(c, s)) ELSE NULL
BY DEF Decode, IsAccepted, Decoded, DigitCount, LastGroup

LEMMA DecodedIsUniform ==
  ASSUME NEW c \in Codings, NEW s \in Seq(Nat), IsAccepted(c, s)
  PROVE  /\ LastGroup(c, s) = 0 => FlattenSeq(Decoded(c, s)) = << >>
         /\ LastGroup(c, s) > 0 =>
              Joined(FlattenSeq(Decoded(c, s)), Decoded(c, s), LastGroup(c, s), Bytes(c), Nat)
<1> DEFINE last == LastGroup(c, s)
           D == Decoded(c, s)
<1>1. last \in Nat /\ Bytes(c) \in Nat /\ Len(s) = last * Chars(c)
  BY WholeGroups, GroupSizes DEF IsAccepted
<1>2. Len(D) = last
  BY <1>1 DEF Decoded
<1>3. CASE last = 0
  <2>1. D = << >>
    BY <1>3 DEF Decoded
  <2>2. FlattenSeq(D) = << >>
    BY <1>2, <1>3, <2>1 DEF FlattenSeq
  <2>3. QED
    BY <1>3, <2>2
<1>4. CASE last > 0
  <2>1. ASSUME NEW n \in 1..last
        PROVE  D[n] \in Seq(Nat) /\ (n < last => Len(D[n]) = Bytes(c))
    <3> DEFINE u == DigitCount(c, s, n)
               g == Group(s, n, Chars(c))
    <3>1. u \in Counts(c) /\ Accepted(c, g, u)
      BY <1>1, WholeGroups DEF IsAccepted
    <3>2. g \in Seq(Nat) /\ Len(g) = Chars(c)
      BY <1>1, TextGroup
    <3>3. D[n] = DecodeGroup(c, g, u)
      BY DEF Decoded
    <3>4. n < last => u = Chars(c)
      BY <1>1 DEF DigitCount
    <3> HIDE DEF u, g
    <3>5. DecodeGroup(c, g, u) \in Seq(Nat) /\ Len(DecodeGroup(c, g, u)) = Written(c, u)
      BY <3>1, <3>2, DecodeGroupIs
    <3>6. QED
      BY <3>1, <3>3, <3>4, <3>5, CountsAre
  <2>2. Uniform(D, last, Bytes(c), Nat)
    <3> HIDE DEF D, last
    <3>1. \A n \in 1..(last - 1) : n \in 1..last /\ n < last
      BY <1>1
    <3>2. QED
      BY <1>2, <2>1, <3>1 DEF Uniform
  <2>3. last \in Nat \ {0}
    BY <1>1, <1>4
  <2> HIDE DEF D, last
  <2>4. Joined(FlattenSeq(D), D, last, Bytes(c), Nat)
    BY <1>1, <2>2, <2>3, FlattenUniform
  <2>5. QED
    BY <1>4, <2>4 DEF D, last
<1>5. QED
  BY <1>1, <1>3, <1>4

(* Joining the digits of a group gives its bytes back.                     *)
LEMMA JoinSplit ==
  ASSUME NEW c \in Codings, NEW F \in [1..Bytes(c) -> 0..255]
  PROVE  \A i \in 1..Bytes(c) : Join(c, Split(c, F))[i] = F[i]
<1>1. CASE c = 64
  <2> DEFINE x1 == F[1]
             x2 == F[2]
             x3 == F[3]
  <2> DEFINE d == Split(c, F)
  <2>1. x1 \in 0..255 /\ x2 \in 0..255 /\ x3 \in 0..255
    BY <1>1 DEF Bytes
  <2>2. d = << x1 \div 4,
             (x1 % 4) * 16 + x2 \div 16,
             (x2 % 16) * 4 + x3 \div 64,
             x3 % 64 >>
    BY <1>1 DEF Split, Split64
  <2>3. Join(c, d) = << Low(d[1] * 4) + d[2] \div 16,
                      Low(d[2] * 16) + d[3] \div 4,
                      Low(d[3] * 64) + d[4] >>
    BY <1>1 DEF Join, Join64
  <2> HIDE DEF x1, x2, x3, d
  <2>d1. d[1] = x1 \div 4
    BY <2>2
  <2>d2. d[2] = (x1 % 4) * 16 + x2 \div 16
    BY <2>2
  <2>d3. d[3] = (x2 % 16) * 4 + x3 \div 64
    BY <2>2
  <2>d4. d[4] = x3 % 64
    BY <2>2
  <2>x1. Low(d[1] * 4) + d[2] \div 16 = x1
    BY <2>1, <2>d1, <2>d2 DEF Low
  <2>x2. Low(d[2] * 16) + d[3] \div 4 = x2
    BY <2>1, <2>d2, <2>d3 DEF Low
  <2>x3. Low(d[3] * 64) + d[4] = x3
    BY <2>1, <2>d3, <2>d4 DEF Low
  <2>4. Join(c, d) = << x1, x2, x3 >>
    BY <2>3, <2>x1, <2>x2, <2>x3
  <2>5. Bytes(c) = 3
    BY <1>1 DEF Bytes
  <2>6. /\ Join(c, d)[1] = x1
        /\ Join(c, d)[2] = x2
        /\ Join(c, d)[3] = x3
    BY <2>4
  <2>7. QED
    BY <2>5, <2>6 DEF d, x1, x2, x3
<1>2. CASE c = 32
  <2> DEFINE x1 == F[1]
             x2 == F[2]
             x3 == F[3]
             x4 == F[4]
             x5 == F[5]
  <2> DEFINE d == Split(c, F)
  <2>1. x1 \in 0..255 /\ x2 \in 0..255 /\ x3 \in 0..255 /\ x4 \in 0..255 /\ x5 \in 0..255
    BY <1>2 DEF Bytes
  <2>2. d = << x1 \div 8,
             (x1 % 8) * 4 + x2 \div 64,
             (x2 % 64) \div 2,
             (x2 % 2) * 16 + x3 \div 16,
             (x3 % 16) * 2 + x4 \div 128,
             (x4 % 128) \div 4,
             (x4 % 4) * 8 + x5 \div 32,
             x5 % 32 >>
    BY <1>2 DEF Split, Split32
  <2>3. Join(c, d) = << Low(d[1] * 8) + d[2] \div 4,
                      Low(d[2] * 64) + d[3] * 2 + d[4] \div 16,
                      Low(d[4] * 16) + d[5] \div 2,
                      Low(d[5] * 128) + d[6] * 4 + d[7] \div 8,
                      Low(d[7] * 32) + d[8] >>
    BY <1>2 DEF Join, Join32
  <2> HIDE DEF x1, x2, x3, x4, x5, d
  <2>d1. d[1] = x1 \div 8
    BY <2>2
  <2>d2. d[2] = (x1 % 8) * 4 + x2 \div 64
    BY <2>2
  <2>d3. d[3] = (x2 % 64) \div 2
    BY <2>2
  <2>d4. d[4] = (x2 % 2) * 16 + x3 \div 16
    BY <2>2
  <2>d5. d[5] = (x3 % 16) * 2 + x4 \div 128
    BY <2>2
  <2>d6. d[6] = (x4 % 128) \div 4
    BY <2>2
  <2>d7. d[7] = (x4 % 4) * 8 + x5 \div 32
    BY <2>2
  <2>d8. d[8] = x5 % 32
    BY <2>2
  <2>x1. Low(d[1] * 8) + d[2] \div 4 = x1
    BY <2>1, <2>d1, <2>d2 DEF Low
  <2>x2. Low(d[2] * 64) + d[3] * 2 + d[4] \div 16 = x2
    BY <2>1, <2>d2, <2>d3, <2>d4 DEF Low
  <2>x3. Low(d[4] * 16) + d[5] \div 2 = x3
    BY <2>1, <2>d4, <2>d5 DEF Low
  <2>x4. Low(d[5] * 128) + d[6] * 4 + d[7] \div 8 = x4
    BY <2>1, <2>d5, <2>d6, <2>d7 DEF Low
  <2>x5. Low(d[7] * 32) + d[8] = x5
    BY <2>1, <2>d7, <2>d8 DEF Low
  <2>4. Join(c, d) = << x1, x2, x3, x4, x5 >>
    BY <2>3, <2>x1, <2>x2, <2>x3, <2>x4, <2>x5
  <2>5. Bytes(c) = 5
    BY <1>2 DEF Bytes
  <2>6. /\ Join(c, d)[1] = x1
        /\ Join(c, d)[2] = x2
        /\ Join(c, d)[3] = x3
        /\ Join(c, d)[4] = x4
        /\ Join(c, d)[5] = x5
    BY <2>4
  <2>7. QED
    BY <2>5, <2>6 DEF d, x1, x2, x3, x4, x5
<1>3. CASE c = 16
  <2> DEFINE x1 == F[1]
  <2> DEFINE d == Split(c, F)
  <2>1. x1 \in 0..255
    BY <1>3 DEF Bytes
  <2>2. d = << x1 \div 16,
             x1 % 16 >>
    BY <1>3 DEF Split, Split16
  <2>3. Join(c, d) = << d[1] * 16 + d[2] >>
    BY <1>3 DEF Join, Join16
  <2> HIDE DEF x1, d
  <2>d1. d[1] = x1 \div 16
    BY <2>2
  <2>d2. d[2] = x1 % 16
    BY <2>2
  <2>x1. d[1] * 16 + d[2] = x1
    BY <2>1, <2>d1, <2>d2 DEF Low
  <2>4. Join(c, d) = << x1 >>
    BY <2>3, <2>x1
  <2>5. Bytes(c) = 1
    BY <1>3 DEF Bytes
  <2>6. /\ Join(c, d)[1] = x1
    BY <2>4
  <2>7. QED
    BY <2>5, <2>6 DEF d, x1
<1>4. QED
  BY <1>1, <1>2, <1>3 DEF Codings

(* Where a group has no more bytes, its digits are zero.                   *)
LEMMA RestIsZero ==
  ASSUME NEW c \in Codings, NEW F \in [1..Bytes(c) -> 0..255], NEW r \in 1..Bytes(c),
         \A i \in 1..Bytes(c) : i > r => F[i] = 0
  PROVE  \A j \in 1..Chars(c) : j > Used(c, r) => Split(c, F)[j] = 0
<1>1. CASE c = 64
  <2> DEFINE x1 == F[1]
             x2 == F[2]
             x3 == F[3]
  <2> DEFINE d == Split(c, F)
             u == Used(c, r)
  <2>1. x1 \in 0..255 /\ x2 \in 0..255 /\ x3 \in 0..255
    BY <1>1 DEF Bytes
  <2>2. d = << x1 \div 4,
             (x1 % 4) * 16 + x2 \div 16,
             (x2 % 16) * 4 + x3 \div 64,
             x3 % 64 >>
    BY <1>1 DEF Split, Split64
  <2>3. r \in 1..3 /\ Bytes(c) = 3 /\ Chars(c) = 4
    BY <1>1, GroupSizes
  <2>4. /\ r < 1 => x1 = 0
        /\ r < 2 => x2 = 0
        /\ r < 3 => x3 = 0
    BY <2>3
  <2>5. /\ r = 1 => u = 2
        /\ r = 2 => u = 3
        /\ r = 3 => u = 4
    BY <1>1, UsedIs
  <2> HIDE DEF x1, x2, x3, d, u
  <2>d1. d[1] = x1 \div 4
    BY <2>2
  <2>d2. d[2] = (x1 % 4) * 16 + x2 \div 16
    BY <2>2
  <2>d3. d[3] = (x2 % 16) * 4 + x3 \div 64
    BY <2>2
  <2>d4. d[4] = x3 % 64
    BY <2>2
  <2>6. u \in 1..4
    BY <2>3, <2>5
  <2>x1. 1 > u => d[1] = 0
    BY <2>1, <2>3, <2>4, <2>5, <2>d1
  <2>x2. 2 > u => d[2] = 0
    BY <2>1, <2>3, <2>4, <2>5, <2>d2
  <2>x3. 3 > u => d[3] = 0
    BY <2>1, <2>3, <2>4, <2>5, <2>d3
  <2>x4. 4 > u => d[4] = 0
    BY <2>1, <2>3, <2>4, <2>5, <2>d4
  <2>7. \A j \in 1..4 : j > u => d[j] = 0
    BY <2>x1, <2>x2, <2>x3, <2>x4
  <2>8. QED
    BY <2>3, <2>7 DEF d, u
<1>2. CASE c = 32
  <2> DEFINE x1 == F[1]
             x2 == F[2]
             x3 == F[3]
             x4 == F[4]
             x5 == F[5]
  <2> DEFINE d == Split(c, F)
             u == Used(c, r)
  <2>1. x1 \in 0..255 /\ x2 \in 0..255 /\ x3 \in 0..255 /\ x4 \in 0..255 /\ x5 \in 0..255
    BY <1>2 DEF Bytes
  <2>2. d = << x1 \div 8,
             (x1 % 8) * 4 + x2 \div 64,
             (x2 % 64) \div 2,
             (x2 % 2) * 16 + x3 \div 16,
             (x3 % 16) * 2 + x4 \div 128,
             (x4 % 128) \div 4,
             (x4 % 4) * 8 + x5 \div 32,
             x5 % 32 >>
    BY <1>2 DEF Split, Split32
  <2>3. r \in 1..5 /\ Bytes(c) = 5 /\ Chars(c) = 8
    BY <1>2, GroupSizes
  <2>4. /\ r < 1 => x1 = 0
        /\ r < 2 => x2 = 0
        /\ r < 3 => x3 = 0
        /\ r < 4 => x4 = 0
        /\ r < 5 => x5 = 0
    BY <2>3
  <2>5. /\ r = 1 => u = 2
        /\ r = 2 => u = 4
        /\ r = 3 => u = 5
        /\ r = 4 => u = 7
        /\ r = 5 => u = 8
    BY <1>2, UsedIs
  <2> HIDE DEF x1, x2, x3, x4, x5, d, u
  <2>d1. d[1] = x1 \div 8
    BY <2>2
  <2>d2. d[2] = (x1 % 8) * 4 + x2 \div 64
    BY <2>2
  <2>d3. d[3] = (x2 % 64) \div 2
    BY <2>2
  <2>d4. d[4] = (x2 % 2) * 16 + x3 \div 16
    BY <2>2
  <2>d5. d[5] = (x3 % 16) * 2 + x4 \div 128
    BY <2>2
  <2>d6. d[6] = (x4 % 128) \div 4
    BY <2>2
  <2>d7. d[7] = (x4 % 4) * 8 + x5 \div 32
    BY <2>2
  <2>d8. d[8] = x5 % 32
    BY <2>2
  <2>6. u \in 1..8
    BY <2>3, <2>5
  <2>x1. 1 > u => d[1] = 0
    BY <2>1, <2>3, <2>4, <2>5, <2>d1
  <2>x2. 2 > u => d[2] = 0
    BY <2>1, <2>3, <2>4, <2>5, <2>d2
  <2>x3. 3 > u => d[3] = 0
    BY <2>1, <2>3, <2>4, <2>5, <2>d3
  <2>x4. 4 > u => d[4] = 0
    BY <2>1, <2>3, <2>4, <2>5, <2>d4
  <2>x5. 5 > u => d[5] = 0
    BY <2>1, <2>3, <2>4, <2>5, <2>d5
  <2>x6. 6 > u => d[6] = 0
    BY <2>1, <2>3, <2>4, <2>5, <2>d6
  <2>x7. 7 > u => d[7] = 0
    BY <2>1, <2>3, <2>4, <2>5, <2>d7
  <2>x8. 8 > u => d[8] = 0
    BY <2>1, <2>3, <2>4, <2>5, <2>d8
  <2>7. \A j \in 1..8 : j > u => d[j] = 0
    BY <2>x1, <2>x2, <2>x3, <2>x4, <2>x5, <2>x6, <2>x7, <2>x8
  <2>8. QED
    BY <2>3, <2>7 DEF d, u
<1>3. CASE c = 16
  <2> DEFINE x1 == F[1]
  <2> DEFINE d == Split(c, F)
             u == Used(c, r)
  <2>1. x1 \in 0..255
    BY <1>3 DEF Bytes
  <2>2. d = << x1 \div 16,
             x1 % 16 >>
    BY <1>3 DEF Split, Split16
  <2>3. r \in 1..1 /\ Bytes(c) = 1 /\ Chars(c) = 2
    BY <1>3, GroupSizes
  <2>4. /\ r < 1 => x1 = 0
    BY <2>3
  <2>5. /\ r = 1 => u = 2
    BY <1>3, UsedIs
  <2> HIDE DEF x1, d, u
  <2>d1. d[1] = x1 \div 16
    BY <2>2
  <2>d2. d[2] = x1 % 16
    BY <2>2
  <2>6. u \in 1..2
    BY <2>3, <2>5
  <2>x1. 1 > u => d[1] = 0
    BY <2>1, <2>3, <2>4, <2>5, <2>d1
  <2>x2. 2 > u => d[2] = 0
    BY <2>1, <2>3, <2>4, <2>5, <2>d2
  <2>7. \A j \in 1..2 : j > u => d[j] = 0
    BY <2>x1, <2>x2
  <2>8. QED
    BY <2>3, <2>7 DEF d, u
<1>4. QED
  BY <1>1, <1>2, <1>3 DEF Codings

(* The characters of a group of r bytes give them back, or one byte more.  *)
LEMMA UsedIsWritten ==
  ASSUME NEW c \in Codings, NEW r \in 1..Bytes(c)
  PROVE  /\ Used(c, r) \in Counts(c)
         /\ Written(c, Used(c, r)) \in Nat
         /\ r <= Written(c, Used(c, r)) /\ Written(c, Used(c, r)) <= r + 1
         /\ Written(c, Used(c, r)) <= Bytes(c)
         /\ r = Bytes(c) => Used(c, r) = Chars(c)
<1>1. CASE c = 64
  <2>1. r \in 1..3 /\ Bytes(c) = 3 /\ Chars(c) = 4
    BY <1>1, GroupSizes
  <2>2. /\ r = 1 => Used(c, r) = 2
        /\ r = 2 => Used(c, r) = 3
        /\ r = 3 => Used(c, r) = 4
    BY <1>1, UsedIs
  <2>r1. CASE r = 1
    <3>1. Used(c, r) = 2 /\ 2 \in Counts(c)
      BY <1>1, <2>2, <2>r1 DEF Counts
    <3>2. Written(c, 2) = 2
      BY <2>1 DEF Written
    <3>3. QED
      BY <2>1, <2>r1, <3>1, <3>2
  <2>r2. CASE r = 2
    <3>1. Used(c, r) = 3 /\ 3 \in Counts(c)
      BY <1>1, <2>2, <2>r2 DEF Counts
    <3>2. Written(c, 3) = 3
      BY <2>1 DEF Written
    <3>3. QED
      BY <2>1, <2>r2, <3>1, <3>2
  <2>r3. CASE r = 3
    <3>1. Used(c, r) = 4 /\ 4 \in Counts(c)
      BY <1>1, <2>2, <2>r3 DEF Counts
    <3>2. Written(c, 4) = 3
      BY <2>1 DEF Written
    <3>3. QED
      BY <2>1, <2>r3, <3>1, <3>2
  <2>3. QED
    BY <2>1, <2>r1, <2>r2, <2>r3
<1>2. CASE c = 32
  <2>1. r \in 1..5 /\ Bytes(c) = 5 /\ Chars(c) = 8
    BY <1>2, GroupSizes
  <2>2. /\ r = 1 => Used(c, r) = 2
        /\ r = 2 => Used(c, r) = 4
        /\ r = 3 => Used(c, r) = 5
        /\ r = 4 => Used(c, r) = 7
        /\ r = 5 => Used(c, r) = 8
    BY <1>2, UsedIs
  <2>r1. CASE r = 1
    <3>1. Used(c, r) = 2 /\ 2 \in Counts(c)
      BY <1>2, <2>2, <2>r1 DEF Counts
    <3>2. Written(c, 2) = 2
      BY <2>1 DEF Written
    <3>3. QED
      BY <2>1, <2>r1, <3>1, <3>2
  <2>r2. CASE r = 2
    <3>1. Used(c, r) = 4 /\ 4 \in Counts(c)
      BY <1>2, <2>2, <2>r2 DEF Counts
    <3>2. Written(c, 4) = 3
      BY <2>1 DEF Written
    <3>3. QED
      BY <2>1, <2>r2, <3>1, <3>2
  <2>r3. CASE r = 3
    <3>1. Used(c, r) = 5 /\ 5 \in Counts(c)
      BY <1>2, <2>2, <2>r3 DEF Counts
    <3>2. Written(c, 5) = 4
      BY <2>1 DEF Written
    <3>3. QED
      BY <2>1, <2>r3, <3>1, <3>2
  <2>r4. CASE r = 4
    <3>1. Used(c, r) = 7 /\ 7 \in Counts(c)
      BY <1>2, <2>2, <2>r4 DEF Counts
    <3>2. Written(c, 7) = 5
      BY <2>1 DEF Written
    <3>3. QED
      BY <2>1, <2>r4, <3>1, <3>2
  <2>r5. CASE r = 5
    <3>1. Used(c, r) = 8 /\ 8 \in Counts(c)
      BY <1>2, <2>2, <2>r5 DEF Counts
    <3>2. Written(c, 8) = 5
      BY <2>1 DEF Written
    <3>3. QED
      BY <2>1, <2>r5, <3>1, <3>2
  <2>3. QED
    BY <2>1, <2>r1, <2>r2, <2>r3, <2>r4, <2>r5
<1>3. CASE c = 16
  <2>1. r \in 1..1 /\ Bytes(c) = 1 /\ Chars(c) = 2
    BY <1>3, GroupSizes
  <2>2. /\ r = 1 => Used(c, r) = 2
    BY <1>3, UsedIs
  <2>r1. CASE r = 1
    <3>1. Used(c, r) = 2 /\ 2 \in Counts(c)
      BY <1>3, <2>2, <2>r1 DEF Counts
    <3>2. Written(c, 2) = 1
      BY <2>1 DEF Written
    <3>3. QED
      BY <2>1, <2>r1, <3>1, <3>2
  <2>3. QED
    BY <2>1, <2>r1
<1>4. QED
  BY <1>1, <1>2, <1>3 DEF Codings

(* The n-th group of an encoded text gives the bytes of its block back.    *)
LEMMA GroupBack ==
  ASSUME NEW c \in Codings, NEW s \in Seq(Octet), NEW n \in 1..Groups(s, Bytes(c)),
         NEW g \in Seq(Nat), Len(g) = Chars(c),
         \A j \in 1..Chars(c) :
           g[j] = IF j <= Significants(c, s, n) THEN Character(c, Digits(c, s, n)[j]) ELSE Padding
  PROVE  /\ Significants(c, s, n) \in Counts(c)
         /\ Accepted(c, g, Significants(c, s, n))
         /\ Significant(c, g) = Significants(c, s, n)
         /\ DecodeGroup(c, g, Significants(c, s, n)) \in Seq(Nat)
         /\ Len(DecodeGroup(c, g, Significants(c, s, n))) = Written(c, Significants(c, s, n))
         /\ \A i \in 1..Written(c, Significants(c, s, n)) :
              DecodeGroup(c, g, Significants(c, s, n))[i] = At(s, (n - 1) * Bytes(c) + i)
<1> DEFINE B == Bytes(c)
           C == Chars(c)
           r == Room(n, Len(s), B)
           u == Significants(c, s, n)
           F == Block(s, n - 1, B)
           D == Digits(c, s, n)
           digits == [i \in 1..C |-> IF i <= u THEN Digit(c, g[i]) ELSE 0]
<1>0. Groups(s, B) \in Nat
  BY GroupCount
<1>1. B \in Nat /\ C \in Nat /\ r \in 1..B /\ n - 1 \in Nat
  <2>1. B \in Nat /\ C \in Nat
    BY GroupSizes
  <2>2. r \in 1..B
    BY RoomIs
  <2>3. n - 1 \in Nat
    BY <1>0
  <2>4. QED
    BY <2>1, <2>2, <2>3
<1>2. F \in [1..B -> 0..255] /\ \A i \in 1..B : F[i] = At(s, (n - 1) * B + i)
  <2>1. F = [i \in 1..B |-> At(s, (n - 1) * B + i)]
    BY DEF Block
  <2>2. F \in [1..B -> 0..255]
    <3> HIDE DEF B, F
    <3>1. Block(s, n - 1, B) \in [1..B -> 0..255]
      BY <1>1, BlockType
    <3>2. QED
      BY <3>1 DEF F
  <2> HIDE DEF F
  <2>3. QED
    BY <2>1, <2>2
<1>3. D = Split(c, F) /\ D \in [1..C -> DigitValues(c)] /\ u = Used(c, r)
  BY DigitsType DEF Digits, Significants
<1>4. u \in Counts(c) /\ u \in 1..C /\ Written(c, u) \in Nat /\ Written(c, u) <= B
  <2> HIDE DEF u, r, B
  <2>1. u \in Counts(c) /\ Written(c, u) \in Nat /\ Written(c, u) <= B
    BY <1>1, <1>3, UsedIsWritten DEF B
  <2>2. QED
    BY <2>1, CountsAre
<1>5. \A j \in 1..C : j > u => D[j] = 0
  <2>1. ASSUME NEW i \in 1..B, i > r PROVE F[i] = 0
    <3> DEFINE d == (n - 1) * B
               N == Len(s)
    <3>1. /\ n < Groups(s, B) => r = B
          /\ n = Groups(s, B) => d + r = N
      BY RoomIs
    <3>2. n <= Groups(s, B) /\ n \in Nat /\ Groups(s, B) \in Nat
      BY <1>0
    <3>3. F[i] = At(s, d + i)
      BY <1>2
    <3>4. d \in Nat /\ N \in Nat
      BY RoomIs
    <3> HIDE DEF d, N, B, r, F
    <3>5. n = Groups(s, B)
      <4>1. r # B
        BY <1>1, <2>1
      <4>2. ~(n < Groups(s, B))
        BY <3>1, <4>1
      <4>3. QED
        BY <3>2, <4>2
    <3>6. ~(d + i \in 1..N)
      BY <1>1, <2>1, <3>1, <3>4, <3>5
    <3>7. QED
      BY <3>3, <3>6 DEF At, N
  <2> HIDE DEF F, r, u, D
  <2>2. \A i \in 1..B : i > r => F[i] = 0
    BY <2>1
  <2>3. QED
    BY <1>1, <1>2, <1>3, <2>2, RestIsZero
<1>6. \A j \in 1..u : Digit(c, g[j]) = D[j] /\ Digit(c, g[j]) # Bad
  <2>1. TAKE j \in 1..u
  <2>2. j \in 1..C /\ j <= u
    BY <1>1, <1>4
  <2>3. g[j] = Character(c, D[j]) /\ D[j] \in DigitValues(c)
    BY <1>3, <2>2
  <2>4. Digit(c, g[j]) = D[j] /\ D[j] \in Nat
    BY <2>3, CharacterIs, DigitValuesType
  <2>5. QED
    BY <2>4 DEF Bad
<1>7. Accepted(c, g, u)
  <2>1. \A i \in (u + 1)..C : g[i] = Padding
    BY <1>1, <1>4
  <2>2. QED
    BY <1>6, <2>1 DEF Accepted
<1>8. Significant(c, g) = u
  BY <1>4, <1>7, AcceptedIsCounted
<1>9. digits = D
  <2>1. \A i \in 1..C : (IF i <= u THEN Digit(c, g[i]) ELSE 0) = D[i]
    <3> HIDE DEF u, D, C
    <3>1. TAKE i \in 1..C
    <3>2. CASE i <= u
      BY <1>1, <1>4, <1>6, <3>2
    <3>3. CASE ~(i <= u)
      BY <1>1, <1>4, <1>5, <3>3
    <3>4. QED
      BY <3>2, <3>3
  <2>2. D = [i \in 1..C |-> D[i]]
    <3> HIDE DEF D
    <3>1. QED
      BY <1>3
  <2>3. QED
    BY <2>1, <2>2
<1>10. \A i \in 1..B : Join(c, D)[i] = F[i]
  BY <1>2, <1>3, JoinSplit
<1>11. /\ DecodeGroup(c, g, u) \in Seq(Nat)
       /\ Len(DecodeGroup(c, g, u)) = Written(c, u)
       /\ \A i \in 1..Written(c, u) : DecodeGroup(c, g, u)[i] = Join(c, D)[i]
  <2>1. Join(c, D) = Join(c, [i \in 1..Chars(c) |-> IF i <= u THEN Digit(c, g[i]) ELSE 0])
    BY <1>9
  <2> HIDE DEF u, D
  <2>2. QED
    BY <1>4, <1>7, <2>1, DecodeGroupIs
<1>12. \A i \in 1..Written(c, u) : i \in 1..B
  <2> HIDE DEF u, B
  <2>1. QED
    BY <1>1, <1>4
<1>13. \A i \in 1..Written(c, u) : DecodeGroup(c, g, u)[i] = At(s, (n - 1) * B + i)
  BY <1>2, <1>10, <1>11, <1>12
<1>14. QED
  BY <1>4, <1>7, <1>8, <1>11, <1>13

(* The places of the bytes of decoded groups.                              *)
LEMMA BytePosition ==
  ASSUME NEW c \in Codings, NEW g \in Nat \ {0}, NEW L \in Nat, L <= Bytes(c),
         NEW k \in 1..((g - 1) * Bytes(c) + L)
  PROVE  \E n \in 1..g : \E j \in 1..Bytes(c) : k = (n - 1) * Bytes(c) + j /\ (n = g => j <= L)
<1> DEFINE n == (k - 1) \div Bytes(c) + 1
           j == ((k - 1) % Bytes(c)) + 1
<1>1. n \in 1..g /\ j \in 1..Bytes(c) /\ k = (n - 1) * Bytes(c) + j /\ (n = g => j <= L)
  <2>1. CASE Bytes(c) = 3
    BY <2>1
  <2>2. CASE Bytes(c) = 5
    BY <2>2
  <2>3. CASE Bytes(c) = 1
    BY <2>3
  <2>4. QED
    BY <2>1, <2>2, <2>3, GroupSizes
<1> HIDE DEF n, j
<1>2. QED
  BY <1>1

(* NULL is told apart from each decoded text.                              *)
LEMMA NullIsNoText ==
  ASSUME NEW s \in Seq(Nat)
  PROVE  s # NULL
<1>1. Len(NULL) = 1 /\ NULL[1] = -1
  BY DEF NULL, Bad
<1>2. Len(s) = 1 => s[1] \in Nat
  <2>1. Len(s) = 1 => 1 \in 1..Len(s)
    OBVIOUS
  <2>2. QED
    BY <2>1, ElementOfSeq
<1>3. QED
  BY <1>1, <1>2

(* A text is decoded where it is accepted, and then to bytes.              *)
LEMMA DecodedText ==
  ASSUME NEW c \in Codings, NEW s \in Seq(Nat)
  PROVE  Decode(c, s) # NULL <=> IsAccepted(c, s)
<1>1. CASE IsAccepted(c, s)
  <2> DEFINE t == FlattenSeq(Decoded(c, s))
  <2>1. t \in Seq(Nat)
    <3>1. CASE LastGroup(c, s) = 0
      <4>1. t = << >>
        BY <1>1, <3>1, DecodedIsUniform
      <4> HIDE DEF t
      <4>2. QED
        BY <4>1
    <3>2. CASE LastGroup(c, s) > 0
      BY <1>1, <3>2, DecodedIsUniform DEF Joined
    <3>3. QED
      BY <3>1, <3>2, WholeGroups
  <2>2. Decode(c, s) = t
    BY <1>1, DecodeIs
  <2> HIDE DEF t
  <2>3. QED
    BY <1>1, <2>1, <2>2, NullIsNoText
<1>2. CASE ~IsAccepted(c, s)
  BY <1>2, DecodeIs
<1>3. QED
  BY <1>1, <1>2

(* An encoded text is accepted, and its groups are decoded to the blocks.  *)
LEMMA EncodedGroups ==
  ASSUME NEW c \in Codings, NEW s \in Seq(Octet), NEW text, text = Encode(c, s)
  PROVE  /\ text \in Seq(Nat)
         /\ LastGroup(c, text) = Groups(s, Bytes(c))
         /\ IsAccepted(c, text)
         /\ \A n \in 1..Groups(s, Bytes(c)) :
              /\ Len(Decoded(c, text)[n]) = Written(c, Significants(c, s, n))
              /\ \A i \in 1..Written(c, Significants(c, s, n)) :
                   Decoded(c, text)[n][i] = At(s, (n - 1) * Bytes(c) + i)
<1> DEFINE g == Groups(s, Bytes(c))
           C == Chars(c)
           G(n) == Group(text, n, Chars(c))
<1>1. g \in Nat
  BY GroupCount
<1>2. text \in Seq(Nat) /\ Len(text) = g * C
  BY EncodeIs
<1>3. Len(text) % C = 0 /\ Len(text) \div C = g
  <2>1. C \in {4, 8, 2}
    BY GroupSizes
  <2> HIDE DEF g, C
  <2>2. CASE C = 4
    BY <1>1, <1>2, <2>2
  <2>3. CASE C = 8
    BY <1>1, <1>2, <2>3
  <2>4. CASE C = 2
    BY <1>1, <1>2, <2>4
  <2>5. QED
    BY <2>1, <2>2, <2>3, <2>4
<1>4. LastGroup(c, text) = g
  BY <1>3 DEF LastGroup
<1>5. ASSUME NEW n \in 1..g
      PROVE  /\ G(n) \in Seq(Nat)
             /\ Len(G(n)) = Chars(c)
             /\ \A j \in 1..Chars(c) :
                  G(n)[j] = IF j <= Significants(c, s, n) THEN Character(c, Digits(c, s, n)[j]) ELSE Padding
  <2>1. /\ G(n) \in Seq(Nat) /\ Len(G(n)) = Chars(c)
        /\ \A j \in 1..Chars(c) : G(n)[j] = text[(n - 1) * Chars(c) + j]
    <3> HIDE DEF g
    <3>1. QED
      BY <1>1, <1>2, TextGroup
  <2>2. \A j \in 1..Chars(c) : text[(n - 1) * Chars(c) + j] =
          IF j <= Significants(c, s, n) THEN Character(c, Digits(c, s, n)[j]) ELSE Padding
    BY EncodeIs
  <2> HIDE DEF G
  <2>3. QED
    BY <2>1, <2>2
<1> HIDE DEF G
<1>6. ASSUME NEW n \in 1..g
      PROVE  /\ DigitCount(c, text, n) = Significants(c, s, n)
             /\ Accepted(c, G(n), Significants(c, s, n))
             /\ Len(DecodeGroup(c, G(n), Significants(c, s, n))) = Written(c, Significants(c, s, n))
             /\ \A i \in 1..Written(c, Significants(c, s, n)) :
                  DecodeGroup(c, G(n), Significants(c, s, n))[i] = At(s, (n - 1) * Bytes(c) + i)
  <2>1. /\ Accepted(c, G(n), Significants(c, s, n))
        /\ Significant(c, G(n)) = Significants(c, s, n)
        /\ Len(DecodeGroup(c, G(n), Significants(c, s, n))) = Written(c, Significants(c, s, n))
        /\ \A i \in 1..Written(c, Significants(c, s, n)) :
             DecodeGroup(c, G(n), Significants(c, s, n))[i] = At(s, (n - 1) * Bytes(c) + i)
    BY <1>5, GroupBack
  <2>2. DigitCount(c, text, n) = Significants(c, s, n)
    <3>1. CASE n = g
      BY <1>4, <2>1, <3>1 DEF DigitCount, G
    <3>2. CASE n # g
      <4>1. n < g
        BY <1>1, <3>2
      <4>2. Room(n, Len(s), Bytes(c)) = Bytes(c) /\ Bytes(c) \in 1..Bytes(c)
        BY <4>1, RoomIs
      <4>3. Significants(c, s, n) = Chars(c)
        BY <4>2, UsedIsWritten DEF Significants
      <4>4. QED
        BY <1>4, <3>2, <4>3 DEF DigitCount
    <3>3. QED
      BY <3>1, <3>2
  <2>3. QED
    BY <2>1, <2>2
<1>7. IsAccepted(c, text)
  BY <1>3, <1>4, <1>6 DEF IsAccepted, G
<1>8. \A n \in 1..g : Decoded(c, text)[n] = DecodeGroup(c, G(n), Significants(c, s, n))
  BY <1>4, <1>6 DEF Decoded, G
<1>9. QED
  BY <1>2, <1>4, <1>6, <1>7, <1>8

(* The bytes of each block come back, and zeros where the last has no      *)
(* more.                                                                   *)
LEMMA BytesComeBack ==
  ASSUME NEW c \in Codings, NEW s \in Seq(Octet), NEW back, back = Decode(c, Encode(c, s))
  PROVE  /\ back # NULL /\ Len(back) \in Len(s)..(Len(s) + 1)
         /\ \A i \in 1..Len(back) : back[i] = IF i <= Len(s) THEN s[i] ELSE 0
<1> DEFINE text == Encode(c, s)
           g == Groups(s, Bytes(c))
           B == Bytes(c)
           D == Decoded(c, text)
           N == Len(s)
           L == Written(c, Significants(c, s, g))
<1>1. text \in Seq(Nat) /\ LastGroup(c, text) = g /\ IsAccepted(c, text)
  BY EncodedGroups
<1>2. back # NULL
  <2> HIDE DEF text
  <2>1. QED
    BY <1>1, DecodedText DEF text
<1>3. back = FlattenSeq(D)
  <2>1. Decode(c, text) = FlattenSeq(Decoded(c, text))
    <3> HIDE DEF text
    <3>1. QED
      BY <1>1, DecodeIs
  <2>2. QED
    BY <2>1
<1>4. /\ g = 0 => FlattenSeq(D) = << >>
      /\ g > 0 => Joined(FlattenSeq(D), D, g, B, Nat)
  <2> HIDE DEF text, g
  <2>1. QED
    BY <1>1, DecodedIsUniform
<1>5. g \in Nat /\ N \in Nat /\ B \in Nat /\ (g = 0 <=> N = 0)
  BY GroupCount, GroupSizes
<1>6. \A n \in 1..g : /\ Len(D[n]) = Written(c, Significants(c, s, n))
                      /\ \A i \in 1..Written(c, Significants(c, s, n)) : D[n][i] = At(s, (n - 1) * B + i)
  BY EncodedGroups
<1>7. CASE g = 0
  <2>1. back = << >> /\ N = 0
    BY <1>3, <1>4, <1>5, <1>7
  <2>2. Len(back) = 0 /\ 1..Len(back) = {}
    BY <2>1
  <2>3. Len(back) \in N..(N + 1)
    BY <2>1, <2>2
  <2> HIDE DEF N
  <2>4. QED
    BY <1>2, <2>2, <2>3 DEF N
<1>8. CASE g # 0
  <2> DEFINE d == (g - 1) * B
             r == Room(g, N, B)
  <2>1. g \in 1..g /\ g \in Nat \ {0} /\ g > 0
    BY <1>5, <1>8
  <2>2. d \in Nat /\ r \in 1..B /\ d + r = N
    BY <2>1, RoomIs
  <2>3. L \in Nat /\ r <= L /\ L <= r + 1 /\ L <= B
    BY <2>2, UsedIsWritten DEF Significants
  <2>4. /\ Len(back) = (g - 1) * B + Len(D[g])
        /\ \A i \in 1..g : \A j \in 1..Len(D[i]) : back[(i - 1) * B + j] = D[i][j]
    BY <1>3, <1>4, <2>1 DEF Joined
  <2>5. Len(back) = d + L
    BY <1>6, <2>1, <2>4
  <2>6. \A n \in 1..g : n # g => Written(c, Significants(c, s, n)) = B
    <3>1. TAKE n \in 1..g
    <3>2. HAVE n # g
    <3>3. n < g
      BY <1>5, <3>2
    <3>4. Room(n, Len(s), Bytes(c)) = Bytes(c) /\ Bytes(c) \in 1..Bytes(c)
      BY <3>3, RoomIs
    <3>5. Significants(c, s, n) = Chars(c) /\ Significants(c, s, n) \in Counts(c)
      BY <3>4, UsedIsWritten DEF Significants
    <3>6. QED
      BY <3>5, CountsAre
  <2> HIDE DEF r, L, D, g, N, B
  <2>7. Len(back) \in N..(N + 1)
    <3> HIDE DEF d
    <3>1. QED
      BY <1>5, <2>2, <2>3, <2>5
  <2>8. ASSUME NEW k \in 1..Len(back)
        PROVE  back[k] = IF k <= N THEN s[k] ELSE 0
    <3>1. PICK n \in 1..g : \E j \in 1..B : k = (n - 1) * B + j /\ (n = g => j <= L)
      <4>1. k \in 1..((g - 1) * Bytes(c) + L) /\ L <= Bytes(c)
        BY <2>3, <2>5 DEF B
      <4>2. \E n \in 1..g : \E j \in 1..Bytes(c) : k = (n - 1) * Bytes(c) + j /\ (n = g => j <= L)
        BY <2>1, <2>3, <4>1, BytePosition
      <4>3. QED
        BY <4>2 DEF B
    <3>2. PICK j \in 1..B : k = (n - 1) * B + j /\ (n = g => j <= L)
      BY <3>1
    <3>3. j \in 1..Written(c, Significants(c, s, n))
      <4>1. CASE n = g
        BY <1>5, <2>3, <3>2, <4>1 DEF L
      <4>2. CASE n # g
        BY <2>6, <4>2
      <4>3. QED
        BY <4>1, <4>2
    <3>4. back[k] = At(s, k)
      BY <1>6, <2>4, <3>2, <3>3
    <3>5. k \in Nat /\ k >= 1
      OBVIOUS
    <3>6. k \in 1..N <=> k <= N
      BY <1>5, <3>5
    <3>7. QED
      BY <3>4, <3>6 DEF At, N
  <2>9. QED
    BY <1>2, <2>7, <2>8 DEF N
<1>9. QED
  BY <1>7, <1>8

LEMMA InputComesBack == BytesType => RoundTrip
BY BytesComeBack DEF BytesType, RoundTrip

(* What was encoded is decoded again, with nothing but one zero byte behind*)
(* it: the groups of base_coding.c are put together as they were split.    *)
THEOREM EncodedIsDecoded == CodingSpec => []RoundTrip
BY TypeOfInput, InputComesBack, PTL

(* Encoding and decoding of every input: RFC 4648, and back.               *)
THEOREM BytesAreConverted == CodingSpec => []ConvertsBytes
<1>1. EncodesBits /\ RoundTrip => ConvertsBytes
  BY DEF ConvertsBytes
<1>2. QED
  BY <1>1, TextHasTheBits, EncodedIsDecoded, PTL

-----------------------------------------------------------------------------
(* What is decoded                                                         *)

(* Padding is behind the digits of the last group.                         *)
LEMMA PlaceInText ==
  ASSUME NEW c \in Codings, NEW last \in Nat, NEW n \in 1..last, NEW j \in 1..Chars(c),
         NEW p \in Nat, p < Chars(c)
  PROVE  /\ (n - 1) * Chars(c) + j > last * Chars(c) - p <=> n = last /\ j > Chars(c) - p
         /\ p <= last * Chars(c)
<1>1. CASE Chars(c) = 4
  BY <1>1
<1>2. CASE Chars(c) = 8
  BY <1>2
<1>3. CASE Chars(c) = 2
  BY <1>3
<1>4. QED
  BY <1>1, <1>2, <1>3, GroupSizes

(* The i-th character of a text, in front of or in p characters of padding.*)
Fits(c, s, p, i) == IF i > Len(s) - p THEN s[i] = Padding ELSE Digit(c, s[i]) # Bad

(* The padding of an accepted text is what its last group is counted to    *)
(* have.                                                                   *)
LEMMA AcceptedIsWellFormed ==
  ASSUME NEW c \in Codings, NEW s \in Seq(Nat), IsAccepted(c, s)
  PROVE  WellFormed(c, s)
<1> DEFINE last == LastGroup(c, s)
           C == Chars(c)
<1>1. /\ last \in Nat /\ Len(s) = last * C /\ Len(s) % C = 0 /\ C \in Nat
  BY WholeGroups, GroupSizes DEF IsAccepted
<1>2. CASE last = 0
  <2>1. Len(s) = 0
    BY <1>1, <1>2
  <2>2. 0 \in Paddings(c) /\ 0 <= Len(s) /\ 1..Len(s) = {}
    BY <2>1, PaddingsAre
  <2>3. QED
    BY <1>1, <2>2 DEF WellFormed
<1>3. CASE last # 0
  <2> DEFINE u == DigitCount(c, s, last)
             p == C - u
  <2>1. u \in Counts(c) /\ p \in Paddings(c) /\ p \in Nat /\ p < C /\ C - p = u /\ u \in 1..C
    <3>1. u \in Counts(c)
      BY <1>1, WholeGroups
    <3> HIDE DEF u
    <3>2. p \in Paddings(c) /\ u \in 1..C
      BY <3>1, PaddingsAre, CountsAre
    <3>3. QED
      BY <1>1, <3>1, <3>2
  <2>2. last \in 1..last
    BY <1>1, <1>3
  <2>3. p <= Len(s)
    <3> HIDE DEF last, p, u
    <3>1. 1 \in 1..C
      BY <1>1, <2>1
    <3>2. p <= last * C
      BY <1>1, <2>1, <2>2, <3>1, PlaceInText
    <3>3. QED
      BY <1>1, <3>2
  <2>4. ASSUME NEW i \in 1..Len(s) PROVE Fits(c, s, p, i)
    <3>1. PICK n \in 1..last : \E j \in 1..C : i = (n - 1) * C + j
      <4> HIDE DEF last
      <4>1. i \in 1..(last * Chars(c))
        BY <1>1
      <4>2. QED
        BY <1>1, <4>1, Position
    <3>2. PICK j \in 1..C : i = (n - 1) * C + j
      BY <3>1
    <3>3. Accepted(c, Group(s, n, C), DigitCount(c, s, n))
      BY DEF IsAccepted
    <3>4. Group(s, n, C)[j] = s[i]
      <4> HIDE DEF last
      <4>1. QED
        BY <1>1, <3>2, TextGroup
    <3>5. i > Len(s) - p <=> n = last /\ j > u
      <4> HIDE DEF last, p, u
      <4>1. (n - 1) * Chars(c) + j > last * Chars(c) - p <=> n = last /\ j > Chars(c) - p
        BY <1>1, <2>1, PlaceInText
      <4> HIDE DEF C
      <4>2. i > last * C - p <=> n = last /\ j > C - p
        BY <3>2, <4>1 DEF C
      <4>3. QED
        BY <1>1, <2>1, <4>2
    <3>6. CASE n = last
      <4>1. Accepted(c, Group(s, n, C), u)
        BY <3>3, <3>6
      <4> HIDE DEF u, p
      <4>2. CASE j > u
        <5>1. j \in (u + 1)..Chars(c)
          BY <1>1, <2>1, <4>2
        <5>2. QED
          BY <3>4, <3>5, <3>6, <4>1, <4>2, <5>1 DEF Accepted, Fits
      <4>3. CASE ~(j > u)
        <5>1. j \in 1..u
          BY <1>1, <2>1, <4>3
        <5>2. QED
          BY <3>4, <3>5, <4>1, <4>3, <5>1 DEF Accepted, Fits
      <4>4. QED
        BY <4>2, <4>3
    <3>7. CASE n # last
      <4>1. DigitCount(c, s, n) = Chars(c)
        BY <3>7 DEF DigitCount
      <4>2. Digit(c, s[i]) # Bad
        BY <3>3, <3>4, <4>1 DEF Accepted
      <4> HIDE DEF u, p
      <4>3. QED
        BY <3>5, <3>7, <4>2 DEF Fits
    <3>8. QED
      BY <3>6, <3>7
  <2> HIDE DEF p
  <2>5. QED
    BY <1>1, <2>1, <2>3, <2>4 DEF WellFormed, Fits
<1>4. QED
  BY <1>2, <1>3

(* The last group is counted by its padding, and padding is nowhere else.  *)
LEMMA WellFormedIsAccepted ==
  ASSUME NEW c \in Codings, NEW s \in Seq(Nat), WellFormed(c, s)
  PROVE  IsAccepted(c, s)
<1> DEFINE last == LastGroup(c, s)
           C == Chars(c)
<1>1. PICK p \in Paddings(c) : p <= Len(s) /\ \A i \in 1..Len(s) : Fits(c, s, p, i)
  BY DEF WellFormed, Fits
<1>2. /\ last \in Nat /\ Len(s) = last * C /\ Len(s) % C = 0 /\ C \in Nat
  BY WholeGroups, GroupSizes DEF WellFormed
<1> DEFINE u == C - p
<1>3. u \in Counts(c) /\ p \in Nat /\ p < C /\ C - p = u /\ u \in 1..C
  <2>1. p \in Nat /\ p < C /\ u \in Counts(c)
    BY PaddingsAre
  <2>2. QED
    BY <1>2, <2>1, CountsAre
<1>4. ASSUME NEW n \in 1..last
      PROVE  Accepted(c, Group(s, n, C), DigitCount(c, s, n))
  <2>1. ASSUME NEW j \in 1..C
        PROVE  IF n = last /\ j > u THEN Group(s, n, C)[j] = Padding
               ELSE Digit(c, Group(s, n, C)[j]) # Bad
    <3> DEFINE i == (n - 1) * C + j
    <3>1. i \in 1..Len(s) /\ Group(s, n, C)[j] = s[i]
      <4> HIDE DEF last
      <4>1. QED
        BY <1>2, TextGroup
    <3>2. i > Len(s) - p <=> n = last /\ j > u
      <4> HIDE DEF last, u
      <4>1. i > last * C - p <=> n = last /\ j > C - p
        BY <1>2, <1>3, PlaceInText
      <4> HIDE DEF i
      <4>2. QED
        BY <1>2, <1>3, <4>1
    <3> HIDE DEF i, u
    <3>3. Fits(c, s, p, i)
      BY <1>1, <3>1
    <3>4. QED
      BY <3>1, <3>2, <3>3 DEF Fits
  <2>2. CASE n = last
    <3> HIDE DEF u
    <3>1. \A j \in 1..u : j \in 1..C /\ ~(j > u)
      BY <1>2, <1>3
    <3>2. \A j \in (u + 1)..C : j \in 1..C /\ j > u
      BY <1>2, <1>3
    <3>3. Accepted(c, Group(s, n, C), u)
      BY <2>1, <2>2, <3>1, <3>2 DEF Accepted
    <3>4. DigitCount(c, s, n) = u
      <4>1. Significant(c, Group(s, n, C)) = u
        BY <1>3, <3>3, AcceptedIsCounted
      <4>2. QED
        BY <2>2, <4>1 DEF DigitCount
    <3>5. QED
      BY <3>3, <3>4
  <2>3. CASE n # last
    <3>1. DigitCount(c, s, n) = C
      BY <2>3 DEF DigitCount
    <3>2. (C + 1)..C = {}
      BY <1>2
    <3>3. \A j \in 1..C : Digit(c, Group(s, n, C)[j]) # Bad
      BY <2>1, <2>3
    <3>4. QED
      BY <3>1, <3>2, <3>3 DEF Accepted
  <2>4. QED
    BY <2>2, <2>3
<1>5. QED
  BY <1>2, <1>4 DEF IsAccepted

LEMMA FormIsAccepted == BytesType => AcceptsWellFormed
<1> SUFFICES ASSUME BytesType, NEW c \in Codings
             PROVE  Decode(c, input) # NULL <=> WellFormed(c, input)
  BY DEF AcceptsWellFormed
<1>1. input \in Seq(Nat)
  <2>1. Octet \subseteq Nat
    BY DEF Octet
  <2>2. QED
    BY <2>1, SeqMonotonic DEF BytesType
<1>2. QED
  BY <1>1, DecodedText, AcceptedIsWellFormed, WellFormedIsAccepted

(* A text is decoded if and only if it is in the form of an encoded one.   *)
THEOREM FormIsDecoded == CodingSpec => []AcceptsWellFormed
BY TypeOfInput, FormIsAccepted, PTL

=============================================================================
