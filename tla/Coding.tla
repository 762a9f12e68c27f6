------------------------------- MODULE Coding -------------------------------
(***************************************************************************)
(* The conversions of base/base_coding.c between bytes and the texts of    *)
(* RFC 4648 in base 64, 32 and 16.  A text is a sequence of character      *)
(* codes.  The functions keep no state: the one variable is the input.     *)
(* No input and no memory, for which they return NULL, are left out.       *)
(***************************************************************************)

EXTENDS Integers, Sequences, FiniteSets, SequencesExt

CONSTANTS
  Inputs,        (* the bytes and characters that inputs are made of       *)
  MaxInput       (* bound: how many of them                                *)

ASSUME CodingAssumption == Inputs \subseteq 0..255 /\ MaxInput \in Nat

VARIABLE input   (* bytes to encode, or a text to decode                   *)

Codings == {64, 32, 16}

(* The sizes of the groups of bytes and of the groups of characters.       *)
Bytes(c) == CASE c = 64 -> 3 [] c = 32 -> 5 [] c = 16 -> 1
Chars(c) == CASE c = 64 -> 4 [] c = 32 -> 8 [] c = 16 -> 2

Padding == 61    (* = *)
Bad == -1

-----------------------------------------------------------------------------
(* Digits and characters                                                   *)

base64_table == [d \in 0..63 |->
  IF d < 26 THEN 65 + d                  (* A to Z *)
  ELSE IF d < 52 THEN 97 + d - 26        (* a to z *)
  ELSE IF d < 62 THEN 48 + d - 52        (* 0 to 9 *)
  ELSE IF d = 62 THEN 43 ELSE 47]        (* + and / *)

base32_table == [d \in 0..31 |-> IF d < 26 THEN 65 + d ELSE 50 + d - 26]

base16_table == [d \in 0..15 |-> IF d < 10 THEN 48 + d ELSE 65 + d - 10]

getBase64Base(b) ==
  CASE b \in 65..90  -> b - 65
    [] b \in 97..122 -> b - 97 + 26
    [] b \in 48..57  -> b - 48 + 52
    [] b = 43 -> 62
    [] b = 47 -> 63
    [] OTHER -> Bad

getBase32Base(b) ==
  CASE b \in 65..90 -> b - 65 [] b \in 50..55 -> b - 50 + 26 [] OTHER -> Bad

getBase16Base(b) ==
  CASE b \in 48..57 -> b - 48 [] b \in 65..70 -> b - 65 + 10 [] OTHER -> Bad

Character(c, d) ==
  CASE c = 64 -> base64_table[d] [] c = 32 -> base32_table[d] [] c = 16 -> base16_table[d]

Digit(c, b) ==
  CASE c = 64 -> getBase64Base(b) [] c = 32 -> getBase32Base(b) [] c = 16 -> getBase16Base(b)

-----------------------------------------------------------------------------
(* A group of bytes and its digits                                         *)

Split64(b) ==
  << b[1] \div 4, (b[1] % 4) * 16 + b[2] \div 16, (b[2] % 16) * 4 + b[3] \div 64, b[3] % 64 >>

(* Mutant of Split32: the fourth byte is shifted by one bit too many.      *)
Split32Shifted(b) ==
  << b[1] \div 8, (b[1] % 8) * 4 + b[2] \div 64, (b[2] % 64) \div 2,
     (b[2] % 2) * 16 + b[3] \div 16, (b[3] % 16) * 2 + b[4] \div 128,
     (b[4] % 128) \div 8, (b[4] % 4) * 8 + b[5] \div 32, b[5] % 32 >>

Split32(b) ==
  << b[1] \div 8, (b[1] % 8) * 4 + b[2] \div 64, (b[2] % 64) \div 2,
     (b[2] % 2) * 16 + b[3] \div 16, (b[3] % 16) * 2 + b[4] \div 128,
     (b[4] % 128) \div 4, (b[4] % 4) * 8 + b[5] \div 32, b[5] % 32 >>

Split16(b) == << b[1] \div 16, b[1] % 16 >>

Split(c, b) == CASE c = 64 -> Split64(b) [] c = 32 -> Split32(b) [] c = 16 -> Split16(b)

(* What is shifted out of a byte is lost.                                  *)
Low(n) == n % 256

Join64(d) ==
  << Low(d[1] * 4) + d[2] \div 16, Low(d[2] * 16) + d[3] \div 4, Low(d[3] * 64) + d[4] >>

(* Mutant of Join32: the second digit is shifted by one bit too few.       *)
Join32Unshifted(d) ==
  << Low(d[1] * 8) + d[2] \div 4, Low(d[2] * 32) + d[3] * 2 + d[4] \div 16,
     Low(d[4] * 16) + d[5] \div 2, Low(d[5] * 128) + d[6] * 4 + d[7] \div 8,
     Low(d[7] * 32) + d[8] >>

Join32(d) ==
  << Low(d[1] * 8) + d[2] \div 4, Low(d[2] * 64) + d[3] * 2 + d[4] \div 16,
     Low(d[4] * 16) + d[5] \div 2, Low(d[5] * 128) + d[6] * 4 + d[7] \div 8,
     Low(d[7] * 32) + d[8] >>

Join16(d) == << d[1] * 16 + d[2] >>

Join(c, d) == CASE c = 64 -> Join64(d) [] c = 32 -> Join32(d) [] c = 16 -> Join16(d)

-----------------------------------------------------------------------------
(* Encoding                                                                *)

(* The n-th group of s, of at most the given size.                         *)
Group(s, n, size) == SubSeq(s, (n - 1) * size + 1, IF n * size < Len(s) THEN n * size ELSE Len(s))

Groups(s, size) == (Len(s) + size - 1) \div size

(* s, followed by as many v as there are places left.                      *)
Fill(s, size, v) == [i \in 1..size |-> IF i <= Len(s) THEN s[i] ELSE v]

(* The characters that an incomplete group of bytes has.                   *)
Used(c, n) ==
  CASE n = Bytes(c) -> Chars(c)
    [] c = 64 /\ n < 3 -> <<2, 3>>[n]
    [] c = 32 /\ n < 5 -> <<2, 4, 5, 7>>[n]

EncodeGroup(c, b) ==
  LET digits == SubSeq(Split(c, Fill(b, Bytes(c), 0)), 1, Used(c, Len(b)))
  IN  Fill([i \in 1..Len(digits) |-> Character(c, digits[i])], Chars(c), Padding)

Encode(c, s) ==
  FlattenSeq([n \in 1..Groups(s, Bytes(c)) |-> EncodeGroup(c, Group(s, n, Bytes(c)))])

-----------------------------------------------------------------------------
(* Decoding                                                                *)

(* Where the last group is asked for padding: behind two, three digits...  *)
Asked(c) == CASE c = 64 -> {3, 4} [] c = 32 -> {3, 5, 6, 8} [] c = 16 -> {}

(* The digits in front of the padding.                                     *)
Significant(c, g) ==
  IF \E i \in Asked(c) : g[i] = Padding
  THEN (CHOOSE i \in Asked(c) : g[i] = Padding /\ \A j \in Asked(c) : g[j] = Padding => i <= j) - 1
  ELSE Chars(c)

(* Mutant of Accepted: what follows the first padding is not looked at.    *)
AcceptedWithTail(c, g, n) == \A i \in 1..n : Digit(c, g[i]) # Bad

(* The first n characters are digits, and the others padding.              *)
Accepted(c, g, n) ==
  /\ \A i \in 1..n : Digit(c, g[i]) # Bad
  /\ \A i \in (n + 1)..Chars(c) : g[i] = Padding

(* The bytes that n digits write: the last may be an incomplete one.       *)
Written(c, n) ==
  IF n = Chars(c) THEN Bytes(c) ELSE ((Bytes(c) * n) \div Chars(c)) + 1

DecodeGroup(c, g, n) ==
  LET digits == [i \in 1..Chars(c) |-> IF i <= n THEN Digit(c, g[i]) ELSE 0]
  IN  SubSeq(Join(c, digits), 1, Written(c, n))

NULL == <<Bad>>

(* Only the last group may end in padding.                                 *)
Decode(c, s) ==
  LET last == Len(s) \div Chars(c)
      G(n) == Group(s, n, Chars(c))
      L(n) == IF n = last THEN Significant(c, G(n)) ELSE Chars(c)
  IN  IF Len(s) % Chars(c) = 0 /\ \A n \in 1..last : Accepted(c, G(n), L(n))
      THEN FlattenSeq([n \in 1..last |-> DecodeGroup(c, G(n), L(n))])
      ELSE NULL

-----------------------------------------------------------------------------

CodingInit == input = <<>>

CodingNext ==
  IF Len(input) < MaxInput
  THEN \E b \in Inputs : input' = Append(input, b)
  ELSE input' = <<>>

CodingSpec == CodingInit /\ [][CodingNext]_input

-----------------------------------------------------------------------------
(* Properties                                                              *)

(* The i-th bit of a byte and of a sequence of bytes, the highest first.   *)
BitOf(b, i) == (b \div <<128, 64, 32, 16, 8, 4, 2, 1>>[i + 1]) % 2
Bit(s, i) == IF i \div 8 < Len(s) THEN BitOf(s[i \div 8 + 1], i % 8) ELSE 0

Width(c) == CASE c = 64 -> 6 [] c = 32 -> 5 [] c = 16 -> 4

(* The number that the k-th digit of s has, by its bits.                   *)
DigitOf(c, s, k) ==
  LET w == Width(c)
      sum[j \in 0..w] == IF j = 0 THEN 0 ELSE 2 * sum[j - 1] + Bit(s, (k - 1) * w + j - 1)
  IN  sum[w]

(* RFC 4648: the bits of the input in groups of 6, 5 or 4, one character   *)
(* for each, and padding up to a whole group.                              *)
EncodesBits ==
  \A c \in Codings :
    LET text   == Encode(c, input)
        digits == (8 * Len(input) + Width(c) - 1) \div Width(c)
    IN  /\ Len(text) = Chars(c) * Groups(input, Bytes(c))
        /\ \A k \in 1..Len(text) :
             text[k] = IF k <= digits THEN Character(c, DigitOf(c, input, k)) ELSE Padding

(* What was encoded is decoded again, with nothing but zeros behind it.    *)
RoundTrip ==
  \A c \in Codings :
    LET back == Decode(c, Encode(c, input))
    IN  /\ back # NULL /\ Len(back) \in Len(input)..(Len(input) + 1)
        /\ \A i \in 1..Len(back) : back[i] = IF i <= Len(input) THEN input[i] ELSE 0

(* The conversions and their inverses: every text says the bits of its     *)
(* bytes, and every decoder gets them back out of it, for each length of   *)
(* the last group.                                                         *)
ConvertsBytes == EncodesBits /\ RoundTrip

(* How much padding encoded texts can have.                                *)
Paddings(c) == CASE c = 64 -> 0..2 [] c = 32 -> {0, 1, 3, 4, 6} [] c = 16 -> {0}

WellFormed(c, s) ==
  /\ Len(s) % Chars(c) = 0
  /\ \E p \in Paddings(c) :
       /\ p <= Len(s)
       /\ \A i \in 1..Len(s) :
            IF i > Len(s) - p THEN s[i] = Padding ELSE Digit(c, s[i]) # Bad

(* A text is decoded if and only if it is in the form of an encoded one.   *)
AcceptsWellFormed ==
  \A c \in Codings : Decode(c, input) # NULL <=> WellFormed(c, input)

=============================================================================
