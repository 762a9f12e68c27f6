------------------------------ MODULE MCCoding ------------------------------
(* Instances of Coding for TLC.                                            *)
EXTENDS Coding

(* A and 7, padding, and a byte that no text has: every bit is set in     *)
(* one of them and clear in another.                                       *)
SomeBytes == {65, 55, 61, 250}
=============================================================================
