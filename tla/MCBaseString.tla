---------------------------- MODULE MCBaseString ----------------------------
(* Instances of BaseString for TLC.                                        *)
EXTENDS BaseString, TLC

CONSTANTS t1, t2, t3, a, b

ThreeThreads == {t1, t2, t3}

Symmetry == Permutations(Threads) \cup Permutations(Strings)

(* The empty text, and texts that do not, just and easily fill a buffer of *)
(* four bytes.                                                             *)
SomeTexts == {<<>>, <<b>>, <<a, b, a>>, <<b, a, a, b>>}
SomeChunks == {<<b>>, <<a, b>>}
=============================================================================
