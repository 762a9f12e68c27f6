--------------------------- MODULE MCVolumeManager ---------------------------
(* Instances of VolumeManager for TLC.                                     *)
EXTENDS VolumeManager

(* A data volume's type, the last type and the first that is none.         *)
SomeDigits == {"1", "3", "4"}
ThreeFiles == 1..3
=============================================================================
