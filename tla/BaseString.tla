----------------------------- MODULE BaseString -----------------------------
(***************************************************************************)
(* base/base_string.c as a whole: the strings that threads share           *)
(* (SharedString) and the string that one owner edits (StringBuffer).  The *)
(* string that editString returns has one owner, and so has a string on    *)
(* the stack; the two modules meet in no other place.  Their steps are     *)
(* therefore explored one after the other: the edited string is used as    *)
(* long as no string is shared, and the other way round.                   *)
(***************************************************************************)

EXTENDS StringBuffer

CONSTANTS Threads, Strings, Contents, MaxRefs               (* SharedString *)

VARIABLES
  live, ref_count, lock, shared_bytes, pc, op, str, refs, count, ret_str, late, undefined

S == INSTANCE SharedString WITH bytes <- shared_bytes

ASSUME BaseStringAssumption == S!SharedStringAssumption

sharedVars ==
  <<live, ref_count, lock, shared_bytes, pc, op, str, refs, count, ret_str, late, undefined>>

StringsInit == S!Init /\ Init

SharedStep ==
  /\ Init
  /\ S!Next
  /\ UNCHANGED vars

OwnerStep ==
  /\ S!Init
  /\ Next
  /\ UNCHANGED sharedVars

StringsNext == SharedStep \/ OwnerStep

StringsSpec == StringsInit /\ [][StringsNext]_<<sharedVars, vars>>

-----------------------------------------------------------------------------
(* Properties, besides those of StringBuffer                               *)

(* A shared string lives as long as its references: see SharedString.      *)
LiveWhileReferenced == S!LiveWhileReferenced

(* Only the rest of freeString meets a freed string: see SharedString.     *)
OnlyRestOfFreeIsLate == S!OnlyRestOfFreeIsLate

(* Copying on write keeps the threads apart: see SharedString.             *)
ImplementsOwnValues == S!ImplementsOwnValues

=============================================================================
