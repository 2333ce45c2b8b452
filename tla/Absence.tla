------------------------------- MODULE Absence -------------------------------
(***************************************************************************)
(* The value of a variable that has none: null and undefined in the code.  *)
(***************************************************************************)

CONSTANT None
=============================================================================
