------------------------------- MODULE Absence -------------------------------
(***************************************************************************)
(* The value of what is not there: the None of an Option, an entry that a  *)
(* dictionary does not have.                                               *)
(***************************************************************************)
CONSTANT None
=============================================================================
