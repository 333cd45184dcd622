------------------------------- MODULE Absent -------------------------------
(***************************************************************************)
(* Python's None, in every module that has optional values.                *)
(***************************************************************************)
CONSTANT None
=============================================================================
