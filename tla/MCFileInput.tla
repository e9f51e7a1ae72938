----------------------------- MODULE MCFileInput -----------------------------
(***************************************************************************)
(* Inputs up to ten bytes, for a buffer that grows from two to eight.      *)
(***************************************************************************)
EXTENDS FileInput
=============================================================================
