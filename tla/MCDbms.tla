------------------------------- MODULE MCDbms -------------------------------
(***************************************************************************)
(* A file with three keys: enough for an insertion at the end, at the      *)
(* front and between two entries, and for a slot that is used again.       *)
(***************************************************************************)
EXTENDS Dbms

MCKeys == 1 .. 3
=============================================================================
