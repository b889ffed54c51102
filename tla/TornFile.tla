------------------------------ MODULE TornFile ------------------------------
(***************************************************************************)
(* Files that are written in place: one whose writing was interrupted is   *)
(* neither the old nor the new one.                                        *)
(***************************************************************************)
EXTENDS NoValue

CONSTANT Torn
=============================================================================
