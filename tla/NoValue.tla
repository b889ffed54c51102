------------------------------ MODULE NoValue ------------------------------
(***************************************************************************)
(* What every program of the repository has: a value that is absent (an    *)
(* empty optional, a field that is missing, a file that is not there).     *)
(***************************************************************************)

CONSTANT None
=============================================================================
