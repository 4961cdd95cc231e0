------------------------------- MODULE MCDesk -------------------------------
(* The console of one case, for TLC. *)
EXTENDS Desk, TLC
=============================================================================
