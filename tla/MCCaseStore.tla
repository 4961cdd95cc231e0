---------------------------- MODULE MCCaseStore ----------------------------
(* A small instance of CaseStore for TLC. *)
EXTENDS CaseStore, TLC

\* Cases and workers are interchangeable: nothing in CaseStore tells them apart.
Symmetry == Permutations(Case) \cup Permutations(Worker)
============================================================================
