----------------------------- MODULE MCRecovery -----------------------------
(* A small instance of Recovery for TLC. *)
EXTENDS Recovery, TLC

\* Case ids, resume passes, channels, and deliveries of one kind are interchangeable.
Symmetry == Permutations(Case) \cup Permutations(Waker) \cup Permutations(Failed)
              \cup Permutations(Channel)
=============================================================================
