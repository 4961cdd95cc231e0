-------------------------- MODULE MCMessageLedger --------------------------
(* A small instance of MessageLedger for TLC. *)
EXTENDS MessageLedger, TLC

\* Every key belongs to the single customer of the instance: the contended case.
OneCustomer == [k \in Key |-> CHOOSE c \in Customer : TRUE]

\* Neither the keys (all of one customer) nor the senders are told apart.
Symmetry == Permutations(Key) \cup Permutations(Sender)
============================================================================
