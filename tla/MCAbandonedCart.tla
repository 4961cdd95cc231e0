-------------------------- MODULE MCAbandonedCart --------------------------
(* A small instance of AbandonedCart for TLC. *)
EXTENDS AbandonedCart
============================================================================
