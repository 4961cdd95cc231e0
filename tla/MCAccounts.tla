----------------------------- MODULE MCAccounts -----------------------------
(* A small instance of Accounts: one user acts for both merchants, the other *)
(* for the second. *)
EXTENDS Accounts

TwoShops == <<"sandbox", "live">>
TwoUsers == [u \in {"ann", "ben"} |-> IF u = "ann" THEN {"sandbox", "live"} ELSE {"live"}]
=============================================================================
