--------------------------- MODULE MCPaymentLinks ---------------------------
(* A small instance of PaymentLinks for TLC: an order whose discount leaves *)
(* too little to pay, and one on the 30% rule between the two tiers.        *)
EXTENDS PaymentLinks

CONSTANTS t1, t2, r1

MCAmount == {130, 100000}
MCShifts == {{t1, t2}, {t1, r1}}
=============================================================================
