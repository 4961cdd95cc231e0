---------------------------- MODULE MCOperations ----------------------------
(* Two cases of one outage, their ladders of two rungs, and who is about. *)
EXTENDS Operations, TLC

CONSTANTS rare, common, odd

MCAmount == [c \in Case |-> c]
MCRungs == <<"escalate_to_human", "merchant_alert">>
MCOccurrences == common :> 5 @@ odd :> 3 @@ rare :> 2
=============================================================================
