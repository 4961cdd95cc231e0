--------------------------- MODULE CaseLifecycle ---------------------------
(***************************************************************************)
(* What the case table promises the rest of the system, with no workers,   *)
(* statements or ledger: cases open fresh, at most one live case holds an  *)
(* order (or an invoice), and a case moves only along TRANSITIONS.         *)
(***************************************************************************)
EXTENDS CaseMachine

CONSTANTS Case,      \* case ids
          Order,     \* Razorpay orders
          Invoice,   \* Razorpay invoices
          None       \* "this case has no order / no invoice"

VARIABLES state,     \* Case -> CaseState, or "absent" before the row exists
          key        \* Case -> the order and the invoice the row carries

vars == <<state, key>>

Key == [order : Order \cup {None}, invoice : Invoice \cup {None}]

NoKey == [order |-> None, invoice |-> None]

\* Would the two rows collide on one of the two partial unique indexes?
SameKey(k1, k2) ==
  \/ k1.order # None /\ k1.order = k2.order
  \/ k1.invoice # None /\ k1.invoice = k2.invoice

Init == /\ state = [c \in Case |-> "absent"]
        /\ key = [c \in Case |-> NoKey]

Open(c, k) ==
  /\ state[c] = "absent"
  /\ \A d \in Case : state[d] \in LiveState => ~SameKey(k, key[d])
  /\ state' = [state EXCEPT ![c] = "detected"]
  /\ key' = [key EXCEPT ![c] = k]

Move(c, to) ==
  /\ state[c] # "absent"
  /\ canTransition(state[c], to)
  /\ state' = [state EXCEPT ![c] = to]
  /\ UNCHANGED key

Next == \E c \in Case : \/ \E k \in Key : Open(c, k)
                        \/ \E to \in CaseState : Move(c, to)

Spec == Init /\ [][Next]_vars
============================================================================
