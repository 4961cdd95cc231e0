--------------------------- MODULE AbandonedCart ---------------------------
(***************************************************************************)
(* One abandoned cart: the merchant's app reports it (and retries), the    *)
(* agent issues a discounted payment link and emails it, the cron sweep    *)
(* and "Sync now" ask Razorpay whether it was paid, and payment_link.paid  *)
(* says so by itself.  All of them write one row, none of them under a     *)
(* lock or a guard on its status.                                          *)
(*                                                                         *)
(* A link carries the row's id as reference_id and Razorpay takes a        *)
(* reference once, so a cart has at most one link.                         *)
(***************************************************************************)
EXTENDS Naturals

CONSTANTS Caller,     \* calls of the merchant's app: the first and its retries
          Checker,    \* reconciliation passes: the cron sweep, "Sync now"
          MishapKind, \* what may go wrong: a subset of AnyMishap
          MaxMishaps  \* how often

\* A provider call throws; its answer is lost after it took effect; death.
AnyMishap == {"throw", "lost", "die"}

ASSUME MishapAssumption == MishapKind \subseteq AnyMishap /\ MaxMishaps \in Nat

VARIABLES cart,      \* the abandoned_carts row
          link,      \* Razorpay's link for the cart's id
          mail,      \* "none", or what message_log holds under the cart's key
          callers, checkers,
          hook,      \* the payment_link.paid delivery
          expired,   \* paymentLinkExpiresAt has passed
          mishaps

cartVars == <<cart, link, mail, callers, checkers, hook, expired, mishaps>>

CartStatus == {"detected", "emailed", "recovered", "expired", "failed"}

\* What sendMessage answers, and processAbandonedCart's initial value.
EmailStatus == {"not_composed", "sent", "refused", "failed"}

Cart == [status : CartStatus \cup {"absent"}, linked : BOOLEAN, confirmed : BOOLEAN,
         email : EmailStatus \cup {"none"}]

CartTypeOK == /\ cart \in Cart
          /\ link \in {"none", "open", "paid", "expired"}
          /\ mail \in {"none", "logged", "sent"}
          /\ callers \in [Caller -> [pc : {"idle", "check", "link", "send", "record", "fail", "over"},
                                     email : EmailStatus]]
          /\ checkers \in [Checker -> [pc : {"idle", "fetch", "mark", "leave"}, saw : {"paid", "unpaid"}]]
          /\ hook \in {"none", "due", "mark", "done", "lost"}
          /\ expired \in BOOLEAN
          /\ mishaps \in 0..MaxMishaps

CartInit == /\ cart = [status |-> "absent", linked |-> FALSE, confirmed |-> FALSE, email |-> "none"]
        /\ link = "none" /\ mail = "none"
        /\ callers = [c \in Caller |-> [pc |-> "idle", email |-> "not_composed"]]
        /\ checkers = [k \in Checker |-> [pc |-> "idle", saw |-> "unpaid"]]
        /\ hook = "none" /\ expired = FALSE /\ mishaps = 0

Mishap(kind) == kind \in MishapKind /\ mishaps < MaxMishaps /\ mishaps' = mishaps + 1

CallerAt(c, from, to) == callers[c].pc = from /\ callers' = [callers EXCEPT ![c].pc = to]

----------------------------------------------------------------------------
(* The merchant's call.                                                     *)

\* createAbandonedCart: a new row, or the existing one.
Detect(c) ==
  /\ CallerAt(c, "idle", "check")
  /\ cart' = [cart EXCEPT !.status = IF @ = "absent" THEN "detected" ELSE @]
  /\ UNCHANGED <<link, mail, checkers, hook, expired, mishaps>>

\* Already processed, or the account is paused: nothing more.
CheckStatus(c) ==
  /\ \/ cart.status \in {"detected", "failed"} /\ CallerAt(c, "check", "link")
     \/ CallerAt(c, "check", "over")
  /\ UNCHANGED <<cart, link, mail, checkers, hook, expired, mishaps>>

\* createPaymentLink, or a refusal before it (amount, provider, customer).
CreateLink(c) ==
  /\ \/ /\ link = "none"
        /\ CallerAt(c, "link", "send")
        /\ link' = "open"
        /\ UNCHANGED mishaps
     \/ CallerAt(c, "link", "fail") /\ UNCHANGED <<link, mishaps>>
     \/ /\ Mishap("lost") /\ link = "none"
        /\ CallerAt(c, "link", "fail")
        /\ link' = "open"
  /\ UNCHANGED <<cart, mail, checkers, hook, expired>>

\* sendMessage under the cart's idempotency key: sent, refused by the cap, the
\* opt-out or the key, failed at the provider (or only its answer was lost); or
\* the copy did not compose.
Send(c) ==
  /\ callers[c].pc = "send"
  /\ \E outcome \in EmailStatus :
       /\ callers' = [callers EXCEPT ![c] = [pc |-> "record", email |-> outcome]]
       /\ \/ outcome \in {"refused", "not_composed"} /\ UNCHANGED <<mail, mishaps>>
          \/ outcome = "sent" /\ mail = "none" /\ mail' = "sent" /\ UNCHANGED mishaps
          \/ outcome = "failed" /\ mail = "none" /\ mail' = "logged" /\ UNCHANGED mishaps
          \/ outcome = "failed" /\ mail = "none" /\ mail' = "sent" /\ Mishap("lost")
  /\ UNCHANGED <<cart, link, checkers, hook, expired>>

\* recordCartLinkIssued, an UPDATE by id.
Record(c) ==
  /\ CallerAt(c, "record", "over")
  /\ cart' = [cart EXCEPT !.status = "emailed", !.linked = TRUE, !.email = callers[c].email]
  /\ UNCHANGED <<link, mail, checkers, hook, expired, mishaps>>

\* recordCartFailure, an UPDATE by id.
RecordFailure(c) ==
  /\ CallerAt(c, "fail", "over")
  /\ cart' = [cart EXCEPT !.status = "failed"]
  /\ UNCHANGED <<link, mail, checkers, hook, expired, mishaps>>

CallerDies(c) ==
  /\ callers[c].pc \notin {"idle", "over"} /\ Mishap("die")
  /\ callers' = [callers EXCEPT ![c].pc = "over"]
  /\ UNCHANGED <<cart, link, mail, checkers, hook, expired>>

----------------------------------------------------------------------------
(* Reconciliation.                                                          *)

Pending == cart.status = "emailed" /\ cart.linked /\ ~cart.confirmed

\* The cron's list has a LIMIT and no order, and skips a merchant without a provider:
\* a pass may leave the cart out.
ListPending(k) ==
  /\ checkers[k].pc = "idle" /\ Pending
  /\ \E pc \in {"fetch", "leave"} : checkers' = [checkers EXCEPT ![k].pc = pc]
  /\ UNCHANGED <<cart, link, mail, callers, hook, expired, mishaps>>

EndPass(k) ==
  /\ checkers[k].pc = "leave"
  /\ checkers' = [checkers EXCEPT ![k].pc = "idle"]
  /\ UNCHANGED <<cart, link, mail, callers, hook, expired, mishaps>>

\* fetchPaymentLink; a throw skips the row until the next pass.
Fetch(k) ==
  /\ checkers[k].pc = "fetch"
  /\ \/ /\ checkers' = [checkers EXCEPT ![k] =
             [pc |-> "mark", saw |-> IF link = "paid" THEN "paid" ELSE "unpaid"]]
        /\ UNCHANGED mishaps
     \/ Mishap("throw") /\ checkers' = [checkers EXCEPT ![k].pc = "idle"]
  /\ UNCHANGED <<cart, link, mail, callers, hook, expired>>

\* Faulty variant: an unpaid link is given up at once.
MarkImpatient(k) ==
  /\ checkers[k].pc = "mark"
  /\ checkers' = [checkers EXCEPT ![k].pc = "idle"]
  /\ cart' = IF checkers[k].saw = "paid"
             THEN [cart EXCEPT !.status = "recovered", !.confirmed = TRUE]
             ELSE [cart EXCEPT !.status = "expired"]
  /\ UNCHANGED <<link, mail, callers, hook, expired, mishaps>>

\* markCartRecovered or markCartExpired, from what the fetch saw and the clock now.
Mark(k) ==
  /\ checkers[k].pc = "mark"
  /\ checkers' = [checkers EXCEPT ![k].pc = "idle"]
  /\ cart' = IF checkers[k].saw = "paid"
             THEN [cart EXCEPT !.status = "recovered", !.confirmed = TRUE]
             ELSE IF expired THEN [cart EXCEPT !.status = "expired"] ELSE cart
  /\ UNCHANGED <<link, mail, callers, hook, expired, mishaps>>

\* Faulty variant: the webhook only knows carts whose email is recorded.
HookReadEmailed ==
  /\ hook = "due"
  /\ hook' = IF cart.confirmed \/ cart.status # "emailed" THEN "done" ELSE "mark"
  /\ UNCHANGED <<cart, link, mail, callers, checkers, expired, mishaps>>

\* handlePaymentLinkPaid finds the cart by reference_id, in any status; closeCart
\* leaves it alone when the payment is already confirmed.
HookRead ==
  /\ hook = "due"
  /\ hook' = IF cart.confirmed THEN "done" ELSE "mark"
  /\ UNCHANGED <<cart, link, mail, callers, checkers, expired, mishaps>>

HookMark ==
  /\ hook = "mark" /\ hook' = "done"
  /\ cart' = [cart EXCEPT !.status = "recovered", !.confirmed = TRUE]
  /\ UNCHANGED <<link, mail, callers, checkers, expired, mishaps>>

----------------------------------------------------------------------------
(* The customer and the clock.                                              *)

\* payment_link.paid follows, or never arrives.
PayCart == /\ link = "open" /\ mail = "sent"
           /\ link' = "paid"
           /\ \/ hook' = "due" /\ UNCHANGED mishaps
              \/ hook' = "lost" /\ Mishap("lost")
           /\ UNCHANGED <<cart, mail, callers, checkers, expired>>

\* The link dies at Razorpay at the instant the row holds as its expiry.
Expire == /\ ~expired /\ link # "none" /\ expired' = TRUE
          /\ link' = IF link = "open" THEN "expired" ELSE link
          /\ UNCHANGED <<cart, mail, callers, checkers, hook, mishaps>>

Process(c) == Detect(c) \/ CheckStatus(c) \/ CreateLink(c) \/ Send(c) \/ Record(c) \/ RecordFailure(c)

Check(k) == ListPending(k) \/ EndPass(k) \/ Fetch(k) \/ Mark(k)

CartNext == \/ \E c \in Caller : Process(c) \/ CallerDies(c)
        \/ \E k \in Checker : Check(k)
        \/ HookRead \/ HookMark \/ PayCart \/ Expire

\* A delivery that arrived is handled and the cron goes on making passes; nothing
\* else need happen.
CartSpec == /\ CartInit /\ [][CartNext]_cartVars
            /\ WF_cartVars(HookRead \/ HookMark)
            /\ WF_cartVars(\E k \in Checker : Check(k))

----------------------------------------------------------------------------
(* A cart counts as paid only when its link was, through whatever passes    *)
(* overlap with the payment, the expiry and each other.                     *)
ConfirmedIsPaid == cart.confirmed => link = "paid"

(* A cart is given up only when its customer can no longer pay: the fetch   *)
(* and the clock are read at different moments.                             *)
ExpiredIsUnpayable == cart.status = "expired" => link # "open"

(* "emailed" on the console means that an email left: retries, refused and  *)
(* failed sends and deaths never leave a row that says "sent" for nothing.  *)
SentIsSent == cart.email = "sent" => mail = "sent"

(* What a cart's row says of its link and of its email is true, whatever    *)
(* calls, passes and deliveries overlap on it.                              *)
CartAgreesWithLink == CartTypeOK /\ ConfirmedIsPaid /\ ExpiredIsUnpayable /\ SentIsSent

LeavesCartOut == \E k \in Checker : checkers[k].pc = "idle" /\ checkers'[k].pc = "leave"

(* A payment is confirmed on its cart, also one that arrives before the     *)
(* link was recorded, or after the cart was marked failed or expired.  Only *)
(* one whose delivery never came may stay unconfirmed: when the cart has    *)
(* left the sweep's list, or pass after pass leaves it out.                 *)
PaidIsConfirmed ==
  \/ <>[](link = "paid" => cart.confirmed \/ (hook = "lost" /\ ~Pending))
  \/ []<><<LeavesCartOut>>_cartVars
============================================================================
