-------------------------- MODULE MCFailureLadder --------------------------
(* A small instance of FailureLadder, with the policy table as shipped. *)
EXTENDS FailureLadder, PolicyRows

\* Every reason on every instrument it can come from.
CardReasons == {"card_expired", "card_not_enrolled", "card_disabled_for_online_payments",
                "incorrect_cvv", "incorrect_card_details", "incorrect_card_expiry_date",
                "incorrect_cardholder_name", "incorrect_atm_pin", "card_declined"}
RawMethods(reason) == IF reason \in CardReasons THEN {"credit_card", "emi"}
                      ELSE IF reason \in {"invalid_vpa", "incorrect_pin"} THEN {"upi_collect"}
                      ELSE {"credit_card", "upi", "net_banking"}

Tuple(reason, source, step, method) ==
  [reason |-> reason, source |-> source, step |-> step, method |-> method,
   bank |-> "none", network |-> "none"]

RawTuples == {Tuple(x[1], x[2], x[3], x[4]) :
  x \in UNION {{r} \X (Sources \cup {"merchant"}) \X {"authentication", "payment_authorisation"}
               \X RawMethods(r) : r \in Reasons \cup {"unheard_of"}}}

AllDown == [method |-> "all", bank |-> "all", network |-> "all"]
Context(subscription, amount, windows, prior) ==
  [type |-> IF subscription THEN "subscription_failure" ELSE "payment_failure",
   mandate |-> subscription, amount |-> amount, windows |-> windows, prior |-> prior]
Contexts == {Context(s, 50000, {}, p) : s \in BOOLEAN, p \in {0, 2, 3}}
            \cup {Context(FALSE, 50000, {AllDown}, 0)}

Sweep == [raw : RawTuples, ctx : Contexts, at : {0}]

\* The ladders that are followed: each shape of ladder, at hours that matter.
First(amount) == Context(FALSE, amount, {}, 0)
Failure(reason, source, ctx, hour) ==
  [raw |-> Tuple(reason, source, "authentication", "credit_card"), ctx |-> ctx, at |-> hour * 60 + 30]
Sub == Context(TRUE, 50000, {}, 0)
Run ==
  {Failure("incorrect_otp", "customer", First(50000), 23),
   Failure("insufficient_funds", "issuer", First(50000), 18),
   Failure("card_expired", "issuer", First(49999), 5),
   Failure("bank_technical_error", "bank", First(50000), 21),
   Failure("payment_cancelled", "customer", First(50000), 0),
   Failure("merchant_not_activated", "business", First(50000), 12),
   Failure("insufficient_funds", "issuer", Sub, 12)}

AllFailures == Sweep \cup Run

Dials(cap, gap, live) == [cap |-> cap, gap |-> gap, budget |-> 1000, lock |-> 3, live |-> live]
AllMerchants ==
  {[dials |-> Dials(3, 15, 15), quiet |-> [start |-> 21, end |-> 8]],
   [dials |-> Dials(0, 300, 0), quiet |-> [start |-> 0, end |-> 6]]}

AllReaches == {{"whatsapp", "email"}, {"whatsapp"}, {"email"}}

\* The rules that match a tuple best agree on its class: the order of the list in
\* diagnose.ts, which ResolveClass leaves out, decides nothing.
ASSUME RulesAgree ==
  \A f \in AllFailures : \A q, r \in BestRules(NormalizeErrorTuple(f.raw)) : q.class = r.class
=============================================================================
