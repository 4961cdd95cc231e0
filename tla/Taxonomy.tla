------------------------------ MODULE Taxonomy ------------------------------
(***************************************************************************)
(* What a failed payment means.  The error tuple Razorpay sends is given a *)
(* cause class: a rule that matches the whole tuple, or else the class the *)
(* reason has by itself.  A confirmed outage may overrule it, the attempts *)
(* already made may withdraw the retry, and the class, the mandate and the *)
(* amount decide the rest.                                                 *)
(***************************************************************************)
EXTENDS Integers, FiniteSets

\* ---- the vocabulary ----
Sources == {"customer", "business", "bank", "gateway", "issuer", "network",
            "internal", "nbfc", "unknown"}
Steps == {"payment_initiation", "payment_authentication", "payment_authorization",
          "payment_capture", "payment_response", "unknown"}
Methods == {"card", "upi", "netbanking", "wallet", "emi", "cardless_emi", "paylater",
            "bank_transfer", "nach", "unknown"}

\* ---- the reasons, by the class each has on its own ----
TransientReasons == {"bank_technical_error", "gateway_technical_error", "bank_not_available",
                     "bank_cutoff_in_progress", "authorisation_declined_by_psp"}
InstrumentReasons == {"card_expired", "debit_instrument_blocked", "debit_instrument_inactive",
                      "card_not_enrolled", "card_disabled_for_online_payments",
                      "bank_account_invalid", "bank_account_validation_failed", "invalid_vpa"}
InputReasons == {"incorrect_cvv", "incorrect_card_details", "incorrect_card_expiry_date",
                 "incorrect_cardholder_name", "incorrect_otp", "incorrect_pin",
                 "incorrect_atm_pin", "mobile_number_invalid", "invalid_user_details"}
AuthReasons == {"authentication_failed", "payment_timed_out"}
FundsReasons == {"insufficient_funds", "transaction_limit_exceeded",
                 "emi_greater_than_max_amount", "emi_plan_unavailable"}
RiskReasons == {"payment_risk_check_failed", "card_declined", "mismatch_in_transaction_details"}
MerchantReasons == {"amount_less_than_minimum_amount", "bank_not_enabled",
                    "live_mode_not_enabled", "merchant_not_activated",
                    "order_payment_method_mismatch", "input_validation_failed", "invalid_request"}
TerminalReasons == {"order_already_paid", "duplicate_request", "duplicate_refund_id"}
ExitReasons == {"payment_cancelled"}
TailReasons == {"payment_failed", "unknown_reason"}

\* The reasons that mean different things from different sources.
Ambiguous == {"authorisation_declined_by_psp", "invalid_vpa", "mobile_number_invalid",
              "invalid_user_details", "authentication_failed", "card_declined",
              "mismatch_in_transaction_details", "bank_not_enabled",
              "input_validation_failed", "payment_failed", "unknown_reason"}

BaseClass(reason) ==
  CASE reason \in TransientReasons \cup TailReasons -> "transient_infra"
    [] reason \in InstrumentReasons -> "instrument_dead"
    [] reason \in InputReasons -> "customer_input"
    [] reason \in AuthReasons -> "auth_friction"
    [] reason \in FundsReasons -> "funds_limits"
    [] reason \in RiskReasons -> "risk"
    [] reason \in MerchantReasons -> "merchant_config"
    [] reason \in TerminalReasons -> "terminal_noop"
    [] reason \in ExitReasons -> "intent_exit"

Reasons == TransientReasons \cup InstrumentReasons \cup InputReasons \cup AuthReasons
           \cup FundsReasons \cup RiskReasons \cup MerchantReasons \cup TerminalReasons
           \cup ExitReasons \cup TailReasons

\* ---- the classes: what may be done about each, at most ----
Trait(retry, contact, alert, touches, floor, rails, gated) ==
  [retry |-> retry, contact |-> contact, alert |-> alert, touches |-> touches,
   floor |-> floor, rails |-> rails, gated |-> gated]

CAUSE_CLASS_TRAITS ==
  [transient_infra |-> Trait(TRUE, TRUE, TRUE, 3, 20, {"upi_intent", "retry_same", "other_card"}, TRUE),
   instrument_dead |-> Trait(FALSE, TRUE, FALSE, 3, 3, {"upi_intent", "other_card", "netbanking"}, FALSE),
   customer_input  |-> Trait(TRUE, TRUE, FALSE, 4, 0, {"retry_same", "upi_intent", "other_card"}, FALSE),
   auth_friction   |-> Trait(TRUE, TRUE, FALSE, 3, 3, {"upi_intent", "retry_same", "other_card"}, FALSE),
   funds_limits    |-> Trait(TRUE, TRUE, FALSE, 4, 180, {"upi_intent", "other_card", "emi", "paylater"}, FALSE),
   risk            |-> Trait(FALSE, TRUE, FALSE, 1, 15, {"upi_intent"}, FALSE),
   merchant_config |-> Trait(FALSE, TRUE, TRUE, 1, 2, {"upi_intent", "other_card"}, FALSE),
   terminal_noop   |-> Trait(FALSE, FALSE, FALSE, 0, 0, {}, FALSE),
   intent_exit     |-> Trait(TRUE, TRUE, FALSE, 3, 20, {"upi_intent", "retry_same"}, FALSE)]

CauseClasses == DOMAIN CAUSE_CLASS_TRAITS

\* ---- the rules that read the whole tuple ----
Rule(reason, source, step, method, class) ==
  [reason |-> reason, source |-> source, step |-> step, method |-> method, class |-> class]

MerchantSide == {"business", "internal"}
Upstream == {"bank", "gateway", "network"}
AnySource == Sources
AnyStep == Steps
AnyMethod == Methods

InstrumentRules ==
  {Rule("authentication_failed", {"customer"}, AnyStep, AnyMethod, "customer_input"),
   Rule("authentication_failed", Upstream \cup {"issuer"}, AnyStep, AnyMethod, "auth_friction"),
   Rule("bank_not_enabled", MerchantSide, AnyStep, AnyMethod, "merchant_config"),
   Rule("bank_not_enabled", {"gateway", "bank"}, AnyStep, AnyMethod, "transient_infra"),
   Rule("invalid_vpa", {"customer"}, AnyStep, AnyMethod, "customer_input"),
   Rule("invalid_vpa", Upstream, AnyStep, AnyMethod, "instrument_dead"),
   Rule("mobile_number_invalid", MerchantSide, AnyStep, AnyMethod, "merchant_config"),
   Rule("mobile_number_invalid", {"customer"}, AnyStep, AnyMethod, "customer_input"),
   Rule("invalid_user_details", MerchantSide, AnyStep, AnyMethod, "merchant_config"),
   Rule("invalid_user_details", {"customer"}, AnyStep, AnyMethod, "customer_input")}

DeclineRules ==
  {Rule("input_validation_failed", {"customer"}, AnyStep, AnyMethod, "customer_input"),
   Rule("input_validation_failed", MerchantSide \cup {"gateway"}, AnyStep, AnyMethod, "merchant_config"),
   Rule("card_declined", {"issuer", "bank"}, {"payment_authorization"}, AnyMethod, "risk"),
   Rule("card_declined", {"gateway"}, AnyStep, AnyMethod, "transient_infra"),
   Rule("mismatch_in_transaction_details", MerchantSide, AnyStep, AnyMethod, "merchant_config"),
   Rule("authorisation_declined_by_psp", {"issuer", "network"}, AnyStep,
        {"card", "emi", "cardless_emi"}, "risk"),
   Rule("authorisation_declined_by_psp", AnySource, AnyStep, {"upi"}, "transient_infra"),
   Rule("payment_failed", MerchantSide, AnyStep, AnyMethod, "merchant_config"),
   Rule("payment_failed", {"customer"}, AnyStep, AnyMethod, "auth_friction"),
   Rule("unknown_reason", MerchantSide, AnyStep, AnyMethod, "merchant_config")}

RULES == InstrumentRules \cup DeclineRules

\* How many of source, step and method a rule constrains.
RuleSpecificity(r) == Cardinality({d \in {<<r.source, AnySource>>, <<r.step, AnyStep>>,
                                          <<r.method, AnyMethod>>} : d[1] # d[2]})

MatchingRules(t) ==
  {r \in RULES : r.reason = t.reason /\ t.source \in r.source /\ t.step \in r.step
                 /\ t.method \in r.method}

\* The most specific ones; the code takes the first in its list.
BestRules(t) ==
  {r \in MatchingRules(t) : \A q \in MatchingRules(t) : RuleSpecificity(q) <= RuleSpecificity(r)}

ResolveClass(t) == IF BestRules(t) = {} THEN BaseClass(t.reason)
                   ELSE (CHOOSE r \in BestRules(t) : TRUE).class

\* ---- what arrives, brought into the vocabulary ----
Known(value, known, otherwise) == IF value \in known THEN value ELSE otherwise

NormalizeSource(source) == IF source = "merchant" THEN "business" ELSE Known(source, Sources, "unknown")

NormalizeStep(step) ==
  CASE step = "payment_authorisation" -> "payment_authorization"
    [] step = "authentication" -> "payment_authentication"
    [] OTHER -> Known(step, Steps, "unknown")

NormalizeMethod(method) ==
  CASE method \in {"credit_card", "debit_card"} -> "card"
    [] method \in {"upi_intent", "upi_collect"} -> "upi"
    [] method = "net_banking" -> "netbanking"
    [] method = "pay_later" -> "paylater"
    [] method \in {"enach", "emandate"} -> "nach"
    [] OTHER -> Known(method, Methods, "unknown")

NormalizeErrorTuple(raw) ==
  [raw EXCEPT !.reason = Known(@, Reasons, "unknown_reason"), !.source = NormalizeSource(@),
              !.step = NormalizeStep(@), !.method = NormalizeMethod(@)]

\* ---- outages ----
DOWNTIME_ELIGIBLE_REASONS ==
  {"bank_technical_error", "gateway_technical_error", "bank_not_available",
   "bank_cutoff_in_progress", "authorisation_declined_by_psp", "authentication_failed",
   "payment_failed", "payment_timed_out", "card_declined", "bank_not_enabled",
   "unknown_reason"}

\* A window names its method, bank and network, or "all".  A tuple without a
\* bank ("none") is met only by a window that names none.
MatchingDowntime(t, windows) ==
  {w \in windows : /\ w.method \in {"all", t.method}
                   /\ w.bank = "all" \/ (t.bank # "none" /\ w.bank = t.bank)
                   /\ w.network = "all" \/ (t.network # "none" /\ w.network = t.network)}

Outage(t, windows) ==
  t.reason \in DOWNTIME_ELIGIBLE_REASONS /\ MatchingDowntime(t, windows) # {}

\* ---- attempts on the same instrument ----
AttemptCap(reason) ==
  IF reason \in {"incorrect_otp", "incorrect_pin", "incorrect_atm_pin", "authentication_failed"}
  THEN 2 ELSE 3

\* ---- what to try instead ----
RailsFor(class, method, band, retry) ==
  LET boost == IF method \in {"card", "netbanking", "emi"} THEN {"upi_intent"} ELSE {}
      deadHandle == method = "upi" /\ class = "instrument_dead"
      instead == IF deadHandle THEN {"other_card", "netbanking"} ELSE {}
      Out(r) == \/ r = "upi_collect" /\ method = "upi"
                \/ r = "upi_intent" /\ deadHandle
                \/ r = "emi" /\ class = "funds_limits" /\ band \in {"micro", "small"}
                \/ r = "retry_same" /\ ~retry
  IN IF ~CAUSE_CLASS_TRAITS[class].contact THEN {}
     ELSE {r \in CAUSE_CLASS_TRAITS[class].rails \cup boost \cup instead : ~Out(r)}

\* ---- attended or not ----
DecideAttended(class, type, mandate) ==
  \/ ~mandate
  \/ class = "instrument_dead"
  \/ type \notin {"subscription_failure", "receivable_overdue"}

ConfidenceFor(t) ==
  IF t.reason = "unknown_reason" THEN "low"
  ELSE IF t.reason \in Ambiguous /\ MatchingRules(t) = {} THEN "medium" ELSE "high"

\* ---- money and the deadline, in minutes from detection ----
Bands == {"micro", "small", "medium", "large", "enterprise"}

AmountBand(paise) ==
  CASE paise < 50000 -> "micro"
    [] paise >= 50000 /\ paise < 500000 -> "small"
    [] paise >= 500000 /\ paise < 2500000 -> "medium"
    [] paise >= 2500000 /\ paise < 20000000 -> "large"
    [] paise >= 20000000 -> "enterprise"

Hours == 60
Days == 24 * Hours

BaseWindow == [payment_failure |-> 72 * Hours, intent_exit |-> 48 * Hours,
               subscription_failure |-> 14 * Days, receivable_overdue |-> 30 * Days]

\* Never less than two hours.
ComputeDeadline(type, band) ==
  LET base == BaseWindow[type]
      window == IF type = "intent_exit" THEN base
                ELSE CASE band = "enterprise" -> 2 * base
                       [] band = "large" -> (3 * base) \div 2
                       [] band = "micro" -> base \div 2
                       [] OTHER -> base
  IN IF window < 2 * Hours THEN 2 * Hours ELSE window

\* ---- the diagnosis ----
\* ctx: the case's type, its amount in paise, whether a mandate exists, the open
\* outages, and how often this reason and method have failed before.
Diagnose(t, ctx) ==
  LET outage == Outage(t, ctx.windows)
      class == IF outage THEN "transient_infra" ELSE ResolveClass(t)
      traits == CAUSE_CLASS_TRAITS[class]
      retry == traits.retry /\ ctx.prior < AttemptCap(t.reason)
      type == IF class = "intent_exit" /\ ctx.type = "payment_failure" THEN "intent_exit" ELSE ctx.type
      abort == class = "terminal_noop"
  IN [class |-> class, type |-> type, retry |-> retry,
      contact |-> traits.contact /\ ~abort, alert |-> traits.alert,
      rails |-> RailsFor(class, t.method, AmountBand(ctx.amount), retry),
      gated |-> traits.gated \/ outage, attended |-> DecideAttended(class, ctx.type, ctx.mandate),
      abort |-> abort, deadline |-> ComputeDeadline(type, AmountBand(ctx.amount)),
      confidence |-> ConfidenceFor(t)]
=============================================================================
