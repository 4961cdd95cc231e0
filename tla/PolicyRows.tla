----------------------------- MODULE PolicyRows -----------------------------
(***************************************************************************)
(* The rows of the policy table the program ships with, times in minutes   *)
(* from the detection of the case.                                         *)
(***************************************************************************)
EXTENDS PolicyTable

Any == {}

Match(reason, class, attended) ==
  [d \in Dims |-> CASE d = "errorReason" -> reason
                   [] d = "causeClass" -> class
                   [] d = "attended" -> attended
                   [] OTHER -> Any]

Row(id, match, ladder, pre, abort, max, holdout, catchAll) ==
  [id |-> id, match |-> match, ladder |-> ladder, pre |-> pre, abort |-> abort,
   max |-> max, holdout |-> holdout, catchAll |-> catchAll]

\* arg: the timeout, lead time, queue or least number of cases, as the rung has.
Rung(at, do, channels, fanout, intent, suggest, arg) ==
  [at |-> at, do |-> do, channels |-> channels, fanout |-> fanout, intent |-> intent,
   suggest |-> suggest, arg |-> arg]

Nudge(at, channels, intent, suggest) ==
  Rung(at, "nudge", channels, FALSE, intent, suggest, {})
Fanout(at, channels, intent, suggest) ==
  Rung(at, "nudge", channels, TRUE, intent, suggest, {})
Notice(at, lead) ==
  Rung(at, "send_pre_debit_notice", <<"whatsapp">>, FALSE, "pre_debit_notice", {}, {lead})
Debit(at) == Rung(at, "retry_debit", <<>>, FALSE, "none", {}, {})
Await(at, timeout) == Rung(at, "await_downtime_resolution", <<>>, FALSE, "none", {}, {timeout})
Alert(at, least) == Rung(at, "merchant_alert", <<>>, FALSE, "none", {}, {least})
Escalate(at, queue) == Rung(at, "escalate_to_human", <<>>, FALSE, "none", {}, {queue})

Guarded == {"order_unpaid", "no_live_attempt", "consent_ok", "not_quiet_hours",
            "within_frequency_cap", "channel_deliverable"}
Stops == {"order_paid", "payment_link_paid", "customer_optout", "deadline_passed"}

catchall ==
  Row("catchall", Match(Any, Any, Any),
      <<Escalate(0, "merchant_review")>>,
      {"order_unpaid"}, {"order_paid", "customer_optout", "deadline_passed"},
      0, FALSE, TRUE)

auth_friction_default ==
  Row("auth_friction.default", Match(Any, {"auth_friction"}, {"yes"}),
      <<Nudge(3, <<"whatsapp">>, "switch_method", {"retry_same", "upi_intent"}),
        Nudge(4 * Hours, <<"whatsapp">>, "reminder", {"upi_intent", "other_card"}),
        Nudge(26 * Hours, <<"email">>, "final_reminder", Inherit)>>,
      Guarded, Stops,
      3, TRUE, FALSE)

auth_friction_payment_timed_out ==
  Row("auth_friction.payment_timed_out", Match({"payment_timed_out"}, {"auth_friction"}, {"yes"}),
      <<Nudge(3, <<"whatsapp">>, "switch_method", {"retry_same", "upi_intent"}),
        Nudge(6 * Hours, <<"whatsapp">>, "reminder", {"upi_intent", "other_card"})>>,
      Guarded, Stops,
      2, TRUE, FALSE)

customer_input_default ==
  Row("customer_input.default", Match(Any, {"customer_input"}, {"yes"}),
      <<Fanout(0, <<"whatsapp", "email">>, "switch_method", Inherit)>>,
      Guarded, Stops,
      2, TRUE, FALSE)

customer_input_incorrect_otp ==
  Row("customer_input.incorrect_otp", Match({"incorrect_otp"}, {"customer_input"}, {"yes"}),
      <<Fanout(0, <<"whatsapp", "email">>, "switch_method", {"retry_same", "upi_intent"})>>,
      Guarded, Stops,
      2, TRUE, FALSE)

customer_input_incorrect_cvv ==
  Row("customer_input.incorrect_cvv", Match({"incorrect_cvv"}, {"customer_input"}, {"yes"}),
      <<Fanout(0, <<"whatsapp", "email">>, "switch_method", {"retry_same", "upi_intent"})>>,
      Guarded, Stops,
      2, TRUE, FALSE)

funds_limits_default ==
  Row("funds_limits.default", Match(Any, {"funds_limits"}, {"yes"}),
      <<Nudge(3 * Hours, <<"whatsapp">>, "switch_method", Inherit),
        Nudge(26 * Hours, <<"whatsapp">>, "reminder", Inherit)>>,
      Guarded, Stops,
      2, TRUE, FALSE)

funds_limits_insufficient_funds ==
  Row("funds_limits.insufficient_funds", Match({"insufficient_funds"}, {"funds_limits"}, {"yes"}),
      <<Nudge(3 * Hours, <<"whatsapp">>, "switch_method", Inherit),
        Nudge(26 * Hours, <<"whatsapp">>, "reminder", Inherit),
        Nudge(3 * Days, <<"email">>, "final_reminder", Inherit)>>,
      Guarded, Stops,
      3, TRUE, FALSE)

funds_limits_transaction_limit_exceeded ==
  Row("funds_limits.transaction_limit_exceeded", Match({"transaction_limit_exceeded"}, {"funds_limits"}, {"yes"}),
      <<Nudge(3 * Hours, <<"whatsapp">>, "switch_method", {"upi_intent", "other_card"}),
        Nudge(26 * Hours, <<"whatsapp">>, "reminder", {"retry_same", "upi_intent"})>>,
      Guarded, Stops,
      2, TRUE, FALSE)

instrument_dead_default ==
  Row("instrument_dead.default", Match(Any, {"instrument_dead"}, {"yes"}),
      <<Nudge(5, <<"whatsapp">>, "switch_method", Inherit),
        Nudge(8 * Hours, <<"whatsapp">>, "reminder", Inherit)>>,
      Guarded, Stops,
      2, TRUE, FALSE)

instrument_dead_card_expired ==
  Row("instrument_dead.card_expired", Match({"card_expired"}, {"instrument_dead"}, {"yes"}),
      <<Nudge(4, <<"whatsapp">>, "switch_method", {"upi_intent", "other_card"}),
        Nudge(6 * Hours, <<"whatsapp">>, "reminder", {"upi_intent", "other_card"}),
        Nudge(26 * Hours, <<"email">>, "final_reminder", Inherit)>>,
      Guarded, Stops,
      3, TRUE, FALSE)

instrument_dead_card_not_enrolled ==
  Row("instrument_dead.card_not_enrolled", Match({"card_not_enrolled"}, {"instrument_dead"}, {"yes"}),
      <<Nudge(4, <<"whatsapp">>, "bank_action_required", {"upi_intent", "other_card"}),
        Nudge(8 * Hours, <<"whatsapp">>, "reminder", {"upi_intent", "other_card"})>>,
      Guarded, Stops,
      2, TRUE, FALSE)

instrument_dead_card_disabled_for_online_payments ==
  Row("instrument_dead.card_disabled_for_online_payments", Match({"card_disabled_for_online_payments"}, {"instrument_dead"}, {"yes"}),
      <<Nudge(4, <<"whatsapp">>, "bank_action_required", {"upi_intent", "other_card"}),
        Nudge(8 * Hours, <<"whatsapp">>, "reminder", {"upi_intent", "other_card"})>>,
      Guarded, Stops,
      2, TRUE, FALSE)

instrument_dead_invalid_vpa ==
  Row("instrument_dead.invalid_vpa", Match({"invalid_vpa"}, {"instrument_dead"}, {"yes"}),
      <<Nudge(4, <<"whatsapp">>, "switch_method", Inherit),
        Nudge(8 * Hours, <<"whatsapp">>, "reminder", Inherit)>>,
      Guarded, Stops,
      2, TRUE, FALSE)

intent_exit_default ==
  Row("intent_exit.default", Match(Any, {"intent_exit"}, {"yes"}),
      <<Nudge(25, <<"whatsapp">>, "cart_saved", Inherit),
        Nudge(6 * Hours, <<"whatsapp">>, "reminder", Inherit),
        Nudge(26 * Hours, <<"email">>, "final_reminder", Inherit)>>,
      Guarded, Stops,
      3, TRUE, FALSE)

intent_exit_payment_cancelled ==
  Row("intent_exit.payment_cancelled", Match({"payment_cancelled"}, {"intent_exit"}, {"yes"}),
      <<Nudge(25, <<"whatsapp">>, "cart_saved", {"retry_same", "upi_intent"}),
        Nudge(20 * Hours, <<"whatsapp", "email">>, "reminder", Inherit)>>,
      Guarded, Stops,
      2, TRUE, FALSE)

merchant_config_default ==
  Row("merchant_config.default", Match(Any, {"merchant_config"}, {"yes"}),
      <<Alert(0, 3),
        Nudge(2, <<"whatsapp">>, "switch_method", {"upi_intent", "other_card"})>>,
      Guarded, Stops,
      1, FALSE, FALSE)

merchant_config_bank_not_enabled ==
  Row("merchant_config.bank_not_enabled", Match({"bank_not_enabled"}, {"merchant_config"}, {"yes"}),
      <<Alert(0, 3),
        Nudge(2, <<"whatsapp">>, "switch_method", {"upi_intent", "other_card"})>>,
      Guarded, Stops,
      1, FALSE, FALSE)

merchant_config_merchant_not_activated ==
  Row("merchant_config.merchant_not_activated", Match({"merchant_not_activated"}, {"merchant_config"}, Any),
      <<Alert(0, 1),
        Escalate(5, "merchant_review")>>,
      {"order_unpaid"}, {"order_paid", "merchant_disconnected", "deadline_passed"},
      0, FALSE, FALSE)

risk_default ==
  Row("risk.default", Match(Any, {"risk"}, {"yes"}),
      <<Nudge(15, <<"whatsapp">>, "switch_method", {"upi_intent"})>>,
      Guarded, Stops,
      1, TRUE, FALSE)

risk_payment_risk_check_failed ==
  Row("risk.payment_risk_check_failed", Match({"payment_risk_check_failed"}, {"risk"}, {"yes"}),
      <<Nudge(15, <<"whatsapp">>, "switch_method", {"upi_intent"}),
        Escalate(2 * Hours, "risk_review")>>,
      Guarded, Stops,
      1, TRUE, FALSE)

terminal_noop_default ==
  Row("terminal_noop.default", Match(Any, {"terminal_noop"}, Any),
      <<>>,
      {}, {"order_paid", "deadline_passed"},
      0, FALSE, FALSE)

transient_infra_default ==
  Row("transient_infra.default", Match(Any, {"transient_infra"}, {"yes"}),
      <<Await(0, 4 * Hours),
        Nudge(25, <<"whatsapp">>, "retry_now_service_restored", Inherit),
        Nudge(4 * Hours, <<"whatsapp">>, "reminder", Inherit)>>,
      Guarded, Stops,
      2, TRUE, FALSE)

transient_infra_bank_technical_error ==
  Row("transient_infra.bank_technical_error", Match({"bank_technical_error"}, {"transient_infra"}, {"yes"}),
      <<Await(0, 4 * Hours),
        Nudge(20, <<"whatsapp">>, "retry_now_service_restored", {"retry_same", "upi_intent"}),
        Nudge(3 * Hours, <<"whatsapp">>, "reminder", {"upi_intent", "other_card"}),
        Nudge(26 * Hours, <<"email">>, "final_reminder", Inherit)>>,
      Guarded, Stops,
      3, TRUE, FALSE)

transient_infra_bank_cutoff_in_progress ==
  Row("transient_infra.bank_cutoff_in_progress", Match({"bank_cutoff_in_progress"}, {"transient_infra"}, {"yes"}),
      <<Await(0, 6 * Hours),
        Nudge(8 * Hours, <<"whatsapp">>, "retry_now_service_restored", Inherit),
        Nudge(26 * Hours, <<"email">>, "final_reminder", Inherit)>>,
      Guarded, Stops,
      2, TRUE, FALSE)

unattended_mandate_retry ==
  Row("unattended.mandate_retry", Match(Any, {"funds_limits", "transient_infra", "auth_friction"}, {"no"}),
      <<Notice(0, 24 * Hours),
        Debit(25 * Hours),
        Nudge(26 * Hours, <<"whatsapp">>, "subscription_at_risk", Inherit),
        Notice(3 * Days, 24 * Hours),
        Debit(4 * Days)>>,
      (Guarded \ {"no_live_attempt"}) \cup {"mandate_active"}, {"order_paid", "customer_optout", "subscription_cancelled", "merchant_disconnected", "deadline_passed"},
      3, TRUE, FALSE)

unattended_no_retry ==
  Row("unattended.no_retry", Match(Any, {"customer_input", "instrument_dead", "risk", "merchant_config", "intent_exit"}, {"no"}),
      <<Nudge(25, <<"whatsapp">>, "subscription_at_risk", Inherit)>>,
      Guarded, {"order_paid", "customer_optout", "subscription_cancelled", "merchant_disconnected", "deadline_passed"},
      1, TRUE, FALSE)

RAW_POLICY_ROWS ==
  {catchall, auth_friction_default, auth_friction_payment_timed_out,
   customer_input_default, customer_input_incorrect_otp, customer_input_incorrect_cvv,
   funds_limits_default, funds_limits_insufficient_funds,
   funds_limits_transaction_limit_exceeded, instrument_dead_default,
   instrument_dead_card_expired, instrument_dead_card_not_enrolled,
   instrument_dead_card_disabled_for_online_payments, instrument_dead_invalid_vpa,
   intent_exit_default, intent_exit_payment_cancelled, merchant_config_default,
   merchant_config_bank_not_enabled, merchant_config_merchant_not_activated,
   risk_default, risk_payment_risk_check_failed, terminal_noop_default,
   transient_infra_default, transient_infra_bank_technical_error,
   transient_infra_bank_cutoff_in_progress, unattended_mandate_retry,
   unattended_no_retry}
=============================================================================
