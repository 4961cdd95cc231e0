------------------------------ MODULE Templates ------------------------------
(***************************************************************************)
(* What a message says.  There is a template for each intent: a body with  *)
(* numbered placeholders and the role of each.  Composing a message fills  *)
(* the placeholders or refuses; it never leaves one empty.  A body is the  *)
(* sequence of its placeholders' numbers, 0 standing for words.            *)
(***************************************************************************)
EXTENDS Naturals, Sequences, FiniteSetsExt

\* ---- templates.ts ----
Template(body, variables) == [body |-> body, variables |-> variables]

ToPay == <<"customer_name", "amount", "merchant_name", "payment_link">>

\* Faulty variant: a variable was dropped from the list and not from the body.
OrderTemplatesUncounted ==
  [intent \in {"switch_method", "retry_now_service_restored", "bank_action_required",
               "reminder", "final_reminder", "cart_saved"} |->
     Template(<<0, 1, 0, 2, 0, 3, 0, 4, 0>>, <<"customer_name", "merchant_name", "payment_link">>)]

OrderTemplates ==
  [intent \in {"switch_method", "retry_now_service_restored", "bank_action_required",
               "reminder", "final_reminder", "cart_saved"} |->
     Template(<<0, 1, 0, 2, 0, 3, 0, 4, 0>>, ToPay)]

\* The notice of a debit carries no link on purpose; the abandoned cart's
\* message names the merchant before the amount.
BillingTemplates ==
  [intent \in {"subscription_at_risk", "pre_debit_notice", "invoice_due", "call_follow_up",
               "cart_abandoned_discount"} |->
     CASE intent = "pre_debit_notice" ->
            Template(<<0, 1, 0, 2, 0, 3, 0, 4, 0>>, <<"customer_name", "amount", "plan_name", "debit_date">>)
       [] intent = "cart_abandoned_discount" -> Template(<<0, 1, 0, 3, 0, 2, 0, 4, 0>>, ToPay)
       [] OTHER -> Template(<<0, 1, 0, 2, 0, 3, 0, 4, 0>>, ToPay)]

\* The intents whose message carries the link.
LinkIntents == (DOMAIN OrderTemplates \cup DOMAIN BillingTemplates) \ {"pre_debit_notice"}

\* Every locale comes down to English.
TemplateFor(intent) ==
  IF intent \in DOMAIN OrderTemplates THEN {OrderTemplates[intent]}
  ELSE IF intent \in DOMAIN BillingTemplates THEN {BillingTemplates[intent]}
  ELSE {}

\* ---- compose.ts ----
\* A name falls back to a greeting and a plan to the merchant; a link or a date
\* may be missing.
ResolveVariable(role, ctx) ==
  CASE role = "payment_link" -> ctx.link
    [] role = "debit_date" -> ctx.debit
    [] role \in {"customer_name", "amount", "merchant_name", "plan_name"} -> TRUE
    [] OTHER -> FALSE

\* What a reader sees: the roles in their places, a placeholder where the list
\* is too short for it.
RenderPreview(body, variables) ==
  [i \in DOMAIN body |-> IF body[i] = 0 THEN "words"
                         ELSE IF body[i] \in DOMAIN variables THEN variables[body[i]]
                         ELSE "placeholder"]

Refuse(reason) == [ok |-> FALSE, reason |-> reason]

Reason(role) == CASE role = "payment_link" -> "missing_payment_link"
                  [] role = "debit_date" -> "missing_debit_date"
                  [] OTHER -> "variable_contract_mismatch"

\* The first variable without a value is the reason of a refusal.
Compose(intent, ctx) ==
  LET found == TemplateFor(intent)
      template == CHOOSE x \in found : TRUE
      variables == template.variables
      missing == {n \in DOMAIN variables : ~ResolveVariable(variables[n], ctx)}
  IN IF found = {} THEN Refuse("no_template")
     ELSE IF missing # {} THEN Refuse(Reason(variables[Min(missing)]))
     ELSE [ok |-> TRUE, reason |-> "none", preview |-> RenderPreview(template.body, variables)]
=============================================================================
