---------------------------- MODULE CaseMachine ----------------------------
(***************************************************************************)
(* The pure state machine of a recovery case: src/core/case/machine.ts     *)
(* and the state vocabulary of src/core/case/types.ts.  No variables; the  *)
(* modules that move cases are written on top of these operators.          *)
(***************************************************************************)

CaseState == {"detected", "diagnosed", "executing", "paused",
              "recovered", "lost", "aborted"}

TerminalState == {"recovered", "lost", "aborted"}

\* The states of the partial unique indexes and of every "live" query.
LiveState == {"detected", "diagnosed", "executing", "paused"}

\* The transition table: the pairs <<from, to>> it allows.
TRANSITIONS ==
  ({"detected"} \X {"diagnosed", "aborted"})
    \cup ({"diagnosed"} \X {"executing", "paused", "recovered", "aborted", "lost"})
    \cup ({"executing"} \X {"paused", "recovered", "lost", "aborted"})
    \cup ({"paused"} \X {"executing", "recovered", "lost", "aborted"})

\* Which reasons justify which destination: the pairs <<to, reason>>.
REASONS_FOR ==
  {<<"diagnosed", "diagnosed">>, <<"recovered", "payment_received">>}
    \cup ({"executing"} \X {"ladder_started", "resumed"})
    \cup ({"paused"} \X {"paused_by_merchant", "paused_budget_exhausted"})
    \cup ({"lost"} \X {"deadline_passed", "ladder_exhausted"})
    \cup ({"aborted"} \X {"already_paid", "customer_opted_out", "duplicate_case",
                          "merchant_disconnected", "manual_abort", "stale_after_pause"})

isTerminal(s) == s \in TerminalState

canTransition(from, to) == <<from, to>> \in TRANSITIONS

\* transition() answers ok: the three refusals (terminal_state,
\* illegal_transition, reason_mismatch) all leave the case where it was.
transition(from, to, reason) ==
  /\ ~isTerminal(from)
  /\ canTransition(from, to)
  /\ <<to, reason>> \in REASONS_FOR
============================================================================
