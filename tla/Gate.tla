-------------------------------- MODULE Gate --------------------------------
(***************************************************************************)
(* The gate every rung passes before it may act, and the clock arithmetic  *)
(* it uses.  Instants are minutes of the merchant's local clock, counted   *)
(* from a midnight; a quiet window is a pair of hours.  A check that is on *)
(* answers for the gate, the first one in order.                           *)
(***************************************************************************)
EXTENDS Integers, Sequences, FiniteSetsExt

MinutesPerHour == 60
MinutesPerDay == 24 * MinutesPerHour

\* ---- quiet hours ----
LocalHour(now) == (now % MinutesPerDay) \div MinutesPerHour

\* A window that starts later than it ends wraps midnight.
IsQuietHour(now, window) ==
  LET hour == LocalHour(now)
  IN /\ window.start # window.end
     /\ IF window.start > window.end THEN hour >= window.start \/ hour < window.end
        ELSE hour >= window.start /\ hour < window.end

\* Faulty variant: the candidate keeps the minutes it started with.
NextAllowedTimeUnaligned(now, window) ==
  LET open == {i \in 1..25 : ~IsQuietHour(now + i * MinutesPerHour, window)}
  IN IF ~IsQuietHour(now, window) THEN now ELSE now + Min(open) * MinutesPerHour

\* Hour by hour, then back to the start of the hour found.  A window leaves at
\* least one hour of the day open, so 25 hours are enough.
NextAllowedTime(now, window) ==
  LET open == {i \in 1..25 : ~IsQuietHour(now + i * MinutesPerHour, window)}
      candidate == now + Min(open) * MinutesPerHour
      aligned == candidate - (candidate % MinutesPerHour)
  IN IF ~IsQuietHour(now, window) THEN now ELSE IF aligned > now THEN aligned ELSE candidate

\* ---- dials ----
DIAL_BOUNDS ==
  [cap |-> [min |-> 1, max |-> 10], gap |-> [min |-> 0, max |-> 720],
   budget |-> [min |-> 1, max |-> 5000], lock |-> [min |-> 0, max |-> 120],
   live |-> [min |-> 0, max |-> 240]]

ClampDial(name, value) == Min({DIAL_BOUNDS[name].max, Max({DIAL_BOUNDS[name].min, value})})

EffectiveDials(dials) == [name \in DOMAIN DIAL_BOUNDS |-> ClampDial(name, dials[name])]

\* ---- the answers ----
\* only: the channels a rung may use; the gate narrows them at night.
Channels == {"whatsapp", "email"}

Answer(do, why, at, only) == [do |-> do, why |-> why, at |-> at, only |-> only]

Go == Answer("go", "none", 0, Channels)
GoOn(only) == Answer("go", "night", 0, only)
Paused == Answer("paused", "execution_paused", 0, Channels)
Abort(why) == Answer("abort", why, 0, Channels)
Defer(why, at) == Answer("defer", why, at, Channels)

\* ---- the checks, in their order ----
\* Somebody whose first touch answers a failure of minutes ago is awake.
CustomerIsLive(f) == f.first /\ f.sinceFailure <= f.dials.live

Check(on, answer) == [on |-> on, answer |-> answer]

Aborts(pre, f) ==
  <<Check(~f.enabled, Paused),
    Check(f.orderPaid, Abort("order_paid")),
    Check(f.linkPaid, Abort("payment_link_paid")),
    Check(f.deadlinePassed, Abort("deadline_passed")),
    Check(f.optedOut, Abort("consent_ok")),
    Check("mandate_active" \in pre /\ f.mandate = "no", Abort("mandate_active")),
    Check("channel_deliverable" \in pre /\ f.eligible = {}, Abort("channel_deliverable"))>>

\* The instant a slot of the rolling day frees, and a minute of margin.
\* Faulty variant: an hour from now, whatever is in the window.
CapClearsInAnHour(f) == f.now + MinutesPerHour

CapClears(f) == Min(f.recent) + MinutesPerDay + 1

\* Times of the last attempt and of the recent messages are sets: no attempt,
\* no message, empty set.
LimitDefers(pre, f) ==
  <<Check("no_live_attempt" \in pre /\ \E at \in f.lastAttempt : f.now - at < f.dials.lock,
          Defer("no_live_attempt", Max(f.lastAttempt \cup {0}) + f.dials.lock + 1)),
    Check(f.sinceTouch # {} /\ f.dials.gap > 0 /\ \E since \in f.sinceTouch : since < f.dials.gap,
          Defer("cool_off", f.now + f.dials.gap - Max(f.sinceTouch \cup {0}))),
    Check("within_frequency_cap" \in pre /\ f.count >= f.dials.cap /\ ~CustomerIsLive(f),
          Defer("within_frequency_cap", IF f.recent = {} THEN f.now + MinutesPerHour ELSE CapClears(f))),
    Check("merchant_budget_available" \in pre /\ f.budget <= 0,
          Defer("merchant_budget_available", f.now + 6 * MinutesPerHour))>>

\* At night a first touch may still go by email; anything else waits.
AtNight(pre, f) ==
  LET allowed == NextAllowedTime(f.now, f.quiet)
  IN IF "not_quiet_hours" \notin pre \/ CustomerIsLive(f) \/ allowed <= f.now THEN Go
     ELSE IF f.first /\ "email" \in f.eligible THEN GoOn({"email"})
     ELSE Defer("not_quiet_hours", allowed)

FirstOn(checks, otherwise) ==
  LET on == {i \in DOMAIN checks : checks[i].on}
  IN IF on = {} THEN otherwise ELSE checks[Min(on)].answer

EvaluatePreconditions(pre, f) ==
  FirstOn(Aborts(pre, f), FirstOn(LimitDefers(pre, f), AtNight(pre, f)))
=============================================================================
