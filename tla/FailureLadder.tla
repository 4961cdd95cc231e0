---------------------------- MODULE FailureLadder ----------------------------
(***************************************************************************)
(* One failed payment on the clock: it is diagnosed, a row of the policy   *)
(* table is resolved for it, and the row's ladder is run, rung by rung,    *)
(* past the gate, with the deferrals, the channels and the send of each    *)
(* rung.  Meanwhile the customer tries again or opts out, hears from other *)
(* cases, and the merchant pauses.  Recovery models the same ladder's      *)
(* crashes, retries and cancellations; this module models its time.        *)
(*                                                                         *)
(* Instants are minutes of the merchant's local clock.  gatherFacts is     *)
(* given no Razorpay client and a recovered case's run is cancelled, so    *)
(* the gate's two paid checks never answer here.  A terminal class is      *)
(* aborted at ingest, so a ladder without rungs is never started.          *)
(***************************************************************************)
EXTENDS PolicyTable, Gate, Templates

CONSTANTS
  Table,      \* the rows of the policy table
  Failures,   \* what may arrive: [raw, ctx, at]
  Followed,   \* the failures whose ladder is followed
  Merchants,  \* [dials, quiet] of each merchant
  Reaches,    \* the channels a customer may be reached on: sets of channels
  Late,       \* how late a wake-up may be, in minutes
  MAX_DEFERRALS_PER_RUNG,
  MaxEvents   \* bound: what happens around the ladder

\* What compilePolicyTable lets through.
ASSUME TableAssumption == Compiles(Table)

\* The types of a row (schema.ts).
ASSUME RowAssumption ==
  \A row \in Table :
    /\ row.max \in Nat /\ row.ladder \in Seq(Rungs(row))
    /\ \A g \in Rungs(row) : g.at \in Nat /\ g.fanout \in BOOLEAN /\ g.channels \in Seq(Channels)

\* What the shipped rows agree on and the compiler does not ask: only a class
\* that is aborted at ingest has no rungs, the night is asked about wherever a
\* customer is written to, the budget nowhere, nothing is said after a final
\* reminder, and a nudge is no notice of a debit.
ASSUME ShippedAssumption ==
  \A row \in Table :
    /\ row.ladder = <<>> => ~row.catchAll /\ row.match["causeClass"] = {"terminal_noop"}
    /\ Touches(row) # {} => "not_quiet_hours" \in row.pre
    /\ "merchant_budget_available" \notin row.pre
    /\ \A i, j \in DOMAIN row.ladder :
         i < j /\ IsTouch(row.ladder[i]) /\ IsTouch(row.ladder[j]) => row.ladder[i].intent # "final_reminder"
    /\ \A g \in Touches(row) :
         IF g.do = "nudge" THEN g.intent \in LinkIntents ELSE g.intent = "pre_debit_notice"

\* A raw tuple and the context of its case.
ASSUME FailureAssumption ==
  \A f \in Failures :
    /\ DOMAIN f.raw = {"reason", "source", "step", "method", "bank", "network"}
    /\ f.at \in Nat /\ f.ctx.amount \in Nat /\ f.ctx.type \in DOMAIN BaseWindow

\* A reason whose rows name UPI does not come from a dead UPI handle.
ASSUME HandleAssumption ==
  \A f \in Failures, row \in Table :
    /\ ~row.catchAll /\ NormalizeErrorTuple(f.raw).method = "upi"
    /\ MatchesPolicy(row.match, MatchInput(NormalizeErrorTuple(f.raw),
                                           Diagnose(NormalizeErrorTuple(f.raw), f.ctx), f.ctx))
    /\ Diagnose(NormalizeErrorTuple(f.raw), f.ctx).class = "instrument_dead"
    => \A g \in Rungs(row) : g.do = "nudge" => "upi_intent" \notin g.suggest

\* The dials of a merchant are numbers and the window is a pair of hours.
ASSUME MerchantAssumption ==
  /\ Merchants # {}
  /\ \A m \in Merchants : /\ \A name \in DOMAIN DIAL_BOUNDS : m.dials[name] \in Int
                          /\ m.quiet.start \in 0..23 /\ m.quiet.end \in 0..23

\* A wake-up meant for the morning is not put off into the next night.
ASSUME LateAssumption ==
  /\ Late \subseteq Nat
  /\ \A late \in Late, m \in Merchants :
       m.quiet.start # m.quiet.end => late < (60 * (m.quiet.start - m.quiet.end)) % MinutesPerDay

ASSUME BoundsAssumption ==
  /\ Followed \subseteq Failures /\ Reaches \subseteq SUBSET Channels
  /\ MAX_DEFERRALS_PER_RUNG \in Nat /\ MaxEvents \in Nat

VARIABLES
  phase,    \* new | diagnosed | waiting | gathered | gated | sending | parked | done
  case,     \* the recovery case: tuple, diagnosis, row, cohort, when it was created
  merchant, \* the merchant's dials and quiet hours
  run,      \* the ladder: rung, deferrals of it and why, wake-up time
  now,
  facts,    \* what gatherFacts read for the current attempt
  decision, \* what the gate made of it
  queue,    \* positions, in the rung's list, of the channels it has yet to send on
  log,      \* message_log of the customer, in order
  person,   \* reach, optedOut, attempts (the time of the last other one, if any)
  enabled,  \* the merchant's switch
  outcome,  \* how the ladder ended
  news,     \* history: something happened around the ladder since it last looked
  events

vars == <<phase, case, merchant, run, now, facts, decision, queue, log, person, enabled,
          outcome, news, events>>

Ladder == case.row.ladder
Deadline == case.born + case.diagnosis.deadline

\* ---- the ledger ----
\* A suppressed message counts for nobody.
Real(i) == log[i].sent
Recent(t) == {i \in DOMAIN log : Real(i) /\ log[i].at > t - MinutesPerDay}
Own(i) == log[i].rung > 0
\* Faulty variant: the messages of other cases are not looked at.
LastTouchOwn == {log[i].at : i \in {j \in DOMAIN log : Real(j) /\ Own(j)}}

LastTouch == {log[i].at : i \in {j \in DOMAIN log : Real(j)}}


Midnight(t) == t - (t % MinutesPerDay)

\* ---- ingest: handlePaymentFailed ----
NoCase == [tuple |-> "none"]

Init ==
  /\ phase = "new" /\ case = NoCase /\ merchant \in {CHOOSE m \in Merchants : TRUE}
  /\ run = [rung |-> 0, deferrals |-> 0, why |-> "none", wake |-> 0]
  /\ now = 0 /\ facts = [seen |-> 0] /\ decision = Go /\ queue = {} /\ log = <<>>
  /\ person = [reach |-> Channels, optedOut |-> FALSE, attempts |-> {}]
  /\ enabled = TRUE /\ outcome = "none" /\ news = FALSE /\ events = 0

\* The hash of the case may put it in either cohort.
Cohorts(row, d) ==
  IF row.holdout /\ d.contact /\ ~d.alert THEN {"treatment", "holdout"} ELSE {"treatment"}

HandlePaymentFailed ==
  /\ phase = "new"
  /\ \E f \in Failures :
       LET t == NormalizeErrorTuple(f.raw)
           d == Diagnose(t, f.ctx)
           row == ResolvePolicy(Table, MatchInput(t, d, f.ctx))
       IN /\ \E cohort \in Cohorts(row, d) :
               case' = [tuple |-> t, diagnosis |-> d, row |-> row, cohort |-> cohort,
                        born |-> f.at, failure |-> f]
          /\ now' = f.at
          /\ phase' = IF d.abort THEN "done" ELSE "diagnosed"
          /\ outcome' = IF d.abort THEN "already_paid" ELSE "none"
  /\ UNCHANGED <<merchant, run, facts, decision, queue, log, person, enabled, news, events>>

\* mark-executing and load-case.  Only now do the merchant's dials and the
\* customer's addresses matter, so only now are they chosen.
StartLadder(m, reach) ==
  /\ phase = "diagnosed" /\ case.failure \in Followed
  /\ merchant' = m
  /\ person' = [person EXCEPT !.reach = reach]
  /\ run' = [run EXCEPT !.rung = 1, !.wake = case.born + Ladder[1].at]
  /\ phase' = "waiting"
  /\ UNCHANGED <<case, now, facts, decision, queue, log, enabled, outcome, news, events>>

PastDeadline(t) == t >= Deadline

\* seen and idle are history: how much of the log had been written, and whether
\* nothing had happened since the last look.  The budget is read by no row.  createCase is given
\* no mandate, so an unattended case has none.
Facts(t) ==
  [now |-> t, enabled |-> enabled, orderPaid |-> FALSE, linkPaid |-> FALSE,
   deadlinePassed |-> PastDeadline(t),
   optedOut |-> person.optedOut,
   mandate |-> IF case.diagnosis.attended THEN "na" ELSE "no",
   eligible |-> person.reach,
   lastAttempt |-> person.attempts,
   dials |-> EffectiveDials(merchant.dials), quiet |-> merchant.quiet,
   recent |-> {log[i].at : i \in Recent(t)}, count |-> Cardinality(Recent(t)),
   sinceTouch |-> IF LastTouch = {} THEN {} ELSE {t - Max(LastTouch)},
   first |-> ~\E i \in DOMAIN log : Real(i) /\ Own(i),
   sinceFailure |-> t - case.born, seen |-> Len(log), idle |-> ~news,
   budget |-> EffectiveDials(merchant.dials).budget
              - Cardinality({i \in DOMAIN log : Real(i) /\ log[i].at > Midnight(t)})]

Gather ==
  /\ phase = "waiting"
  /\ \E late \in Late :
       LET t == Max({now, run.wake}) + late
       IN /\ now' = t
          /\ facts' = Facts(t)
  /\ phase' = "gathered" /\ news' = FALSE
  /\ UNCHANGED <<case, merchant, run, decision, queue, log, person, enabled, outcome, events>>

Evaluate ==
  /\ phase = "gathered"
  /\ decision' = EvaluatePreconditions(case.row.pre, facts)
  /\ phase' = "gated"
  /\ UNCHANGED <<case, merchant, run, now, facts, queue, log, person, enabled, outcome, news, events>>

\* ---- what follows the gate's answer ----
SentOnCase == Cardinality({i \in DOMAIN log : Own(i)})

\* The next rung, or ladder-complete.
NextRung ==
  IF run.rung < Len(Ladder)
  THEN /\ run' = [rung |-> run.rung + 1, deferrals |-> 0, why |-> "none",
                  wake |-> case.born + Ladder[run.rung + 1].at]
       /\ phase' = "waiting"
       /\ UNCHANGED outcome
  ELSE /\ outcome' = IF SentOnCase >= case.row.max /\ case.row.max > 0
                     THEN "ceiling_reached" ELSE "ladder_exhausted"
       /\ phase' = "done"
       /\ UNCHANGED run

\* Faulty variant: a pause is waited for like a deferral.
PauseWaits ==
  /\ phase = "gated" /\ decision.do = "paused"
  /\ phase' = "waiting" /\ run' = [run EXCEPT !.wake = now]
  /\ UNCHANGED <<case, merchant, now, facts, decision, queue, log, person, enabled, outcome, news, events>>

\* Only the first attempt of a rung parks the case.
Pause ==
  /\ phase = "gated" /\ decision.do = "paused"
  /\ IF run.deferrals = 0 THEN phase' = "parked" /\ UNCHANGED <<run, outcome>> ELSE NextRung
  /\ UNCHANGED <<case, merchant, now, facts, decision, queue, log, person, enabled, news, events>>

CloseFromGate ==
  /\ phase = "gated" /\ decision.do = "abort"
  /\ outcome' = CASE decision.why = "deadline_passed" -> "lost"
                  [] decision.why = "consent_ok" -> "customer_opted_out"
                  [] OTHER -> "manual_abort"
  /\ phase' = "done"
  /\ UNCHANGED <<case, merchant, run, now, facts, decision, queue, log, person, enabled, news, events>>

\* A deferral past the deadline, or one too many, gives the rung up.
Defers(why, at) ==
  /\ IF at >= Deadline \/ run.deferrals >= MAX_DEFERRALS_PER_RUNG
     THEN NextRung
     ELSE /\ run' = [run EXCEPT !.deferrals = @ + 1, !.why = why, !.wake = at]
          /\ phase' = "waiting"
          /\ UNCHANGED outcome
  /\ UNCHANGED <<case, merchant, now, facts, decision, queue, log, person, enabled, news, events>>

DeferRung == /\ phase = "gated" /\ decision.do = "defer"
             /\ Defers(decision.why, decision.at)

\* ---- executeRung past the gate ----
CurrentRung == Ladder[run.rung]

\* A fanout rung takes every usable channel, any other the first.
BuildChannels(g) ==
  LET usable == {n \in DOMAIN g.channels : g.channels[n] \in facts.eligible \cap decision.only}
  IN IF g.fanout \/ usable = {} THEN usable ELSE {Min(usable)}

\* No usable channel: at night the rung waits for morning, by day it is skipped.
NoChannel ==
  /\ phase = "gated" /\ decision.do = "go" /\ IsTouch(CurrentRung) /\ BuildChannels(CurrentRung) = {}
  /\ IF decision.why = "night"
     THEN Defers("not_quiet_hours", NextAllowedTime(now, merchant.quiet))
     ELSE /\ NextRung
          /\ UNCHANGED <<case, merchant, now, facts, decision, queue, log, person, enabled, news, events>>

\* Razorpay may make no payment link; the date of a debit is now.
Composed(g, link) == Compose(g.intent, [link |-> link, debit |-> g.do = "send_pre_debit_notice"])

\* The action row is written; a message that cannot be composed is skipped.
Act ==
  /\ phase = "gated" /\ decision.do = "go"
  /\ IF IsTouch(CurrentRung)
     THEN /\ BuildChannels(CurrentRung) # {}
          /\ \E link \in BOOLEAN :
               IF Composed(CurrentRung, link).ok
               THEN queue' = BuildChannels(CurrentRung) /\ phase' = "sending" /\ UNCHANGED <<run, outcome>>
               ELSE NextRung /\ UNCHANGED queue
     ELSE NextRung /\ UNCHANGED queue
  /\ UNCHANGED <<case, merchant, now, facts, decision, log, person, enabled, news, events>>

\* What sendMessage finds under the customer's lock.
Refused == \/ person.optedOut
           \/ case.cohort = "treatment" /\ Cardinality(Recent(now)) >= EffectiveDials(merchant.dials).cap

\* The message of the rung's n-th channel.
Message(n) == [at |-> now, rung |-> run.rung, place |-> n, channel |-> CurrentRung.channels[n],
               sent |-> case.cohort = "treatment", seen |-> facts.seen]

\* Faulty variant: a send that failed is tried again as another message.
SendRequeues ==
  /\ phase = "sending" /\ queue # {} /\ ~Refused
  /\ log' = Append(log, Message(Min(queue)))
  /\ queue' \in {queue, queue \ {Min(queue)}}
  /\ UNCHANGED <<phase, case, merchant, run, now, facts, decision, person, enabled, outcome, news, events>>

\* A permanent failure marks the address undeliverable.
Send ==
  /\ phase = "sending" /\ queue # {}
  /\ queue' = queue \ {Min(queue)}
  /\ IF Refused THEN UNCHANGED <<log, person>>
     ELSE /\ log' = Append(log, Message(Min(queue)))
          /\ \/ UNCHANGED person
             \/ /\ case.cohort = "treatment"
                /\ person' = [person EXCEPT !.reach = @ \ {CurrentRung.channels[Min(queue)]}]
  /\ UNCHANGED <<phase, case, merchant, run, now, facts, decision, enabled, outcome, news, events>>

Sent ==
  /\ phase = "sending" /\ queue = {}
  /\ NextRung
  /\ UNCHANGED <<case, merchant, now, facts, decision, queue, log, person, enabled, news, events>>

\* ---- around the ladder ----
\* Time may stand just before the wake-up when something happens.
Tick ==
  /\ phase = "waiting" /\ now < run.wake - 1 /\ events < MaxEvents
  /\ now' = run.wake - 1
  /\ UNCHANGED <<phase, case, merchant, run, facts, decision, queue, log, person, enabled, outcome, news, events>>

Around == phase \in {"waiting", "gathered", "gated", "sending"} /\ events < MaxEvents
          /\ events' = events + 1 /\ news' = TRUE
          /\ UNCHANGED <<phase, case, merchant, run, now, facts, decision, queue, outcome>>

\* Another case's message, which the lock let through.
OtherMessage ==
  /\ Around
  /\ ~person.optedOut /\ Cardinality(Recent(now)) < EffectiveDials(merchant.dials).cap
  /\ log' = Append(log, [at |-> now, rung |-> 0, place |-> 0, channel |-> "email",
                             sent |-> TRUE, seen |-> Len(log)])
  /\ UNCHANGED <<person, enabled>>

AnotherAttempt ==
  /\ Around /\ person' = [person EXCEPT !.attempts = {now}] /\ UNCHANGED <<log, enabled>>

OptOut ==
  /\ Around /\ ~person.optedOut
  /\ person' = [person EXCEPT !.optedOut = TRUE] /\ UNCHANGED <<log, enabled>>

SwitchOff == Around /\ enabled /\ enabled' = FALSE /\ UNCHANGED <<log, person>>

Step == Gather \/ Evaluate \/ Pause \/ CloseFromGate \/ DeferRung \/ NoChannel \/ Act \/ Send \/ Sent

Next ==
  \/ HandlePaymentFailed
  \/ \E m \in Merchants, reach \in Reaches : StartLadder(m, reach)
  \/ Step
  \/ Tick \/ OtherMessage \/ AnotherAttempt \/ OptOut \/ SwitchOff

\* The run's steps are Inngest's to execute; everything else may never happen.
Spec == Init /\ [][Next]_vars /\ WF_vars(Step)


-----------------------------------------------------------------------------
\* ---- properties ----

\* The state's types.
TypeOK ==
  /\ phase \in {"new", "diagnosed", "waiting", "gathered", "gated", "sending", "parked", "done"}
  /\ phase # "new" => /\ case.row \in Table
                      /\ case.diagnosis.class \in CauseClasses
                      /\ case.cohort \in {"treatment", "holdout"}
  /\ merchant \in Merchants
  /\ run.deferrals \in 0..MAX_DEFERRALS_PER_RUNG
  /\ phase \in {"waiting", "gathered", "gated", "sending"} => run.rung \in 1..Len(Ladder)
  /\ now \in Nat /\ run.wake \in Nat /\ events \in 0..MaxEvents
  /\ person.reach \subseteq Channels /\ person.optedOut \in BOOLEAN
  /\ \A i \in DOMAIN log : log[i].at \in Nat /\ log[i].channel \in Channels
  /\ queue \subseteq Nat /\ {enabled, news} \subseteq BOOLEAN
  /\ outcome \in {"none", "already_paid", "lost", "customer_opted_out", "manual_abort",
                  "ceiling_reached", "ladder_exhausted"}

\* What the class of a failure promises of any ladder run for it: no more
\* messages than the ceiling, none at all when the class may not be contacted,
\* no nudge before the floor, no offer to retry what cannot work, and a debit
\* only under a mandate.
Fits(row, d) ==
  LET traits == CAUSE_CLASS_TRAITS[d.class]
  IN IF row.catchAll THEN Touches(row) = {}
     ELSE /\ row.max <= traits.touches
          /\ CustomerMessageCount(row) <= row.max
          /\ ~traits.contact => Touches(row) = {}
          /\ \A i \in DOMAIN row.ladder : FirstNudge(row, i) => row.ladder[i].at >= traits.floor
          /\ ~traits.retry => \A g \in Rungs(row) : g.do = "nudge" => "retry_same" \notin g.suggest
          /\ \A g \in Rungs(row) : g.do = "retry_debit" => ~d.attended /\ "mandate_active" \in row.pre

\* Whatever the error tuple, the outages and the history, the row resolved for
\* a case keeps the promises of the case's own class (diagnose, resolvePolicy).
LadderFits == phase # "new" => Fits(case.row, case.diagnosis)

\* What a nudge offers can work: not the instrument that failed once its class
\* or its history rules it out, and not UPI when the UPI handle is dead.
RailsAllowed ==
  phase # "new" =>
    \A g \in Rungs(case.row) : g.do = "nudge" =>
      LET rails == EffectiveRails(g.suggest, case.diagnosis)
      IN /\ "retry_same" \in rails =>
              /\ CAUSE_CLASS_TRAITS[case.diagnosis.class].retry
              /\ case.failure.ctx.prior < AttemptCap(case.tuple.reason)
         /\ case.diagnosis.class = "instrument_dead" /\ case.tuple.method = "upi"
              => "upi_intent" \notin rails

OwnSent == {i \in DOMAIN log : Real(i) /\ Own(i)}

\* A case's messages, failed sends and every fanout channel included, stay
\* under the ceiling of its row.
TouchesUnderCeiling == phase # "new" => Cardinality(OwnSent) <= case.row.max

\* Silent hours as an arc of the day's circle.
Silent(t, window) == (t - 60 * window.start) % MinutesPerDay < (60 * (window.end - window.start)) % MinutesPerDay

\* No phone lights up at night but for the first answer to a customer who is
\* still at the checkout (the live-customer exemption of the gate).
NightIsQuiet ==
  \A i \in OwnSent :
    log[i].channel = "whatsapp" /\ Silent(log[i].at, merchant.quiet) =>
      /\ \A j \in OwnSent : log[j].rung = log[i].rung \/ log[j].at > log[i].at
      /\ log[i].at - case.born <= EffectiveDials(merchant.dials).live

\* A rung held back for the night wakes at the first minute of day.
QuietEndsOnTime ==
  phase = "waiting" /\ run.why = "not_quiet_hours" =>
    ~Silent(run.wake, merchant.quiet) /\ \A t \in now..(run.wake - 1) : Silent(t, merchant.quiet)

\* A rung's messages keep the merchant's gap to everything the customer had
\* heard, from any case, when the rung was gated.
CoolOff ==
  \A j \in OwnSent : \A i \in 1..log[j].seen :
    Real(i) => log[j].at - log[i].at >= EffectiveDials(merchant.dials).gap

\* A deferral names a time that helps: unless something happened since, the
\* gate does not defer the rung again for the reason it had given.
NoIdleDeferral ==
  phase = "gated" /\ decision.do = "defer" /\ run.deferrals > 0 /\ facts.idle
    => decision.why # run.why

\* No message of a case leaves at or after its deadline, however often its
\* rung was deferred.
SentBeforeDeadline == \A i \in OwnSent : log[i].at < Deadline

\* The final reminder is the last a customer hears of a case ("a promise the
\* ladder actually keeps", templates.ts).
FinalIsLast ==
  \A i, j \in OwnSent :
    log[i].rung < log[j].rung => Ladder[log[i].rung].intent # "final_reminder"

\* Every message a case's row may call for can be composed once there is a link;
\* no placeholder is left in what is read, and only a notice lacks the link.
RungsCompose ==
  phase # "new" =>
    \A g \in Touches(case.row) :
      LET m == Composed(g, TRUE)
      IN /\ m.ok
         /\ "placeholder" \notin {m.preview[i] : i \in DOMAIN m.preview}
         /\ (g.do = "nudge") <=> ("payment_link" \in {m.preview[i] : i \in DOMAIN m.preview})

\* What a case is sent keeps what is promised of the whole of it: its ceiling,
\* its deadline and the words of the final reminder.
PromisesKept == TypeOK /\ TouchesUnderCeiling /\ SentBeforeDeadline /\ FinalIsLast

\* What a message says can be done: it composes, and the rails it names work.
SaysWhatWorks == RungsCompose /\ RailsAllowed

\* The night is silent, and a rung held back for it ends it on time.
NightKept == NightIsQuiet /\ QuietEndsOnTime

\* Every ladder that starts ends or is parked.
LadderEnds == (phase = "waiting") ~> (phase \in {"parked", "done"})
=============================================================================
