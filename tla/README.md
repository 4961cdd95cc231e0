# A verification development of vyavas

vyavas recovers failed payments. A Razorpay webhook opens a *case*, a durable
Inngest workflow walks the case down a *ladder* of messages, a *gate* asks
before every message whether it may still be sent, and a sweep closes what is
left. Everything that must not go wrong (two ladders for one order, a message
after the money arrived, a case nobody looks at any more) is decided by how
webhook handlers, workflow runs, resume passes and cron jobs interleave over a
few Postgres rows. These modules model that.

## 1. Inventory

| part | state it keeps | operations | hard behaviour |
|---|---|---|---|
| Case machine (`core/case`) | none: a table | `canTransition`, `transition` | which refusals callers meet |
| Case repository (`db/repos/cases.ts`) | `recovery_cases`, `case_events`, two partial unique indexes | create, transition (SELECT, then guarded UPDATE, then event), claim, re-park, close, sweep claim | lost races, death between statements |
| Send path (`messaging/send.ts`, `db/repos/messages.ts`, `locks.ts`) | `message_log`, the customer's opt-outs, advisory locks | opt-out check, count, insert under the lock; dispatch and marking outside it; receipts | caps under concurrency, retried sends, death after the provider accepted |
| Webhook ingest (`ingest/`) | `webhook_events`, `customers`, outage windows | claim, handle, publish, mark processed or failed; redrive, backfill | at-least-once delivery, any order, death half-way, poison rows |
| Taxonomy and policy (`core/taxonomy`, `core/policy`) | none: tables | normalise, diagnose, compile, resolve, filter the rails | overlapping rules and rows, ties, combinations nobody listed |
| Ladder (`run-ladder.ts`, `executor.ts`, `facts.ts`, the gate, `core/limits.ts`, `quiet-hours.ts`) | Inngest's runs and memoised steps, `case_actions` | start, sleep, gather, gate, act, send, record; defer, pause, close, cancel | steps retried whole, stale facts, nights that wrap midnight, deferral budgets |
| Composition (`messaging/compose.ts`, `templates.ts`) | none | pick a template, fill it or refuse | a variable list that drifts from its body |
| Pause and resume (`workflows/resume.ts`, execution route) | `merchants.execution_enabled`, `resume_count` | list, classify, claim, publish, re-park, close | two passes at once, publish that fails or whose answer is lost |
| Deadline sweep (`sweep-deadlines.ts`) | none of its own | reconcile links, resume, expire, redrive | races with ladders and payments |
| Console start (`messaging/recovery-run.ts`, its routes and page) | case state, follow-up actions | start now, poll, fire due follow-ups | a second sender beside the ladder, several tabs, answers that time out |
| Payment links | link columns of a case, cart or call | issue, paid, expired, reconcile | paid between two passes |
| Abandoned carts | `abandoned_carts` | create, offer, confirm, expire | two sweeps and a webhook on one row |
| Voice agent | `voice_calls` | authorise, place, discount, link, report, sync | limits under concurrency, retried posts, webhooks out of order |
| Operators' side (`ops/`, their repositories, routes and scripts) | `escalations`, `merchant_alerts`, `taxonomy_proposals` | escalate, brief, alert, pick up, close, propose, review, audit | replayed steps, check and update apart, two people, two runs |
| Console page (`recovery-console.tsx`) | timers, the last answer | poll, refresh, act | answers lost and overtaken |
| Accounts (`lib/`, login, switcher, go-live switch) | users with an epoch, memberships, two cookies, what a tab shows | sign in and out, pick, poll, pause, preview, go live; scripts | a page older than its click, a sign-in across a password change |
| Adapters, credentials, dashboards | provider keys | HTTP, encryption, read-only pages | none that moves a case |

How they interact: ingest calls the case repository and publishes
`case/diagnosed` (starts a ladder under a run key) and `case/resolved` (cancels
the runs of a case). A ladder calls the repository, the send path and, on its
last rungs, the operators' queue. The console sends through the same path under
the same key space. The resume switch and the sweep call the repository and
publish `case/diagnosed` under a new run key. The sweep also redrives
unprocessed deliveries through ingest. Shared state is the case row, the action
rows, the message ledger and the queues; callbacks in memory exist only in the
browser.

What makes the parts correct, in a line each: one live case per order; cases
only move along the table and the ledger never claims a move that did not
happen; one run per pause; every rung reaches the customer at most once; an
ended case falls silent; the frequency cap, the idempotency key and an opt-out
hold against every sender; nobody is woken at night, messaged past a deadline or
offered what cannot work; every delivery is handled and every case and ladder
ends; what people are told (by the console, the queue, an alert, an answer) is
true; a click acts on the merchant its page shows. The hazards that threaten
these, line by line, are in `PROJECT.json`.

## 2. Modules

| module | models | code |
|---|---|---|
| `CaseMachine` | states, transition table, reasons, `transition` | `core/case/types.ts`, `machine.ts` |
| `CaseLifecycle` | abstract: what a set of cases promises (open, move along the table, one live case per key) | indexes of `schema/cases.ts`, `cases.ts` |
| `CaseStore`, `CaseStore_proofs` | the repository statement by statement | `db/repos/cases.ts` and its callers |
| `MessageLedger`, `MessageLedger_proofs` | the send path; its proofs hold those of `Desk` and `Calls` too | `messaging/send.ts`, `db/repos/messages.ts`, `locks.ts` |
| `Recovery`, `Recovery_proofs` | ingest, ladder, resume and sweep around one order | `ingest/`, `workflows/` |
| `Deliveries`, `Deliveries_proofs` | the queue of deliveries: claims, customers, outages, redrive | `ingest/webhook-handler.ts`, `redrive.ts`, `db/repos/webhooks.ts`, `customers.ts`, `downtime.ts` |
| `Taxonomy` | normalisation, rules, classes, `diagnose` | `core/taxonomy/` |
| `PolicyTable`, `PolicyRows` | matching, specificity, the compiler's checks; the shipped rows | `core/policy/` |
| `Gate` | dials, quiet hours, every check in its order | `core/guards/preconditions.ts`, `quiet-hours.ts`, `core/limits.ts` |
| `Templates` | templates and `compose` | `messaging/templates.ts`, `compose.ts` |
| `FailureLadder`, `FailureLadder_proofs` | one failure from its error tuple to the last rung of its ladder, on the clock; composes the four above, whose lemmas its proofs hold | `ingest/handlers/payment-failed.ts`, `run-ladder.ts`, `executor.ts`, `facts.ts` |
| `PaymentLinks`, `PaymentLinks_proofs` | the links of one case, the discount call, the sweep's reconciliation; its proofs hold those of `AbandonedCart` too | `workflows/payment-link.ts`, `ingest/handlers/payment-link.ts`, `app/api/voice-agent/webhook`, `core/guards/discount.ts` |
| `AbandonedCart` | one cart's row | `workflows/abandoned-cart.ts`, `db/repos/abandoned-carts.ts` and their routes |
| `Calls` | placing a call, its row, Vapi's webhooks and the sync | `app/api/voice-agent/*`, `db/repos/voice-calls.ts`, `adapters/vapi/client.ts` |
| `Desk` | one case at the console: starts, polls, follow-ups and the ladder beside them; composes `Calls` | `messaging/recovery-run.ts`, `app/api/recovery/start`, `status` |
| `Escalations` | escalation and alert rungs, the queue, the audit's bucket | `ops/escalation.ts`, `merchant-alert.ts`, `self-audit.ts` and their repositories |
| `Console` | the page's poll loop and its buttons | `components/recovery-console.tsx`, `db/queries/recovery.ts` |
| `Triage` | unknown reasons, proposals, reviews | `ops/triage.ts`, `db/repos/proposals.ts` |
| `Operations`, `Operations_proofs` | composes `Escalations`, `Console` and `Triage` in shifts | |
| `Accounts`, `Accounts_proofs` | sessions, merchant choice, tabs, the go-live switch | `lib/session.ts`, `auth.ts`, `merchant-context.ts`, `merchant-switcher.tsx`, `send-mode-switch.tsx`, `scripts/user.ts`, `merchant.ts` |
| `MC*` | instances for TLC | |

A definition that begins "Faulty variant" is no model of the code: it is the
mistake a property is there to catch, and `PROJECT.json` names the pair.

**CaseStore.** `cases` is the table, one record per case with the columns that
decide something (state, order, invoice, resume count); `ledger` is
`case_events`. Each worker has a call in progress, a record with the statement
it is at and what it has read: `transitionCase` is `TransitionRead`,
`TransitionUpdate`, `AppendEvent`. A crash drops the call between any two
statements. Call sites give the targets and reasons the source passes.

**MessageLedger.** `log` is `message_log`, with the age of a row abstracted to
"inside the sliding window or not" by `Tick`; a sender walks
`Begin`, `Acquire` (the advisory lock of the person, who may be reached under
two keys), `CheckOptOut`, `CountRecent`, `InsertRow`, `EndTransaction`,
`Dispatch`, `MarkSent`/`MarkFailed`. A crash rolls back the transaction and so
drops the lock with it, as Postgres does.

**Recovery.** `hooks` holds each delivery with its `webhook_events` row and the
handler working on it; `runs` Inngest's run of each run key
(`runKeyFor`: the case id, or case id and resume count); `wakers` the resume
passes; `sweep` the expiry pass with the rows its list gave it (`SweepList`);
`actions` the recorded rungs; `touched` what reached the customer, by rung and
channel; `world` the merchant's switch, the customer's opt-out, the passed
deadlines, and how many other orders' rows crowd the expiry list. A rung marked
`fanout` goes out on every channel (`Targets`, then one `RunSend` per channel,
with no look at the case between them). `late` and `orphans` are history. Three
faults are distinguished: a call that throws and did nothing, a call whose answer
is lost after it took effect, and the death of a process. `FaultKind` says which a
run allows. Which deliveries a redrive gets to is left open here (`Redrive` may
never happen): `Deliveries` has its order and its limit.
Time is abstracted: a sleeping run may wake at any moment and a deadline may
pass at any moment, which includes every real schedule.

**FailureLadder.** The same ladder the other way round: one actor, but the real
table, the real clock and the real gate. An error tuple is normalised and
diagnosed (`Taxonomy`), resolved to a row (`PolicyTable`), and the row's ladder
runs: `Gather` reads the facts once per attempt, `Evaluate` is the gate,
`DeferRung`, `NoChannel`, `Act`, `Send` (one step per channel), `NextRung`,
`Pause` and `CloseFromGate` are the executor's outcomes. `log` is what the
customer has received, other cases' messages among it. The clock is in minutes
and moves to the run's own wake-up (`Tick`) or to anything that happens
meanwhile (`OtherMessage`, `OptOut`, `SwitchOff`, `AnotherAttempt`). A template's
body is the sequence of its placeholders; wording is left out.

**Deliveries.** `rows` is `webhook_events`, `received` its order by arrival,
`work` the handler of each worker, the endpoint or a redrive, whose batch keeps
each row as `FindUnprocessed` read it. `customers` is the table `upsertCustomer`
reads (`FindCustomer`), fills (`Backfill`), inserts into and reads again
(`InsertCustomer`, `ReselectCustomer`) in separate statements; `windows` the
outages. `lost` is history: the contacts a row had and has no more.

**PaymentLinks.** `links` is what Razorpay holds, by `reference_id`, which it
takes once per merchant (`voice-agent/webhook/route.ts:225`); `case` and `calls`
are the rows. `transitionCase` is one step here, because `CaseStore` takes it
apart, but it may lose its race (`Fault("race")`), as it does against
`mark-executing`. Tool calls of one conversation overlap; each reads the row,
then writes it. A case can end while its link is payable: at its gate (`RungClose`)
or from elsewhere (`CaseAborted`). A pass of the sweep may leave the case out of
either of its lists; `sweep.owed` and `sweep.excuse` remember, for one property,
whether it found the link paid and what kept it from booking that.

**AbandonedCart.** `cart` is the row, written by unguarded UPDATEs; `callers`
are the merchant's calls (one and its retries), `checkers` the sweep and "Sync
now" (a pass's list may leave the cart out), `hook` the delivery of
`payment_link.paid`, which may be lost.

**Desk and Calls.** `ledger` is `message_log` by idempotency key (rung, channel
or "any", and the stamp of a forced attempt), `actions` the follow-up rows with
their claim; `agent` holds every caller at its statement: a person's start
(`Start`, `StartLink`, the sends, `StartWrap`), a page's poll (`PollRead`,
`PollGather`, `PollClaim`, `PollGate`, the send, `PollSettle`), the ladder's
rung. `handed` is what the provider took. `bar` is what makes the gate abort a live
case: an opt-out, the deadline, no mandate, no channel. `Calls` has a press of the button, the
ring it causes at Vapi, the row written after it, the webhooks under way and the
sync; it shares `live` and the operator with `Desk`.

**Operations.** `queue`, `alerts`, `proposals` are the three tables; `trail` and
`fired` the events of `case_events` that speak of them. A ladder is at a rung
and a statement of it (`RecordAction`, `WriteBrief`, `CreateEscalation`,
`TellEscalated`, or `CountCluster`, `RaiseAlert`, `TellAlerted`), and `StepDies`
sends it back to the start of its step. People answer the queue through the route
(`RouteChecks`, `RouteUpdates`) or the script (`ScriptUpdates`); `said` is what
each was told. The page has timers and polls on their way. A *shift*, chosen at
the start, says who is about; it bounds how many interleave, never what they do.

**Accounts.** `jar` is the browser's two cookies, shared by its tabs; `page` what
each tab shows, as rendered with the cookies it was asked with (`refresh`);
`call` the switch's request on the server, which resolves the merchant and
writes in two steps; `polls` the badge's answers, which may overtake one another.
`moved`, `proved` and `fit` are history for the properties.

## 3. Runs

| run | instance | shows |
|---|---|---|
| `case_store` | 2 cases, 2 workers, one order, one invoice, 1 pause, crashes | both unique indexes keep one live case, honest ledger, one claim per pause, refinement of `CaseLifecycle` |
| `message_ledger` | 2 senders, 2 keys of one person, cap 1, a window of 2 days | cap, idempotency, opt-out; the invariant the proofs use, which has suppressed rows unsent and no lock without a holder |
| `recovery` | 1 case, 2 rungs, the first on two channels, 1 resume, 1 fault | a rung reaches the customer at most once on a channel; an ended case falls silent after the rung in flight |
| `recovery_resume` | 2 resume passes, a cancellation, publishes that throw, processes that die | one ladder at a time, and no claim without its run unless its pass died (`OneLadderPerClaim`); refinement of `CaseLifecycle` |
| `recovery_live` | 1 case, an expiry list of two rows and up to two rows of other orders, 1 fault | a case past its diagnosis ends, whatever else stops, unless the list leaves it out pass after pass |
| `failure_ladder` | every reason, source, step and instrument against seven histories, diagnosed and resolved; 7 ladders followed on the clock, 2 merchants, 3 reaches, 2 events around each | the row fits the class; messages compose and name rails that work; ceiling, deadline and final reminder (`PromisesKept`); the night; the gap; no idle deferral; every ladder ends |
| `deliveries` | five histories of two or three deliveries, 2 redrivers, batch of 1, 1 fault | a row is processed or given up only for cause; each settles unless starved by a batch of spent rows |
| `payment_links` | the case's link and one call, two amounts; 2 tool handlers, or one beside a rung; 1 fault | the booked amount was paid, no link under the guardrail, the sweep books what it finds paid before it writes off, and a payment whose delivery is lost, unless the case is aborted first or left out pass after pass |
| `abandoned_cart` | 3 calls, 2 passes, 2 faults | the row tells the truth about payment and email; a payment is confirmed, unless its delivery is lost and the sweep asks no more |
| `desk` | 5 shifts of starts, polls, a ladder, presses and a sync; 1 fault, 1 toggle, 1 bar | a message once per asking, one poll per follow-up, silence after the end; true answers; calls counted and limited but for overlapping presses |
| `operations` | 6 shifts of ladders, hands, people, the page, triage; 1 fault, 2 acts a person | marks agree with the queue; answers and amounts are true; records only move forward; triage tries all; the page catches up |
| `accounts` | 2 tabs, 2 users, 2 merchants, 2 acts, 1 tick | a click stays on its page's merchant; an old password is out; badge and switch recover |

A named part of a property (say `RungOnce` of `OncePerAsk`) is defined and
explained beside it. `MCFailureLadder` also assumes, and TLC evaluates, that the
rules of `diagnose.ts` that tie for a tuple agree (`RulesAgree`).

**Bounds and why they are enough.** Two workers, resume passes, tool handlers,
redrivers, polls, people or tabs are the smallest number that race; every race
in the code is between two statements of one caller and one statement of
another. A cart has three calls, because two must race after one has died. Two
cases are what a second live case needs. Two rungs separate "the rung in
flight" from "the next one", and two channels its messages from each other. One fault at a time is what the code claims to
survive (a cart's retries make a second one interesting). `MaxPauses` and
`MaxResumes` bound the pauses and the run keys, `MaxToggles` the presses of the
switch, `MaxAttempts` the redrives (5 in the code; 1 or 2 here: the code only
compares with it), `Limit` the redrive's batch (25 in the code: one spent row
here starves as 25 do there), `SweepBatch` the expiry pass's list (50 in the code;
`MaxCrowd` rows of other orders fill it, since only whether there is room for the
case counts), `Horizon` the days of the message window,
`MaxActs`, `MaxClicks`, `MaxPolls` and `MaxDrops` what people do and the network
loses, `MaxEvents` what happens around a ladder. A case at `MaxResumes` can no
longer be claimed, as if every further claim lost its race, and is then closed
by its deadline. The two amounts of `payment_links` are an order whose discounted
price falls under Razorpay's minimum and one on which the 30% rule lies between
the two tiers. The followed ladders are one of each shape in the table (a live
nudge, waits of hours and of days, a fan-out, a debit with its notice, a
catch-all that only asks people), begun at hours that put rungs on both sides of
both merchants' nights; one merchant's night wraps midnight, the other's begins
at it; one has a cap and a live-customer exemption, the other sets both to zero.
Shifts put together every pair of actors that share a row. A history of
`deliveries` is a customers table with what arrives: one person named by phone and
by email who is nobody's row, one row's or two, and, with three failures, the two
backfills of one row that overwrite each other; the rows `old` and `older` are
claimed at the start, by a claim that named no merchant yet.

**Fairness.** In `Recovery` only time and the cron's expiry pass go on
(`FairSpec`): no handler, ladder, resume pass or redrive is counted on, and the
pass is fair as a whole, never to a single case. In `FailureLadder` the run's own
steps and the clock are, while its merchant's switch and everything around it are
not. In `Deliveries` a handler and the cron redrive are. In `PaymentLinks` only
the cron sweep is. In `AbandonedCart` the cron's passes are, and the handling of a
`payment_link.paid` that arrived, which Razorpay and the redrive repeat until it is
taken; that it arrives is not assumed. Where a list has a LIMIT and no order, the
pass is fair but what it picks is not, so the property names the behaviours in
which a row is left out for ever (`LeavesOut`, `LeavesCaseOut`, `LeavesCartOut`).
In `Operations` and `Accounts` the browser's timers fire and a request that was
sent is answered or fails. People, deliveries, toggles, opt-outs, payments and
faults are never fair: nothing may depend on them happening. No strong fairness
is assumed.

**Deadlock** is not checked where the system may really stop: when every case
has ended, every delivery is handled and people have gone home there is nothing
left to do.

## 4. Proofs

Every theorem is checked by TLAPS from the named assumptions on the constants
only, for any number of cases, workers, senders, keys, calls, rungs, tabs and
faults, any cap, any amounts, any table that compiles. A property of a run is
seldom inductive: what a statement writes depends on what its caller read some
steps ago. Each module therefore has an invariant `IInv`, or one for each group of
properties, that says of everything on its way what is still true of it. TLC has
checked each of them on the instance of its run before it was proved.

The assumptions are named beside the constants, and TLC evaluates them on the
instance of every run. Most say of what kind a constant is. These say more:

| assumption | says | why the code has it |
|---|---|---|
| `TableAssumption` | the table passes the compiler's checks | the process refuses to start with another (`compilePolicyTable`) |
| `RowAssumption` | rows have a ladder of rungs and a message ceiling | `policy/schema.ts` parses them |
| `ShippedAssumption` | only what ingest aborts has no rungs; rows that write to a customer ask about the night; no row asks about the merchant's budget; nothing follows a final reminder; a nudge carries the link and a debit notice does not | the shipped rows, which TLC reads; the compiler asks for none of it, so a new row may break it, and TLC then says so |
| `HandleAssumption` | a reason whose own row offers UPI is not one that leaves the UPI handle dead | the shipped rows against the rules of `diagnose.ts`, evaluated over every failure |
| `DeliveriesAssumption` | the customers table starts with nobody's contact shared; a failure names an order; the rows claimed before the claim named its merchant are those that have none; fewer faults than attempts | two unique indexes (`schema/customers.ts`); `payment-failed.ts` opens a case per order; a fault for every attempt spends any delivery |
| `MerchantAssumption` | dials are integers (of any size: they are clamped), quiet hours are hours | the columns of `merchants` |
| `LateAssumption` | a run does not wake so late for the morning that it is night again | Inngest's delay against the length of a day |
| `LadderAssumption` | finitely many cases, a ladder shorter than the rung (99) that stands for "by hand" | `scripts/queue.ts:79-85`; no shipped row has more than five rungs |
| `QueueAssumption` | the absence of a row is not a row, and nobody is called "nobody" | NULL in `assigned_to` |

`CaseStore_proofs`. `IInv` says of every call in progress that what it remembers
was once true and that a row it is about to record really moved (`CallSound`),
and of every resume claim how its count relates to the row's. One lemma per
action shows it is kept; `RepositoryInvariant` is the induction, and
`AtMostOneLiveCase`, `LedgerNeverLies`, `ResumeOnce` read the properties off it.
`ImplementsLifecycle` shows each statement to be a step of `CaseLifecycle` or
a stutter: the UPDATE is the move, every other statement stutters.

`MessageLedger_proofs`. Whoever holds the lock has counted, after its count and
before its insert, at least the rows that are still in the window, and at most
one sender is past the insert of a key. Windows only shrink as time passes,
which is why the count stays an upper bound (`SameRowsSameWindows`). It gives
`CapNeverExceeded`, `NoDuplicateTouch`, `StopIsFinal`.

Its second part is about the console, whose names differ from the ledger's for the
purpose. *Messages* (`DeskInv`): what each agent may have left at each of its
statements (`InRole`), and that every message of an unforced rung has the rung's key,
or the email's when the rung fans out (`Proper`). A message in hand is queued, nobody
else's, and not taken yet (`HandSound`), and a key is taken on one channel
(`HandedSound`); so what the provider took of a rung is at most one message
(`RungIsOnce`). Two polls never hold a row because who holds one sees it claimed
(`RowsSound`). Of an ended case the invariant keeps an account: `owed` is at least the
number of messages that may still leave (`FlightPaid`), and each step that hands one
over takes it off both sides (`FlightFrame`). What a start will answer follows from
what it did, which no later step undoes (`WordSound`); what a poll's gate answered
stays explained by the end of the case, a pause or a bar (`GateSound`, `CausesKnown`).
*Calls* (`CallsInv`): the calls
nobody authorised and the presses about to place one are at most the limit, the crowd
of presses that overlapped and the rows lost (`LimitKept`). A press is let through on
the rows it counts, which miss only the calls other presses have still to write and
those whose row was lost (`UnaskedBound`). Rows, webhooks and snapshots say of a call
only what has come to pass (`RowsFollow`, `HooksFollow`, `SnapshotsFollow`), in
whatever order they are applied. `OncePerAskAlways`, `AnswersHonestAlways` and
`CallsCountedAlways` read the properties off.

`PaymentLinks_proofs`. `IInv` says of every handler, report, delivery, rung and
sweep pass that what it holds is still true (`ToolSound`, `CallSound`,
`BookersSound`). The induction is cut in two. `CarefulKeeps` shows, once, that a
`Careful` step keeps `IInv`: links stay and keep their prices, a new link is under
the ceiling, a row changes only to a sound one, a payment is booked as it was
charged. One lemma per action then shows only what that action changes.
`DiscountBelowCeiling` is the guardrail itself. `SweepSound` says of a pass of the
sweep that what it found paid still is, and that one about to expire a live case it
found paid has an excuse. It gives `TypeCorrect`,
`BookedWasPaid`, `DiscountNeverExceedsCeiling` and, as an action property,
`ReconciledBeforeWrittenOff`.

`Recovery_proofs`. A message about to leave belongs to the one run whose insert
made the action row (`RungOwned`), which is why no rung fires twice
(`NoRungTwice`) however many ladders there are. What a run has sent after the end
of its case it sent of the rung it is at, one channel at a time, and it will not
pass another gate (`Silenced`, `SilentOnceEnded`). `HookSound`, `RunSound` and `WakerSound` say
what a handler, a run and a resume pass still know of their case; with them each
step is a step of `CaseLifecycle` or a stutter (`ImplementsLifecycle`). The
pairing of claims and ladders (`LadderAndClaimPair`) needs `NoLostAnswer`: a
publish either happens or throws. Processes may die anywhere; a pass that dies
between its claim and its publish leaves the claim in `orphans`. `PInv` then
numbers the runs of a case by its claims: at most one is alive, none while the case
is parked, and a claim whose publish is owed, or was owed by a pass that died, has
no run. Without `NoLostAnswer` it is false; section 5 tells how.

`PaymentLinks_proofs`, second part, of `AbandonedCart`. What a pass or a delivery has
seen of a link stays true, because a paid or expired link stays so, `expired` is
written only by a pass that saw the expiry, and a reference is taken once
(`CartRowIsTrue`); that `payment_link.paid` may be lost changes nothing in this.

`Deliveries_proofs`. Handlers and redrive runs act on what they read some statements
ago, and the invariant says what is left of it. *The queue*: a delivery is claimed
once and has one place from then on, its own invocation is over before anybody else
takes it, and whoever may still fail it beyond its last attempt had it before that,
so the count exceeds the limit by at most one for every other run of the redrive
(`Bounded`, a statement about the cardinality of those who do not hold it).
*Customers*: the row a handler read still has the contact it matched by, or that
contact has been written over (`StillThere`); no step forgets a contact without
`lost` saying so (`StepRemembers`), so what was a reason to give up stays one
(`CauseStays`). *Why it fails*: a delivery that failed more often than a call failed
for a while failed for a cause; a backfill that violates an index shows that the
contact is two rows', or was one row's before it was overwritten (`ClashIsCause`).
With fewer faults than attempts that is `OnlyHopelessIsSpent`; `CasesSound` gives
`ProcessedIsHandled`; `DeliveriesSettleForCause` states both.

`FailureLadder_proofs`. Three kinds of results. *The table*: the row a case gets
keeps the promises of its class (`LadderFitsAlways`) and what it says works for the
failure (`SaysWhatWorksAlways`), from the compiler's own checks and the invariant
that the case carries the class it was diagnosed with; the order of rows that tie
never decides anything (`TiesAreHarmless`). *The clock and the gate*: whether a minute is quiet
depends on its hour, the hour a window ends at is open and at most 24 hours
away, and every minute before the least open hour lies in a quiet one; so the
wake-up time is the first open minute, for every minute and every window, midnight
included (`NightEndsOnTime`, `NightWakeIsOpen`). The checks answer in order
(`FirstOnIs`), so an answer to go on means that each check before it was off:
`GoIsPermitted`. *The ladder on the clock*, in layers, each an induction that
uses those before it:
`Types` (what the variables hold, and that `facts` and `decision` are what the gate
made of the record at the time: time passes and the log grows between the reading
and the sending, and the facts are never fresher than the log); `LedgerInv`,
`RungInv` and `SentInv` (each message stands for a rung and a place in it, no two
for the same, in the order of the rungs, and what held when it was sent);
`NightInv` (a rung held back for the night sleeps through it); `CapInv` (the rolling
day never holds more than the cap); `IdleInv` (a deferral names a time at which,
unless something happens, its reason is gone). From `LetterInv` follow `CoolOffAlways`,
`PromisesKeptAlways` (messages are injected into the places the row's ceiling counts,
so the ceiling is a theorem about cardinalities) and, with `NightInv`,
`NightKeptAlways`. `NoIdleDeferralAlways` needs all of them: that a wait for the cap
helps, for instance, depends on `CapInv`, because only a day that is not over-full
is free again when its oldest message leaves it.

`Operations_proofs`. What ladders, scripts and people do meets in the queue only, so
`IInv` is a conjunction of small invariants, each over the variables it is about and
kept for a reason of its own. `FitInv`: where a ladder stands fits its rung, and
what it read fits what it will do. `RowInv`: the ladder's keys and those by hand are
disjoint, so a row's author is known from its key. `TrailInv`: whoever is about to
write the `escalated` event made the row and is alone in that, which survives a
death because a replay skips both. `FiredInv`: what a rung did by the time it is
passed. `SaidInv`: where a row stands says who could have been told what; the update
carries a guard of its own, so a stale check tells nobody anything. They give
`MarksAgree`, `ToldTruly` and `RecordsMoveForwardAlways`. That the audit counts money
once is a statement about a sum over a finite set of any size. The sum of the
community modules adds a set up in the order CHOOSE takes it apart, so the proof
shows, by induction on the set as a least counterexample (`SubsetInduction`), that
such a sum exists (`SumsExist`), takes any element first (`SumOfAny`) and grows with
its set (`SumGrows`). `TriageInv` says of a run that the reasons it has tried and
those it has left are all there are (`TriageSettlesAlways`).

`Accounts_proofs`. A token carries the epoch read along with the hash that was
compared (`TokensHonest`), and a request that found its merchant did so while
its token's epoch was the user's (`RequestFit`), so `OldPasswordCannotAct`. As
long as nothing has moved, the cookies select the merchant of the page or none
(`PageTrue`), a render and a request carry those cookies (`RenderTrue`,
`RequestTrue`), and the same cookies never select two merchants (`SelectIsOne`);
steps that change neither memberships nor slugs can only make them select none
(`StillSelects`). That gives `ClicksActOnPage`.

Only model-checked: liveness, that every ladder ends, every delivery settles and the
page catches up included (TLAPS does not do ENABLED or fairness). Induction over data is out of reach where the induction hypothesis would
have to be a parameter; where it ranges over sets, as for the sum above, it is done
with a least counterexample instead. The taxonomy's and the table's agreement with
their own rules is checked over every input by TLC, which suits finite tables.

## 5. Disagreements met while modelling

The runs check what the code keeps. Where a comment or document promises more,
the promise is told here with the lines it follows from; the first six are also
stated in `Recovery` and `Escalations`, beside the properties that do hold.

- An aborted case may still message its customer. "`order_already_paid` closes the case and cancels everything queued" (`docs/04-safety.md:106`), but `payment-failed.ts:239` publishes nothing, and an aborted case's run finds out at its next gate only: `AbortCancelsLadder` fails.
- A payment that meets no live case closes none, and the failure it overtook opens one afterwards that nothing closes before its deadline (`payment-succeeded.ts:80` against `pipeline.ts:143`, "close the case before anything can be sent"): `PaidClosesCase` fails.
- "never yank a case out from under a ladder that did start" (`cases.ts:434`): when the answer to the publish is lost, the re-park does just that, and the next resume starts a second ladder beside the first. `NoDoubleLadder` fails once `FaultKind` has "lost"; each rung still fires once.
- "a retried `payment.failed` creates a second recovery case" is what deduplication is to prevent (`webhooks.ts:5-7`). A handler that dies after its case has closed and is redriven (`redrive.ts:65`) creates it all the same: `OneCasePerDelivery` fails.
- "The case is parked in `paused`" when the switch is off (`docs/01-how-it-works.md:144`), but a verdict of pause on a deferred attempt (`run-ladder.ts:297`) is treated like a skip and the ladder goes on: `PauseParks` fails. A resumed ladder starts at rung 0, where the same line says it keeps its rung.
- "Write the queue row. (always happens)" (`ops/escalation.ts:8`), but a step that dies between its action row and the queue row is a replay when retried, and skips it (`executor.ts:268`): `EveryRungQueued` fails. `RungLeavesItsMark` is what holds.

Ingest and the repository:

- `createCase` reports a conflict on an index it does not know when the incumbent was merely closed before the read-back (`cases.ts:119-124`).
- A case left `detected` by a death before its diagnosis has no edge to `lost`, so the sweep cannot close it (`case-run.ts:26`, `machine.ts:42`).
- `invoice.paid` and `subscription.cancelled` close the case but publish no `case/resolved` (`pipeline.ts`), unlike the events beside them.
- Spent rows stay among the oldest unprocessed ones, so 25 of them end the redrive for all others (`redrive.ts:76`).
- The sweep's lists have a LIMIT and no order: 50 rows past their deadline (`cases.ts:657`), 200 cases with a link of all merchants (`cases.ts:190`), 200 carts (`abandoned-carts.ts:166`). Rows that keep coming back, such as detected cases, whose expiry is always refused, may keep another row out for ever. Beyond 200 linked cases a pass may also expire one whose paid link it has not asked about (`sweep-deadlines.ts:59`, against "must run before close-expired" in the comment above it).
- A payment made after the pass has asked about its link and before it expires the case is written off (`sweep-deadlines.ts:58`, `:135`).
- `upsertCustomer`'s backfill of an email or phone another row holds violates a unique index on every attempt, and the delivery is spent (`customers.ts:97`).
- "Never overwrite a known contact with a different one" (`customers.ts:82-83`): a backfill fills in what was missing from the row as it was read, so of two that read it before either wrote, the later overwrites the other's contact. A handler that lost its insert to that row may then find nobody at its second look (`customers.ts:120-126`) and open the case without a customer. `Overwritten` in `SettledForCause` says how far this goes.
- A `downtime.started` that arrives after its `resolved` opens the window again, and nothing will close it (`downtime.ts`).
- A resume request that dies between claim and publish leaves the case executing without a ladder until its deadline (`resume.ts:156`), with `resume_count` spent.

Ladder and gate:

- A fan-out rung sends on all its channels under one gate, with no look at the case between two of them (`executor.ts:372`): two messages may follow the end of a case.
- The handler never passes `mandateId` to `createCase` (`payment-failed.ts:177-203`), so an unattended case's `mandateActive` is always false (`facts.ts:321`), and the mandate-retry rows end in `manual_abort` at their first gate.
- No caller passes a Razorpay client to `gatherFacts`: the order "re-fetched from Razorpay before every" message (`README.md:60`, `docs/README.md:42`, `policy/schema.ts:181`) is not, and a paid order whose delivery is lost is still messaged and written off.
- `minutesSinceFailure` counts from the case's creation; a late delivery makes an old failure look live. The OTP window is off by one minute against its comment, and the rails are read once, when the case is loaded.
- `await_downtime_resolution` does nothing, so the message that says service is back goes out unconfirmed. `retry_debit` executes nothing, `leadTime` is ignored, `abortOn` is never read; the pre-debit notice names its own sending time and an amount of 0 (`executor.ts:630-631`). No row asks for `merchant_budget_available`.
- A live first touch is exempt from the cap at the gate but not under the lock (`recordMessageIfPermitted`), after its action row is written: the touch is lost. The exempt intents too are counted by one and not the other.
- `insufficient_funds`' third rung falls on its deadline exactly. `channels.ts` keeps its clients for the life of the process.
- A holdout case's rung creates a real payment link. The ladder creates links without an expiry (`executor.ts:317` passes null on both branches), which `payment-link.ts:80` says never happens; the console passes the deadline.

Sending and links:

- A case can be aborted while its link is payable: by its gate (`preconditions.ts:265-280`, `run-ladder.ts:301`), by a resume that declines it (`resume.ts`), by a cancelled subscription. The link is not cancelled, and the case leaves the list of the sweep, so a payment whose `payment_link.paid` is lost is never booked. The same holds of a cart that was marked `failed` or `expired`.
- A gate that aborts skips a follow-up for good also where the cause may pass, as a channel that is added later (`recovery-run.ts:401`).
- "`sent` adds nothing, the send path already recorded it" (`app/api/webhooks/whatsapp/route.ts:68`): not after a death between the provider's acceptance and `markMessageSent`, and the row then has no provider id for any receipt to match. Receipts are applied in the order they come, so a late `delivered` overwrites `read` (`send.ts:210`).
- `discount_tier_offered` is said never to decrease (`schema/voice.ts:42`); `recordDiscountOffer` is an unguarded UPDATE, and a slow tier-1 handler may land after tier 2. The price stays within the guardrail (`DiscountBounded`). A second link created in one call leaves the row, and the email, with a dead one.
- "The phase-2 sweep re-checks later" (`voice-agent/webhook/route.ts:406`): `listUnconfirmedEndedCalls` has no caller, so a call's payment whose delivery is lost is never booked.
- `payment-link.ts:9` promises one way to pay an order; a call's link is a second one, and neither is cancelled when the other is paid.
- Because a reference is taken once, a death between creating a link and storing it leaves the row without a link for good (`payment-link.ts:68`, `abandoned-cart.ts:83`). A double-fired cart call marks a cart with a live link `failed` (`abandoned-carts.ts:91`), and the sweep, which lists only `emailed`, no longer asks about it.
- The cart discount is "capped at half the cart" in `schema/abandoned-cart.ts:51`, at 30% in `core/guards/cart-discount.ts`.

Console and calls:

- A death between a follow-up's claim and its send loses it; a paused verdict skips it for good; a start that timed out at the page goes on at the server; facts are gathered before the claim; the gate's answer "by email only" at night is ignored by a start.
- A rung planned by the console makes the ladder's rung 1 a replay, and fan-out rungs have different keys at the two (`recovery-run.ts:529-532`). "Already sent" is also said of a row that failed or was orphaned in the queue.
- `calls/route.ts` never asks for the limit that `authorize-call` applies; a web call checks neither the pause nor the end of its case and records an override nobody made. The Vapi client re-posts `/call` on a timeout, so one press may ring up to three times. The sync calls every ended call with a reason it does not know failed, and a stale one reopens an ended row.
- Two presses of refresh leave two poll loops, where the comment at `recovery-console.tsx:200-201` says one; leaving the page clears the last timer only. The list holds the 50 largest cases; `capClearsAt` counts messages the cap exempts; `EVENT_CATEGORY` misses the `voice_*` kinds.

Operators and accounts:

- The brief's timeout is per attempt. An alert for a cluster is raised from any one case, and a stale count may overwrite a newer one. `resolveMerchantAlert` and `reviewProposal` are called by nothing but tests, `created` is always true, a reviewer may accept a proposal that was refreshed meanwhile, every acknowledgement is by "console", and an old `lastError` stays.
- A click acts on the merchant of the cookie at that moment. The page guards against "a click on the Sandbox page [that] would change the live account's settings" (`merchant-context.ts:115-116`) only by rendering anew after a pick, so the page of another tab, or one whose membership or slug changed, may act for another merchant than it shows; `ClicksStayOnPage` says exactly when. A go-live dialog may show one merchant's preview and switch another.
- Picking the slug a page already shows does nothing, even when the cookie has another. The overview's switch goes by the mode it was rendered with, a commit ignores a refusal, the badge of a renamed merchant no longer changes, the role `viewer` is enforced nowhere (`schema/auth.ts`), and `merchant.ts mode live` wakes no parked case.

## 6. Not modelled

- Provider wire formats, HTTP retries of the clients other than Vapi's, and the
  Inngest and Postgres internals: the models keep the outcomes a caller can see.
- The text of messages, briefs and rationales, and the formatting of amounts,
  dates and names: no state of a case depends on them. Of templates, the order of
  the placeholders is modelled, since a wrong one is what nobody notices.
- Dashboards, reports, seed data, design pages and the columns that only count:
  they read what the models write.
- The encryption of provider keys (`lib/crypto.ts`, `db/repos/credentials.ts`)
  and the hashing of passwords: arithmetic on bytes, outside what TLC or an SMT
  solver can say anything useful about.
- What a large language model answers: a brief and a classification are any
  member of their type, or a failure.

These, and the pages that only show, are why the console, the accounts and the
adapters are listed as partly modelled.
