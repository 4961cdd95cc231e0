---------------------------- MODULE Escalations ----------------------------
(* The two rungs of a ladder that act on a person rather than on a customer,  *)
(* and what becomes of them: the queue of escalations (written by the ladder, *)
(* or by hand from scripts/queue.ts; picked up and closed by people), the     *)
(* merchant's alerts, and the self-audit's count of what never happened.      *)
(* A rung is a step of Inngest's: one that dies is run again from its start,  *)
(* and finds the action row of its first attempt.                             *)
EXTENDS Naturals, Sequences, FiniteSetsExt

CONSTANTS Case,       \* cases, numbered by the instant they were created
          Holdout,    \* the ones in the holdout cohort
          Amount,     \* [Case -> Nat]: what each has at risk
          Rungs,      \* the ladder: its rungs' actions, in order
          Hand,       \* runs of scripts/queue.ts --escalate
          Person,     \* people working the queue
          NoRow,      \* a key that has no row
          MaxFaults,  \* bound: deaths and throws of a step or a script
          MaxActs,    \* bound: what one person does
          MaxDefers,  \* bound: times the gate defers a rung
          MaxResolves \* bound: alerts resolved

\* A rung outside every ladder, for an escalation by hand.
ManualRung == 99

Status == {"open", "acknowledged", "resolved", "dismissed"}
BriefSources == {"claude", "fallback"}

\* A row of escalations, as it is filled and updated.
Escalation == [status : Status, by : {"workflow", "console"}, source : BriefSources,
               assignedTo : {"nobody", "console"} \union Person]

ASSUME LadderAssumption ==
  /\ Case \subseteq Nat \ {0} /\ IsFiniteSet(Case)
  /\ Holdout \subseteq Case
  /\ Amount \in [Case -> Nat]
  /\ Rungs \in Seq({"escalate_to_human", "merchant_alert"})
  /\ Len(Rungs) <= ManualRung

\* An absent row is no row, and no person is the column's null.
ASSUME QueueAssumption ==
  /\ NoRow \notin Escalation
  /\ "nobody" \notin Person

VARIABLES cases,     \* recovery_cases: what counting a cluster reads
          ladder,    \* each case's run: its rung, and where in it
          actions,   \* case_actions: the keys recorded
          queue,     \* escalations, by idempotency key
          trail,     \* case_events: `escalated`, counted by key
          fired,     \* case_events: `rung_fired`
          alerted,   \* case_events: `merchant_alerted`, as its `raised` said
          deferred,  \* case_events: `rung_deferred`, counted by case
          alerts,    \* merchant_alerts of one signal, oldest first
          hands,     \* the scripts
          people,    \* the requests to the escalation route
          said,      \* what people were answered
          faults

evars == <<cases, ladder, actions, queue, trail, fired, alerted, deferred, alerts,
           hands, people, said, faults>>

\* ------------------------------------------------------------------ the data

Key == Case \X ((0 .. Len(Rungs) - 1) \union {ManualRung})
\* Faulty variant: an escalation by hand takes the ladder's key.
ManualKeyOfLadder(c) == <<c, (CHOOSE r \in DOMAIN Rungs : Rungs[r] = "escalate_to_human") - 1>>
ManualKey(c) == <<c, ManualRung>>

Open(k) == queue[k] # NoRow /\ queue[k].status \in {"open", "acknowledged"}

Live(c) == cases[c].born /\ ~cases[c].paid
OnLadder(c) == ladder[c].rung < Len(Rungs)
Rung(c) == <<c, ladder[c].rung>>
Doing(c) == Rungs[ladder[c].rung + 1]

EscalationsInit ==
  /\ cases = [c \in Case |-> [born |-> \A d \in Case : c <= d, old |-> FALSE, paid |-> FALSE]]
  /\ ladder = [c \in Case |-> [rung |-> 0, at |-> "row", read |-> NoRow]]
  /\ actions = {}
  /\ queue = [k \in Key |-> NoRow]
  /\ trail = [k \in Key |-> 0]
  /\ fired = {}
  /\ alerted = [c \in Case |-> "no"]
  /\ deferred = [c \in Case |-> 0]
  /\ alerts = <<>>
  /\ hands = [h \in Hand |-> [at |-> "idle", of |-> NoRow, source |-> "fallback"]]
  /\ people = [p \in Person |-> [at |-> "idle", of |-> NoRow, act |-> "acknowledge", acts |-> 0]]
  /\ said = {}
  /\ faults = 0

\* ------------------------------------------------------------ the world outside

\* A second customer's payment fails the same way.
OpenCase(c) ==
  /\ ~cases[c].born
  /\ cases' = [cases EXCEPT ![c].born = TRUE]
  /\ UNCHANGED <<ladder, actions, queue, trail, fired, alerted, deferred, alerts,
                 hands, people, said, faults>>

Recover(c) ==
  /\ Live(c)
  /\ cases' = [cases EXCEPT ![c].paid = TRUE]
  /\ UNCHANGED <<ladder, actions, queue, trail, fired, alerted, deferred, alerts,
                 hands, people, said, faults>>

\* Six hours pass: the oldest of the cases falls out of the alert's window.
Ages(c) ==
  /\ cases[c].born /\ ~cases[c].old
  /\ \A d \in Case : d < c => cases[d].old
  /\ cases' = [cases EXCEPT ![c].old = TRUE]
  /\ UNCHANGED <<ladder, actions, queue, trail, fired, alerted, deferred, alerts,
                 hands, people, said, faults>>

\* ----------------------------------------------------------------- the ladder

At(c, step) == ladder' = [ladder EXCEPT ![c].at = step]
NextRung(c) == ladder' = [ladder EXCEPT ![c] = [rung |-> @.rung + 1, at |-> "row", read |-> NoRow]]

\* The `rung_deferred` events of the window, one by one.
Deferrals == {e \in Case \X (1 .. MaxDefers) : e[2] <= deferred[e[1]]}

\* The gate defers the rung and says so in the ledger.
Defer(c) ==
  /\ Live(c) /\ OnLadder(c) /\ ladder[c].at = "row"
  /\ Cardinality(Deferrals) < MaxDefers
  /\ deferred' = [deferred EXCEPT ![c] = @ + 1]
  /\ UNCHANGED <<cases, ladder, actions, queue, trail, fired, alerted, alerts,
                 hands, people, said, faults>>

Suppressed(c) == c \in Holdout

\* The action row first: a rung already recorded is a replay, and is skipped.
RecordAction(c) ==
  /\ Live(c) /\ OnLadder(c) /\ ladder[c].at = "row"
  /\ IF Rung(c) \in actions
     THEN NextRung(c) /\ UNCHANGED actions
     ELSE /\ actions' = actions \union {Rung(c)}
          /\ At(c, IF Suppressed(c) THEN "advance" ELSE "read")
  /\ UNCHANGED <<cases, queue, trail, fired, alerted, deferred, alerts, hands, people,
                 said, faults>>

\* gatherBriefFacts and the brief: the model's, or the fallback's. ask never throws:
\* whatever goes wrong (no key, a time-out, a refusal, an answer that does not parse)
\* is an error value, for which the caller has a fallback.
WriteBrief(c) ==
  /\ ladder[c].at = "read" /\ Doing(c) = "escalate_to_human"
  /\ \E source \in BriefSources :
       ladder' = [ladder EXCEPT ![c].at = "write", ![c].read = source]
  /\ UNCHANGED <<cases, actions, queue, trail, fired, alerted, deferred, alerts, hands,
                 people, said, faults>>

NewEscalation(by, source) ==
  [status |-> "open", by |-> by, source |-> source, assignedTo |-> "nobody"]

\* INSERT .. ON CONFLICT DO NOTHING on the idempotency key.
EscalationInserted(k, by, source) ==
  IF queue[k] = NoRow THEN [queue EXCEPT ![k] = NewEscalation(by, source)] ELSE queue

Created(k) == queue[k] = NoRow

CreateEscalation(c) ==
  /\ ladder[c].at = "write" /\ Doing(c) = "escalate_to_human"
  /\ queue' = EscalationInserted(Rung(c), "workflow", ladder[c].read)
  /\ At(c, IF Created(Rung(c)) THEN "tell" ELSE "advance")
  /\ UNCHANGED <<cases, actions, trail, fired, alerted, deferred, alerts, hands, people,
                 said, faults>>

\* The audit event, on a real insert only.
TellEscalated(c) ==
  /\ ladder[c].at = "tell" /\ Doing(c) = "escalate_to_human"
  /\ trail' = [trail EXCEPT ![Rung(c)] = @ + 1]
  /\ At(c, "advance")
  /\ UNCHANGED <<cases, actions, queue, fired, alerted, deferred, alerts, hands, people,
                 said, faults>>

\* The cases an alert of this signal is about: recent, and not recovered.
Cluster == {c \in Case : Live(c) /\ ~cases[c].old}

\* gatherAlertFacts. Only an empty cluster raises nothing.
CountCluster(c) ==
  /\ ladder[c].at = "read" /\ Doing(c) = "merchant_alert"
  /\ ladder' = IF Cluster = {}
               THEN [ladder EXCEPT ![c].at = "tell", ![c].read = NoRow]
               ELSE [ladder EXCEPT ![c].at = "write",
                       ![c].read = [count |-> Cardinality(Cluster),
                                    onset |-> Min(Cluster), open |-> TRUE]]
  /\ UNCHANGED <<cases, actions, queue, trail, fired, alerted, deferred, alerts, hands,
                 people, said, faults>>

OpenAlerts == {i \in DOMAIN alerts : alerts[i].open}

\* Faulty variant: a repeated alert starts its onset over.
RaisedAfresh(facts) ==
  IF OpenAlerts = {}
  THEN Append(alerts, facts)
  ELSE [alerts EXCEPT ![CHOOSE i \in OpenAlerts : TRUE] = facts]

\* INSERT .. ON CONFLICT (merchant, signal) WHERE resolved_at IS NULL DO UPDATE: the
\* counts are refreshed, the onset is not.
Raised(facts) ==
  IF OpenAlerts = {}
  THEN Append(alerts, facts)
  ELSE [alerts EXCEPT ![CHOOSE i \in OpenAlerts : TRUE].count = facts.count]

RaiseAlert(c) ==
  /\ ladder[c].at = "write" /\ Doing(c) = "merchant_alert"
  /\ alerts' = Raised(ladder[c].read)
  /\ At(c, "tell")
  /\ UNCHANGED <<cases, actions, queue, trail, fired, alerted, deferred, hands, people,
                 said, faults>>

TellAlerted(c) ==
  /\ ladder[c].at = "tell" /\ Doing(c) = "merchant_alert"
  /\ alerted' = [alerted EXCEPT ![c] = IF ladder[c].read = NoRow THEN "no cluster" ELSE "raised"]
  /\ At(c, "advance")
  /\ UNCHANGED <<cases, actions, queue, trail, fired, deferred, alerts, hands, people,
                 said, faults>>

\* current_rung, and the `rung_fired` event.
Advance(c) ==
  /\ ladder[c].at = "advance"
  /\ fired' = fired \union {Rung(c)}
  /\ NextRung(c)
  /\ UNCHANGED <<cases, actions, queue, trail, alerted, deferred, alerts, hands, people,
                 said, faults>>

\* The step throws, or the function is killed at its time limit while it waits for
\* the model, and Inngest runs it again from the start. (A run whose attempts are used
\* up is one that is not scheduled again: no step here is ever forced.)
StepDies(c) ==
  /\ ladder[c].at # "row"
  /\ faults < MaxFaults
  /\ faults' = faults + 1
  /\ At(c, "row")
  /\ UNCHANGED <<cases, actions, queue, trail, fired, alerted, deferred, alerts, hands,
                 people, said>>

\* ------------------------------------------------------- escalating by hand

HandBegins(h, c) ==
  /\ hands[h].at = "idle" /\ cases[c].born
  /\ \E source \in BriefSources :
       hands' = [hands EXCEPT ![h] = [at |-> "write", of |-> ManualKey(c), source |-> source]]
  /\ UNCHANGED <<cases, ladder, actions, queue, trail, fired, alerted, deferred, alerts,
                 people, said, faults>>

HandCreates(h) ==
  /\ hands[h].at = "write"
  /\ queue' = EscalationInserted(hands[h].of, "console", hands[h].source)
  /\ hands' = [hands EXCEPT ![h].at = IF Created(hands[h].of) THEN "tell" ELSE "done"]
  /\ UNCHANGED <<cases, ladder, actions, trail, fired, alerted, deferred, alerts, people,
                 said, faults>>

HandTells(h) ==
  /\ hands[h].at = "tell"
  /\ trail' = [trail EXCEPT ![hands[h].of] = @ + 1]
  /\ hands' = [hands EXCEPT ![h].at = "done"]
  /\ UNCHANGED <<cases, ladder, actions, queue, fired, alerted, deferred, alerts, people,
                 said, faults>>

HandDies(h) ==
  /\ hands[h].at \in {"write", "tell"}
  /\ faults < MaxFaults
  /\ faults' = faults + 1
  /\ hands' = [hands EXCEPT ![h].at = "done"]
  /\ UNCHANGED <<cases, ladder, actions, queue, trail, fired, alerted, deferred, alerts,
                 people, said>>

\* ------------------------------------------------------------ working the queue

ClosesAs(act) == IF act = "resolve" THEN "resolved" ELSE "dismissed"

\* Faulty variant: the update asks nothing of the row.
PermittedAlways(k, act) == queue[k] # NoRow

\* The conditional updates: what the row must still be for the action to count.
Permitted(k, act) ==
  /\ queue[k] # NoRow
  /\ queue[k].status \in IF act = "acknowledge" THEN {"open"} ELSE {"open", "acknowledged"}

ApplyTo(k, act, name) ==
  IF act = "acknowledge"
  THEN [queue EXCEPT ![k].status = "acknowledged", ![k].assignedTo = name]
  ELSE [queue EXCEPT ![k].status = ClosesAs(act)]

\* acknowledgeEscalation, closeEscalation: the answer is whether a row was changed.
Update(p, k, act, name) ==
  /\ queue' = IF Permitted(k, act) THEN ApplyTo(k, act, name) ELSE queue
  /\ said' = IF Permitted(k, act) THEN said \union {[who |-> p, of |-> k, act |-> act]} ELSE said

Acts(p) == people[p].acts < MaxActs

\* The route reads the row first: it must be this merchant's, and not closed.
RouteChecks(p, k, act) ==
  /\ people[p].at = "idle" /\ Acts(p)
  /\ queue[k] # NoRow
  /\ people' = [people EXCEPT ![p] = [at |-> IF Open(k) THEN "checked" ELSE "answered",
                                      of |-> k, act |-> act, acts |-> @.acts + 1]]
  /\ UNCHANGED <<cases, ladder, actions, queue, trail, fired, alerted, deferred, alerts,
                 hands, said, faults>>

\* The console sends no name: every acknowledgement of its is "console"'s.
RouteUpdates(p) ==
  /\ people[p].at = "checked"
  /\ Update(p, people[p].of, people[p].act, "console")
  /\ people' = [people EXCEPT ![p].at = "answered"]
  /\ UNCHANGED <<cases, ladder, actions, trail, fired, alerted, deferred, alerts, hands,
                 faults>>

\* scripts/queue.ts --ack, --resolve, --dismiss: the same updates with no check before.
ScriptUpdates(p, k, act) ==
  /\ people[p].at = "idle" /\ Acts(p)
  /\ queue[k] # NoRow
  /\ Update(p, k, act, p)
  /\ people' = [people EXCEPT ![p].at = "answered", ![p].acts = @ + 1]
  /\ UNCHANGED <<cases, ladder, actions, trail, fired, alerted, deferred, alerts, hands,
                 faults>>

\* The repository's, which no route or script calls: the condition is over.
ResolveAlert ==
  /\ \E i \in OpenAlerts : alerts' = [alerts EXCEPT ![i].open = FALSE]
  /\ Len(alerts) <= MaxResolves
  /\ UNCHANGED <<cases, ladder, actions, queue, trail, fired, alerted, deferred, hands,
                 people, said, faults>>

\* -------------------------------------------------------------- the self-audit

\* gatherAuditFacts: `distinct on` the case, before anything is summed.
DeferredBucket ==
  LET PerCase == {e[1] : e \in Deferrals}
      amount(c) == Amount[c]
  IN  [caseCount |-> Cardinality(PerCase), amountAtRisk |-> MapThenSumSet(amount, PerCase)]

\* ----------------------------------------------------------------- properties

EscalationTypes ==
  /\ cases \in [Case -> [born : BOOLEAN, old : BOOLEAN, paid : BOOLEAN]]
  /\ \A c \in Case : /\ ladder[c].rung \in 0 .. Len(Rungs)
                     /\ ladder[c].at \in {"row", "read", "write", "tell", "advance"}
  /\ actions \subseteq Key /\ fired \subseteq Key
  /\ DOMAIN queue = Key
  /\ \A k \in Key : queue[k] # NoRow => queue[k].status \in Status
  /\ trail \in [Key -> 0 .. 2]
  /\ \A i \in DOMAIN alerts : alerts[i].count \in 1 .. Cardinality(Case)

\* The trail has an `escalated` event of a queue row at most once, and none of a row
\* that is not there: whoever escalates (the ladder again after a death, two people by
\* hand at the same moment), only the insert that made the row writes it (escalateCase).
EscalatedOnce ==
  \A k \in Key : trail[k] <= 1 /\ (trail[k] = 1 => queue[k] # NoRow)

\* A case of the holdout cohort reaches nobody through its ladder, across deaths and
\* retries: no queue row, no alert told (executeRung's suppressedReason).
HoldoutUntouched ==
  \A c \in Holdout :
    /\ \A k \in Key : k[1] = c /\ k[2] # ManualRung => queue[k] = NoRow
    /\ alerted[c] = "no"

\* A rung whose `rung_fired` is in the ledger did what it says: its own escalation is
\* in the queue, whatever was escalated by hand before it, or its alert was told of,
\* and an alert that says it was raised is there (executeRung, queue.ts's rung 99).
FiredIsDelivered ==
  /\ \A k \in fired : k[1] \notin Holdout =>
       IF Rungs[k[2] + 1] = "escalate_to_human"
       THEN queue[k] # NoRow /\ queue[k].by = "workflow"
       ELSE alerted[k[1]] # "no"
  /\ (\E c \in Case : alerted[c] = "raised") => alerts # <<>>

\* Of all the people answered that they picked a row up one at most did, of all those
\* answered that they closed it one at most did, and the row is as that one said
\* (acknowledgeEscalation, closeEscalation: the check and the update are two statements).
OneAnswerPerRow ==
  \A k \in Key :
    LET acked == {s \in said : s.of = k /\ s.act = "acknowledge"}
        closed == {s \in said : s.of = k /\ s.act # "acknowledge"}
    IN  /\ Cardinality(acked) <= 1 /\ Cardinality(closed) <= 1
        /\ \A s \in closed : queue[k].status = ClosesAs(s.act)
        /\ acked = {} <=> queue[k] = NoRow \/ queue[k].assignedTo = "nobody"

\* A row of the queue is never taken away, its brief and its author stay what a person
\* is reading, and its status only moves forward: what was closed is not reopened by a
\* ladder that runs its rung again (createEscalation's ON CONFLICT DO NOTHING).
RowMovesForward(old, new) ==
  /\ new # NoRow /\ new.by = old.by /\ new.source = old.source
  /\ CASE old.status = "open" -> TRUE
       [] old.status = "acknowledged" -> new.status # "open" /\ new.assignedTo = old.assignedTo
       [] OTHER -> new = old

QueueMovesForward ==
  [][\A k \in Key : queue[k] # NoRow => RowMovesForward(queue[k], queue'[k])]_evars

\* An alert keeps the onset it was raised with for as long as it is open, however many
\* ladders notice the outage again, and once resolved it is history: nothing of it
\* changes (raiseMerchantAlert, the partial unique index).
AlertKeepsItsOnset ==
  [][\A i \in DOMAIN alerts :
       /\ i \in DOMAIN alerts' /\ alerts'[i].onset = alerts[i].onset
       /\ ~alerts[i].open => alerts'[i] = alerts[i]]_evars

\* No bucket of the audit reports more cases or more money than there are, however many
\* times one case was deferred (gatherAuditFacts's `distinct on`).
MoneyCountedOnce ==
  LET born == {c \in Case : cases[c].born}
      amount(c) == Amount[c]
  IN  /\ DeferredBucket.caseCount <= Cardinality(born)
      /\ DeferredBucket.amountAtRisk <= MapThenSumSet(amount, born)

\* "The queue row always happens" (escalation.ts): a ladder past its escalation has put
\* the case in front of a person. The code does not keep it when a rung's step dies
\* between its action row and its queue row: the retry takes the one for a replay.
EveryRungQueued ==
  \A c \in Case \ Holdout : \A r \in 0 .. Len(Rungs) - 1 :
    Rungs[r + 1] = "escalate_to_human" /\ ladder[c].rung > r => queue[<<c, r>>] # NoRow

=============================================================================
