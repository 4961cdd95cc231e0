------------------------------ MODULE Recovery ------------------------------
(***************************************************************************)
(* One failed order from its first webhook to the end of its case: the     *)
(* ingest handlers, the durable ladder (run-ladder and executeRung), the   *)
(* resume switch and the deadline sweep, all moving the same rows.         *)
(*                                                                         *)
(* Time is abstracted: a rung may be attempted at any moment, a deadline   *)
(* may pass at any moment.  A transitionCase is one step except in the     *)
(* webhook handlers and the close of a ladder, where losing the race       *)
(* between its SELECT and its UPDATE changes what the caller does next.    *)
(* One order is at stake, so "the live case of the order" needs no key.    *)
(***************************************************************************)
EXTENDS CaseMachine, Naturals, FiniteSets

CONSTANTS Case, None,
          Failed,       \* payment.failed deliveries of the order
          AlreadyPaid,  \* payment.failed deliveries diagnosed order_already_paid
          Paid,         \* order.paid / payment.captured deliveries
          Cancelled,    \* subscription.cancelled deliveries
          Waker,        \* concurrent resume passes: the switch and the sweep
          Rungs,        \* length of the policy's ladder
          Channel,      \* where a nudge can go: WhatsApp, email
          Fanout,       \* the rungs marked fanout: every channel at once
          MaxAttempts,  \* a delivery is redriven until it failed this often
          Retries,      \* Inngest's retries of one step of run-ladder
          SweepBatch,   \* the LIMIT of claimExpiredCases
          MaxCrowd,     \* rows of other orders past their deadline, at most
          FaultKind,    \* what may go wrong: a subset of AnyFault
          MaxResumes, MaxToggles, MaxFaults   \* bounds of the model

Hook == Failed \cup AlreadyPaid \cup Paid \cup Cancelled
Rung == 1..Rungs
RunKey == Case \X (0..MaxResumes)    \* runKeyFor: the case id, or <case>:r<n>

\* A call throws and did nothing; its answer is lost after it took effect; the
\* process dies.
AnyFault == {"throw", "lost", "die"}

ASSUME NoneAssumption == None \notin Case
ASSUME BoundAssumption ==
  /\ FaultKind \subseteq AnyFault /\ Fanout \subseteq Rung
  /\ {Rungs, MaxAttempts, Retries, MaxResumes, MaxToggles, MaxFaults, SweepBatch, MaxCrowd}
       \subseteq Nat

VARIABLES
  cases,    \* recovery_cases: state and resume_count of each row
  hooks,    \* each delivery: its webhook_events row and the handler working on it
  runs,     \* Inngest: the run of each run key
  wakers,   \* each resume pass and the case it is working on
  sweep,    \* close-expired: the rows it has listed and not yet come to
  actions,  \* case_actions: the rungs of each case already recorded
  touched,  \* messages sent per case, rung and channel
  late,     \* history: the messages each run sent after its case had ended
  orphans,  \* history: claims whose resume pass died before it published them
  world,    \* what the program does not control: see World
  faults    \* crashes and failed calls so far, at most MaxFaults

vars == <<cases, hooks, runs, wakers, sweep, actions, touched, late, orphans, world, faults>>

HookRow == [pc : {"new", "claimed", "found", "update", "publish", "resolve", "finish",
                  "processed", "unprocessed"},
            case : Case \cup {None}, from : CaseState \cup {"absent"},
            attempts : Nat, opened : SUBSET Case]

\* stop: a case/resolved event has matched this run (cancelOn).  deferred: the
\* gate has deferred the current rung at least once.  left: the channels the rung
\* goes out on and has not come to.
Run == [pc : {"none", "queued", "gate", "act", "send", "pausing", "paused",
              "closing", "closeUpdate", "done"},
        rung : 1..(Rungs + 1), tries : Nat, to : {"lost", "aborted"},
        from : CaseState \cup {"absent"}, stop : BOOLEAN, deferred : BOOLEAN,
        left : SUBSET Channel]

WakerRow == [pc : {"idle", "listed", "publish", "repause"},
             case : Case \cup {None}, to : {"executing", "lost", "aborted"},
             n : 0..MaxResumes]    \* the resume count its claim was given

SweepPass == [pc : {"idle", "closing"}, rows : SUBSET Case]

World == [enabled : BOOLEAN,      \* merchants.execution_enabled
          toggles : Nat,
          optedOut : BOOLEAN,     \* the customer's opt-out
          expired : SUBSET Case,  \* the cases whose deadline has passed
          crowd : 0..MaxCrowd]    \* live rows of other orders past theirs

TypeOK == /\ cases \in [Case -> [state : CaseState \cup {"absent"}, resumes : 0..MaxResumes]]
          /\ hooks \in [Hook -> HookRow]
          /\ runs \in [RunKey -> Run]
          /\ wakers \in [Waker -> WakerRow]
          /\ actions \subseteq Case \X Rung
          /\ sweep \in SweepPass
          /\ touched \in [Case \X Rung \X Channel -> Nat]
          /\ late \in [RunKey -> SUBSET (Rung \X Channel)]
          /\ orphans \subseteq RunKey
          /\ world \in World
          /\ faults \in Nat

Init == /\ cases = [c \in Case |-> [state |-> "absent", resumes |-> 0]]
        /\ hooks = [h \in Hook |-> [pc |-> "new", case |-> None, from |-> "absent",
                                    attempts |-> 0, opened |-> {}]]
        /\ runs = [r \in RunKey |-> [pc |-> "none", rung |-> 1, tries |-> 0,
                                     to |-> "lost", from |-> "executing", stop |-> FALSE,
                                     deferred |-> FALSE, left |-> {}]]
        /\ wakers = [w \in Waker |-> [pc |-> "idle", case |-> None, to |-> "executing", n |-> 0]]
        /\ sweep = [pc |-> "idle", rows |-> {}]
        /\ actions = {}
        /\ touched = [x \in Case \X Rung \X Channel |-> 0]
        /\ late = [r \in RunKey |-> {}]
        /\ orphans = {}
        /\ world = [enabled |-> TRUE, toggles |-> 0, optedOut |-> FALSE, expired |-> {}, crowd |-> 0]
        /\ faults = 0

StateOf(c) == cases[c].state
Live(c) == StateOf(c) \in LiveState
Ended(c) == isTerminal(StateOf(c))

\* transitionCase in one step: the row after a request that may be refused.
Transition(c, to, reason) ==
  cases' = [cases EXCEPT ![c].state = IF transition(@, to, reason) THEN to ELSE @]

\* inngest.send of case/diagnosed: one run per run key, ever.
Publish(r) == [runs EXCEPT ![r].pc = IF @ = "none" THEN "queued" ELSE @]

Fault(kind) == kind \in FaultKind /\ faults < MaxFaults /\ faults' = faults + 1

----------------------------------------------------------------------------
(* The webhook handlers.                                                    *)

HookAt(h, from, to) == hooks[h].pc = from /\ hooks' = [hooks EXCEPT ![h].pc = to]

\* recordWebhook claims the delivery; Razorpay's own retries are no-ops.
HookClaim(h) ==
  /\ HookAt(h, "new", "claimed")
  /\ UNCHANGED <<cases, runs, wakers, sweep, actions, touched, late, orphans, world, faults>>

\* handlePaymentFailed, createCase: the order's live case, or a fresh row.
HookCreate(h) ==
  /\ h \in Failed \cup AlreadyPaid
  /\ hooks[h].pc = "claimed"
  /\ \E c \in Case :
       \/ /\ Live(c)
          /\ hooks' = [hooks EXCEPT ![h].pc = "found", ![h].case = c]
          /\ UNCHANGED cases
       \/ /\ StateOf(c) = "absent"
          /\ ~ \E d \in Case : Live(d)
          /\ cases' = [cases EXCEPT ![c].state = "detected"]
          /\ hooks' = [hooks EXCEPT ![h].pc = "found", ![h].case = c, ![h].opened = @ \cup {c}]
  /\ UNCHANGED <<runs, wakers, sweep, actions, touched, late, orphans, world, faults>>

\* handlePaymentSucceeded and handleCaseAborted look for the order's live case.
HookFind(h) ==
  /\ h \in Paid \cup Cancelled
  /\ hooks[h].pc = "claimed"
  /\ \/ \E c \in Case : /\ Live(c)
                        /\ hooks' = [hooks EXCEPT ![h].pc = "found", ![h].case = c]
     \/ /\ ~ \E c \in Case : Live(c)
        /\ hooks' = [hooks EXCEPT ![h].pc = "finish"]
  /\ UNCHANGED <<cases, runs, wakers, sweep, actions, touched, late, orphans, world, faults>>

Goal(h) == IF h \in Failed THEN <<"diagnosed", "diagnosed">>
           ELSE IF h \in AlreadyPaid THEN <<"aborted", "already_paid">>
           ELSE IF h \in Paid THEN <<"recovered", "payment_received">>
           ELSE <<"aborted", "manual_abort">>

\* What processEvent does after transitionCase answered ok or not: a diagnosed
\* failure publishes its ladder either way, the money's arrival publishes
\* case/resolved only when this delivery closed the case, an abort publishes nothing.
AfterTransition(h, ok) == IF h \in Failed THEN "publish"
                          ELSE IF h \in Paid /\ ok THEN "resolve"
                          ELSE "finish"

\* transitionCase's SELECT and validation.
HookRead(h) ==
  /\ hooks[h].pc = "found"
  /\ LET s == StateOf(hooks[h].case)
     IN hooks' = [hooks EXCEPT ![h].from = s,
                               ![h].pc = IF transition(s, Goal(h)[1], Goal(h)[2])
                                         THEN "update" ELSE AfterTransition(h, FALSE)]
  /\ UNCHANGED <<cases, runs, wakers, sweep, actions, touched, late, orphans, world, faults>>

\* Faulty variant: the UPDATE does not re-assert the state that was read.
HookUpdateBlind(h) ==
  /\ hooks[h].pc = "update"
  /\ cases' = [cases EXCEPT ![hooks[h].case].state = Goal(h)[1]]
  /\ hooks' = [hooks EXCEPT ![h].pc = AfterTransition(h, TRUE)]
  /\ UNCHANGED <<runs, wakers, sweep, actions, touched, late, orphans, world, faults>>

\* Its UPDATE, guarded on the state that was read.
HookUpdate(h) ==
  /\ hooks[h].pc = "update"
  /\ LET c == hooks[h].case
         won == StateOf(c) = hooks[h].from
     IN /\ cases' = [cases EXCEPT ![c].state = IF won THEN Goal(h)[1] ELSE @]
        /\ hooks' = [hooks EXCEPT ![h].pc = AfterTransition(h, won)]
  /\ UNCHANGED <<runs, wakers, sweep, actions, touched, late, orphans, world, faults>>

HookPublish(h) ==
  /\ HookAt(h, "publish", "finish")
  /\ runs' = Publish(<<hooks[h].case, 0>>)
  /\ UNCHANGED <<cases, wakers, sweep, actions, touched, late, orphans, world, faults>>

Started(r) == runs[r].pc \notin {"none", "done"}

\* case/resolved matches every run of the case there is (cancelOn).
HookResolve(h) ==
  /\ HookAt(h, "resolve", "finish")
  /\ runs' = [r \in RunKey |-> [runs[r] EXCEPT !.stop = @ \/ (r[1] = hooks[h].case /\ Started(r))]]
  /\ UNCHANGED <<cases, wakers, sweep, actions, touched, late, orphans, world, faults>>

HookMark(h) ==
  /\ HookAt(h, "finish", "processed")
  /\ UNCHANGED <<cases, runs, wakers, sweep, actions, touched, late, orphans, world, faults>>

Handling(h) == hooks[h].pc \in {"claimed", "found", "update", "publish", "resolve", "finish"}

\* A statement or a publish throws: processClaimedEvent records the failure.
HookThrow(h) ==
  /\ Handling(h) /\ Fault("throw")
  /\ hooks' = [hooks EXCEPT ![h].pc = "unprocessed", ![h].attempts = @ + 1]
  /\ UNCHANGED <<cases, runs, wakers, sweep, actions, touched, late, orphans, world>>

\* The invocation dies: the claim stays and nothing records the failure.
HookDie(h) ==
  /\ Handling(h) /\ Fault("die")
  /\ hooks' = [hooks EXCEPT ![h].pc = "unprocessed"]
  /\ UNCHANGED <<cases, runs, wakers, sweep, actions, touched, late, orphans, world>>

\* redriveWebhooks runs the whole handler again from the stored payload.  Which
\* deliveries a pass gets to is for Deliveries to say: here any may be, or never.
Redrive(h) ==
  /\ hooks[h].attempts < MaxAttempts
  /\ HookAt(h, "unprocessed", "claimed")
  /\ UNCHANGED <<cases, runs, wakers, sweep, actions, touched, late, orphans, world, faults>>

----------------------------------------------------------------------------
(* run-ladder.  A run sits at "gate" while it sleeps towards its rung.      *)

Goto(r, pc) == runs' = [runs EXCEPT ![r].pc = pc]

\* The rung is over, whatever came of it; after the last the ladder is complete.
NextRung(r) ==
  runs' = [runs EXCEPT ![r].pc = IF runs[r].rung = Rungs THEN "done" ELSE "gate",
                       ![r].rung = @ + 1, ![r].tries = 0, ![r].deferred = FALSE,
                       ![r].left = {}]

\* mark-executing (its answer is ignored) and load-case; an empty ladder is complete.
RunStart(r) ==
  /\ runs[r].pc = "queued"
  /\ Transition(r[1], "executing", "ladder_started")
  /\ Goto(r, IF Rungs = 0 THEN "done" ELSE "gate")
  /\ UNCHANGED <<hooks, wakers, sweep, actions, touched, late, orphans, world, faults>>

\* Faulty variant: the gate does not look for the money.
RunGatherBlind(r) ==
  /\ runs[r].pc = "gate"
  /\ runs' = [runs EXCEPT ![r].pc =
       IF ~world.enabled THEN "pausing"
       ELSE IF r[1] \in world.expired \/ world.optedOut THEN "done"
       ELSE "act"]
  /\ UNCHANGED <<cases, hooks, wakers, sweep, actions, touched, late, orphans, world, faults>>

\* gatherFacts and evaluatePreconditions, in the gate's order.  Of the case's
\* state it reads only "recovered"; closing such a case changes nothing.  The
\* pause is acted on only at a rung's first attempt: met after a deferral, it
\* ends the rung like any other outcome.
RunGather(r) ==
  /\ runs[r].pc = "gate"
  /\ LET c == r[1]
     IN IF ~world.enabled /\ runs[r].deferred THEN NextRung(r)
        ELSE runs' = [runs EXCEPT ![r] =
               IF ~world.enabled THEN [@ EXCEPT !.pc = "pausing"]
               ELSE IF StateOf(c) = "recovered" THEN [@ EXCEPT !.pc = "done"]
               ELSE IF c \in world.expired THEN [@ EXCEPT !.pc = "closing", !.to = "lost"]
               ELSE IF world.optedOut THEN [@ EXCEPT !.pc = "closing", !.to = "aborted"]
               ELSE [@ EXCEPT !.pc = "act"]]
  /\ UNCHANGED <<cases, hooks, wakers, sweep, actions, touched, late, orphans, world, faults>>

GateOpen(c) == world.enabled /\ StateOf(c) # "recovered" /\ c \notin world.expired /\ ~world.optedOut

\* "Not right now" (the cap, the gap, quiet hours, a live attempt): ask again later.
RunDefer(r) ==
  /\ runs[r].pc = "gate" /\ GateOpen(r[1])
  /\ runs' = [runs EXCEPT ![r].deferred = TRUE]
  /\ UNCHANGED <<cases, hooks, wakers, sweep, actions, touched, late, orphans, world, faults>>

\* The gate passes but no channel fits, or the deferrals run out: next rung.
RunGiveUpRung(r) ==
  /\ runs[r].pc = "gate" /\ GateOpen(r[1])
  /\ NextRung(r)
  /\ UNCHANGED <<cases, hooks, wakers, sweep, actions, touched, late, orphans, world, faults>>

\* Where a rung goes out: on every channel that can reach the customer when it is
\* a fanout rung, else on the first of them.  A rung that sends nothing (an
\* escalation, a message that cannot be composed) goes like one refused on all.
Targets(n) == IF n \in Fanout THEN SUBSET Channel \ {{}} ELSE {{ch} : ch \in Channel}

StartSending(r) ==
  \E channels \in Targets(runs[r].rung) :
     runs' = [runs EXCEPT ![r].pc = "send", ![r].left = channels]

\* Faulty variant: a replay is not recognised.
RunActNoKey(r) ==
  /\ runs[r].pc = "act"
  /\ actions' = actions \cup {<<r[1], runs[r].rung>>}
  /\ StartSending(r)
  /\ UNCHANGED <<cases, hooks, wakers, sweep, touched, late, orphans, world, faults>>

\* The action row, ON CONFLICT DO NOTHING: a replay skips the rung.
RunAct(r) ==
  /\ runs[r].pc = "act"
  /\ LET slot == <<r[1], runs[r].rung>>
     IN /\ actions' = actions \cup {slot}
        /\ IF slot \in actions THEN NextRung(r) ELSE StartSending(r)
  /\ UNCHANGED <<cases, hooks, wakers, sweep, touched, late, orphans, world, faults>>

\* One turn of the loop over the rung's channels.  sendMessage re-reads the opt-out
\* and the cap, not the case; a refusal does not stop the other channels.
RunSend(r) ==
  /\ runs[r].pc = "send"
  /\ \E ch \in runs[r].left :
       /\ runs' = [runs EXCEPT ![r].left = @ \ {ch}]
       /\ \/ /\ ~world.optedOut
             /\ touched' = [touched EXCEPT ![<<r[1], runs[r].rung, ch>>] = @ + 1]
             /\ late' = [late EXCEPT ![r] =
                           IF Ended(r[1]) THEN @ \cup {<<runs[r].rung, ch>>} ELSE @]
          \/ UNCHANGED <<touched, late>>
  /\ UNCHANGED <<cases, hooks, wakers, sweep, actions, orphans, world, faults>>

\* Every channel has had its turn: the counters, current_rung and rung_fired, or a
\* skip when all refused; then the step is memoised.
RunRecordRung(r) ==
  /\ runs[r].pc = "send" /\ runs[r].left = {}
  /\ NextRung(r)
  /\ UNCHANGED <<cases, hooks, wakers, sweep, actions, touched, late, orphans, world, faults>>

\* An attempt dies anywhere: Inngest runs the whole step again, from the facts,
\* and fails the run when the retries are used up.
RunRetryAttempt(r) ==
  /\ runs[r].pc \in {"act", "send"} /\ Fault("die")
  /\ runs' = [runs EXCEPT ![r].pc = IF runs[r].tries = Retries THEN "done" ELSE "gate",
                          ![r].tries = @ + 1, ![r].left = {}]
  /\ UNCHANGED <<cases, hooks, wakers, sweep, actions, touched, late, orphans, world>>

\* The pause step; the run ends once Inngest has the step's answer.
RunPause(r) ==
  /\ runs[r].pc = "pausing"
  /\ Transition(r[1], "paused", "paused_by_merchant")
  /\ Goto(r, "paused")
  /\ UNCHANGED <<hooks, wakers, sweep, actions, touched, late, orphans, world, faults>>

RunEndPaused(r) ==
  /\ runs[r].pc = "paused"
  /\ Goto(r, "done")
  /\ UNCHANGED <<cases, hooks, wakers, sweep, actions, touched, late, orphans, world, faults>>

\* The answer is lost after the UPDATE committed: the step runs again.
RunRetryPause(r) ==
  /\ runs[r].pc = "paused" /\ Fault("lost")
  /\ Goto(r, "pausing")
  /\ UNCHANGED <<cases, hooks, wakers, sweep, actions, touched, late, orphans, world>>

\* closeCaseFromGate, SELECT then guarded UPDATE; a lost race is `unchanged`,
\* and the run ends without publishing case/resolved.
RunCloseRead(r) ==
  /\ runs[r].pc = "closing"
  /\ LET s == StateOf(r[1])
     IN runs' = [runs EXCEPT ![r].from = s,
                             ![r].pc = IF canTransition(s, runs[r].to) THEN "closeUpdate" ELSE "done"]
  /\ UNCHANGED <<cases, hooks, wakers, sweep, actions, touched, late, orphans, world, faults>>

RunCloseUpdate(r) ==
  /\ runs[r].pc = "closeUpdate"
  /\ cases' = [cases EXCEPT ![r[1]].state = IF @ = runs[r].from THEN runs[r].to ELSE @]
  /\ Goto(r, "done")
  /\ UNCHANGED <<hooks, wakers, sweep, actions, touched, late, orphans, world, faults>>

\* cancelOn takes effect between two steps, never inside one.
RunCancel(r) ==
  /\ runs[r].stop
  /\ runs[r].pc \in {"queued", "gate", "pausing", "closing"}
  /\ Goto(r, "done")
  /\ UNCHANGED <<cases, hooks, wakers, sweep, actions, touched, late, orphans, world, faults>>

----------------------------------------------------------------------------
(* Resuming paused cases: the switch (apply) and the sweep's backstop       *)
(* (resumeAllLiveMerchants) list, classify, then claim or close.            *)

WakerAt(w, from, to) == wakers[w].pc = from /\ wakers' = [wakers EXCEPT ![w].pc = to]

\* Past its deadline a case is lost; otherwise it is woken, or closed because it
\* is too old or the operator declined.
WakeList(w) ==
  /\ wakers[w].pc = "idle"
  /\ world.enabled
  /\ \E c \in Case, to \in {"executing", "lost", "aborted"} :
       /\ StateOf(c) = "paused"
       /\ (to = "lost") = (c \in world.expired)
       /\ cases[c].resumes < MaxResumes
       /\ wakers' = [wakers EXCEPT ![w] = [pc |-> "listed", case |-> c, to |-> to, n |-> 0]]
  /\ UNCHANGED <<cases, hooks, runs, sweep, actions, touched, late, orphans, world, faults>>

\* claimPausedCaseForResume: the claim is the UPDATE.
WakeClaim(w) ==
  /\ wakers[w].pc = "listed" /\ wakers[w].to = "executing"
  /\ LET c == wakers[w].case
         won == StateOf(c) = "paused" /\ cases[c].resumes < MaxResumes
     IN /\ cases' = IF won THEN [cases EXCEPT ![c] = [state |-> "executing", resumes |-> @.resumes + 1]]
                    ELSE cases
        /\ wakers' = [wakers EXCEPT ![w].pc = IF won THEN "publish" ELSE "idle",
                                   ![w].n = cases'[c].resumes]
  /\ UNCHANGED <<hooks, runs, sweep, actions, touched, late, orphans, world, faults>>

\* The publish, under the run key of this claim.
WakePublish(w) ==
  /\ WakerAt(w, "publish", "idle")
  /\ runs' = Publish(<<wakers[w].case, wakers[w].n>>)
  /\ UNCHANGED <<cases, hooks, sweep, actions, touched, late, orphans, world, faults>>

\* The publish throws; Inngest may have accepted the event all the same.
WakePublishThrows(w) ==
  /\ WakerAt(w, "publish", "repause")
  /\ \/ Fault("throw") /\ UNCHANGED runs
     \/ Fault("lost") /\ runs' = Publish(<<wakers[w].case, wakers[w].n>>)
  /\ UNCHANGED <<cases, hooks, sweep, actions, touched, late, orphans, world>>

\* Faulty variant: a failed publish is only reported.
WakeRepauseNothing(w) ==
  /\ WakerAt(w, "repause", "idle")
  /\ UNCHANGED <<cases, hooks, runs, sweep, actions, touched, late, orphans, world, faults>>

\* repausePausedCase, guarded on "executing".
WakeRepause(w) ==
  /\ WakerAt(w, "repause", "idle")
  /\ cases' = [cases EXCEPT ![wakers[w].case].state = IF @ = "executing" THEN "paused" ELSE @]
  /\ UNCHANGED <<hooks, runs, sweep, actions, touched, late, orphans, world, faults>>

\* closePausedCase, the same conditional UPDATE.
WakeClose(w) ==
  /\ wakers[w].to # "executing"
  /\ WakerAt(w, "listed", "idle")
  /\ cases' = [cases EXCEPT ![wakers[w].case].state = IF @ = "paused" THEN wakers[w].to ELSE @]
  /\ UNCHANGED <<hooks, runs, sweep, actions, touched, late, orphans, world, faults>>

\* The pass dies.  Between the claim and the publish that leaves the case
\* "executing" with no run to come.
WakeDie(w) ==
  /\ wakers[w].pc # "idle" /\ Fault("die")
  /\ wakers' = [wakers EXCEPT ![w].pc = "idle"]
  /\ orphans' = IF wakers[w].pc = "listed" THEN orphans
                ELSE orphans \cup {<<wakers[w].case, wakers[w].n>>}
  /\ UNCHANGED <<cases, hooks, runs, sweep, actions, touched, late, world>>

----------------------------------------------------------------------------
(* The sweep's expiry pass, and the world.                                  *)

Overdue == {c \in Case : Live(c) /\ c \in world.expired}

\* claimExpiredCases: SweepBatch of the rows past their deadline in no order, with
\* those of other orders among them.
SweepList ==
  /\ sweep.pc = "idle" /\ Overdue # {}
  /\ \E rows \in SUBSET Overdue, others \in 0..world.crowd :
       LET listed == Cardinality(rows) + others
       IN /\ listed <= SweepBatch
          /\ rows # Overdue \/ others # world.crowd => listed = SweepBatch
          /\ sweep' = [pc |-> "closing", rows |-> rows]
  /\ UNCHANGED <<cases, hooks, runs, wakers, actions, touched, late, orphans, world, faults>>

\* The pass after the row of c; it ends with the last of its rows.
Without(c) == [pc |-> IF sweep.rows = {c} THEN "idle" ELSE "closing", rows |-> sweep.rows \ {c}]

\* Faulty variant: a parked case is left to the resume pass.
SweepExpireRunning(c) ==
  /\ c \in sweep.rows
  /\ IF StateOf(c) = "paused" THEN UNCHANGED cases ELSE Transition(c, "lost", "deadline_passed")
  /\ sweep' = Without(c)
  /\ UNCHANGED <<hooks, runs, wakers, actions, touched, late, orphans, world, faults>>

\* A transition to lost, refused for a "detected" case: the next pass lists it again.
SweepExpire(c) ==
  /\ c \in sweep.rows
  /\ Transition(c, "lost", "deadline_passed")
  /\ sweep' = Without(c)
  /\ UNCHANGED <<hooks, runs, wakers, actions, touched, late, orphans, world, faults>>

\* A pass that was given none of these rows.
SweepEnd ==
  /\ sweep = [pc |-> "closing", rows |-> {}]
  /\ sweep' = [sweep EXCEPT !.pc = "idle"]
  /\ UNCHANGED <<cases, hooks, runs, wakers, actions, touched, late, orphans, world, faults>>

\* The step dies part-way and is run again.
SweepDie ==
  /\ sweep.pc = "closing" /\ Fault("die")
  /\ sweep' = [pc |-> "idle", rows |-> {}]
  /\ UNCHANGED <<cases, hooks, runs, wakers, actions, touched, late, orphans, world>>

DeadlinePasses(c) ==
  /\ Live(c) /\ c \notin world.expired
  /\ world' = [world EXCEPT !.expired = @ \cup {c}]
  /\ UNCHANGED <<cases, hooks, runs, wakers, sweep, actions, touched, late, orphans, faults>>

Toggle ==
  /\ world.toggles < MaxToggles
  /\ world' = [world EXCEPT !.enabled = ~@, !.toggles = @ + 1]
  /\ UNCHANGED <<cases, hooks, runs, wakers, sweep, actions, touched, late, orphans, faults>>

OptOut ==
  /\ ~world.optedOut
  /\ world' = [world EXCEPT !.optedOut = TRUE]
  /\ UNCHANGED <<cases, hooks, runs, wakers, sweep, actions, touched, late, orphans, faults>>

\* Other orders run past their deadlines and are closed, in any number.
Crowd ==
  /\ \E n \in 0..MaxCrowd : world' = [world EXCEPT !.crowd = n]
  /\ UNCHANGED <<cases, hooks, runs, wakers, sweep, actions, touched, late, orphans, faults>>

----------------------------------------------------------------------------
Handle(h) == \/ HookCreate(h) \/ HookFind(h) \/ HookRead(h) \/ HookUpdate(h)
             \/ HookPublish(h) \/ HookResolve(h) \/ HookMark(h)

Ladder(r) == \/ RunStart(r) \/ RunGather(r) \/ RunAct(r) \/ RunSend(r) \/ RunRecordRung(r)
             \/ RunPause(r) \/ RunEndPaused(r) \/ RunCloseRead(r) \/ RunCloseUpdate(r)
             \/ RunCancel(r)

Wake(w) == \/ WakeList(w) \/ WakeClaim(w) \/ WakePublish(w) \/ WakeRepause(w) \/ WakeClose(w)

Sweep == SweepList \/ SweepEnd \/ \E c \in Case : SweepExpire(c)

Faulty == \/ \E h \in Hook : HookThrow(h) \/ HookDie(h)
          \/ \E r \in RunKey : RunRetryAttempt(r) \/ RunRetryPause(r)
          \/ \E w \in Waker : WakePublishThrows(w) \/ WakeDie(w)
          \/ SweepDie

Next == \/ \E h \in Hook : HookClaim(h) \/ Handle(h) \/ Redrive(h)
        \/ \E r \in RunKey : Ladder(r) \/ RunDefer(r) \/ RunGiveUpRung(r)
        \/ \E w \in Waker : Wake(w)
        \/ Sweep
        \/ \E c \in Case : DeadlinePasses(c)
        \/ Toggle \/ OptOut \/ Crowd \/ Faulty

Spec == Init /\ [][Next]_vars

\* Time goes on and the cron runs the sweep.  Nothing else need ever happen: no
\* delivery, no step of a ladder, no resume, no redrive.
FairSpec == /\ Spec
            /\ \A c \in Case : WF_vars(DeadlinePasses(c))
            /\ WF_vars(Sweep)

----------------------------------------------------------------------------
(* What must hold whatever fails.                                           *)

(* A rung of a case reaches the customer at most once on each channel,      *)
(* through retried attempts, ladders resumed from rung 0 and even two        *)
(* ladders at a time.                                                        *)
RungFiresOnce == \A x \in Case \X Rung \X Channel : touched[x] <= 1

\* All a run sent after the end of its case is the rest of one rung: one message,
\* unless that rung goes out on several channels.
RestOfOneRung(r) == \A x, y \in late[r] : x = y \/ (x[1] = y[1] /\ x[1] \in Fanout)

(* Once a case is recovered or lost, each of its ladders sends at most the   *)
(* rest of the rung already past its gate, although neither the end of a     *)
(* case nor case/resolved interrupts a step, the loop over a rung's channels *)
(* never looks at the case, and case/resolved may never be sent.             *)
EndedIsSilent ==
  \A r \in RunKey : StateOf(r[1]) \in {"recovered", "lost"} => RestOfOneRung(r)

(* Handlers, ladders, resume passes and the sweep together move cases only  *)
(* along the machine's table, and never open a second live case.            *)
Lifecycle == INSTANCE CaseLifecycle
               WITH Order <- {"order"}, Invoice <- {},
                    state <- [c \in Case |-> StateOf(c)],
                    key <- [c \in Case |->
                              [order |-> IF StateOf(c) = "absent" THEN None ELSE "order",
                               invoice |-> None]]

RefinesLifecycle == Lifecycle!Spec

LeavesOut(c) == SweepList /\ c \in Overdue /\ c \notin sweep'.rows

(* A case that got past its diagnosis ends, even if no handler, ladder or    *)
(* resume pass ever moves again: the deadline sweep closes it in every       *)
(* state, unless pass after pass its LIMIT leaves the case out.              *)
CasesEnd ==
  \A c \in Case : \/ StateOf(c) \in {"diagnosed", "executing", "paused"} ~> Ended(c)
                  \/ []<><<LeavesOut(c)>>_vars

----------------------------------------------------------------------------
(* What holds while no answer is lost after its call took effect.           *)

Active(r) == runs[r].pc \in {"queued", "gate", "act", "send"}

(* Two ladders never work on one case at a time: run keys, the resume claim *)
(* and the re-park after a failed publish keep them apart.                  *)
NoDoubleLadder ==
  \A q, r \in RunKey : q[1] = r[1] /\ Active(q) /\ Active(r) => q = r

(* A case claimed for its nth resume has its nth run, or a resume pass that  *)
(* still owes it that run or the way back to "paused"; failing both, the     *)
(* pass that claimed it has died on the way.                                 *)
ClaimedHasRun ==
  \A c \in Case :
     StateOf(c) = "executing" /\ cases[c].resumes > 0
       => \/ runs[<<c, cases[c].resumes>>].pc # "none"
          \/ \E w \in Waker : wakers[w].case = c /\ wakers[w].pc \in {"publish", "repause"}
          \/ <<c, cases[c].resumes>> \in orphans

(* A claim of a parked case and the ladder it is for come as a pair, however *)
(* many resume passes overlap, whatever the publish throws and wherever a    *)
(* process dies; only a death between the two leaves the claim alone.        *)
OneLadderPerClaim == TypeOK /\ NoDoubleLadder /\ ClaimedHasRun

----------------------------------------------------------------------------
(* What the documentation says and the code does not do.                    *)

(* "order_already_paid closes the case and cancels everything queued": a    *)
(* ladder sends no more than the rung in flight once its case is aborted.    *)
AbortCancelsLadder == \A r \in RunKey : StateOf(r[1]) = "aborted" => RestOfOneRung(r)

(* "The money arrived: close the case before anything can be sent": once a  *)
(* payment's delivery that found a live case is processed, the case is over. *)
PaidClosesCase ==
  \A h \in Paid : hooks[h].pc = "processed" /\ hooks[h].case # None => Ended(hooks[h].case)

(* "Without dedupe a retried payment.failed creates a second recovery case  *)
(* for the same order": with it, a delivery that opened a case the customer  *)
(* then paid never opens another.                                           *)
OneCasePerDelivery ==
  \A h \in Hook : \A c, d \in hooks[h].opened : StateOf(c) = "recovered" => c = d

(* Executing disabled means "the case is parked in paused": a ladder that    *)
(* meets a paused account at its gate never just runs out.                  *)
PauseParks ==
  [][\A r \in RunKey : runs[r].pc = "gate" /\ runs'[r].pc = "done" /\ ~world.enabled
        => runs[r].stop]_vars
=============================================================================
