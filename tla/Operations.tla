----------------------------- MODULE Operations -----------------------------
(* The side of the system that faces people rather than customers, put       *)
(* together: the queue and the alerts (Escalations), the page they are worked *)
(* from (Console) and the triage of unknown reasons (Triage). A shift says    *)
(* who is about: it bounds how many actors interleave, not what they do.      *)
EXTENDS Console, Triage

CONSTANTS Shifts,   \* bound: who works at the same time
          Page,     \* the page's name in a shift
          Night     \* in a shift, that the gate has reasons to defer

VARIABLE shift

vars == <<evars, pvars, tvars, shift>>

Init ==
  /\ shift \in Shifts
  /\ EscalationsInit
  /\ PageInit(Page \in shift)
  /\ TriageInit

LadderStep(c) ==
  \/ OpenCase(c)
  \/ Recover(c)
  \/ Ages(c)
  \/ Night \in shift /\ Defer(c)
  \/ RecordAction(c)
  \/ WriteBrief(c)
  \/ CreateEscalation(c)
  \/ TellEscalated(c)
  \/ CountCluster(c)
  \/ RaiseAlert(c)
  \/ TellAlerted(c)
  \/ Advance(c)
  \/ StepDies(c)

HandStep(h) ==
  \/ \E c \in Case : HandBegins(h, c)
  \/ HandCreates(h)
  \/ HandTells(h)
  \/ HandDies(h)

\* Someone else at the queue, from a page that may be out of date or from the script.
\* What the person does next is another of that person's actions.
Leaves(p) ==
  /\ people[p].at = "answered" /\ p # Viewer
  /\ people' = [people EXCEPT ![p].at = "idle"]
  /\ UNCHANGED <<cases, ladder, actions, queue, trail, fired, alerted, deferred, alerts,
                 hands, said, faults>>

PersonStep(p) ==
  \/ RouteUpdates(p)
  \/ Leaves(p)
  \/ /\ p # Viewer
     /\ \E k \in Key, act \in {"acknowledge", "resolve", "dismiss"} :
          RouteChecks(p, k, act) \/ ScriptUpdates(p, k, act)

Next ==
  \/ /\ \/ \E c \in Case \cap shift : LadderStep(c)
        \/ \E h \in Hand \cap shift : HandStep(h)
        \/ \E p \in Person \cap shift : PersonStep(p)
        \/ ResolveAlert
     /\ UNCHANGED <<pvars, tvars, shift>>
  \/ /\ PageStep
     /\ UNCHANGED <<evars, tvars, shift>>
  \/ /\ ViewerActs \/ ViewerPolls
     /\ UNCHANGED <<tvars, shift>>
  \/ /\ \/ \E t \in TriageRun \cap shift : TriageStep(t)
        \/ \E r \in Reason : \E i \in DOMAIN proposals[r], d \in {"accepted", "rejected"} :
             ReviewProposal(r, i, d)
     /\ UNCHANGED <<evars, pvars, shift>>

\* The browser's timers fire and its requests are answered; nobody else has to act.
Spec ==
  /\ Init /\ [][Next]_vars
  /\ WF_vars(TimerFires /\ UNCHANGED <<evars, tvars, shift>>)
  /\ \A i \in Polls : WF_vars(PollAnswered(i) /\ UNCHANGED <<evars, tvars, shift>>)

TypeOK == EscalationTypes /\ ConsoleTypes /\ TriageTypes

\* What a rung leaves behind agrees: the trail with the queue, the ledger with both,
\* and a holdout's case with nobody having been told.
RungLeavesItsMark == TypeOK /\ EscalatedOnce /\ FiredIsDelivered /\ HoldoutUntouched

\* What people have been shown does not change under them: a row of the queue and an
\* alert only move forward, and a decision stands.
RecordsMoveForward == QueueMovesForward /\ AlertKeepsItsOnset /\ DecisionStands

\* Overlapping triage runs, whatever fails in them, leave each reason tried and at most
\* one proposal of it to decide.
TriageSettles == OnePendingPerReason /\ TriageReachesAll

\* What is reported of the queue is true: one person per answer, each amount once.
PeopleToldTruly == OneAnswerPerRow /\ MoneyCountedOnce
=============================================================================
