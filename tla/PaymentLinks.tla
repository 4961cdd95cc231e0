---------------------------- MODULE PaymentLinks ----------------------------
(***************************************************************************)
(* The ways to pay one recovery case.  The ladder (or the console) issues  *)
(* one link for the full amount and stores it on the case; every discount  *)
(* call negotiates a price and issues a link of its own.  A payment is     *)
(* recorded by payment_link.paid, by the end-of-call report, and by the    *)
(* deadline sweep.  The sweep and a late rung write the case off.          *)
(*                                                                         *)
(* reference_id is the id of the row that issues the link, and Razorpay    *)
(* takes each once, so a link is known by its reference.  transitionCase   *)
(* is one step here (CaseStore takes it apart): it moves a live case, and  *)
(* may lose its race to a move between live states.                        *)
(***************************************************************************)
EXTENDS Integers

CONSTANTS Call,      \* discount calls placed on the case
          CaseRef,   \* the case's own id, as a reference
          Rung,      \* whoever issues the case's link: rungs, the console
          Tool,      \* handlers at work in one conversation
          Shifts,    \* which of them may be at work on the case together
          Amount,    \* amounts a case may have at risk, in paise
          FaultKind, \* what may go wrong: a subset of AnyFault
          MaxFaults  \* how often

\* Razorpay cannot be reached; an answer or a delivery is lost; transitionCase
\* loses its race; a process dies.
AnyFault == {"throw", "lost", "race", "die"}

ASSUME LinkAssumption == /\ CaseRef \notin Call
                         /\ Amount \subseteq Nat
                         /\ Shifts \subseteq SUBSET (Rung \cup Tool)
                         /\ FaultKind \subseteq AnyFault /\ MaxFaults \in Nat

Ref == Call \cup {CaseRef}

VARIABLES case,    \* the case row: live (diagnosed, executing, paused), or how it ended
          calls,   \* voice_calls
          links,   \* Razorpay's links, by reference
          rungs, tools, reports, hooks, sweep,   \* who is at which step
          late,    \* deadline_at has passed
          faults

vars == <<case, calls, links, rungs, tools, reports, hooks, sweep, late, faults>>

CaseRow == [state : {"live", "recovered", "lost", "aborted"}, atRisk : Amount, link : BOOLEAN,
            recovered : Nat]
CallRow == [tier : 0..2, off : Nat, link : BOOLEAN, price : Nat, confirmed : BOOLEAN]
Link == [status : {"none", "open", "paid"}, price : Nat]

\* The tool calls of a conversation, each between its reading of the row and
\* its writing.
Handler == Call \X Tool
ToolRow == [pc : {"away", "idle", "offer", "create", "record"}, tier : 0..2, paise : Nat]
IdleTool == [pc |-> "idle", tier |-> 0, paise |-> 0]

\* A pass.  For SweepConfirmsFirst it remembers whether the case's link was paid when
\* the pass asked about it (or listed, if it never asks), and what kept it from booking
\* the payment: its list left the case out, Razorpay was out of reach, the race was lost.
SweepRow == [pc : {"idle", "fetch", "close", "expire"}, owed : BOOLEAN,
             excuse : {"none", "leftOut", "unreachable", "refused"}]

TypeOK ==
  /\ case \in CaseRow
  /\ calls \in [Call -> CallRow]
  /\ links \in [Ref -> Link]
  /\ rungs \in [Rung -> {"away", "idle", "giveUp", "abort", "ensure", "create", "store"}]
  /\ tools \in [Handler -> ToolRow]
  /\ reports \in [Call -> {"due", "fetch", "close", "done"}]
  /\ hooks \in [Ref -> {"none", "due", "close"}]
  /\ sweep \in SweepRow
  /\ late \in BOOLEAN
  /\ faults \in 0..MaxFaults

Init ==
  /\ \E a \in Amount : case = [state |-> "live", atRisk |-> a, link |-> FALSE, recovered |-> 0]
  /\ calls = [v \in Call |-> [tier |-> 0, off |-> 0, link |-> FALSE, price |-> 0, confirmed |-> FALSE]]
  /\ links = [r \in Ref |-> [status |-> "none", price |-> 0]]
  /\ \E shift \in Shifts :
       /\ rungs = [r \in Rung |-> IF r \in shift THEN "idle" ELSE "away"]
       /\ tools = [t \in Handler |-> [IdleTool EXCEPT !.pc = IF t[2] \in shift THEN "idle" ELSE "away"]]
  /\ reports = [v \in Call |-> "due"] /\ hooks = [r \in Ref |-> "none"]
  /\ sweep = [pc |-> "idle", owed |-> FALSE, excuse |-> "none"]
  /\ late = FALSE /\ faults = 0

Fault(kind) == kind \in FaultKind /\ faults < MaxFaults /\ faults' = faults + 1

\* Below this Razorpay makes no link.
MinPayable == 100

\* transitionCase, on whatever state the case is in by now.
Recover(paise) ==
  \/ /\ case' = IF case.state = "live" THEN [case EXCEPT !.state = "recovered", !.recovered = paise]
                ELSE case
     /\ UNCHANGED faults
  \/ Fault("race") /\ UNCHANGED case

End(as) == \/ /\ case' = IF case.state = "live" THEN [case EXCEPT !.state = as] ELSE case
              /\ UNCHANGED faults
           \/ Fault("race") /\ UNCHANGED case

\* createPaymentLink succeeds, its answer is lost, or it throws: the reference
\* is taken, or the provider refused.
Created(ref, paise) == links[ref].status = "none"
                       /\ links' = [links EXCEPT ![ref] = [status |-> "open", price |-> paise]]
CreateAnswers(ref, paise) == Created(ref, paise) /\ UNCHANGED faults
CreateThrows(ref, paise) == \/ UNCHANGED <<links, faults>>
                            \/ Created(ref, paise) /\ Fault("lost")

----------------------------------------------------------------------------
(* A rung, or the console's start, and the case's own link.                 *)

RungAt(r, from, to) == rungs[r] = from /\ rungs' = [rungs EXCEPT ![r] = to]

\* gatherFacts can ask Razorpay about the stored link, but no caller hands it a
\* client: of the payment the gate reads only the row's state.  It aborts a case past
\* its deadline, and one that is opted out, without a mandate or without a channel.
\* (Of a case already recovered or lost it closes what is closed.)
RungGather(r) ==
  /\ case.state \in {"live", "aborted"}
  /\ \E to \in IF late THEN {"giveUp"} ELSE {"abort", "ensure"} : RungAt(r, "idle", to)
  /\ UNCHANGED <<case, calls, links, tools, reports, hooks, sweep, late, faults>>

\* closeCaseFromGate.
RungClose(r) ==
  /\ \/ RungAt(r, "giveUp", "idle") /\ End("lost")
     \/ RungAt(r, "abort", "idle") /\ End("aborted")
  /\ UNCHANGED <<calls, links, tools, reports, hooks, sweep, late>>

\* closePausedCase, or subscription.cancelled: ended from elsewhere, paid or not.
CaseAborted ==
  /\ case.state = "live" /\ case' = [case EXCEPT !.state = "aborted"]
  /\ UNCHANGED <<calls, links, rungs, tools, reports, hooks, sweep, late, faults>>

\* ensurePaymentLink: reuse the stored link, or create one.
EnsureRead(r) ==
  /\ RungAt(r, "ensure", IF case.link \/ case.atRisk < MinPayable THEN "idle" ELSE "create")
  /\ UNCHANGED <<case, calls, links, tools, reports, hooks, sweep, late, faults>>

EnsureCreate(r) ==
  /\ \/ RungAt(r, "create", "store") /\ CreateAnswers(CaseRef, case.atRisk)
     \/ RungAt(r, "create", "idle") /\ CreateThrows(CaseRef, case.atRisk)
  /\ UNCHANGED <<case, calls, tools, reports, hooks, sweep, late>>

EnsureStore(r) ==
  /\ RungAt(r, "store", "idle")
  /\ case' = [case EXCEPT !.link = TRUE]
  /\ UNCHANGED <<calls, links, tools, reports, hooks, sweep, late, faults>>

RungDies(r) ==
  /\ rungs[r] \notin {"away", "idle"} /\ rungs' = [rungs EXCEPT ![r] = "idle"] /\ Fault("die")
  /\ UNCHANGED <<case, calls, links, tools, reports, hooks, sweep, late>>

----------------------------------------------------------------------------
(* The conversation: two tools, called while it lasts; the calls may be     *)
(* retried and overlap, and a handler may finish after the conversation.    *)
(* A handler that dies takes no further step: nothing here counts on one.   *)

Least(a, b) == IF a < b THEN a ELSE b

DISCOUNT_TIERS_PAISE == <<20000, 50000>>
DISCOUNT_MAX_PAISE == 50000
Ceiling(order) == Least(DISCOUNT_MAX_PAISE, (order * 3) \div 10)

\* What a tier takes off the order; 0 when nothing is approved.
proposeDiscount(order, requested, already) ==
  IF order <= 0 \/ (requested = 2 /\ already < 1) \/ requested <= already THEN 0
  ELSE Least(DISCOUNT_TIERS_PAISE[requested], Ceiling(order))

ToolStep(t, from, to) == tools[t].pc = from /\ tools' = [tools EXCEPT ![t] = to]

\* handleProposeDiscount asks for one tier more than the row says.
ProposeRead(t) ==
  LET v == t[1]
      tier == Least(calls[v].tier + 1, 2)
      off == proposeDiscount(case.atRisk, tier, calls[v].tier)
  IN /\ reports[v] = "due" /\ off > 0
     /\ ToolStep(t, "idle", [pc |-> "offer", tier |-> tier, paise |-> off])
     /\ UNCHANGED <<case, calls, links, rungs, reports, hooks, sweep, late, faults>>

\* Faulty variant: the new tier comes on top of the old one.
ProposeWriteAdds(t) ==
  /\ ToolStep(t, "offer", IdleTool)
  /\ calls' = [calls EXCEPT ![t[1]].tier = tools[t].tier,
                            ![t[1]].off = @ + tools[t].paise]
  /\ UNCHANGED <<case, links, rungs, reports, hooks, sweep, late, faults>>

\* recordDiscountOffer, an UPDATE by call id.
ProposeWrite(t) ==
  /\ ToolStep(t, "offer", IdleTool)
  /\ calls' = [calls EXCEPT ![t[1]].tier = tools[t].tier,
                            ![t[1]].off = tools[t].paise]
  /\ UNCHANGED <<case, links, rungs, reports, hooks, sweep, late, faults>>

\* handleCreatePaymentLink prices the link from the row it read.
LinkRead(t) ==
  LET v == t[1]
      price == IF calls[v].tier > 0 THEN case.atRisk - calls[v].off ELSE case.atRisk
  IN /\ reports[v] = "due" /\ price >= MinPayable
     /\ ToolStep(t, "idle", [pc |-> "create", tier |-> 0, paise |-> price])
     /\ UNCHANGED <<case, calls, links, rungs, reports, hooks, sweep, late, faults>>

LinkCreate(t) ==
  /\ \/ /\ ToolStep(t, "create", [tools[t] EXCEPT !.pc = "record"])
        /\ CreateAnswers(t[1], tools[t].paise)
     \/ /\ ToolStep(t, "create", IdleTool)
        /\ CreateThrows(t[1], tools[t].paise)
  /\ UNCHANGED <<case, calls, rungs, reports, hooks, sweep, late>>

\* recordPaymentLink; the link is read out and emailed from here on.
LinkRecord(t) ==
  /\ ToolStep(t, "record", IdleTool)
  /\ calls' = [calls EXCEPT ![t[1]].link = TRUE,
                            ![t[1]].price = tools[t].paise]
  /\ UNCHANGED <<case, links, rungs, reports, hooks, sweep, late, faults>>

----------------------------------------------------------------------------
(* The end-of-call report, which asks Razorpay about the call's link.       *)

ReportAt(v, from, to) == reports[v] = from /\ reports' = [reports EXCEPT ![v] = to]

ReportRead(v) ==
  /\ ReportAt(v, "due", IF calls[v].link THEN "fetch" ELSE "done")
  /\ UNCHANGED <<case, calls, links, rungs, tools, hooks, sweep, late, faults>>

\* A paid link is confirmed on the call at once.
ReportFetch(v) ==
  /\ \/ /\ links[v].status = "paid" /\ ReportAt(v, "fetch", "close")
        /\ calls' = [calls EXCEPT ![v].confirmed = TRUE]
        /\ UNCHANGED faults
     \/ /\ links[v].status # "paid" /\ ReportAt(v, "fetch", "done")
        /\ UNCHANGED <<calls, faults>>
     \/ ReportAt(v, "fetch", "done") /\ Fault("throw") /\ UNCHANGED calls
  /\ UNCHANGED <<case, links, rungs, tools, hooks, sweep, late>>

\* Faulty variant: the amount at risk is booked, not what was paid.
ReportCloseAtRisk(v) ==
  /\ ReportAt(v, "close", "done") /\ Recover(case.atRisk)
  /\ UNCHANGED <<calls, links, rungs, tools, hooks, sweep, late>>

ReportClose(v) ==
  /\ ReportAt(v, "close", "done") /\ Recover(calls[v].price)
  /\ UNCHANGED <<calls, links, rungs, tools, hooks, sweep, late>>

----------------------------------------------------------------------------
(* payment_link.paid, resolved by its reference.                            *)

HookAt(ref, from, to) == hooks[ref] = from /\ hooks' = [hooks EXCEPT ![ref] = to]

\* closeVoiceCall marks the call first.
HookConfirm(v) ==
  /\ HookAt(v, "due", "close")
  /\ calls' = [calls EXCEPT ![v].confirmed = TRUE]
  /\ UNCHANGED <<case, links, rungs, tools, reports, sweep, late, faults>>

HookClose(ref) ==
  /\ HookAt(ref, IF ref \in Call THEN "close" ELSE "due", "none") /\ Recover(links[ref].price)
  /\ UNCHANGED <<calls, links, rungs, tools, reports, sweep, late>>

\* The redrive takes the delivery up again.
HookDies(v) ==
  /\ HookAt(v, "close", "due") /\ Fault("die")
  /\ UNCHANGED <<case, calls, links, rungs, tools, reports, sweep, late>>

----------------------------------------------------------------------------
(* The deadline sweep: reconcile the case's link, then write off.           *)

SweepAt(from, to) == sweep.pc = from /\ sweep' = [sweep EXCEPT !.pc = to]

\* The case's stored link was paid and the case does not show it.
Owed == case.state = "live" /\ case.link /\ links[CaseRef].status = "paid"

Awaiting == case.state = "live" /\ case.link

\* Faulty variant: only cases past their deadline are asked about.
SweepListLate ==
  /\ sweep.pc = "idle"
  /\ sweep' = [pc |-> IF late /\ Awaiting THEN "fetch" ELSE "expire", owed |-> Owed,
               excuse |-> "none"]
  /\ UNCHANGED <<case, calls, links, rungs, tools, reports, hooks, late, faults>>

\* Faulty variant: cases past their deadline are not asked about.
SweepListSkips ==
  /\ sweep.pc = "idle"
  /\ sweep' = [pc |-> IF ~late /\ Awaiting THEN "fetch" ELSE "expire", owed |-> Owed,
               excuse |-> "none"]
  /\ UNCHANGED <<case, calls, links, rungs, tools, reports, hooks, late, faults>>

\* listCasesAwaitingLinkPayment: a LIMIT and no order over all merchants' cases, so a
\* pass may leave this one out (it also skips a merchant without a provider).
SweepList ==
  /\ sweep.pc = "idle"
  /\ \/ sweep' = [pc |-> IF Awaiting THEN "fetch" ELSE "expire", owed |-> Owed, excuse |-> "none"]
     \/ Awaiting /\ sweep' = [pc |-> "expire", owed |-> Owed, excuse |-> "leftOut"]
  /\ UNCHANGED <<case, calls, links, rungs, tools, reports, hooks, late, faults>>

\* isPaymentLinkPaid answers "unpaid" when Razorpay cannot be reached.
SweepFetch ==
  /\ sweep.pc = "fetch"
  /\ LET paid == links[CaseRef].status = "paid"
     IN \/ /\ sweep' = [sweep EXCEPT !.pc = IF paid THEN "close" ELSE "expire", !.owed = paid]
           /\ UNCHANGED faults
        \/ sweep' = [pc |-> "expire", owed |-> paid, excuse |-> "unreachable"] /\ Fault("throw")
  /\ UNCHANGED <<case, calls, links, rungs, tools, reports, hooks, late>>

\* reconcileCaseLinkPaid.
SweepClose ==
  /\ sweep.pc = "close" /\ Recover(links[CaseRef].price)
  /\ sweep' = [sweep EXCEPT !.pc = "expire",
                            !.excuse = IF case'.state = "recovered" THEN "none" ELSE "refused"]
  /\ UNCHANGED <<calls, links, rungs, tools, reports, hooks, late>>

\* claimExpiredCases, which has a LIMIT of its own, and its transitions.
SweepExpire ==
  /\ SweepAt("expire", "idle")
  /\ (late /\ End("lost")) \/ UNCHANGED <<case, faults>>
  /\ UNCHANGED <<calls, links, rungs, tools, reports, hooks, late>>

\* Inngest runs the step again.
SweepDies ==
  /\ sweep.pc \in {"fetch", "close"} /\ sweep' = [sweep EXCEPT !.pc = "idle"] /\ Fault("die")
  /\ UNCHANGED <<case, calls, links, rungs, tools, reports, hooks, late>>

----------------------------------------------------------------------------
(* The customer and the clock.                                              *)

\* A customer knows a link once it is stored, and may pay it at any time, also
\* after another one; the delivery may never come.
Pay(ref) ==
  /\ links[ref].status = "open"
  /\ IF ref \in Call THEN calls[ref].link ELSE case.link
  /\ links' = [links EXCEPT ![ref].status = "paid"]
  /\ \/ HookAt(ref, "none", "due") /\ UNCHANGED faults
     \/ Fault("lost") /\ UNCHANGED hooks
  /\ UNCHANGED <<case, calls, rungs, tools, reports, sweep, late>>

Deadline == /\ ~late /\ late' = TRUE
            /\ UNCHANGED <<case, calls, links, rungs, tools, reports, hooks, sweep, faults>>

RungStep(r) == RungGather(r) \/ RungClose(r) \/ EnsureRead(r) \/ EnsureCreate(r) \/ EnsureStore(r)

Talk(t) == ProposeRead(t) \/ ProposeWrite(t) \/ LinkRead(t) \/ LinkCreate(t) \/ LinkRecord(t)

Report(v) == ReportRead(v) \/ ReportFetch(v) \/ ReportClose(v)

Sweep == SweepList \/ SweepFetch \/ SweepClose \/ SweepExpire

Next == \/ \E r \in Rung : RungStep(r) \/ RungDies(r)
        \/ \E t \in Handler : Talk(t)
        \/ \E v \in Call : Report(v) \/ HookConfirm(v) \/ HookDies(v)
        \/ \E ref \in Ref : HookClose(ref) \/ Pay(ref)
        \/ Sweep \/ SweepDies \/ Deadline \/ CaseAborted

\* Only the cron sweep is counted on.
Spec == Init /\ [][Next]_vars /\ WF_vars(Sweep)

----------------------------------------------------------------------------
(* What the books say was recovered is what one paid link charged, whoever  *)
(* recorded it and however many links the case has.                         *)
RecoveredAsPaid ==
  case.state = "recovered" =>
    \E ref \in Ref : links[ref].status = "paid" /\ links[ref].price = case.recovered

(* No conversation, with its tool calls retried, overlapping and dying,     *)
(* ends in a link cheaper than the guardrail's ceiling allows.              *)
DiscountBounded ==
  \A ref \in Ref : links[ref].status # "none" => case.atRisk - links[ref].price <= Ceiling(case.atRisk)

(* A pass of the sweep writes off no case whose stored link was paid by the *)
(* time the pass asked about it, unless its list left the case out, Razorpay *)
(* was out of reach, or the recovery lost its race.  A payment that comes   *)
(* between the asking and the expiry is written off.                        *)
SweepConfirmsFirst ==
  [][sweep.pc = "expire" /\ sweep'.pc = "idle" /\ case.state = "live" /\ case'.state = "lost"
     /\ sweep.owed => sweep.excuse # "none"]_vars

LeavesCaseOut == sweep.pc = "idle" /\ sweep'.excuse = "leftOut"

(* A payment on the stored link is booked before the deadline even if its   *)
(* delivery never comes or loses its race, unless the case is aborted first *)
(* or pass after pass leaves it out.                                        *)
BackstopRecords ==
  \/ Owed ~> case.state \in {"recovered", "aborted"} \/ late
  \/ []<><<LeavesCaseOut>>_vars
=============================================================================
