------------------------ MODULE PaymentLinks_proofs ------------------------
(***************************************************************************)
(* Proofs about the two rows a payment link is issued for: PaymentLinks'   *)
(* case, for any calls, handlers, amounts and faults, and AbandonedCart's  *)
(* cart, for any calls, passes and mishaps.  What a payment books, what a  *)
(* link costs and what a row says are decided by values read some steps    *)
(* earlier, so the invariants say of everybody on the way that what they   *)
(* hold is still true.                                                     *)
(***************************************************************************)
EXTENDS PaymentLinks, AbandonedCart, TLAPS

IsPaid(ref) == links[ref].status = "paid"

\* An approved discount is under the ceiling, so is what a link takes off, and
\* the handler about to record a link holds that link's price.
ToolSound(t) ==
  /\ tools[t].pc = "offer" => tools[t].paise <= Ceiling(case.atRisk)
  /\ tools[t].pc \in {"create", "record"} => case.atRisk - tools[t].paise <= Ceiling(case.atRisk)
  /\ tools[t].pc = "record" => links[t[1]].status # "none" /\ links[t[1]].price = tools[t].paise

\* The row's discount is under the ceiling, and its price is its link's.
CallSound(v) ==
  /\ calls[v].off <= Ceiling(case.atRisk)
  /\ calls[v].link => links[v].status # "none" /\ links[v].price = calls[v].price

\* Whoever is about to book a payment has seen it.
ReportSound(v) ==
  /\ reports[v] \in {"fetch", "close"} => calls[v].link
  /\ reports[v] = "close" => IsPaid(v)

\* A pass about to write off a live case it found paid has an excuse.
SweepSound ==
  /\ sweep.pc = "close" => IsPaid(CaseRef)
  /\ sweep.pc = "expire" /\ sweep.owed /\ case.state = "live" => sweep.excuse # "none"

BookersSound ==
  /\ \A v \in Call : ReportSound(v)
  /\ \A ref \in Ref : hooks[ref] # "none" => IsPaid(ref)
  /\ SweepSound

IInv == /\ TypeOK
        /\ \A t \in Handler : ToolSound(t)
        /\ \A v \in Call : CallSound(v)
        /\ BookersSound
        /\ DiscountBounded /\ RecoveredAsPaid

----------------------------------------------------------------------------
(* What every step of the code respects; it is enough to keep IInv.         *)

\* A link stays, keeps its price and stays paid; the amount at risk stays.
LinksStay ==
  /\ case'.atRisk = case.atRisk
  /\ \A ref \in Ref : links[ref].status # "none" =>
       /\ links'[ref].status # "none" /\ links'[ref].price = links[ref].price
       /\ IsPaid(ref) => IsPaid(ref)'

NewLinksBounded ==
  \A ref \in Ref : links'[ref].status # "none" =>
    links[ref].status # "none" \/ case.atRisk - links'[ref].price <= Ceiling(case.atRisk)

RowsCareful ==
  /\ \A t \in Handler : tools'[t] = tools[t] \/ ToolSound(t)'
  /\ \A v \in Call : calls'[v] = calls[v] \/ CallSound(v)'

BookersCareful ==
  /\ \A v \in Call : ReportSound(v)' \/ (reports'[v] = reports[v] /\ (calls[v].link => calls'[v].link))
  /\ \A ref \in Ref : hooks'[ref] # "none" => hooks[ref] # "none" \/ IsPaid(ref)'
  /\ sweep' = sweep \/ SweepSound'

BooksCareful ==
  /\ case'.state = "live" => case.state = "live"
  /\ case'.state = "recovered" =>
       \/ case.state = "recovered" /\ case'.recovered = case.recovered
       \/ \E ref \in Ref : IsPaid(ref)' /\ links'[ref].price = case'.recovered

Careful == LinksStay /\ NewLinksBounded /\ RowsCareful /\ BookersCareful /\ BooksCareful

(* A careful step keeps the invariant. *)
LEMMA CarefulKeeps == ASSUME IInv, TypeOK', Careful PROVE IInv'
<1> USE DEF IInv, Careful
<1>1. \A t \in Handler : t[1] \in Ref
  BY DEF Handler, Ref
<1>2. \A t \in Handler : ToolSound(t)'
  BY <1>1 DEF RowsCareful, LinksStay, ToolSound
<1>3. \A v \in Call : CallSound(v)'
  BY DEF RowsCareful, LinksStay, CallSound, Ref
<1>4. ASSUME NEW ref \in Ref, IsPaid(ref) PROVE IsPaid(ref)'
  BY <1>4 DEF LinksStay, IsPaid
<1>5. BookersSound'
  <2>1. \A v \in Call : ReportSound(v)'
    BY <1>4 DEF BookersCareful, BookersSound, ReportSound, Ref
  <2>2. SweepSound'
    BY <1>4 DEF BookersCareful, BooksCareful, BookersSound, SweepSound, Ref
  <2> QED
    BY <1>4, <2>1, <2>2 DEF BookersCareful, BookersSound, Ref
<1>6. DiscountBounded'
  BY DEF LinksStay, NewLinksBounded, DiscountBounded
<1>7. RecoveredAsPaid'
  <2>1. CASE case.state = "recovered" /\ case'.state = "recovered" /\ case'.recovered = case.recovered
    <3>1. PICK ref \in Ref : IsPaid(ref) /\ links[ref].price = case.recovered
      BY <2>1 DEF RecoveredAsPaid, IsPaid
    <3>2. IsPaid(ref)' /\ links'[ref].price = case'.recovered
      BY <2>1, <3>1, <1>4 DEF LinksStay, IsPaid
    <3> QED
      BY <3>2 DEF RecoveredAsPaid, IsPaid
  <2> QED
    BY <2>1 DEF BooksCareful, RecoveredAsPaid, IsPaid
<1> QED
  BY <1>2, <1>3, <1>5, <1>6, <1>7

----------------------------------------------------------------------------
(* The guardrail.                                                           *)

(* The guardrail's ceiling is a number, and never negative. *)
LEMMA CeilingNat == \A order \in Nat : Ceiling(order) \in Nat
<1> TAKE order \in Nat
<1>1. (order * 3) \div 10 \in Nat
  OBVIOUS
<1> QED
  BY <1>1 DEF Ceiling, Least, DISCOUNT_MAX_PAISE

(* proposeDiscount approves at most the ceiling, whichever tier is asked for. *)
LEMMA DiscountBelowCeiling ==
  ASSUME NEW order \in Nat, NEW requested \in 1..2, NEW already \in 0..2
  PROVE  /\ proposeDiscount(order, requested, already) \in Nat
         /\ proposeDiscount(order, requested, already) <= Ceiling(order)
<1>1. Ceiling(order) \in Nat
  BY CeilingNat
<1>2. DISCOUNT_TIERS_PAISE[requested] \in Nat
  <2>1. requested = 1 \/ requested = 2
    OBVIOUS
  <2> QED
    BY <2>1 DEF DISCOUNT_TIERS_PAISE
<1> QED
  BY <1>1, <1>2 DEF proposeDiscount, Least

LEMMA CeilingHere == TypeOK => case.atRisk \in Nat /\ Ceiling(case.atRisk) \in Nat
  BY CeilingNat, LinkAssumption DEF TypeOK, CaseRow

----------------------------------------------------------------------------
(* Initially nothing is issued and nobody is at work.                       *)
LEMMA InitInv == Init => IInv
<1> SUFFICES ASSUME Init PROVE IInv
  OBVIOUS
<1>1. TypeOK
  <2>1. case \in CaseRow
    BY DEF Init, CaseRow
  <2>2. calls \in [Call -> CallRow] /\ links \in [Ref -> Link] /\ tools \in [Handler -> ToolRow]
    BY DEF Init, CallRow, Link, ToolRow, IdleTool
  <2>3. /\ rungs \in [Rung -> {"away", "idle", "giveUp", "abort", "ensure", "create", "store"}]
        /\ reports \in [Call -> {"due", "fetch", "close", "done"}]
        /\ hooks \in [Ref -> {"none", "due", "close"}]
    BY DEF Init
  <2>4. sweep \in SweepRow /\ late \in BOOLEAN
    BY DEF Init, SweepRow
  <2>5. faults \in 0..MaxFaults
    BY LinkAssumption DEF Init
  <2> QED
    BY <2>1, <2>2, <2>3, <2>4, <2>5 DEF TypeOK
<1>2. case.atRisk \in Nat /\ Ceiling(case.atRisk) \in Nat
  BY <1>1, CeilingHere
<1>3. \A t \in Handler : ToolSound(t)
  BY DEF Init, ToolSound, IdleTool
<1>4. \A v \in Call : CallSound(v)
  <2> TAKE v \in Call
  <2>1. calls[v].off = 0 /\ calls[v].link = FALSE
    BY DEF Init
  <2> QED
    BY <1>2, <2>1 DEF CallSound
<1>5. BookersSound
  BY DEF Init, BookersSound, ReportSound, SweepSound
<1>6. DiscountBounded /\ RecoveredAsPaid
  BY DEF Init, DiscountBounded, RecoveredAsPaid
<1> QED
  BY <1>1, <1>3, <1>4, <1>5, <1>6 DEF IInv

----------------------------------------------------------------------------
(* The steps.                                                               *)

(* transitionCase books the amount it is given, or changes nothing. *)
LEMMA RecoverBooks ==
  ASSUME TypeOK, NEW paise \in Nat, Recover(paise)
  PROVE  /\ case' \in CaseRow /\ case'.atRisk = case.atRisk
         /\ faults' \in 0..MaxFaults
         /\ case'.state = "live" => case.state = "live"
         /\ case'.state = "recovered" =>
              case'.recovered = paise \/ (case.state = "recovered" /\ case'.recovered = case.recovered)
<1>1. case \in CaseRow /\ faults \in 0..MaxFaults
  BY DEF TypeOK
<1>2. faults' \in 0..MaxFaults
  BY <1>1, LinkAssumption DEF Recover, Fault
<1>3. CASE case' = case
  BY <1>1, <1>2, <1>3
<1>4. CASE case' = [case EXCEPT !.state = "recovered", !.recovered = paise]
  BY <1>1, <1>2, <1>4 DEF CaseRow
<1> QED
  BY <1>3, <1>4 DEF Recover

LEMMA EndBooksNothing ==
  ASSUME TypeOK, NEW as \in {"lost", "aborted"}, End(as)
  PROVE  /\ case' \in CaseRow /\ case'.atRisk = case.atRisk
         /\ faults' \in 0..MaxFaults
         /\ case'.state = "live" => case.state = "live"
         /\ case'.state = "recovered" => case.state = "recovered" /\ case'.recovered = case.recovered
<1>1. case \in CaseRow /\ faults \in 0..MaxFaults
  BY DEF TypeOK
<1>2. faults' \in 0..MaxFaults
  <2>1. faults' = faults \/ (faults < MaxFaults /\ faults' = faults + 1)
    BY DEF End, Fault
  <2> QED
    BY <1>1, <2>1, LinkAssumption
<1>3. CASE case' = case
  BY <1>1, <1>2, <1>3
<1>4. CASE case' = [case EXCEPT !.state = as]
  BY <1>1, <1>2, <1>4 DEF CaseRow
<1> QED
  BY <1>3, <1>4 DEF End

(* Creating a link adds one of the given price, or changes nothing. *)
LEMMA CreatedAdds ==
  ASSUME TypeOK, NEW ref \in Ref, NEW paise \in Nat, Created(ref, paise)
  PROVE  /\ links' \in [Ref -> Link]
         /\ links[ref].status = "none"
         /\ links'[ref].status = "open" /\ links'[ref].price = paise
         /\ \A other \in Ref : other # ref => links'[other] = links[other]
  BY DEF Created, TypeOK, Link

(* Frames: what a step that leaves these variables alone respects. *)
LEMMA LinksFrame ==
  ASSUME TypeOK, UNCHANGED links, case'.atRisk = case.atRisk
  PROVE  LinksStay /\ NewLinksBounded
  BY DEF LinksStay, NewLinksBounded, IsPaid

LEMMA RowsFrame == ASSUME UNCHANGED <<tools, calls>> PROVE RowsCareful
  BY DEF RowsCareful

LEMMA BookersFrame ==
  ASSUME UNCHANGED <<calls, rungs, reports, hooks, sweep>> PROVE BookersCareful
  BY DEF BookersCareful

LEMMA BooksFrame == ASSUME UNCHANGED case PROVE BooksCareful
  BY DEF BooksCareful

(* A fault counts. *)
LEMMA FaultCounts ==
  ASSUME TypeOK, UNCHANGED faults \/ \E kind \in AnyFault : Fault(kind)
  PROVE  faults' \in 0..MaxFaults
  BY LinkAssumption DEF TypeOK, Fault

----------------------------------------------------------------------------
(* Rungs and the console, one step per action. *)
LEMMA RungGatherInv == ASSUME IInv, NEW r \in Rung, RungGather(r) PROVE IInv'
<1> USE DEF IInv
<1>1. UNCHANGED <<case, calls, links, tools, reports, hooks, sweep, late>>
  BY DEF RungGather
<1>2. faults' \in 0..MaxFaults
  BY FaultCounts DEF RungGather
<1>3. PICK to \in {"giveUp", "abort", "ensure"} : rungs' = [rungs EXCEPT ![r] = to]
  BY DEF RungGather, RungAt
<1>4. TypeOK'
  BY <1>1, <1>2, <1>3 DEF TypeOK
<1>5. BookersCareful
  BY <1>1, <1>3 DEF BookersCareful, IsPaid, TypeOK
<1> QED
  BY <1>1, <1>4, <1>5, LinksFrame, RowsFrame, BooksFrame, CarefulKeeps DEF Careful

LEMMA RungCloseInv == ASSUME IInv, NEW r \in Rung, RungClose(r) PROVE IInv'
<1> USE DEF IInv
<1>1. UNCHANGED <<calls, links, tools, reports, hooks, sweep, late>>
  BY DEF RungClose
<1>2. rungs' = [rungs EXCEPT ![r] = "idle"]
  BY DEF RungClose, RungAt
<1>3. PICK as \in {"lost", "aborted"} : End(as)
  BY DEF RungClose
<1>4. /\ case' \in CaseRow /\ case'.atRisk = case.atRisk /\ faults' \in 0..MaxFaults
      /\ case'.state = "live" => case.state = "live"
      /\ case'.state = "recovered" => case.state = "recovered" /\ case'.recovered = case.recovered
  BY <1>3, EndBooksNothing
<1>5. TypeOK'
  BY <1>1, <1>2, <1>4 DEF TypeOK
<1>6. BookersCareful
  BY <1>1, <1>2 DEF BookersCareful, TypeOK
<1>7. BooksCareful
  BY <1>4 DEF BooksCareful
<1> QED
  BY <1>1, <1>4, <1>5, <1>6, <1>7, LinksFrame, RowsFrame, CarefulKeeps DEF Careful

LEMMA EnsureReadInv == ASSUME IInv, NEW r \in Rung, EnsureRead(r) PROVE IInv'
<1> USE DEF IInv
<1>1. UNCHANGED <<case, calls, links, tools, reports, hooks, sweep, late, faults>>
  BY DEF EnsureRead
<1>2. PICK to \in {"idle", "create"} : rungs' = [rungs EXCEPT ![r] = to]
  BY DEF EnsureRead, RungAt
<1>3. TypeOK'
  BY <1>1, <1>2 DEF TypeOK
<1>4. BookersCareful
  BY <1>1, <1>2 DEF BookersCareful, TypeOK
<1> QED
  BY <1>1, <1>3, <1>4, LinksFrame, RowsFrame, BooksFrame, CarefulKeeps DEF Careful

(* A new link under the ceiling keeps the others. *)
LEMMA CreatedCareful ==
  ASSUME IInv, NEW ref \in Ref, NEW paise \in Nat, case.atRisk - paise <= Ceiling(case.atRisk),
         UNCHANGED case, Created(ref, paise) \/ UNCHANGED links
  PROVE  links' \in [Ref -> Link] /\ LinksStay /\ NewLinksBounded
<1> USE DEF IInv
<1>1. CASE UNCHANGED links
  BY <1>1, LinksFrame DEF TypeOK
<1>2. CASE Created(ref, paise)
  <2>1. /\ links' \in [Ref -> Link]
        /\ links[ref].status = "none"
        /\ links'[ref].price = paise
        /\ \A other \in Ref : other # ref => links'[other] = links[other]
    BY <1>2, CreatedAdds
  <2>2. LinksStay
    BY <2>1 DEF LinksStay, IsPaid
  <2>3. NewLinksBounded
    BY <2>1 DEF NewLinksBounded
  <2> QED
    BY <2>1, <2>2, <2>3
<1> QED
  BY <1>1, <1>2

LEMMA EnsureCreateInv == ASSUME IInv, NEW r \in Rung, EnsureCreate(r) PROVE IInv'
<1> USE DEF IInv
<1>1. UNCHANGED <<case, calls, tools, reports, hooks, sweep, late>>
  BY DEF EnsureCreate
<1>2. PICK to \in {"idle", "store"} : rungs' = [rungs EXCEPT ![r] = to]
  BY DEF EnsureCreate, RungAt
<1>3. faults' \in 0..MaxFaults
  BY FaultCounts DEF EnsureCreate, CreateAnswers, CreateThrows, AnyFault
<1>4. links' \in [Ref -> Link] /\ LinksStay /\ NewLinksBounded
  <2>1. Created(CaseRef, case.atRisk) \/ UNCHANGED links
    BY DEF EnsureCreate, CreateAnswers, CreateThrows
  <2>2. case.atRisk \in Nat /\ case.atRisk - case.atRisk <= Ceiling(case.atRisk)
    BY CeilingHere
  <2> QED
    BY <1>1, <2>1, <2>2, CreatedCareful DEF Ref
<1>5. TypeOK'
  BY <1>1, <1>2, <1>3, <1>4 DEF TypeOK
<1>6. BookersCareful
  BY <1>1, <1>2 DEF BookersCareful, TypeOK
<1> QED
  BY <1>1, <1>4, <1>5, <1>6, RowsFrame, BooksFrame, CarefulKeeps DEF Careful

LEMMA EnsureStoreInv == ASSUME IInv, NEW r \in Rung, EnsureStore(r) PROVE IInv'
<1> USE DEF IInv
<1>1. UNCHANGED <<calls, links, tools, reports, hooks, sweep, late, faults>>
  BY DEF EnsureStore
<1>2. rungs' = [rungs EXCEPT ![r] = "idle"]
  BY DEF EnsureStore, RungAt
<1>3. /\ case' \in CaseRow /\ case'.atRisk = case.atRisk
      /\ case'.state = case.state /\ case'.recovered = case.recovered
  BY DEF EnsureStore, TypeOK, CaseRow
<1>4. TypeOK'
  BY <1>1, <1>2, <1>3 DEF TypeOK
<1>5. BookersCareful
  BY <1>1, <1>2 DEF BookersCareful, TypeOK
<1>6. BooksCareful
  BY <1>3 DEF BooksCareful
<1> QED
  BY <1>1, <1>3, <1>4, <1>5, <1>6, LinksFrame, RowsFrame, CarefulKeeps DEF Careful

LEMMA RungDiesInv == ASSUME IInv, NEW r \in Rung, RungDies(r) PROVE IInv'
<1> USE DEF IInv
<1>1. UNCHANGED <<case, calls, links, tools, reports, hooks, sweep, late>>
  BY DEF RungDies
<1>2. rungs' = [rungs EXCEPT ![r] = "idle"] /\ faults' \in 0..MaxFaults
  BY FaultCounts DEF RungDies, AnyFault
<1>3. TypeOK'
  BY <1>1, <1>2 DEF TypeOK
<1>4. BookersCareful
  BY <1>1, <1>2 DEF BookersCareful, TypeOK
<1> QED
  BY <1>1, <1>3, <1>4, LinksFrame, RowsFrame, BooksFrame, CarefulKeeps DEF Careful

----------------------------------------------------------------------------
(* The conversation, one step per action. *)

(* A step that only changes one handler's row, to one that is sound. *)
LEMMA ToolFrame ==
  ASSUME IInv, NEW t \in Handler, NEW row \in ToolRow,
         tools' = [tools EXCEPT ![t] = row], ToolSound(t)',
         UNCHANGED <<case, calls, links, rungs, reports, hooks, sweep, late, faults>>
  PROVE  IInv'
<1> USE DEF IInv
<1>1. TypeOK'
  BY DEF TypeOK
<1>2. RowsCareful
  BY DEF RowsCareful, TypeOK
<1> QED
  BY <1>1, <1>2, LinksFrame, BookersFrame, BooksFrame, CarefulKeeps DEF Careful

LEMMA ProposeReadInv == ASSUME IInv, NEW t \in Handler, ProposeRead(t) PROVE IInv'
<1> USE DEF IInv
<1> DEFINE already == calls[t[1]].tier
           tier == Least(already + 1, 2)
           off == proposeDiscount(case.atRisk, tier, already)
<1>1. already \in 0..2 /\ case.atRisk \in Nat
  BY CeilingHere DEF TypeOK, CallRow, Handler
<1>2. tier \in 1..2
  BY <1>1 DEF Least
<1>3. off \in Nat /\ off <= Ceiling(case.atRisk)
  BY <1>1, <1>2, DiscountBelowCeiling
<1> DEFINE row == [pc |-> "offer", tier |-> tier, paise |-> off]
<1>4. row \in ToolRow
  BY <1>2, <1>3 DEF ToolRow
<1>5. /\ tools' = [tools EXCEPT ![t] = row]
      /\ UNCHANGED <<case, calls, links, rungs, reports, hooks, sweep, late, faults>>
  BY DEF ProposeRead, ToolStep
<1>6. tools'[t] = row
  BY <1>5 DEF TypeOK
<1>7. ToolSound(t)'
  BY <1>3, <1>5, <1>6 DEF ToolSound
<1> QED
  BY <1>4, <1>5, <1>7, ToolFrame

LEMMA LinkReadInv == ASSUME IInv, NEW t \in Handler, LinkRead(t) PROVE IInv'
<1> USE DEF IInv
<1> DEFINE v == t[1]
           price == IF calls[v].tier > 0 THEN case.atRisk - calls[v].off ELSE case.atRisk
           row == [pc |-> "create", tier |-> 0, paise |-> price]
<1>1. v \in Call /\ calls[v].off \in Nat /\ case.atRisk \in Nat /\ Ceiling(case.atRisk) \in Nat
  BY CeilingHere DEF TypeOK, CallRow, Handler
<1>2. calls[v].off <= Ceiling(case.atRisk)
  BY <1>1 DEF CallSound
<1>3. price \in Int /\ case.atRisk - price <= Ceiling(case.atRisk)
  BY <1>1, <1>2
<1>4. /\ price >= MinPayable
      /\ tools' = [tools EXCEPT ![t] = row]
      /\ UNCHANGED <<case, calls, links, rungs, reports, hooks, sweep, late, faults>>
  BY DEF LinkRead, ToolStep
<1>5. row \in ToolRow
  BY <1>3, <1>4 DEF ToolRow, MinPayable
<1>6. tools'[t] = row
  BY <1>4 DEF TypeOK
<1>7. ToolSound(t)'
  BY <1>3, <1>4, <1>6 DEF ToolSound
<1> QED
  BY <1>4, <1>5, <1>7, ToolFrame

(* A handler that has written is idle again, and its row is the call's new one. *)
LEMMA WrittenRow ==
  ASSUME IInv, NEW t \in Handler, NEW row \in CallRow,
         tools' = [tools EXCEPT ![t] = IdleTool],
         calls' = [calls EXCEPT ![t[1]] = row],
         CallSound(t[1])', calls[t[1]].link => row.link,
         UNCHANGED <<case, links, rungs, reports, hooks, sweep, late, faults>>
  PROVE  IInv'
<1> USE DEF IInv
<1>1. t[1] \in Call /\ IdleTool \in ToolRow
  BY DEF Handler, IdleTool, ToolRow
<1>2. TypeOK'
  BY <1>1 DEF TypeOK
<1>3. RowsCareful
  BY DEF RowsCareful, ToolSound, TypeOK, IdleTool
<1>4. BookersCareful
  BY <1>1 DEF BookersCareful, TypeOK
<1> QED
  BY <1>2, <1>3, <1>4, LinksFrame, BooksFrame, CarefulKeeps DEF Careful

LEMMA ProposeWriteInv == ASSUME IInv, NEW t \in Handler, ProposeWrite(t) PROVE IInv'
<1> USE DEF IInv
<1> DEFINE v == t[1]
           row == [calls[v] EXCEPT !.tier = tools[t].tier, !.off = tools[t].paise]
<1>1. v \in Call /\ calls[v] \in CallRow /\ tools[t] \in ToolRow
  BY DEF TypeOK, Handler
<1>2. row \in CallRow /\ row.off = tools[t].paise /\ row.link = calls[v].link /\ row.price = calls[v].price
  BY <1>1 DEF CallRow, ToolRow
<1>3. /\ tools[t].pc = "offer" /\ tools' = [tools EXCEPT ![t] = IdleTool]
      /\ UNCHANGED <<case, links, rungs, reports, hooks, sweep, late, faults>>
  BY DEF ProposeWrite, ToolStep
<1>4. calls' = [calls EXCEPT ![v] = row]
  BY <1>1 DEF ProposeWrite, TypeOK, CallRow
<1>5. tools[t].paise <= Ceiling(case.atRisk)
  BY <1>3 DEF ToolSound
<1>6. calls'[v] = row
  BY <1>1, <1>4 DEF TypeOK
<1>7. CallSound(v)'
  BY <1>1, <1>2, <1>3, <1>5, <1>6 DEF CallSound
<1> QED
  BY <1>2, <1>3, <1>4, <1>7, WrittenRow

LEMMA LinkRecordInv == ASSUME IInv, NEW t \in Handler, LinkRecord(t) PROVE IInv'
<1> USE DEF IInv
<1> DEFINE v == t[1]
           row == [calls[v] EXCEPT !.link = TRUE, !.price = tools[t].paise]
<1>1. v \in Call /\ calls[v] \in CallRow /\ tools[t] \in ToolRow
  BY DEF TypeOK, Handler
<1>2. row \in CallRow /\ row.off = calls[v].off /\ row.link /\ row.price = tools[t].paise
  BY <1>1 DEF CallRow, ToolRow
<1>3. /\ tools[t].pc = "record" /\ tools' = [tools EXCEPT ![t] = IdleTool]
      /\ UNCHANGED <<case, links, rungs, reports, hooks, sweep, late, faults>>
  BY DEF LinkRecord, ToolStep
<1>4. calls' = [calls EXCEPT ![v] = row]
  BY <1>1 DEF LinkRecord, TypeOK, CallRow
<1>5. links[v].status # "none" /\ links[v].price = tools[t].paise
  BY <1>3 DEF ToolSound
<1>6. calls'[v] = row
  BY <1>1, <1>4 DEF TypeOK
<1>7. CallSound(v)'
  BY <1>1, <1>2, <1>3, <1>5, <1>6 DEF CallSound
<1> QED
  BY <1>2, <1>3, <1>4, <1>7, WrittenRow

LEMMA LinkCreateInv == ASSUME IInv, NEW t \in Handler, LinkCreate(t) PROVE IInv'
<1> USE DEF IInv
<1> DEFINE v == t[1]
           paise == tools[t].paise
           recorder == [tools[t] EXCEPT !.pc = "record"]
<1>1. v \in Call /\ v \in Ref /\ tools[t] \in ToolRow /\ paise \in Nat
  BY DEF TypeOK, Handler, ToolRow, Ref
<1>2. tools[t].pc = "create" /\ UNCHANGED <<case, calls, rungs, reports, hooks, sweep, late>>
  BY DEF LinkCreate, ToolStep
<1>3. case.atRisk - paise <= Ceiling(case.atRisk)
  BY <1>2 DEF ToolSound
<1>4. Created(v, paise) \/ UNCHANGED links
  BY DEF LinkCreate, CreateAnswers, CreateThrows
<1>5. links' \in [Ref -> Link] /\ LinksStay /\ NewLinksBounded
  BY <1>1, <1>2, <1>3, <1>4, CreatedCareful
<1>6. faults' \in 0..MaxFaults
  BY FaultCounts DEF LinkCreate, CreateAnswers, CreateThrows, AnyFault
<1>7. PICK row \in ToolRow : tools' = [tools EXCEPT ![t] = row] /\ ToolSound(t)'
  <2>1. CASE tools' = [tools EXCEPT ![t] = recorder] /\ Created(v, paise)
    <3>1. recorder \in ToolRow /\ recorder.pc = "record" /\ recorder.paise = paise
      BY <1>1 DEF ToolRow
    <3>2. tools'[t] = recorder
      BY <2>1 DEF TypeOK
    <3>3. links'[v].status = "open" /\ links'[v].price = paise
      BY <1>1, <2>1, CreatedAdds
    <3>4. ToolSound(t)'
      BY <1>2, <1>3, <3>1, <3>2, <3>3 DEF ToolSound
    <3> QED
      BY <2>1, <3>1, <3>4
  <2>2. CASE tools' = [tools EXCEPT ![t] = IdleTool]
    <3>1. IdleTool \in ToolRow /\ tools'[t] = IdleTool
      BY <2>2 DEF TypeOK, IdleTool, ToolRow
    <3>2. ToolSound(t)'
      BY <3>1 DEF ToolSound, IdleTool
    <3> QED
      BY <2>2, <3>1, <3>2
  <2> QED
    BY <2>1, <2>2 DEF LinkCreate, ToolStep, CreateAnswers
<1>8. TypeOK'
  BY <1>2, <1>5, <1>6, <1>7 DEF TypeOK
<1>9. RowsCareful
  BY <1>2, <1>7 DEF RowsCareful, TypeOK
<1>10. BookersCareful
  BY <1>2 DEF BookersCareful
<1> QED
  BY <1>2, <1>5, <1>8, <1>9, <1>10, BooksFrame, CarefulKeeps DEF Careful

----------------------------------------------------------------------------
(* The end-of-call report, one step per action. *)
LEMMA ReportReadInv == ASSUME IInv, NEW v \in Call, ReportRead(v) PROVE IInv'
<1> USE DEF IInv
<1>1. UNCHANGED <<case, calls, links, rungs, tools, hooks, sweep, late, faults>>
  BY DEF ReportRead
<1>2. PICK to \in {"fetch", "done"} :
        reports' = [reports EXCEPT ![v] = to] /\ (to = "fetch" => calls[v].link)
  BY DEF ReportRead, ReportAt
<1>3. TypeOK'
  BY <1>1, <1>2 DEF TypeOK
<1>4. BookersCareful
  <2>1. \A w \in Call : ReportSound(w)' \/ (reports'[w] = reports[w] /\ (calls[w].link => calls'[w].link))
    BY <1>1, <1>2 DEF ReportSound, TypeOK
  <2> QED
    BY <1>1, <2>1 DEF BookersCareful
<1> QED
  BY <1>1, <1>3, <1>4, LinksFrame, RowsFrame, BooksFrame, CarefulKeeps DEF Careful

(* Confirming a call leaves its offer, its link and its price. *)
LEMMA ConfirmedRow ==
  ASSUME IInv, NEW v \in Call, UNCHANGED <<case, links, tools>>,
         calls' = [calls EXCEPT ![v].confirmed = TRUE]
  PROVE  /\ calls' \in [Call -> CallRow] /\ RowsCareful
         /\ \A w \in Call : calls'[w].link = calls[w].link
<1> USE DEF IInv
<1>1. /\ calls' \in [Call -> CallRow]
      /\ \A w \in Call : /\ calls'[w].link = calls[w].link
                         /\ calls'[w].price = calls[w].price
                         /\ calls'[w].off = calls[w].off
  BY ZenonT(30) DEF TypeOK, CallRow
<1>2. RowsCareful
  BY <1>1 DEF RowsCareful, CallSound
<1> QED
  BY <1>1, <1>2

LEMMA ReportFetchInv == ASSUME IInv, NEW v \in Call, ReportFetch(v) PROVE IInv'
<1> USE DEF IInv
<1>1. UNCHANGED <<case, links, rungs, tools, hooks, sweep, late>>
  BY DEF ReportFetch
<1>2. PICK to \in {"close", "done"} :
        reports[v] = "fetch" /\ reports' = [reports EXCEPT ![v] = to] /\ (to = "close" => IsPaid(v))
  BY DEF ReportFetch, ReportAt, IsPaid
<1>3. faults' \in 0..MaxFaults
  BY FaultCounts DEF ReportFetch, AnyFault
<1>4. /\ calls' \in [Call -> CallRow] /\ RowsCareful
      /\ \A w \in Call : calls'[w].link = calls[w].link
  <2>1. CASE UNCHANGED calls
    BY <1>1, <2>1, RowsFrame DEF TypeOK
  <2>2. CASE calls' = [calls EXCEPT ![v].confirmed = TRUE]
    BY <1>1, <2>2, ConfirmedRow
  <2> QED
    BY <2>1, <2>2 DEF ReportFetch
<1>5. TypeOK'
  BY <1>1, <1>2, <1>3, <1>4 DEF TypeOK
<1>6. BookersCareful
  <2>1. calls[v].link
    BY <1>2 DEF BookersSound, ReportSound
  <2>2. ASSUME NEW w \in Call
        PROVE  ReportSound(w)' \/ (reports'[w] = reports[w] /\ (calls[w].link => calls'[w].link))
    BY <1>1, <1>2, <1>4, <2>1 DEF ReportSound, IsPaid, TypeOK
  <2> QED
    BY <1>1, <2>2 DEF BookersCareful
<1> QED
  BY <1>1, <1>4, <1>5, <1>6, LinksFrame, BooksFrame, CarefulKeeps DEF Careful

(* What is booked for a paid link is what it charged. *)
LEMMA BookedCareful ==
  ASSUME IInv, NEW ref \in Ref, IsPaid(ref), UNCHANGED links, Recover(links[ref].price)
  PROVE  /\ case' \in CaseRow /\ faults' \in 0..MaxFaults
         /\ LinksStay /\ NewLinksBounded /\ BooksCareful
<1> USE DEF IInv
<1>1. links[ref].price \in Nat
  BY DEF TypeOK, Link
<1>2. /\ case' \in CaseRow /\ case'.atRisk = case.atRisk /\ faults' \in 0..MaxFaults
      /\ case'.state = "live" => case.state = "live"
      /\ case'.state = "recovered" =>
           case'.recovered = links[ref].price
             \/ (case.state = "recovered" /\ case'.recovered = case.recovered)
  BY <1>1, RecoverBooks
<1>3. BooksCareful
  BY <1>2 DEF BooksCareful, IsPaid
<1> QED
  BY <1>2, <1>3, LinksFrame

LEMMA ReportCloseInv == ASSUME IInv, NEW v \in Call, ReportClose(v) PROVE IInv'
<1> USE DEF IInv
<1>1. UNCHANGED <<calls, links, rungs, tools, hooks, sweep, late>>
  BY DEF ReportClose
<1>2. /\ reports[v] = "close" /\ reports' = [reports EXCEPT ![v] = "done"]
      /\ Recover(calls[v].price)
  BY DEF ReportClose, ReportAt
<1>3. v \in Ref /\ IsPaid(v) /\ links[v].price = calls[v].price
  BY <1>2 DEF BookersSound, ReportSound, CallSound, Ref
<1>4. /\ case' \in CaseRow /\ faults' \in 0..MaxFaults
      /\ LinksStay /\ NewLinksBounded /\ BooksCareful
  BY <1>1, <1>2, <1>3, BookedCareful
<1>5. TypeOK'
  BY <1>1, <1>2, <1>4 DEF TypeOK
<1>6. BookersCareful
  BY <1>1, <1>2 DEF BookersCareful, ReportSound, TypeOK
<1> QED
  BY <1>1, <1>4, <1>5, <1>6, RowsFrame, CarefulKeeps DEF Careful

----------------------------------------------------------------------------
(* Payments and their deliveries, one step per action. *)
LEMMA HookConfirmInv == ASSUME IInv, NEW v \in Call, HookConfirm(v) PROVE IInv'
<1> USE DEF IInv
<1>1. /\ hooks[v] = "due" /\ hooks' = [hooks EXCEPT ![v] = "close"]
      /\ calls' = [calls EXCEPT ![v].confirmed = TRUE]
      /\ UNCHANGED <<case, links, rungs, tools, reports, sweep, late, faults>>
  BY DEF HookConfirm, HookAt
<1>2. /\ calls' \in [Call -> CallRow] /\ RowsCareful
      /\ \A w \in Call : calls'[w].link = calls[w].link
  BY <1>1, ConfirmedRow
<1>3. TypeOK'
  BY <1>1, <1>2 DEF TypeOK
<1>4. BookersCareful
  BY <1>1, <1>2 DEF BookersCareful, TypeOK, Ref
<1> QED
  BY <1>1, <1>2, <1>3, <1>4, LinksFrame, BooksFrame, CarefulKeeps DEF Careful

LEMMA HookCloseInv == ASSUME IInv, NEW ref \in Ref, HookClose(ref) PROVE IInv'
<1> USE DEF IInv
<1>1. UNCHANGED <<calls, links, rungs, tools, reports, sweep, late>>
  BY DEF HookClose
<1>2. /\ hooks[ref] # "none" /\ hooks' = [hooks EXCEPT ![ref] = "none"]
      /\ Recover(links[ref].price)
  BY DEF HookClose, HookAt
<1>3. IsPaid(ref)
  BY <1>2 DEF BookersSound
<1>4. /\ case' \in CaseRow /\ faults' \in 0..MaxFaults
      /\ LinksStay /\ NewLinksBounded /\ BooksCareful
  BY <1>1, <1>2, <1>3, BookedCareful
<1>5. TypeOK'
  BY <1>1, <1>2, <1>4 DEF TypeOK
<1>6. BookersCareful
  BY <1>1, <1>2 DEF BookersCareful, TypeOK
<1> QED
  BY <1>1, <1>4, <1>5, <1>6, RowsFrame, CarefulKeeps DEF Careful

LEMMA HookDiesInv == ASSUME IInv, NEW v \in Call, HookDies(v) PROVE IInv'
<1> USE DEF IInv
<1>1. /\ hooks[v] = "close" /\ hooks' = [hooks EXCEPT ![v] = "due"]
      /\ UNCHANGED <<case, calls, links, rungs, tools, reports, sweep, late>>
  BY DEF HookDies, HookAt
<1>2. faults' \in 0..MaxFaults
  BY FaultCounts DEF HookDies, AnyFault
<1>3. TypeOK'
  BY <1>1, <1>2 DEF TypeOK
<1>4. BookersCareful
  BY <1>1 DEF BookersCareful, TypeOK, Ref
<1> QED
  BY <1>1, <1>3, <1>4, LinksFrame, RowsFrame, BooksFrame, CarefulKeeps DEF Careful

LEMMA PayInv == ASSUME IInv, NEW ref \in Ref, Pay(ref) PROVE IInv'
<1> USE DEF IInv
<1>1. /\ links[ref].status = "open"
      /\ links' = [links EXCEPT ![ref].status = "paid"]
      /\ UNCHANGED <<case, calls, rungs, tools, reports, sweep, late>>
  BY DEF Pay
<1>2. hooks' = [hooks EXCEPT ![ref] = "due"] \/ UNCHANGED hooks
  BY DEF Pay, HookAt
<1>3. faults' \in 0..MaxFaults
  BY FaultCounts DEF Pay, AnyFault
<1>4. /\ links' \in [Ref -> Link]
      /\ links'[ref].status = "paid" /\ links'[ref].price = links[ref].price
      /\ \A other \in Ref : other # ref => links'[other] = links[other]
  BY <1>1 DEF TypeOK, Link
<1>5. hooks' \in [Ref -> {"none", "due", "close"}]
  BY <1>2 DEF TypeOK
<1>6. TypeOK'
  BY <1>1, <1>3, <1>4, <1>5 DEF TypeOK
<1>7. LinksStay
  BY <1>1, <1>4 DEF LinksStay, IsPaid
<1>8. NewLinksBounded
  BY <1>1, <1>4 DEF NewLinksBounded
<1>9. BookersCareful
  BY <1>1, <1>2, <1>4 DEF BookersCareful, IsPaid, TypeOK
<1> QED
  BY <1>1, <1>6, <1>7, <1>8, <1>9, RowsFrame, BooksFrame, CarefulKeeps DEF Careful

----------------------------------------------------------------------------
(* The sweep, one step per action, and the clock. *)

(* A step of the sweep that only moves it. *)
LEMMA SweepFrame ==
  ASSUME IInv, sweep' \in SweepRow, SweepSound',
         faults' \in 0..MaxFaults,
         UNCHANGED <<case, calls, links, rungs, tools, reports, hooks, late>>
  PROVE  IInv'
<1> USE DEF IInv
<1>1. TypeOK'
  BY DEF TypeOK
<1>2. BookersCareful
  BY DEF BookersCareful
<1> QED
  BY <1>1, <1>2, LinksFrame, RowsFrame, BooksFrame, CarefulKeeps DEF Careful

LEMMA SweepListInv == ASSUME IInv, SweepList PROVE IInv'
<1> USE DEF IInv
<1>1. /\ UNCHANGED <<case, calls, links, rungs, tools, reports, hooks, late>>
      /\ faults' \in 0..MaxFaults
  BY DEF SweepList, TypeOK
<1>2. \/ sweep' = [pc |-> IF Awaiting THEN "fetch" ELSE "expire", owed |-> Owed, excuse |-> "none"]
      \/ sweep' = [pc |-> "expire", owed |-> Owed, excuse |-> "leftOut"]
  BY DEF SweepList
<1>3. Owed \in BOOLEAN /\ (Owed => Awaiting)
  BY DEF Owed, Awaiting, TypeOK, CaseRow
<1> DEFINE owed == Owed
           to == IF Awaiting THEN "fetch" ELSE "expire"
<1>4. to \in {"fetch", "expire"} /\ (owed => to = "fetch")
  BY <1>3
<1>5. sweep' \in SweepRow /\ SweepSound'
  <2>1. owed \in BOOLEAN /\ (\/ sweep' = [pc |-> to, owed |-> owed, excuse |-> "none"]
                              \/ sweep' = [pc |-> "expire", owed |-> owed, excuse |-> "leftOut"])
    BY <1>2, <1>3
  <2> HIDE DEF owed, to
  <2> QED
    BY <1>4, <2>1 DEF SweepRow, SweepSound
<1> QED
  BY <1>1, <1>5, SweepFrame

LEMMA SweepFetchInv == ASSUME IInv, SweepFetch PROVE IInv'
<1> USE DEF IInv
<1>1. UNCHANGED <<case, calls, links, rungs, tools, reports, hooks, late>>
  BY DEF SweepFetch
<1>2. faults' \in 0..MaxFaults
  BY FaultCounts DEF SweepFetch, AnyFault
<1>3. sweep' \in SweepRow /\ SweepSound'
  <2> DEFINE paid == IsPaid(CaseRef)
             to == IF paid THEN "close" ELSE "expire"
  <2>1. /\ paid \in BOOLEAN /\ paid' = paid
        /\ \/ sweep' = [sweep EXCEPT !.pc = to, !.owed = paid]
           \/ sweep' = [pc |-> "expire", owed |-> paid, excuse |-> "unreachable"]
    BY <1>1 DEF SweepFetch, IsPaid
  <2>2. sweep \in SweepRow
    BY DEF TypeOK
  <2>3. SweepSound' = (/\ sweep'.pc = "close" => paid'
                       /\ sweep'.pc = "expire" /\ sweep'.owed /\ case'.state = "live"
                            => sweep'.excuse # "none")
    BY DEF SweepSound
  <2>4. CASE sweep' = [sweep EXCEPT !.pc = to, !.owed = paid]
    <3>1. sweep'.pc = to /\ sweep'.owed = paid /\ sweep'.excuse = sweep.excuse /\ sweep' \in SweepRow
      <4> to \in {"close", "expire"} /\ paid \in BOOLEAN
        BY <2>1
      <4> HIDE DEF paid, to
      <4> QED
        BY <2>2, <2>4 DEF SweepRow
    <3> HIDE DEF paid
    <3> QED
      BY <2>1, <2>3, <3>1
  <2>5. CASE sweep' = [pc |-> "expire", owed |-> paid, excuse |-> "unreachable"]
    <3> paid \in BOOLEAN
      BY <2>1
    <3> HIDE DEF paid
    <3> QED
      BY <2>3, <2>5 DEF SweepRow
  <2> QED
    BY <2>1, <2>4, <2>5
<1> QED
  BY <1>1, <1>2, <1>3, SweepFrame

LEMMA SweepCloseInv == ASSUME IInv, SweepClose PROVE IInv'
<1> USE DEF IInv
<1>1. /\ sweep.pc = "close" /\ sweep \in SweepRow
      /\ sweep' = [sweep EXCEPT !.pc = "expire",
                                !.excuse = IF case'.state = "recovered" THEN "none" ELSE "refused"]
      /\ Recover(links[CaseRef].price)
      /\ UNCHANGED <<calls, links, rungs, tools, reports, hooks, late>>
  BY DEF SweepClose, TypeOK
<1>2. CaseRef \in Ref /\ IsPaid(CaseRef)
  BY <1>1 DEF BookersSound, SweepSound, Ref
<1>3. /\ case' \in CaseRow /\ faults' \in 0..MaxFaults
      /\ LinksStay /\ NewLinksBounded /\ BooksCareful
  BY <1>1, <1>2, BookedCareful
<1>4. /\ sweep' \in SweepRow /\ sweep'.pc = "expire"
      /\ case'.state # "recovered" => sweep'.excuse = "refused"
  BY <1>1 DEF SweepRow
<1>5. TypeOK'
  BY <1>1, <1>3, <1>4 DEF TypeOK
<1>6. BookersCareful
  BY <1>1, <1>4 DEF BookersCareful, SweepSound
<1> QED
  BY <1>1, <1>3, <1>5, <1>6, RowsFrame, CarefulKeeps DEF Careful

LEMMA SweepExpireInv == ASSUME IInv, SweepExpire PROVE IInv'
<1> USE DEF IInv
<1>1. /\ sweep' = [sweep EXCEPT !.pc = "idle"]
      /\ UNCHANGED <<calls, links, rungs, tools, reports, hooks, late>>
  BY DEF SweepExpire, SweepAt
<1>2. sweep' \in SweepRow /\ sweep'.pc = "idle"
  BY <1>1 DEF TypeOK, SweepRow
<1>3. CASE UNCHANGED <<case, faults>>
  BY <1>1, <1>2, <1>3, SweepFrame DEF TypeOK, SweepSound
<1>4. CASE End("lost")
  <2>1. /\ case' \in CaseRow /\ case'.atRisk = case.atRisk /\ faults' \in 0..MaxFaults
        /\ case'.state = "live" => case.state = "live"
        /\ case'.state = "recovered" => case.state = "recovered" /\ case'.recovered = case.recovered
    BY <1>4, EndBooksNothing
  <2>2. TypeOK'
    BY <1>1, <1>2, <2>1 DEF TypeOK, SweepRow
  <2>3. BookersCareful
    BY <1>1, <1>2 DEF BookersCareful, SweepSound
  <2>4. BooksCareful
    BY <2>1 DEF BooksCareful
  <2> QED
    BY <1>1, <2>1, <2>2, <2>3, <2>4, LinksFrame, RowsFrame, CarefulKeeps DEF Careful
<1> QED
  BY <1>3, <1>4 DEF SweepExpire

LEMMA SweepDiesInv == ASSUME IInv, SweepDies PROVE IInv'
<1> USE DEF IInv
<1>1. sweep' = [sweep EXCEPT !.pc = "idle"]
  BY DEF SweepDies
<1>2. sweep' \in SweepRow /\ sweep'.pc = "idle"
  BY <1>1 DEF TypeOK, SweepRow
<1>3. faults' \in 0..MaxFaults
  BY FaultCounts DEF SweepDies, AnyFault
<1> QED
  BY <1>2, <1>3, SweepFrame DEF SweepDies, SweepSound

LEMMA DeadlineInv == ASSUME IInv, Deadline PROVE IInv'
<1> USE DEF IInv
<1>1. TypeOK'
  BY DEF Deadline, TypeOK
<1> QED
  BY <1>1, LinksFrame, RowsFrame, BookersFrame, BooksFrame, CarefulKeeps DEF Deadline, Careful

LEMMA CaseAbortedInv == ASSUME IInv, CaseAborted PROVE IInv'
<1> USE DEF IInv
<1>1. UNCHANGED <<calls, links, rungs, tools, reports, hooks, sweep, late, faults>>
  BY DEF CaseAborted
<1>2. case' \in CaseRow /\ case'.atRisk = case.atRisk /\ case'.state = "aborted"
  BY DEF CaseAborted, TypeOK, CaseRow
<1>3. TypeOK'
  BY <1>1, <1>2 DEF TypeOK
<1>4. BooksCareful
  BY <1>2 DEF BooksCareful
<1> QED
  BY <1>1, <1>2, <1>3, <1>4, LinksFrame, RowsFrame, BookersFrame, CarefulKeeps DEF Careful

LEMMA StutterInv == ASSUME IInv, UNCHANGED vars PROVE IInv'
<1> USE DEF IInv, vars
<1>1. TypeOK'
  BY DEF TypeOK
<1> QED
  BY <1>1, LinksFrame, RowsFrame, BookersFrame, BooksFrame, CarefulKeeps DEF Careful

----------------------------------------------------------------------------
(* The strengthened invariant, type correctness included: prices, offers    *)
(* and the payments about to be booked are what their holders believe.      *)
THEOREM LinkInvariant == Spec => []IInv
<1>1. ASSUME IInv, Next PROVE IInv'
  <2>1. ASSUME NEW r \in Rung, RungStep(r) \/ RungDies(r) PROVE IInv'
    BY <1>1, <2>1, RungGatherInv, RungCloseInv, EnsureReadInv, EnsureCreateInv, EnsureStoreInv,
       RungDiesInv DEF RungStep
  <2>2. ASSUME NEW t \in Handler, Talk(t) PROVE IInv'
    BY <1>1, <2>2, ProposeReadInv, ProposeWriteInv, LinkReadInv, LinkCreateInv, LinkRecordInv
       DEF Talk
  <2>3. ASSUME NEW v \in Call, Report(v) \/ HookConfirm(v) \/ HookDies(v) PROVE IInv'
    BY <1>1, <2>3, ReportReadInv, ReportFetchInv, ReportCloseInv, HookConfirmInv, HookDiesInv
       DEF Report
  <2>4. ASSUME NEW ref \in Ref, HookClose(ref) \/ Pay(ref) PROVE IInv'
    BY <1>1, <2>4, HookCloseInv, PayInv
  <2>5. ASSUME Sweep \/ SweepDies \/ Deadline \/ CaseAborted PROVE IInv'
    BY <1>1, <2>5, SweepListInv, SweepFetchInv, SweepCloseInv, SweepExpireInv, SweepDiesInv,
       DeadlineInv, CaseAbortedInv DEF Sweep
  <2> QED
    BY <1>1, <2>1, <2>2, <2>3, <2>4, <2>5 DEF Next
<1>2. IInv /\ [Next]_vars => IInv'
  BY <1>1, StutterInv
<1> QED
  BY InitInv, <1>2, PTL DEF Spec

(* The rows stay well formed; in particular no price or booked amount goes  *)
(* below zero, whatever LinkRead and ProposeWrite find on the row.          *)
THEOREM TypeCorrect == Spec => []TypeOK
<1>1. IInv => TypeOK
  BY DEF IInv
<1> QED
  BY LinkInvariant, <1>1, PTL

(* What a case is said to have recovered is what one paid link charged,     *)
(* for any number of calls, rungs and faults: ReportClose, HookClose,       *)
(* and SweepClose book no other amount.                           *)
THEOREM BookedWasPaid == Spec => []RecoveredAsPaid
<1>1. IInv => RecoveredAsPaid
  BY DEF IInv
<1> QED
  BY LinkInvariant, <1>1, PTL

(* No link takes more off an order than the guardrail's ceiling, for every  *)
(* amount at risk and however the tool calls overlap.                       *)
THEOREM DiscountNeverExceedsCeiling == Spec => []DiscountBounded
<1>1. IInv => DiscountBounded
  BY DEF IInv
<1> QED
  BY LinkInvariant, <1>1, PTL

(* A pass of the sweep that has asked about a paid link books the payment   *)
(* before it writes the case off: SweepList, then SweepFetch and SweepClose, *)
(* then SweepExpire, for any interleaving and faults.  The excuses are the  *)
(* list that left the case out, an unreachable Razorpay and a lost race.    *)
THEOREM ReconciledBeforeWrittenOff == Spec => SweepConfirmsFirst
<1> DEFINE Confirms == sweep.pc = "expire" /\ sweep'.pc = "idle" /\ case.state = "live" /\ case'.state = "lost"
                       /\ sweep.owed => sweep.excuse # "none"
<1>1. IInv => (sweep.pc = "expire" /\ sweep.owed /\ case.state = "live" => sweep.excuse # "none")
  BY DEF IInv, BookersSound, SweepSound
<1>2. IInv /\ [Next]_vars => [Confirms]_vars
  BY <1>1
<1> QED
  BY LinkInvariant, <1>2, PTL DEF Spec, SweepConfirmsFirst

-----------------------------------------------------------------------------
(* The abandoned cart's row.                                                *)

\* What the passes, the delivery and the clock rely on between two of their steps: a
\* link that was seen paid stays paid, and after the expiry none can become payable.
SightsHold ==
  /\ \A k \in Checker : checkers[k].saw = "paid" => link = "paid"
  /\ hook # "none" => link = "paid"
  /\ expired => link \in {"paid", "expired"}
  /\ cart.status = "expired" => expired

\* What a call remembers of its email until it records it.
AnswersHold == \A c \in Caller : callers[c].email = "sent" => mail = "sent"

CartIInv == CartAgreesWithLink /\ SightsHold /\ AnswersHold

LEMMA InitCartIInv == CartInit => CartIInv
  <1>. SUFFICES ASSUME CartInit PROVE CartIInv
    OBVIOUS
  <1>1. CartTypeOK
    <2>1. cart \in Cart
      BY DEF CartInit, Cart, CartStatus, EmailStatus
    <2>2. mishaps \in 0..MaxMishaps
      BY MishapAssumption DEF CartInit
    <2>. QED BY <2>1, <2>2 DEF CartInit, CartTypeOK, EmailStatus
  <1>2. ConfirmedIsPaid /\ ExpiredIsUnpayable /\ SentIsSent /\ SightsHold /\ AnswersHold
    BY DEF CartInit, ConfirmedIsPaid, ExpiredIsUnpayable, SentIsSent, SightsHold, AnswersHold
  <1>. QED BY <1>1, <1>2 DEF CartIInv, CartAgreesWithLink

\* A call changes the row, the link and the email, and never confirms or expires.
LEMMA CallerKeeps ==
  ASSUME CartIInv, NEW c \in Caller, Process(c) \/ CallerDies(c)
  PROVE  CartIInv'
  <1>. USE DEF CartIInv, CartAgreesWithLink
  <1>1. UNCHANGED <<checkers, hook, expired>>
    BY DEF Process, Detect, CheckStatus, CreateLink, Send, Record, RecordFailure, CallerDies
  <1>2. \A d \in Caller : d # c => callers'[d] = callers[d]
    BY DEF Process, Detect, CheckStatus, CreateLink, Send, Record, RecordFailure, CallerDies,
           CallerAt, CartTypeOK
  <1>3. /\ callers' \in [Caller -> [pc : {"idle", "check", "link", "send", "record", "fail", "over"},
                                    email : EmailStatus]]
        /\ mishaps' \in 0..MaxMishaps
    <2>1. CASE Detect(c) \/ CheckStatus(c) \/ Record(c) \/ RecordFailure(c)
      BY <2>1 DEF Detect, CheckStatus, Record, RecordFailure, CallerAt, CartTypeOK
    <2>2. CASE CreateLink(c) \/ CallerDies(c)
      BY <2>2, MishapAssumption DEF CreateLink, CallerDies, CallerAt, Mishap, CartTypeOK
    <2>3. CASE Send(c)
      BY <2>3, MishapAssumption DEF Send, Mishap, CartTypeOK
    <2>. QED BY <2>1, <2>2, <2>3 DEF Process
  <1>4. CASE Detect(c) \/ Record(c) \/ RecordFailure(c)
    <2>1. UNCHANGED <<link, mail>> /\ callers'[c].email = callers[c].email
      BY <1>4 DEF Detect, Record, RecordFailure, CallerAt, CartTypeOK
    <2>2. /\ cart' \in Cart /\ cart'.confirmed = cart.confirmed
          /\ cart'.status \in {cart.status, "detected", "emailed", "failed"}
          /\ cart'.email \in {cart.email, callers[c].email}
      BY <1>4 DEF Detect, Record, RecordFailure, CallerAt, CartTypeOK, Cart, CartStatus
    <2>. QED BY <1>1, <1>2, <1>3, <2>1, <2>2
         DEF CartTypeOK, ConfirmedIsPaid, ExpiredIsUnpayable, SentIsSent, SightsHold, AnswersHold
  <1>5. CASE CheckStatus(c) \/ CallerDies(c)
    <2>1. UNCHANGED <<cart, link, mail>> /\ callers'[c].email = callers[c].email
      BY <1>5 DEF CheckStatus, CallerDies, CallerAt, CartTypeOK
    <2>. QED BY <1>1, <1>2, <1>3, <2>1
         DEF CartTypeOK, ConfirmedIsPaid, ExpiredIsUnpayable, SentIsSent, SightsHold, AnswersHold
  <1>6. CASE CreateLink(c)
    <2>1. UNCHANGED <<cart, mail>> /\ callers'[c].email = callers[c].email
      BY <1>6 DEF CreateLink, CallerAt, CartTypeOK
    <2>2. link' = link \/ (link = "none" /\ link' = "open")
      BY <1>6 DEF CreateLink
    \* A cart expires only once its link has, and a reference is taken once.
    <2>3. (cart.status = "expired" => link' # "open") /\ (expired => link' = link)
      BY <2>2 DEF ExpiredIsUnpayable, SightsHold
    <2>. QED BY <1>1, <1>2, <1>3, <2>1, <2>2, <2>3
         DEF CartTypeOK, ConfirmedIsPaid, ExpiredIsUnpayable, SentIsSent, SightsHold, AnswersHold
  <1>7. CASE Send(c)
    <2>1. UNCHANGED <<cart, link>>
      BY <1>7 DEF Send
    <2>2. /\ mail' \in {"none", "logged", "sent"}
          /\ mail = "sent" => mail' = "sent"
          /\ callers'[c].email = "sent" => mail' = "sent"
      BY <1>7 DEF Send, CartTypeOK
    <2>. QED BY <1>1, <1>2, <1>3, <2>1, <2>2
         DEF CartTypeOK, ConfirmedIsPaid, ExpiredIsUnpayable, SentIsSent, SightsHold, AnswersHold
  <1>. QED BY <1>4, <1>5, <1>6, <1>7 DEF Process

\* A pass confirms what it saw paid, and gives up only behind the expiry.
LEMMA CheckerKeeps ==
  ASSUME CartIInv, NEW k \in Checker, Check(k)
  PROVE  CartIInv'
  <1>. USE DEF CartIInv, CartAgreesWithLink
  <1>1. UNCHANGED <<link, mail, callers, hook, expired>>
    BY DEF Check, ListPending, EndPass, Fetch, Mark
  <1>2. /\ \A j \in Checker : j # k => checkers'[j] = checkers[j]
        /\ checkers'[k].saw = "paid" => checkers[k].saw = "paid" \/ link = "paid"
        /\ checkers' \in [Checker -> [pc : {"idle", "fetch", "mark", "leave"}, saw : {"paid", "unpaid"}]]
    BY DEF Check, ListPending, EndPass, Fetch, Mark, CartTypeOK
  <1>3. mishaps' \in 0..MaxMishaps
    BY MishapAssumption DEF Check, ListPending, EndPass, Fetch, Mark, Mishap, CartTypeOK
  <1>4. CASE ListPending(k) \/ EndPass(k) \/ Fetch(k)
    <2>1. cart' = cart
      BY <1>4 DEF ListPending, EndPass, Fetch
    <2>. QED BY <1>1, <1>2, <1>3, <2>1
         DEF CartTypeOK, ConfirmedIsPaid, ExpiredIsUnpayable, SentIsSent, SightsHold, AnswersHold
  <1>5. CASE Mark(k)
    <2>1. /\ cart' \in Cart /\ cart'.email = cart.email
          /\ cart'.confirmed => cart.confirmed \/ checkers[k].saw = "paid"
          /\ cart'.status = "expired" => cart.status = "expired" \/ expired
      BY <1>5 DEF Mark, CartTypeOK, Cart, CartStatus
    <2>. QED BY <1>1, <1>2, <1>3, <2>1
         DEF CartTypeOK, ConfirmedIsPaid, ExpiredIsUnpayable, SentIsSent, SightsHold, AnswersHold
  <1>. QED BY <1>4, <1>5 DEF Check

LEMMA HookKeeps ==
  ASSUME CartIInv, HookRead \/ HookMark
  PROVE  CartIInv'
  <1>. USE DEF CartIInv, CartAgreesWithLink
  <1>1. UNCHANGED <<link, mail, callers, checkers, expired, mishaps>> /\ hook # "none"
    BY DEF HookRead, HookMark
  <1>2. hook' \in {"mark", "done"}
    BY DEF HookRead, HookMark
  <1>3. cart' = cart \/ (cart' \in Cart /\ cart'.status = "recovered" /\ cart'.email = cart.email)
    BY DEF HookRead, HookMark, CartTypeOK, Cart, CartStatus
  <1>. QED BY <1>1, <1>2, <1>3
       DEF CartTypeOK, ConfirmedIsPaid, ExpiredIsUnpayable, SentIsSent, SightsHold, AnswersHold

LEMMA WorldKeeps ==
  ASSUME CartIInv, PayCart \/ Expire
  PROVE  CartIInv'
  <1>. USE DEF CartIInv, CartAgreesWithLink
  <1>1. CASE PayCart
    <2>1. /\ UNCHANGED <<cart, mail, callers, checkers, expired>>
          /\ link = "open" /\ link' = "paid" /\ hook' \in {"due", "lost"}
      BY <1>1 DEF PayCart
    <2>2. mishaps' \in 0..MaxMishaps
      BY <1>1, MishapAssumption DEF PayCart, Mishap, CartTypeOK
    <2>. QED BY <2>1, <2>2
         DEF CartTypeOK, ConfirmedIsPaid, ExpiredIsUnpayable, SentIsSent, SightsHold, AnswersHold
  <1>2. CASE Expire
    BY <1>2 DEF Expire, CartTypeOK, ConfirmedIsPaid, ExpiredIsUnpayable, SentIsSent, SightsHold, AnswersHold
  <1>. QED BY <1>1, <1>2

\* A cart's row is true of its link and of its email, and its types are right, whatever
\* calls, retries, passes and deliveries overlap on it (workflows/abandoned-cart.ts and
\* its routes, none of which takes a lock).
THEOREM CartRowIsTrue == CartSpec => []CartAgreesWithLink
  <1>1. CartIInv /\ [CartNext]_cartVars => CartIInv'
    <2>1. CASE UNCHANGED cartVars
      BY <2>1 DEF cartVars, CartIInv, CartAgreesWithLink, CartTypeOK, ConfirmedIsPaid, ExpiredIsUnpayable,
                  SentIsSent, SightsHold, AnswersHold
    <2>. QED BY <2>1, CallerKeeps, CheckerKeeps, HookKeeps, WorldKeeps DEF CartNext
  <1>2. CartIInv => CartAgreesWithLink
    BY DEF CartIInv
  <1>. QED BY InitCartIInv, <1>1, <1>2, PTL DEF CartSpec
=============================================================================
