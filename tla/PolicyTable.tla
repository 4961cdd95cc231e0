---------------------------- MODULE PolicyTable ----------------------------
(***************************************************************************)
(* The policy table: what compilePolicyTable lets into the program, and    *)
(* the row the resolver takes from it.  A row constrains some dimensions   *)
(* of a case, each to a set of values (none: the dimension is free), and   *)
(* carries a ladder of rungs.  Every check of the compiler is about the    *)
(* table alone; the promise is about the cases it is used for.             *)
(***************************************************************************)
EXTENDS Taxonomy, Sequences, FiniteSetsExt

Dims == {"errorReason", "bank", "errorSource", "errorStep", "method", "causeClass",
         "amountBand", "caseType", "attended"}

MATCH_WEIGHTS ==
  [errorReason |-> 100, bank |-> 30, errorSource |-> 15, errorStep |-> 12, method |-> 8,
   causeClass |-> 6, amountBand |-> 3, caseType |-> 1, attended |-> 1]

Weight(match, d) == IF match[d] = {} THEN 0 ELSE MATCH_WEIGHTS[d]

SpecificityOf(match) ==
  Weight(match, "errorReason") + Weight(match, "bank") + Weight(match, "errorSource")
  + Weight(match, "errorStep") + Weight(match, "method") + Weight(match, "causeClass")
  + Weight(match, "amountBand") + Weight(match, "caseType") + Weight(match, "attended")

RowSpecificity(row) == IF row.catchAll THEN -1 ELSE SpecificityOf(row.match)

\* ---- rungs ----
Rungs(row) == {row.ladder[i] : i \in DOMAIN row.ladder}

IsTouch(g) == g.do \in {"nudge", "send_pre_debit_notice"}

Touches(row) == {g \in Rungs(row) : IsTouch(g)}

\* A fanout rung sends on each of its channels.
MessagesOf(g) == IF ~IsTouch(g) THEN 0 ELSE IF g.fanout THEN Len(g.channels) ELSE 1

\* Each message of a row: its rung and its place among the rung's messages.
Messages(row) == UNION {{i} \X (1..MessagesOf(row.ladder[i])) : i \in DOMAIN row.ladder}

CustomerMessageCount(row) == Cardinality(Messages(row))

\* "Inherit": the rung names no rails and takes the diagnosis's.
Inherit == {"inherit"}

\* ---- what the compiler checks ----
ApplicableClasses(match) == IF match["causeClass"] = {} THEN CauseClasses ELSE match["causeClass"]

Increasing(ladder) == \A i, j \in DOMAIN ladder : i < j => ladder[i].at < ladder[j].at

\* The first nudge; a pre-debit notice is not one.
FirstNudge(row, i) == /\ row.ladder[i].do = "nudge"
                      /\ \A j \in 1..(i - 1) : row.ladder[j].do # "nudge"

UnderTraits(row) ==
  \A c \in ApplicableClasses(row.match) :
    LET traits == CAUSE_CLASS_TRAITS[c]
    IN /\ row.max <= traits.touches
       /\ ~traits.contact => Touches(row) = {}
       /\ \A i \in DOMAIN row.ladder : FirstNudge(row, i) => row.ladder[i].at >= traits.floor
       /\ ~traits.retry => \A g \in Rungs(row) :
            g.do # "retry_debit" /\ (g.do = "nudge" => "retry_same" \notin g.suggest)

MandateRules(row) ==
  LET debits == {g \in Rungs(row) : g.do = "retry_debit"}
      notices == {g \in Rungs(row) : g.do = "send_pre_debit_notice"}
  IN /\ Touches(row) \cup debits # {} => row.catchAll \/ row.match["attended"] # {}
     /\ notices \cup debits # {} => row.match["attended"] = {"no"}
     /\ debits # {} => notices # {} /\ "mandate_active" \in row.pre

KillSwitch(row) ==
  Touches(row) # {} => /\ {"order_paid", "customer_optout"} \subseteq row.abort
                       /\ {"order_unpaid", "within_frequency_cap"} \subseteq row.pre

CheckRow(row) ==
  /\ Increasing(row.ladder)
  /\ CustomerMessageCount(row) <= row.max
  /\ Touches(row) # {} => ~row.catchAll /\ row.match["causeClass"] # {}
  /\ row.catchAll \/ UnderTraits(row)
  /\ MandateRules(row)
  /\ KillSwitch(row)
  /\ (\E g \in Rungs(row) : g.do = "merchant_alert") => ~row.holdout

CanOverlap(m, n) == \A d \in Dims : m[d] = {} \/ n[d] = {} \/ m[d] \cap n[d] # {}

SameBehaviour(a, b) == a.ladder = b.ladder /\ a.max = b.max

Unambiguous(rows) ==
  \A a, b \in rows :
    a # b /\ ~a.catchAll /\ ~b.catchAll /\ RowSpecificity(a) = RowSpecificity(b)
      /\ CanOverlap(a.match, b.match) => SameBehaviour(a, b)

\* Rows of different ids are different rows; rows is the table as a set.
CheckTable(rows) ==
  /\ \A a, b \in rows : a.id = b.id => a = b
  /\ \E a \in rows : a.catchAll /\ \A b \in rows : b.catchAll => b = a
  /\ \A c \in CauseClasses : \E a \in rows : ~a.catchAll /\ c \in a.match["causeClass"]
  /\ Unambiguous(rows)

Compiles(rows) == CheckTable(rows) /\ \A row \in rows : CheckRow(row)

\* ---- the resolver ----
MatchInput(t, diagnosis, ctx) ==
  [errorReason |-> t.reason, errorSource |-> t.source, errorStep |-> t.step,
   method |-> t.method, bank |-> t.bank, causeClass |-> diagnosis.class,
   caseType |-> diagnosis.type, amountBand |-> AmountBand(ctx.amount),
   attended |-> IF diagnosis.attended THEN "yes" ELSE "no"]

\* A bank of "none" is in no row's list.
MatchesPolicy(match, input) == \A d \in Dims : match[d] = {} \/ input[d] \in match[d]

\* Faulty variant: the class of the case is not looked at.
CandidatesOfAnyClass(rows, input) ==
  {row \in rows : row.catchAll \/ \A d \in Dims \ {"causeClass"} : row.match[d] = {} \/ input[d] \in row.match[d]}

Candidates(rows, input) == {row \in rows : row.catchAll \/ MatchesPolicy(row.match, input)}

BestRows(rows, input) ==
  {row \in Candidates(rows, input) :
     \A other \in Candidates(rows, input) : RowSpecificity(other) <= RowSpecificity(row)}

\* Ties go by id in the code; Unambiguous makes them harmless.
ResolvePolicy(rows, input) == CHOOSE row \in BestRows(rows, input) : TRUE

EffectiveRails(suggest, diagnosis) ==
  {r \in IF suggest = Inherit THEN diagnosis.rails ELSE suggest :
     diagnosis.retry \/ r # "retry_same"}
=============================================================================
