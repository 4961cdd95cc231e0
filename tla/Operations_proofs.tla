--------------------------- MODULE Operations_proofs ---------------------------
(***************************************************************************)
(* That what a rung leaves behind agrees, that people are told the truth   *)
(* of the queue and that its records only move forward, for any cases, any *)
(* ladder of the two rungs, any people and any number of faults; and that  *)
(* overlapping triage runs settle every reason they find.  The parts that  *)
(* interact only through the queue have an invariant each, over their own  *)
(* variables.                                                              *)
(***************************************************************************)
EXTENDS Operations, WellFoundedInduction, FiniteSetTheorems, TLAPS

----------------------------------------------------------------------------
(* What the variables hold.                                                 *)

Acting == {"acknowledge", "resolve", "dismiss"}

\* What a ladder read before it acts: a brief's source, or a cluster's counts.
Counted == [count : 1 .. Cardinality(Case), onset : Case, open : {TRUE}]
Read == {NoRow} \union BriefSources \union Counted

Positions == {"row", "read", "write", "tell", "advance"}

QueueTypes ==
  /\ queue \in [Key -> {NoRow} \union Escalation]
  /\ trail \in [Key -> Nat]
  /\ said \subseteq [who : Person, of : Key, act : Acting]

LadderTypes ==
  /\ cases \in [Case -> [born : BOOLEAN, old : BOOLEAN, paid : BOOLEAN]]
  /\ ladder \in [Case -> [rung : 0 .. Len(Rungs), at : Positions, read : Read]]
  /\ actions \subseteq Key
  /\ fired \subseteq {k \in Key : k[2] < Len(Rungs)}
  /\ alerted \in [Case -> {"no", "no cluster", "raised"}]
  /\ deferred \in [Case -> Nat]

AlertTypes == alerts \in Seq([count : 1 .. Cardinality(Case), onset : Case, open : BOOLEAN])

PeopleTypes ==
  /\ hands \in [Hand -> [at : {"idle", "write", "tell", "done"}, of : {NoRow} \union Key,
                         source : BriefSources]]
  /\ people \in [Person -> [at : {"idle", "checked", "answered"}, of : {NoRow} \union Key,
                            act : Acting, acts : Nat]]

Types == QueueTypes /\ LadderTypes /\ AlertTypes /\ PeopleTypes

----------------------------------------------------------------------------
(* The inductive invariants.                                                *)

\* Where a ladder stands fits its rung and its cohort, and what it read fits what it
\* will do with it.
LadderFit(c) ==
  /\ ladder[c].at # "row" => OnLadder(c)
  /\ c \in Holdout => ladder[c].at \in {"row", "advance"}
  /\ ladder[c].at = "write" =>
       ladder[c].read \in IF Doing(c) = "escalate_to_human" THEN BriefSources ELSE Counted

\* A script on its way holds the key of a rung by hand, and what it asked is known of
\* a person whose check has passed.
HandFit(h) == hands[h].at \in {"write", "tell"} =>
                hands[h].of \in Key /\ hands[h].of[2] = ManualRung
PersonFit(p) == people[p].at = "checked" => people[p].of \in Key /\ queue[people[p].of] # NoRow

FitInv == /\ \A c \in Case : LadderFit(c)
          /\ \A h \in Hand : HandFit(h)
          /\ \A p \in Person : PersonFit(p)

\* A row is its key's: the ladder writes the ladder's, people the others.
RowInv == \A k \in Key : queue[k] # NoRow =>
            queue[k].by = IF k[2] = ManualRung THEN "console" ELSE "workflow"

\* Whoever is about to write the `escalated` event of a row made the row, and is
\* alone in that.
TrailInv ==
  /\ EscalatedOnce
  /\ \A c \in Case : ladder[c].at = "tell" /\ Doing(c) = "escalate_to_human" =>
       queue[Rung(c)] # NoRow /\ trail[Rung(c)] = 0
  /\ \A h \in Hand : hands[h].at = "tell" =>
       queue[hands[h].of] # NoRow /\ trail[hands[h].of] = 0
  /\ \A h, i \in Hand : hands[h].at = "tell" /\ hands[i].at = "tell"
                        /\ hands[h].of = hands[i].of => h = i

\* What a rung did by the time it is passed.
Delivered(k) ==
  IF Rungs[k[2] + 1] = "escalate_to_human"
  THEN queue[k] # NoRow /\ queue[k].by = "workflow"
  ELSE alerted[k[1]] # "no"

FiredInv ==
  /\ \A k \in fired : k[1] \notin Holdout => Delivered(k)
  /\ \A c \in Case \ Holdout : ladder[c].at = "advance" => Delivered(Rung(c))
  /\ \A c \in Case : ladder[c].at = "tell" /\ Doing(c) = "merchant_alert" =>
       ladder[c].read = NoRow \/ alerts # <<>>
  /\ (\E c \in Case : alerted[c] = "raised") => alerts # <<>>

\* What people were told of a row: where it stands says who could have been told what.
Acked(k) == {s \in said : s.of = k /\ s.act = "acknowledge"}
Closed(k) == {s \in said : s.of = k /\ s.act # "acknowledge"}

Answers(k) ==
  /\ Cardinality(Acked(k)) <= 1 /\ Cardinality(Closed(k)) <= 1
  /\ \A s \in Closed(k) : queue[k].status = ClosesAs(s.act)
  /\ Acked(k) = {} <=> queue[k] = NoRow \/ queue[k].assignedTo = "nobody"
  /\ Closed(k) # {} => queue[k] # NoRow
  /\ queue[k] # NoRow /\ queue[k].status = "open" => queue[k].assignedTo = "nobody"

SaidInv == \A k \in Key : Answers(k)

\* Only a case that was born was deferred.
DeferInv == \A c \in Case : deferred[c] > 0 => cases[c].born

QueueInv == FitInv /\ RowInv /\ TrailInv /\ HoldoutUntouched /\ FiredInv /\ SaidInv /\ DeferInv

\* The page's timers and the polls that will set one are as many as it was started
\* with and clicks have added.
Loops == {i \in Polls : polls[i].by \in {"loop", "refresh"}}

PageInv ==
  /\ page \in [on : BOOLEAN, timers : Nat, current : BOOLEAN, misses : 0 .. STALE_AFTER_POLLS]
  /\ polls \in [Polls -> [by : {"none", "loop", "refresh", "act"}, saw : SUBSET Key]]
  /\ shown \subseteq Key
  /\ clicks \in 0 .. MaxClicks
  /\ page.current => page.timers > 0
  /\ page.timers + Cardinality(Loops) <= clicks + 1

\* A run's reasons are those it has an outcome for and those it has left.
TriageInv ==
  /\ proposals \in [Reason -> Seq([status : {"pending", "accepted", "rejected"}, class : Class])]
  /\ runs \in [TriageRun -> [at : {NotStarted, "asking", "recording", Dead},
                             todo : SUBSET UnknownReasons, class : Class \union {"none"}]]
  /\ tried \in [TriageRun -> SUBSET UnknownReasons]
  /\ \A t \in TriageRun :
       /\ runs[t].at = NotStarted => tried[t] = {}
       /\ runs[t].at \in {"asking", "recording"} => tried[t] \union runs[t].todo = UnknownReasons
       /\ runs[t].at = "recording" => runs[t].class \in Class
  /\ \A r \in Reason : /\ \A i, j \in Pending(r) : i = j
                       /\ proposals[r] # <<>> => r \in UnknownReasons

\* A step at the queue: the ladder's, a script's, a person's, or somebody going on to
\* what they do next.
GoesOn(p) ==
  /\ people' = [people EXCEPT ![p].at = "idle"]
  /\ UNCHANGED <<cases, ladder, actions, queue, trail, fired, alerted, deferred, alerts,
                 hands, said, faults>>

QueueStep ==
  \/ \E c \in Case : LadderStep(c)
  \/ \E h \in Hand : HandStep(h)
  \/ \E p \in Person : \/ RouteUpdates(p) \/ GoesOn(p)
                       \/ \E k \in Key, act \in Acting : RouteChecks(p, k, act) \/ ScriptUpdates(p, k, act)
  \/ ResolveAlert
  \/ UNCHANGED evars

\* Whatever happens is a step at the queue, or leaves the queue alone.
LEMMA StepsAtTheQueue ==
  ASSUME shown \subseteq Key, Next PROVE QueueStep
<1>1. CASE /\ \/ \E c \in Case \cap shift : LadderStep(c)
              \/ \E h \in Hand \cap shift : HandStep(h)
              \/ \E p \in Person \cap shift : PersonStep(p)
              \/ ResolveAlert
           /\ UNCHANGED <<pvars, tvars, shift>>
  BY <1>1 DEF PersonStep, Leaves, GoesOn, QueueStep, Acting
<1>2. CASE PageStep /\ UNCHANGED <<evars, tvars, shift>>
  BY <1>2 DEF QueueStep
<1>3. CASE ViewerActs /\ UNCHANGED <<tvars, shift>>
  BY <1>3, PageAssumption DEF ViewerActs, QueueStep, Acting
<1>4. CASE ViewerPolls /\ UNCHANGED <<tvars, shift>>
  BY <1>4, PageAssumption DEF ViewerPolls, GoesOn, QueueStep
<1>5. CASE UNCHANGED <<evars, pvars, shift>>
  BY <1>5 DEF QueueStep
<1> QED BY <1>1, <1>2, <1>3, <1>4, <1>5 DEF Next

\* What an insert and an update make of the queue is a queue.
LEMMA InsertIs ==
  ASSUME queue \in [Key -> {NoRow} \union Escalation], NEW k \in Key,
         NEW by \in {"workflow", "console"}, NEW source \in BriefSources
  PROVE  /\ NewEscalation(by, source) \in Escalation
         /\ EscalationInserted(k, by, source) \in [Key -> {NoRow} \union Escalation]
         /\ \A l \in Key : EscalationInserted(k, by, source)[l] =
              IF l = k /\ queue[k] = NoRow THEN NewEscalation(by, source) ELSE queue[l]
<1>1. NewEscalation(by, source) \in Escalation
  BY DEF NewEscalation, Escalation, Status
<1> QED BY <1>1 DEF EscalationInserted

AfterUpdate(row, act, name) ==
  [row EXCEPT !.status = IF act = "acknowledge" THEN "acknowledged" ELSE ClosesAs(act),
              !.assignedTo = IF act = "acknowledge" THEN name ELSE @]

LEMMA UpdateIs ==
  ASSUME queue \in [Key -> {NoRow} \union Escalation], NEW k \in Key, NEW act \in Acting,
         NEW name \in {"console"} \union Person, Permitted(k, act)
  PROVE  /\ queue[k] \in Escalation
         /\ ApplyTo(k, act, name) \in [Key -> {NoRow} \union Escalation]
         /\ \A l \in Key \ {k} : ApplyTo(k, act, name)[l] = queue[l]
         /\ ApplyTo(k, act, name)[k] = AfterUpdate(queue[k], act, name)
<1>1. queue[k] \in Escalation
  BY DEF Permitted
<1> DEFINE new == AfterUpdate(queue[k], act, name)
<1>2. new \in Escalation
  BY <1>1 DEF Escalation, Status, ClosesAs, AfterUpdate
<1>3. ApplyTo(k, act, name) = [queue EXCEPT ![k] = new]
  BY <1>1 DEF ApplyTo, Escalation, AfterUpdate
<1> HIDE DEF new
<1> QED BY <1>1, <1>2, <1>3 DEF new

----------------------------------------------------------------------------
(* The operators the steps are built from.                                  *)

LEMMA LeastNatural ==
  ASSUME NEW T, T \subseteq Nat, T # {}
  PROVE  Min(T) \in T /\ \A y \in T : Min(T) <= y
<1>1. IsWellFoundedOn(OpToRel(<, Nat), Nat)
  BY NatLessThanWellFounded
<1>2. PICK x \in T : \A y \in T : ~(<<y, x>> \in OpToRel(<, Nat))
  BY <1>1, WFMin
<1>3. \A y \in T : ~(y < x)
  BY <1>2 DEF OpToRel
<1>4. \A y \in T : x <= y
  BY <1>3
<1> QED BY <1>4 DEF Min

\* A ladder that is on a rung holds the key of it, which no script holds.
LEMMA RungIs ==
  ASSUME LadderTypes, NEW c \in Case, OnLadder(c)
  PROVE  /\ Rung(c) \in Key /\ Rung(c)[1] = c /\ Rung(c)[2] = ladder[c].rung
         /\ Rung(c)[2] # ManualRung /\ Rung(c)[2] < Len(Rungs)
         /\ Rungs[Rung(c)[2] + 1] = Doing(c)
         /\ Doing(c) \in {"escalate_to_human", "merchant_alert"}
<1>0. Len(Rungs) \in Nat
  BY LadderAssumption
<1>a. ladder[c].rung \in 0 .. Len(Rungs)
  BY DEF LadderTypes
<1>1. ladder[c].rung \in 0 .. Len(Rungs) - 1 /\ Len(Rungs) \in Nat
  BY <1>0, <1>a DEF OnLadder
<1>2. ladder[c].rung # ManualRung
  BY <1>1, LadderAssumption DEF ManualRung
<1>3. ladder[c].rung + 1 \in 1 .. Len(Rungs)
  BY <1>1
<1>4. Doing(c) \in {"escalate_to_human", "merchant_alert"}
  BY <1>3, LadderAssumption DEF Doing
<1> QED BY <1>1, <1>2, <1>4 DEF Rung, Key, Doing

LEMMA ManualKeyIs ==
  ASSUME NEW c \in Case PROVE ManualKey(c) \in Key /\ ManualKey(c)[2] = ManualRung
BY DEF ManualKey, Key

\* Two keys of one case and one rung are one.
LEMMA SameKey ==
  ASSUME NEW k \in Key, NEW l \in Key, k[1] = l[1], k[2] = l[2] PROVE k = l
BY DEF Key

LEMMA CountIs ==
  ASSUME Cluster # {}
  PROVE  [count |-> Cardinality(Cluster), onset |-> Min(Cluster), open |-> TRUE] \in Counted
<1>1. Cluster \subseteq Case
  BY DEF Cluster
<1>2. IsFiniteSet(Cluster) /\ Cardinality(Cluster) <= Cardinality(Case)
  BY <1>1, FS_Subset, LadderAssumption
<1>3. Cardinality(Cluster) \in Nat /\ Cardinality(Case) \in Nat /\ Cardinality(Cluster) # 0
  BY <1>2, FS_CardinalityType, FS_EmptySet, LadderAssumption
<1>4. Min(Cluster) \in Case
  BY <1>1, LeastNatural, LadderAssumption
<1> QED BY <1>2, <1>3, <1>4 DEF Counted

\* An alert that is raised keeps what is there: another row, or another count.
LEMMA RaisedIs ==
  ASSUME AlertTypes, NEW facts \in Counted
  PROVE  /\ Raised(facts) \in Seq([count : 1 .. Cardinality(Case), onset : Case, open : BOOLEAN])
         /\ Raised(facts) # <<>>
         /\ \A i \in DOMAIN alerts :
              /\ i \in DOMAIN Raised(facts) /\ Raised(facts)[i].onset = alerts[i].onset
              /\ ~alerts[i].open => Raised(facts)[i] = alerts[i]
<1> DEFINE Alert == [count : 1 .. Cardinality(Case), onset : Case, open : BOOLEAN]
<1>1. facts \in Alert
  BY DEF Counted
<1>2. alerts \in Seq(Alert)
  BY DEF AlertTypes
<1>3. CASE OpenAlerts = {}
  <2>1. Raised(facts) = Append(alerts, facts)
    BY <1>3 DEF Raised
  <2> HIDE DEF Alert
  <2>2. /\ Append(alerts, facts) \in Seq(Alert) /\ Append(alerts, facts) # <<>>
        /\ \A i \in DOMAIN alerts : /\ i \in DOMAIN Append(alerts, facts)
                                    /\ Append(alerts, facts)[i] = alerts[i]
    BY <1>1, <1>2
  <2> QED BY <2>1, <2>2 DEF Alert
<1>4. CASE OpenAlerts # {}
  <2> DEFINE n == CHOOSE i \in OpenAlerts : TRUE
  <2>1. n \in OpenAlerts
    BY <1>4
  <2>2. n \in 1 .. Len(alerts) /\ alerts[n].open
    BY <2>1, <1>2 DEF OpenAlerts
  <2>3. Raised(facts) = [alerts EXCEPT ![n].count = facts.count]
    BY <1>4 DEF Raised
  <2> HIDE DEF n, Alert
  <2>a. alerts[n] \in Alert
    BY <1>2, <2>2
  <2>b. facts.count \in 1 .. Cardinality(Case)
    BY DEF Counted
  <2>4. [alerts[n] EXCEPT !.count = facts.count] \in Alert
    BY <2>a, <2>b DEF Alert
  <2>5. Raised(facts) = [alerts EXCEPT ![n] = [alerts[n] EXCEPT !.count = facts.count]]
    BY <2>3
  <2>6. Raised(facts) \in Seq(Alert) /\ Len(Raised(facts)) = Len(alerts)
    BY <2>5, <2>4, <1>2, <2>2
  <2>7. \A i \in DOMAIN alerts : /\ i \in DOMAIN Raised(facts)
                                 /\ i # n => Raised(facts)[i] = alerts[i]
    BY <2>5, <2>6, <1>2
  <2>8. Raised(facts)[n].onset = alerts[n].onset
    BY <2>5, <2>2, <1>2
  <2> QED BY <2>2, <2>6, <2>7, <2>8, <1>2 DEF Alert
<1> QED BY <1>3, <1>4

----------------------------------------------------------------------------
(* What the variables hold is kept by every step at the queue.              *)

Ladders == [rung : 0 .. Len(Rungs), at : Positions, read : Read]

LEMMA AtIs ==
  ASSUME LadderTypes, NEW c \in Case, NEW step \in Positions, At(c, step)
  PROVE  /\ ladder' \in [Case -> Ladders]
         /\ ladder'[c] = [ladder[c] EXCEPT !.at = step]
         /\ ladder'[c].rung = ladder[c].rung /\ ladder'[c].at = step
         /\ ladder'[c].read = ladder[c].read
         /\ \A d \in Case \ {c} : ladder'[d] = ladder[d]
<1>1. ladder \in [Case -> Ladders] /\ ladder[c] \in Ladders
  BY DEF LadderTypes, Ladders
<1>2. ladder' = [ladder EXCEPT ![c] = [ladder[c] EXCEPT !.at = step]]
  BY DEF At
<1>3. [ladder[c] EXCEPT !.at = step] \in Ladders
  BY <1>1 DEF Ladders
<1> QED BY <1>1, <1>2, <1>3 DEF Ladders

LEMMA NextRungIs ==
  ASSUME LadderTypes, NEW c \in Case, OnLadder(c), NextRung(c)
  PROVE  /\ ladder' \in [Case -> Ladders]
         /\ ladder'[c].rung = ladder[c].rung + 1 /\ ladder'[c].at = "row"
         /\ \A d \in Case \ {c} : ladder'[d] = ladder[d]
<1>1. ladder \in [Case -> Ladders] /\ ladder[c].rung \in 0 .. Len(Rungs)
  BY DEF LadderTypes, Ladders
<1>2. Len(Rungs) \in Nat
  BY LadderAssumption
<1>3. ladder[c].rung + 1 \in 0 .. Len(Rungs)
  BY <1>1, <1>2 DEF OnLadder
<1>4. ladder' = [ladder EXCEPT ![c] = [rung |-> ladder[c].rung + 1, at |-> "row", read |-> NoRow]]
  BY DEF NextRung
<1>5. [rung |-> ladder[c].rung + 1, at |-> "row", read |-> NoRow] \in Ladders
  BY <1>3 DEF Ladders, Positions, Read
<1> QED BY <1>1, <1>4, <1>5

\* What a ladder reads is its own: the rest of its place is kept.
Reads(c, step, value) == ladder' = [ladder EXCEPT ![c].at = step, ![c].read = value]

LEMMA ReadIs ==
  ASSUME LadderTypes, NEW c \in Case, NEW step \in Positions, NEW value \in Read, Reads(c, step, value)
  PROVE  /\ ladder' \in [Case -> Ladders]
         /\ ladder'[c].rung = ladder[c].rung /\ ladder'[c].at = step
         /\ ladder'[c].read = value
         /\ \A d \in Case \ {c} : ladder'[d] = ladder[d]
<1>1. ladder \in [Case -> Ladders] /\ ladder[c] \in Ladders
  BY DEF LadderTypes, Ladders
<1>2. ladder' = [ladder EXCEPT ![c] = [ladder[c] EXCEPT !.at = step, !.read = value]]
  BY <1>1 DEF Reads
<1>3. [ladder[c] EXCEPT !.at = step, !.read = value] \in Ladders
  BY <1>1 DEF Ladders
<1> QED BY <1>1, <1>2, <1>3 DEF Ladders

\* What counting a cluster leaves read: nothing to say, or the counts to raise.
LEMMA CountedIs ==
  ASSUME LadderTypes, NEW c \in Case, CountCluster(c)
  PROVE  /\ ladder' \in [Case -> Ladders]
         /\ ladder'[c].rung = ladder[c].rung
         /\ \/ ladder'[c].at = "tell" /\ ladder'[c].read = NoRow
            \/ ladder'[c].at = "write" /\ ladder'[c].read \in Counted
         /\ \A d \in Case \ {c} : ladder'[d] = ladder[d]
<1>1. CASE Cluster = {}
  <2>1. Reads(c, "tell", NoRow)
    BY <1>1 DEF CountCluster, Reads
  <2>2. "tell" \in Positions /\ NoRow \in Read
    BY DEF Positions, Read
  <2> QED BY <2>1, <2>2, ReadIs
<1>2. CASE Cluster # {}
  <2> DEFINE facts == [count |-> Cardinality(Cluster), onset |-> Min(Cluster), open |-> TRUE]
  <2>1. Reads(c, "write", facts)
    BY <1>2 DEF CountCluster, Reads
  <2>2. facts \in Counted
    BY <1>2, CountIs
  <2>3. "write" \in Positions /\ facts \in Read
    BY <2>2 DEF Positions, Read
  <2> HIDE DEF facts
  <2> QED BY <2>1, <2>2, <2>3, ReadIs
<1> QED BY <1>1, <1>2

LEMMA LadderTypesStay ==
  ASSUME LadderTypes, FitInv, DeferInv, QueueStep PROVE LadderTypes' /\ DeferInv'
<1> DEFINE Still == UNCHANGED <<cases, ladder, actions, fired, alerted, deferred>>
<1>1. CASE Still
  BY <1>1 DEF LadderTypes, DeferInv
<1> USE DEF Ladders
<1>2. ASSUME NEW c \in Case, LadderStep(c) PROVE LadderTypes' /\ DeferInv'
  <2> DEFINE Kept == /\ ladder' \in [Case -> Ladders]
                     /\ UNCHANGED <<cases, actions, fired, alerted, deferred>>
  <2>a. ASSUME Kept PROVE LadderTypes' /\ DeferInv'
    BY <2>a DEF LadderTypes, DeferInv
  <2>b. ladder[c].at # "row" => OnLadder(c)
    BY DEF FitInv, LadderFit
  <2>c. {"row", "read", "write", "tell", "advance"} \subseteq Positions
    BY DEF Positions
  <2>d. cases[c] \in [born : BOOLEAN, old : BOOLEAN, paid : BOOLEAN]
    BY DEF LadderTypes
  <2>1. CASE OpenCase(c)
    <3>1. cases' = [cases EXCEPT ![c] = [cases[c] EXCEPT !.born = TRUE]]
      BY <2>1 DEF OpenCase
    <3>2. cases' \in [Case -> [born : BOOLEAN, old : BOOLEAN, paid : BOOLEAN]]
      BY <3>1, <2>d DEF LadderTypes
    <3>3. \A d \in Case : cases[d].born => cases'[d].born
      BY <3>1, <2>d DEF LadderTypes
    <3> QED BY <2>1, <3>2, <3>3 DEF OpenCase, LadderTypes, DeferInv
  <2>2. CASE Recover(c)
    <3>1. cases' = [cases EXCEPT ![c] = [cases[c] EXCEPT !.paid = TRUE]]
      BY <2>2 DEF Recover
    <3>2. cases' \in [Case -> [born : BOOLEAN, old : BOOLEAN, paid : BOOLEAN]]
      BY <3>1, <2>d DEF LadderTypes
    <3>3. \A d \in Case : cases[d].born => cases'[d].born
      BY <3>1, <2>d DEF LadderTypes
    <3> QED BY <2>2, <3>2, <3>3 DEF Recover, LadderTypes, DeferInv
  <2>3. CASE Ages(c)
    <3>1. cases' = [cases EXCEPT ![c] = [cases[c] EXCEPT !.old = TRUE]]
      BY <2>3 DEF Ages
    <3>2. cases' \in [Case -> [born : BOOLEAN, old : BOOLEAN, paid : BOOLEAN]]
      BY <3>1, <2>d DEF LadderTypes
    <3>3. \A d \in Case : cases[d].born => cases'[d].born
      BY <3>1, <2>d DEF LadderTypes
    <3> QED BY <2>3, <3>2, <3>3 DEF Ages, LadderTypes, DeferInv
  <2>4. CASE Defer(c)
    <3>1. deferred' = [deferred EXCEPT ![c] = deferred[c] + 1] /\ cases[c].born
      BY <2>4 DEF Defer, Live
    <3>a. deferred \in [Case -> Nat]
      BY Zenon DEF LadderTypes
    <3>b. deferred[c] \in Nat
      BY <3>a
    <3>2. deferred' \in [Case -> Nat]
      BY <3>1, <3>a, <3>b
    <3>3. \A d \in Case : deferred'[d] > 0 => cases[d].born
      BY <3>1, <3>a DEF DeferInv
    <3> QED BY <2>4, <3>2, <3>3 DEF Defer, LadderTypes, DeferInv
  <2>5. CASE RecordAction(c)
    <3>1. OnLadder(c) /\ Rung(c) \in Key
      BY <2>5, RungIs DEF RecordAction
    <3>2. CASE Rung(c) \in actions
      <4>1. ladder' \in [Case -> Ladders]
        BY <2>5, <3>1, <3>2, NextRungIs DEF RecordAction
      <4> QED BY <2>5, <3>2, <4>1, <2>a DEF RecordAction
    <3>3. CASE Rung(c) \notin actions
      <4>1. \E step \in Positions : At(c, step)
        BY <2>5, <3>3, <2>c DEF RecordAction
      <4>2. ladder' \in [Case -> Ladders]
        BY <4>1, AtIs
      <4>3. actions' \subseteq Key
        BY <2>5, <3>1, <3>3 DEF RecordAction, LadderTypes
      <4> QED BY <2>5, <4>2, <4>3 DEF RecordAction, LadderTypes, DeferInv
    <3> QED BY <3>2, <3>3
  <2>6. CASE WriteBrief(c)
    <3>1. PICK source \in BriefSources : Reads(c, "write", source)
      BY <2>6 DEF WriteBrief, Reads
    <3>2. source \in Read
      BY DEF Read
    <3>3. ladder' \in [Case -> Ladders]
      BY <3>1, <3>2, <2>c, ReadIs
    <3> QED BY <2>6, <3>3, <2>a DEF WriteBrief
  <2>7. CASE CreateEscalation(c)
    <3>1. \E step \in Positions : At(c, step)
      BY <2>7, <2>c DEF CreateEscalation
    <3> QED BY <2>7, <3>1, AtIs, <2>a DEF CreateEscalation
  <2>8. CASE TellEscalated(c)
    <3>1. \E step \in Positions : At(c, step)
      BY <2>8, <2>c DEF TellEscalated
    <3> QED BY <2>8, <3>1, AtIs, <2>a DEF TellEscalated
  <2>9. CASE CountCluster(c)
    BY <2>9, CountedIs, <2>a DEF CountCluster
  <2>10. CASE RaiseAlert(c)
    <3>1. \E step \in Positions : At(c, step)
      BY <2>10, <2>c DEF RaiseAlert
    <3> QED BY <2>10, <3>1, AtIs, <2>a DEF RaiseAlert
  <2>11. CASE TellAlerted(c)
    <3>1. \E step \in Positions : At(c, step)
      BY <2>11, <2>c DEF TellAlerted
    <3>2. ladder' \in [Case -> Ladders]
      BY <3>1, AtIs
    <3>3. alerted' \in [Case -> {"no", "no cluster", "raised"}]
      BY <2>11 DEF TellAlerted, LadderTypes
    <3> QED BY <2>11, <3>2, <3>3 DEF TellAlerted, LadderTypes, DeferInv
  <2>12. CASE Advance(c)
    <3>1. OnLadder(c) /\ Rung(c) \in Key /\ Rung(c)[2] < Len(Rungs)
      BY <2>12, <2>b, RungIs DEF Advance
    <3>2. ladder' \in [Case -> Ladders]
      BY <2>12, <3>1, NextRungIs DEF Advance
    <3>3. fired' \subseteq {k \in Key : k[2] < Len(Rungs)}
      BY <2>12, <3>1 DEF Advance, LadderTypes
    <3> QED BY <2>12, <3>2, <3>3 DEF Advance, LadderTypes, DeferInv
  <2>13. CASE StepDies(c)
    <3>1. \E step \in Positions : At(c, step)
      BY <2>13, <2>c DEF StepDies
    <3> QED BY <2>13, <3>1, AtIs, <2>a DEF StepDies
  <2> QED BY <1>2, <2>1, <2>2, <2>3, <2>4, <2>5, <2>6, <2>7, <2>8, <2>9, <2>10, <2>11, <2>12,
             <2>13 DEF LadderStep
<1>3. ASSUME NEW h \in Hand, HandStep(h) PROVE Still
  BY <1>3 DEF HandStep, HandBegins, HandCreates, HandTells, HandDies
<1>4. ASSUME NEW p \in Person,
             \/ RouteUpdates(p) \/ GoesOn(p)
             \/ \E k \in Key, act \in Acting : RouteChecks(p, k, act) \/ ScriptUpdates(p, k, act)
      PROVE  Still
  BY <1>4 DEF RouteUpdates, GoesOn, RouteChecks, ScriptUpdates
<1>5. CASE ResolveAlert \/ UNCHANGED evars
  BY <1>5, <1>1 DEF ResolveAlert, evars
<1> QED BY <1>1, <1>2, <1>3, <1>4, <1>5 DEF QueueStep

----------------------------------------------------------------------------
(* A step does one of three things to the queue and what is told of it.     *)

AuthorOf(k) == IF k[2] = ManualRung THEN "console" ELSE "workflow"

Inserts(k) ==
  /\ \E source \in BriefSources : queue' = EscalationInserted(k, AuthorOf(k), source)
  /\ UNCHANGED <<trail, said>>

Tells(k) ==
  /\ trail' = [trail EXCEPT ![k] = @ + 1]
  /\ UNCHANGED <<queue, said>>

Updates(p, k, act, name) == Update(p, k, act, name) /\ UNCHANGED trail

Names == {"console"} \union Person

\* Whoever inserts is the ladder, at its own key and not of the holdout, or a script at
\* a key by hand; whoever tells of a row is in the step after the insert.
LEMMA QueueChanges ==
  ASSUME LadderTypes, PeopleTypes, FitInv, QueueStep
  PROVE  \/ \E c \in Case \ Holdout :
              /\ ladder[c].at = "write" /\ Doing(c) = "escalate_to_human"
              /\ OnLadder(c) /\ Inserts(Rung(c))
         \/ \E c \in Case \ Holdout :
              /\ ladder[c].at = "tell" /\ Doing(c) = "escalate_to_human"
              /\ OnLadder(c) /\ Tells(Rung(c)) /\ TellEscalated(c)
         \/ \E h \in Hand : hands[h].at = "write" /\ Inserts(hands[h].of)
         \/ \E h \in Hand : hands[h].at = "tell" /\ Tells(hands[h].of) /\ HandTells(h)
         \/ \E p \in Person, k \in Key, act \in Acting, name \in Names : Updates(p, k, act, name)
         \/ UNCHANGED <<queue, trail, said>>
<1>1. ASSUME NEW c \in Case, LadderStep(c)
      PROVE  \/ /\ c \notin Holdout /\ ladder[c].at = "write"
                /\ Doing(c) = "escalate_to_human"
                /\ OnLadder(c) /\ Inserts(Rung(c))
             \/ /\ c \notin Holdout /\ ladder[c].at = "tell"
                /\ Doing(c) = "escalate_to_human"
                /\ OnLadder(c) /\ Tells(Rung(c)) /\ TellEscalated(c)
             \/ UNCHANGED <<queue, trail, said>>
  <2>1. LadderFit(c)
    BY DEF FitInv
  <2>2. CASE CreateEscalation(c)
    <3>1. /\ ladder[c].at = "write" /\ Doing(c) = "escalate_to_human"
          /\ queue' = EscalationInserted(Rung(c), "workflow", ladder[c].read)
          /\ UNCHANGED <<trail, said>>
      BY <2>2 DEF CreateEscalation
    <3>2. c \notin Holdout /\ OnLadder(c) /\ ladder[c].read \in BriefSources
      BY <3>1, <2>1 DEF LadderFit
    <3>3. AuthorOf(Rung(c)) = "workflow"
      BY <3>2, RungIs DEF AuthorOf
    <3> QED BY <3>1, <3>2, <3>3 DEF Inserts
  <2>3. CASE TellEscalated(c)
    <3>1. c \notin Holdout /\ OnLadder(c)
      BY <2>1, <2>3 DEF LadderFit, TellEscalated
    <3> QED BY <2>3, <3>1 DEF TellEscalated, Tells
  <2>4. CASE OpenCase(c) \/ Recover(c) \/ Ages(c) \/ Defer(c) \/ RecordAction(c) \/ WriteBrief(c)
             \/ CountCluster(c) \/ RaiseAlert(c) \/ TellAlerted(c) \/ Advance(c) \/ StepDies(c)
    BY <2>4 DEF OpenCase, Recover, Ages, Defer, RecordAction, WriteBrief, CountCluster,
                RaiseAlert, TellAlerted, Advance, StepDies
  <2> QED BY <1>1, <2>2, <2>3, <2>4 DEF LadderStep
<1>2. ASSUME NEW h \in Hand, HandStep(h)
      PROVE  \/ hands[h].at = "write" /\ Inserts(hands[h].of)
             \/ hands[h].at = "tell" /\ Tells(hands[h].of) /\ HandTells(h)
             \/ UNCHANGED <<queue, trail, said>>
  <2>1. CASE HandCreates(h)
    <3>1. /\ hands[h].at = "write"
          /\ queue' = EscalationInserted(hands[h].of, "console", hands[h].source)
          /\ UNCHANGED <<trail, said>>
      BY <2>1 DEF HandCreates
    <3>2. AuthorOf(hands[h].of) = "console" /\ hands[h].source \in BriefSources
      BY <3>1 DEF FitInv, HandFit, AuthorOf, PeopleTypes
    <3> QED BY <3>1, <3>2 DEF Inserts
  <2>2. CASE HandTells(h)
    BY <2>2 DEF HandTells, Tells
  <2>3. CASE (\E c \in Case : HandBegins(h, c)) \/ HandDies(h)
    BY <2>3 DEF HandBegins, HandDies
  <2> QED BY <1>2, <2>1, <2>2, <2>3 DEF HandStep
<1>3. ASSUME NEW p \in Person, RouteUpdates(p)
      PROVE  \E k \in Key, act \in Acting : Updates(p, k, act, "console")
  <2>1. people[p].of \in Key /\ people[p].act \in Acting
    BY <1>3 DEF RouteUpdates, FitInv, PersonFit, PeopleTypes
  <2> QED BY <1>3,   <2>1 DEF RouteUpdates, Updates
<1>4. ASSUME NEW p \in Person, NEW k \in Key, NEW act \in Acting, ScriptUpdates(p, k, act)
      PROVE  Updates(p, k, act, p)
  BY <1>4 DEF ScriptUpdates, Updates
<1>5. ASSUME NEW p \in Person, NEW k \in Key, NEW act \in Acting,
             GoesOn(p) \/ RouteChecks(p, k, act)
      PROVE  UNCHANGED <<queue, trail, said>>
  BY <1>5 DEF GoesOn, RouteChecks
<1>6. CASE \E p \in Person : GoesOn(p)
  BY <1>6 DEF GoesOn
<1>7. CASE ResolveAlert \/ UNCHANGED evars
  BY <1>7 DEF ResolveAlert, evars
<1> QED BY <1>1, <1>2, <1>3, <1>4, <1>5, <1>6, <1>7 DEF QueueStep, Names

LEMMA InsertStep ==
  ASSUME QueueTypes, RowInv, SaidInv, NEW k \in Key, Inserts(k)
  PROVE  /\ QueueTypes' /\ RowInv' /\ SaidInv'
         /\ queue'[k] # NoRow /\ UNCHANGED trail
         /\ \A l \in Key : queue[l] # NoRow \/ l # k => queue'[l] = queue[l]
<1>1. PICK source \in BriefSources : queue' = EscalationInserted(k, AuthorOf(k), source)
  BY DEF Inserts
<1>2. UNCHANGED <<trail, said>>
  BY DEF Inserts
<1> DEFINE new == NewEscalation(AuthorOf(k), source)
<1>3. AuthorOf(k) \in {"workflow", "console"} /\ queue \in [Key -> {NoRow} \union Escalation]
  BY DEF AuthorOf, QueueTypes
<1>4. /\ new \in Escalation /\ queue' \in [Key -> {NoRow} \union Escalation]
      /\ \A l \in Key : queue'[l] = IF l = k /\ queue[k] = NoRow THEN new ELSE queue[l]
  BY <1>1, <1>3, InsertIs
<1>5. new.by = AuthorOf(k) /\ new.status = "open" /\ new.assignedTo = "nobody"
  BY DEF NewEscalation
<1>6. new # NoRow
  BY <1>4, QueueAssumption
<1> HIDE DEF new
<1>7. QueueTypes'
  BY <1>2, <1>4 DEF QueueTypes
<1>8. RowInv'
  BY <1>4, <1>5, <1>6 DEF RowInv, AuthorOf
<1>9. SaidInv'
  <2> SUFFICES ASSUME NEW l \in Key PROVE Answers(l)'
    BY DEF SaidInv
  <2>1. Answers(l) /\ Acked(l)' = Acked(l) /\ Closed(l)' = Closed(l)
    BY <1>2 DEF SaidInv, Acked, Closed
  <2>2. CASE l = k /\ queue[k] = NoRow
    <3>1. queue'[l] = new
      BY <1>4, <2>2
    <3>2. Acked(l) = {} /\ Closed(l) = {}
      BY <2>1, <2>2 DEF Answers
    <3> QED BY <2>1, <3>1, <3>2, <1>5, <1>6, FS_EmptySet DEF Answers
  <2>3. CASE ~(l = k /\ queue[k] = NoRow)
    <3>1. queue'[l] = queue[l]
      BY <1>4, <2>3
    <3> QED BY <2>1, <3>1 DEF Answers
  <2> QED BY <2>2, <2>3
<1> QED BY <1>2, <1>4, <1>6, <1>7, <1>8, <1>9

LEMMA TellStep ==
  ASSUME QueueTypes, RowInv, SaidInv, NEW k \in Key, Tells(k)
  PROVE  /\ QueueTypes' /\ RowInv' /\ SaidInv' /\ UNCHANGED queue
         /\ trail'[k] = trail[k] + 1
         /\ \A l \in Key \ {k} : trail'[l] = trail[l]
<1>1. /\ trail' = [trail EXCEPT ![k] = trail[k] + 1] /\ UNCHANGED <<queue, said>>
      /\ trail \in [Key -> Nat] /\ trail[k] + 1 \in Nat
  BY DEF Tells, QueueTypes
<1>2. QueueTypes' /\ RowInv'
  BY <1>1 DEF QueueTypes, RowInv
<1>3. SaidInv'
  BY <1>1 DEF SaidInv, Answers, Acked, Closed
<1> QED BY <1>1, <1>2, <1>3

\* An answer that a row was picked up or closed is given once, because the row it is
\* given of is no longer one to pick up, or to close.
LEMMA UpdateStep ==
  ASSUME QueueTypes, RowInv, SaidInv, NEW p \in Person, NEW k \in Key, NEW act \in Acting,
         NEW name \in Names, Updates(p, k, act, name)
  PROVE  /\ QueueTypes' /\ RowInv' /\ SaidInv' /\ UNCHANGED trail
         /\ \A l \in Key : queue[l] = NoRow => queue'[l] = NoRow
         /\ \A l \in Key : queue[l] # NoRow => RowMovesForward(queue[l], queue'[l])
<1>1. UNCHANGED trail /\ queue \in [Key -> {NoRow} \union Escalation]
  BY DEF Updates, QueueTypes
<1>2. CASE ~Permitted(k, act)
  <2>1. UNCHANGED <<queue, said, trail>>
    BY <1>2 DEF Updates, Update
  <2> QED BY <2>1 DEF QueueTypes, RowInv, SaidInv, Answers, Acked, Closed, RowMovesForward
<1>3. CASE Permitted(k, act)
  <2> DEFINE new == queue'[k]
             told == [who |-> p, of |-> k, act |-> act]
  <2>1. /\ queue' = ApplyTo(k, act, name)
        /\ said' = said \union {told}
    BY <1>3 DEF Updates, Update
  <2>2. /\ queue[k] \in Escalation /\ queue' \in [Key -> {NoRow} \union Escalation]
        /\ \A l \in Key \ {k} : queue'[l] = queue[l]
        /\ new = AfterUpdate(queue[k], act, name)
    BY <2>1, <1>1, <1>3, UpdateIs DEF Names
  <2>3. /\ new.by = queue[k].by /\ new.source = queue[k].source
        /\ new.status = IF act = "acknowledge" THEN "acknowledged" ELSE ClosesAs(act)
        /\ new.assignedTo = IF act = "acknowledge" THEN name ELSE queue[k].assignedTo
        /\ new \in Escalation
    BY <2>2 DEF Escalation, Status, ClosesAs, Names, AfterUpdate
  <2>4. new # NoRow /\ queue[k] # NoRow
    BY <2>2, <2>3, QueueAssumption
  <2>5. /\ queue[k].status \in {"open", "acknowledged"}
        /\ act = "acknowledge" => queue[k].status = "open"
    BY <1>3 DEF Permitted
  <2>6. \A l \in Key : queue[l] # NoRow => RowMovesForward(queue[l], queue'[l])
    <3>1. RowMovesForward(queue[k], new)
      BY <2>3, <2>4, <2>5 DEF RowMovesForward, ClosesAs
    <3>2. ASSUME NEW l \in Key \ {k}, queue[l] # NoRow PROVE RowMovesForward(queue[l], queue'[l])
      BY <3>2, <2>2 DEF RowMovesForward
    <3> QED BY <3>1, <3>2
  <2>7. QueueTypes' /\ RowInv'
    <3>1. told \in [who : Person, of : Key, act : Acting]
      OBVIOUS
    <3>2. said' \subseteq [who : Person, of : Key, act : Acting]
      BY <3>1, <2>1 DEF QueueTypes
    <3> QED BY <3>2, <2>2, <2>3, <2>4, <1>1 DEF QueueTypes, RowInv
  <2>8. ASSUME NEW l \in Key \ {k} PROVE Answers(l)'
    <3>1. Answers(l) /\ queue'[l] = queue[l]
      BY <2>2 DEF SaidInv
    <3>2. told.of # l
      OBVIOUS
    <3>3. Acked(l)' = Acked(l) /\ Closed(l)' = Closed(l)
      BY <2>1, <3>2 DEF Acked, Closed
    <3> QED BY <3>1, <3>3 DEF Answers
  <2>9. Answers(k)'
    <3>1. Answers(k)
      BY DEF SaidInv
    <3>2. Closed(k) = {}
      BY <3>1, <2>5 DEF Answers, ClosesAs
    <3>3. CASE act = "acknowledge"
      <4>1. Acked(k) = {}
        BY <3>1, <3>3, <2>5, <2>4 DEF Answers
      <4>2. Acked(k)' = {told} /\ Closed(k)' = {}
        BY <4>1, <3>2, <3>3, <2>1 DEF Acked, Closed
      <4>3. new.assignedTo # "nobody" /\ new.status = "acknowledged"
        BY <3>3, <2>3, QueueAssumption DEF Names
      <4>4. Cardinality({told}) = 1 /\ Cardinality({}) = 0
        BY FS_Singleton, FS_EmptySet
      <4> QED BY <4>2, <4>3, <4>4, <2>4 DEF Answers
    <3>4. CASE act # "acknowledge"
      <4>1. Acked(k)' = Acked(k) /\ Closed(k)' = {told}
        BY <3>2, <3>4, <2>1 DEF Acked, Closed
      <4>2. new.assignedTo = queue[k].assignedTo /\ new.status = ClosesAs(act) /\ new.status # "open"
        BY <3>4, <2>3 DEF ClosesAs
      <4>3. Cardinality({told}) = 1
        BY FS_Singleton
      <4> QED BY <4>1, <4>2, <4>3, <3>1, <2>4 DEF Answers
    <3> QED BY <3>3, <3>4
  <2> QED BY <1>1, <2>2, <2>4, <2>6, <2>7, <2>8, <2>9 DEF SaidInv
<1> QED BY <1>2, <1>3

\* So the queue stays a queue, each row its key's and each answer true; and a row moves
\* only forward.
LEMMA QueueStays ==
  ASSUME QueueTypes, LadderTypes, PeopleTypes, FitInv, RowInv, SaidInv, QueueStep
  PROVE  /\ QueueTypes' /\ RowInv' /\ SaidInv'
         /\ \A k \in Key : queue[k] # NoRow => /\ queue'[k] # NoRow
                                               /\ RowMovesForward(queue[k], queue'[k])
<1> DEFINE Forward == \A k \in Key : queue[k] # NoRow => /\ queue'[k] # NoRow
                                                         /\ RowMovesForward(queue[k], queue'[k])
           Goal == QueueTypes' /\ RowInv' /\ SaidInv' /\ Forward
<1>1. ASSUME NEW k \in Key, Inserts(k)
      PROVE  Goal
  <2>1. Forward
    BY <1>1, InsertStep DEF RowMovesForward
  <2> QED BY <1>1, <2>1, InsertStep
<1>2. ASSUME NEW k \in Key, Tells(k)
      PROVE  Goal
  <2>1. UNCHANGED queue
    BY <1>2 DEF Tells
  <2>2. Forward
    BY <2>1 DEF RowMovesForward
  <2> QED BY <1>2, <2>2, TellStep
<1>3. ASSUME NEW p \in Person, NEW k \in Key, NEW act \in Acting, NEW name \in Names,
             Updates(p, k, act, name)
      PROVE  Goal
  <2>1. Forward
    BY <1>3, UpdateStep DEF RowMovesForward
  <2> QED BY <1>3, <2>1, UpdateStep
<1>4. ASSUME UNCHANGED <<queue, trail, said>> PROVE Goal
  BY <1>4 DEF QueueTypes, RowInv, SaidInv, Answers, Acked, Closed, RowMovesForward
<1>5. ASSUME NEW c \in Case, OnLadder(c) PROVE Rung(c) \in Key
  BY <1>5, RungIs
<1>6. ASSUME NEW h \in Hand, hands[h].at \in {"write", "tell"} PROVE hands[h].of \in Key
  BY <1>6 DEF FitInv, HandFit
<1> HIDE DEF Goal
<1>7. ASSUME NEW c \in Case, OnLadder(c), Inserts(Rung(c)) \/ Tells(Rung(c)) PROVE Goal
  BY <1>1, <1>2, <1>5, <1>7
<1>8. ASSUME NEW h \in Hand, hands[h].at \in {"write", "tell"},
             Inserts(hands[h].of) \/ Tells(hands[h].of)
      PROVE  Goal
  BY <1>1, <1>2, <1>6, <1>8
<1>9. Goal
  BY <1>3, <1>4, <1>7, <1>8, QueueChanges
<1> QED BY <1>9 DEF Goal

\* An alert keeps the onset it was raised with, and is history once resolved.
AlertKept ==
  \A i \in DOMAIN alerts :
    /\ i \in DOMAIN alerts' /\ alerts'[i].onset = alerts[i].onset
    /\ ~alerts[i].open => alerts'[i] = alerts[i]

LEMMA AlertsStay ==
  ASSUME AlertTypes, FitInv, QueueStep
  PROVE  /\ AlertTypes' /\ AlertKept /\ (alerts # <<>> => alerts' # <<>>)
         /\ \A c \in Case : RaiseAlert(c) => alerts' # <<>>
<1> DEFINE Alert == [count : 1 .. Cardinality(Case), onset : Case, open : BOOLEAN]
           Goal == /\ AlertTypes' /\ AlertKept /\ (alerts # <<>> => alerts' # <<>>)
<1>1. ASSUME UNCHANGED alerts PROVE Goal
  BY <1>1 DEF AlertTypes, AlertKept
<1>2. ASSUME NEW c \in Case, RaiseAlert(c) PROVE Goal /\ alerts' # <<>>
  <2>1. alerts' = Raised(ladder[c].read) /\ ladder[c].at = "write" /\ Doing(c) = "merchant_alert"
    BY <1>2 DEF RaiseAlert
  <2>2. ladder[c].read \in Counted
    BY <2>1 DEF FitInv, LadderFit
  <2> QED BY <2>1, <2>2, RaisedIs DEF AlertTypes, AlertKept
<1>3. ASSUME ResolveAlert PROVE Goal
  <2>1. PICK i \in OpenAlerts : alerts' = [alerts EXCEPT ![i].open = FALSE]
    BY <1>3 DEF ResolveAlert
  <2>2. alerts \in Seq(Alert)
    BY DEF AlertTypes
  <2>3. i \in 1 .. Len(alerts) /\ alerts[i].open
    BY <2>2 DEF OpenAlerts
  <2> HIDE DEF Alert
  <2>4. alerts[i] \in Alert
    BY <2>2, <2>3
  <2>5. [alerts[i] EXCEPT !.open = FALSE] \in Alert
    BY <2>4 DEF Alert
  <2>6. alerts' = [alerts EXCEPT ![i] = [alerts[i] EXCEPT !.open = FALSE]]
    BY <2>1
  <2>7. alerts' \in Seq(Alert) /\ Len(alerts') = Len(alerts)
    BY <2>2, <2>3, <2>5, <2>6
  <2>8. \A j \in DOMAIN alerts : j \in DOMAIN alerts' /\ (j # i => alerts'[j] = alerts[j])
    BY <2>2, <2>6, <2>7
  <2>9. alerts'[i].onset = alerts[i].onset
    BY <2>2, <2>3, <2>4, <2>6 DEF Alert
  <2>10. AlertKept
    BY <2>3, <2>8, <2>9 DEF AlertKept
  <2>11. alerts # <<>> => alerts' # <<>>
    BY <2>2, <2>7
  <2> QED BY <2>7, <2>10, <2>11 DEF AlertTypes, Alert
<1>4. ASSUME NEW c \in Case, LadderStep(c) PROVE RaiseAlert(c) \/ UNCHANGED alerts
  BY <1>4 DEF LadderStep, OpenCase, Recover, Ages, Defer, RecordAction, WriteBrief,
              CreateEscalation, TellEscalated, CountCluster, TellAlerted, Advance, StepDies
<1>5. ASSUME NEW h \in Hand, HandStep(h) PROVE UNCHANGED alerts
  BY <1>5 DEF HandStep, HandBegins, HandCreates, HandTells, HandDies
<1>6. ASSUME NEW p \in Person,
             \/ RouteUpdates(p) \/ GoesOn(p)
             \/ \E k \in Key, act \in Acting : RouteChecks(p, k, act) \/ ScriptUpdates(p, k, act)
      PROVE  UNCHANGED alerts
  BY <1>6 DEF RouteUpdates, GoesOn, RouteChecks, ScriptUpdates
<1>7. ASSUME UNCHANGED evars PROVE Goal
  BY <1>1, <1>7 DEF evars
<1> HIDE DEF Goal
<1>8. Goal
  BY <1>1, <1>2, <1>3, <1>4, <1>5, <1>6, <1>7 DEF QueueStep
<1> QED BY <1>2, <1>8 DEF Goal

LEMMA PeopleStay ==
  ASSUME PeopleTypes, QueueTypes, FitInv, QueueStep,
         \A k \in Key : queue[k] # NoRow => queue'[k] # NoRow
  PROVE  /\ PeopleTypes'
         /\ \A h \in Hand : HandFit(h)'
         /\ \A p \in Person : PersonFit(p)'
<1> DEFINE Hands == [at : {"idle", "write", "tell", "done"}, of : {NoRow} \union Key,
                     source : BriefSources]
           People == [at : {"idle", "checked", "answered"}, of : {NoRow} \union Key,
                      act : Acting, acts : Nat]
           HandsFit == hands' \in [Hand -> Hands] /\ \A h \in Hand : HandFit(h)'
           PeopleFit == people' \in [Person -> People] /\ \A p \in Person : PersonFit(p)'
<1>1. ASSUME UNCHANGED hands PROVE HandsFit
  BY <1>1 DEF PeopleTypes, FitInv, HandFit
<1>2. ASSUME UNCHANGED people PROVE PeopleFit
  BY <1>2 DEF PeopleTypes, FitInv, PersonFit
<1>3. ASSUME NEW h \in Hand, HandStep(h) PROVE HandsFit /\ UNCHANGED people
  <2>0. hands \in [Hand -> Hands] /\ hands[h] \in Hands
    BY DEF PeopleTypes
  <2>a. ASSUME NEW new \in Hands, hands' = [hands EXCEPT ![h] = new],
               new.at \in {"write", "tell"} => new.of \in Key /\ new.of[2] = ManualRung
        PROVE  HandsFit
    BY <2>0, <2>a DEF FitInv, HandFit
  <2>b. HandFit(h)
    BY DEF FitInv
  <2>1. ASSUME NEW c \in Case, HandBegins(h, c) PROVE HandsFit
    <3>1. PICK source \in BriefSources :
            hands' = [hands EXCEPT ![h] = [at |-> "write", of |-> ManualKey(c), source |-> source]]
      BY <2>1 DEF HandBegins
    <3> DEFINE new == [at |-> "write", of |-> ManualKey(c), source |-> source]
    <3>2. new \in Hands /\ new.of \in Key /\ new.of[2] = ManualRung
      BY ManualKeyIs
    <3>3. hands' = [hands EXCEPT ![h] = new]
      BY <3>1
    <3> HIDE DEF new, Hands, HandsFit
    <3> QED BY <3>2, <3>3, <2>a
  <2>2. ASSUME HandCreates(h) \/ HandTells(h) \/ HandDies(h) PROVE HandsFit
    <3>1. PICK step \in {"tell", "done"} : hands' = [hands EXCEPT ![h].at = step]
      BY <2>2 DEF HandCreates, HandTells, HandDies
    <3>2. hands[h].at \in {"write", "tell"}
      BY <2>2 DEF HandCreates, HandTells, HandDies
    <3> DEFINE new == [hands[h] EXCEPT !.at = step]
    <3>3. new \in Hands /\ new.of = hands[h].of
      BY <2>0
    <3>4. hands' = [hands EXCEPT ![h] = new]
      BY <3>1
    <3>5. new.of \in Key /\ new.of[2] = ManualRung
      BY <3>2, <3>3, <2>b DEF HandFit
    <3> HIDE DEF new, Hands, HandsFit
    <3> QED BY <3>3, <3>4, <3>5, <2>a
  <2>3. UNCHANGED people
    BY <1>3 DEF HandStep, HandBegins, HandCreates, HandTells, HandDies
  <2> QED BY <1>3, <2>1, <2>2, <2>3 DEF HandStep
<1>4. ASSUME NEW p \in Person,
             \/ RouteUpdates(p) \/ GoesOn(p)
             \/ \E k \in Key, act \in Acting : RouteChecks(p, k, act) \/ ScriptUpdates(p, k, act)
      PROVE  PeopleFit /\ UNCHANGED hands
  <2>0. people \in [Person -> People] /\ people[p] \in People
    BY DEF PeopleTypes
  <2>a. ASSUME NEW new \in People, people' = [people EXCEPT ![p] = new],
               new.at = "checked" => new.of \in Key /\ queue[new.of] # NoRow
        PROVE  PeopleFit
    BY <2>0, <2>a DEF FitInv, PersonFit
  <2>1. ASSUME RouteUpdates(p) \/ GoesOn(p) PROVE PeopleFit
    <3>1. PICK step \in {"answered", "idle"} : people' = [people EXCEPT ![p].at = step]
      BY <2>1 DEF RouteUpdates, GoesOn
    <3> DEFINE new == [people[p] EXCEPT !.at = step]
    <3>2. new \in People /\ new.at # "checked"
      BY <2>0
    <3>3. people' = [people EXCEPT ![p] = new]
      BY <3>1
    <3> HIDE DEF new, People, PeopleFit
    <3> QED BY <3>2, <3>3, <2>a
  <2>2. ASSUME NEW k \in Key, NEW act \in Acting, RouteChecks(p, k, act) PROVE PeopleFit
    <3>0. people[p].acts + 1 \in Nat
      BY <2>0
    <3>1. PICK step \in {"checked", "answered"} :
            people' = [people EXCEPT ![p] = [at |-> step, of |-> k, act |-> act,
                                             acts |-> people[p].acts + 1]]
      BY <2>2 DEF RouteChecks
    <3> DEFINE new == [at |-> step, of |-> k, act |-> act, acts |-> people[p].acts + 1]
    <3>2. new \in People /\ new.of = k
      BY <3>0
    <3>3. people' = [people EXCEPT ![p] = new]
      BY <3>1
    <3>4. queue[k] # NoRow
      BY <2>2 DEF RouteChecks
    <3> HIDE DEF new, People, PeopleFit
    <3> QED BY <3>2, <3>3, <3>4, <2>a
  <2>3. ASSUME NEW k \in Key, NEW act \in Acting, ScriptUpdates(p, k, act) PROVE PeopleFit
    <3> DEFINE new == [people[p] EXCEPT !.at = "answered", !.acts = people[p].acts + 1]
    <3>0. people[p].acts + 1 \in Nat
      BY <2>0
    <3>1. new \in People /\ new.at # "checked"
      BY <2>0, <3>0
    <3>2. people' = [people EXCEPT ![p] = new]
      BY <2>3, <2>0 DEF ScriptUpdates
    <3> HIDE DEF new, People, PeopleFit
    <3> QED BY <3>1, <3>2, <2>a
  <2>4. UNCHANGED hands
    BY <1>4 DEF RouteUpdates, GoesOn, RouteChecks, ScriptUpdates
  <2> QED BY <1>4, <2>1, <2>2, <2>3, <2>4
<1>5. ASSUME NEW c \in Case, LadderStep(c) PROVE UNCHANGED <<hands, people>>
  BY <1>5 DEF LadderStep, OpenCase, Recover, Ages, Defer, RecordAction, WriteBrief, RaiseAlert,
              CreateEscalation, TellEscalated, CountCluster, TellAlerted, Advance, StepDies
<1>6. ASSUME ResolveAlert \/ UNCHANGED evars PROVE UNCHANGED <<hands, people>>
  BY <1>6 DEF ResolveAlert, evars
<1> HIDE DEF HandsFit, PeopleFit
<1>7. HandsFit /\ PeopleFit
  BY <1>1, <1>2, <1>3, <1>4, <1>5, <1>6 DEF QueueStep
<1> QED BY <1>7 DEF HandsFit, PeopleFit, PeopleTypes

\* Where a step of a ladder leaves it: at the start of a rung, in it, or with what the
\* step did done.
LadderMove(c) ==
  \/ ladder'[c] = ladder[c]
  \/ ladder'[c].at = "row"
  \/ /\ OnLadder(c) /\ ladder'[c].rung = ladder[c].rung
     /\ \/ ladder'[c].at = "advance" /\ c \in Holdout
        \/ ladder'[c].at = "read" /\ c \notin Holdout
        \/ /\ ladder'[c].at = "write" /\ c \notin Holdout
           /\ ladder'[c].read \in IF Doing(c) = "escalate_to_human" THEN BriefSources ELSE Counted
        \/ /\ CreateEscalation(c) /\ c \notin Holdout
           /\ ladder'[c].at = IF Created(Rung(c)) THEN "tell" ELSE "advance"
        \/ TellEscalated(c) /\ ladder'[c].at = "advance" /\ c \notin Holdout
        \/ /\ Doing(c) = "merchant_alert" /\ ladder'[c].at = "tell" /\ c \notin Holdout
           /\ RaiseAlert(c) \/ ladder'[c].read = NoRow
        \/ TellAlerted(c) /\ ladder'[c].at = "advance" /\ c \notin Holdout

LEMMA LadderMoves ==
  ASSUME LadderTypes, NEW c \in Case, LadderFit(c), LadderStep(c)
  PROVE  LadderMove(c) /\ \A d \in Case \ {c} : ladder'[d] = ladder[d]
<1> DEFINE Others == \A d \in Case \ {c} : ladder'[d] = ladder[d]
<1>0. {"row", "read", "write", "tell", "advance"} = Positions
  BY DEF Positions
<1>1. CASE OpenCase(c) \/ Recover(c) \/ Ages(c) \/ Defer(c)
  BY <1>1 DEF OpenCase, Recover, Ages, Defer, LadderMove
<1>2. CASE RecordAction(c)
  <2>1. OnLadder(c)
    BY <1>2 DEF RecordAction
  <2>2. CASE Rung(c) \in actions
    BY <1>2, <2>1, <2>2, NextRungIs DEF RecordAction, LadderMove
  <2>3. CASE Rung(c) \notin actions
    <3>1. At(c, IF c \in Holdout THEN "advance" ELSE "read")
      BY <1>2, <2>3 DEF RecordAction, Suppressed
    <3> QED BY <3>1, <2>1, <1>0, AtIs DEF LadderMove
  <2> QED BY <2>2, <2>3
<1>a. ladder[c].at # "row" => OnLadder(c)
  BY DEF LadderFit
<1>b. ladder[c].at \notin {"row", "advance"} => OnLadder(c) /\ c \notin Holdout
  BY DEF LadderFit
<1>3. CASE WriteBrief(c)
  <2>1. PICK source \in BriefSources : Reads(c, "write", source)
    BY <1>3 DEF WriteBrief, Reads
  <2>2. source \in Read
    BY DEF Read
  <2>3. ladder'[c].rung = ladder[c].rung /\ ladder'[c].at = "write" /\ ladder'[c].read = source
        /\ Others
    BY <2>1, <2>2, <1>0, ReadIs
  <2>4. Doing(c) = "escalate_to_human" /\ OnLadder(c) /\ c \notin Holdout
    BY <1>3, <1>b DEF WriteBrief
  <2> QED BY <2>3, <2>4 DEF LadderMove
<1>4. CASE CreateEscalation(c)
  <2>1. At(c, IF Created(Rung(c)) THEN "tell" ELSE "advance") /\ OnLadder(c) /\ c \notin Holdout
    BY <1>4, <1>b DEF CreateEscalation
  <2> QED BY <1>4, <2>1, <1>0, AtIs DEF LadderMove
<1>5. CASE TellEscalated(c)
  <2>1. At(c, "advance") /\ OnLadder(c) /\ c \notin Holdout
    BY <1>5, <1>b DEF TellEscalated
  <2> QED BY <1>5, <2>1, <1>0, AtIs DEF LadderMove
<1>6. CASE CountCluster(c)
  <2>1. Doing(c) = "merchant_alert" /\ OnLadder(c) /\ c \notin Holdout
    BY <1>6, <1>b DEF CountCluster
  <2> QED BY <1>6, <2>1, CountedIs DEF LadderMove
<1>7. CASE RaiseAlert(c)
  <2>1. At(c, "tell") /\ Doing(c) = "merchant_alert" /\ OnLadder(c) /\ c \notin Holdout
    BY <1>7, <1>b DEF RaiseAlert
  <2> QED BY <1>7, <2>1, <1>0, AtIs DEF LadderMove
<1>8. CASE TellAlerted(c)
  <2>1. At(c, "advance") /\ OnLadder(c) /\ c \notin Holdout
    BY <1>8, <1>b DEF TellAlerted
  <2> QED BY <1>8, <2>1, <1>0, AtIs DEF LadderMove
<1>9. CASE Advance(c)
  <2>1. OnLadder(c) /\ NextRung(c)
    BY <1>9, <1>a DEF Advance
  <2> QED BY <2>1, NextRungIs DEF LadderMove
<1>10. CASE StepDies(c)
  <2>1. At(c, "row")
    BY <1>10 DEF StepDies
  <2> QED BY <2>1, <1>0, AtIs DEF LadderMove
<1> QED BY <1>1, <1>2, <1>3, <1>4, <1>5, <1>6, <1>7, <1>8, <1>9, <1>10 DEF LadderStep

\* Nobody else moves a ladder.
LEMMA LaddersMove ==
  ASSUME LadderTypes, FitInv, QueueStep, NEW c \in Case
  PROVE  LadderMove(c)
<1>1. ASSUME UNCHANGED ladder PROVE LadderMove(c)
  BY <1>1 DEF LadderMove
<1>2. ASSUME NEW d \in Case, LadderStep(d) PROVE LadderMove(c)
  <2>1. LadderFit(d)
    BY DEF FitInv
  <2>2. CASE d = c
    BY <1>2, <2>1, <2>2, LadderMoves
  <2>3. CASE d # c
    <3>1. ladder'[c] = ladder[c]
      BY <1>2, <2>1, <2>3, LadderMoves
    <3> QED BY <3>1 DEF LadderMove
  <2> QED BY <2>2, <2>3
<1>3. ASSUME NEW h \in Hand, HandStep(h) PROVE UNCHANGED ladder
  BY <1>3 DEF HandStep, HandBegins, HandCreates, HandTells, HandDies
<1>4. ASSUME NEW p \in Person,
             \/ RouteUpdates(p) \/ GoesOn(p)
             \/ \E k \in Key, act \in Acting : RouteChecks(p, k, act) \/ ScriptUpdates(p, k, act)
      PROVE  UNCHANGED ladder
  BY <1>4 DEF RouteUpdates, GoesOn, RouteChecks, ScriptUpdates
<1>5. ASSUME ResolveAlert \/ UNCHANGED evars PROVE UNCHANGED ladder
  BY <1>5 DEF ResolveAlert, evars
<1> QED BY <1>1, <1>2, <1>3, <1>4, <1>5 DEF QueueStep

LEMMA LaddersFit ==
  ASSUME LadderTypes, FitInv, QueueStep, NEW c \in Case
  PROVE  LadderFit(c)'
<1>1. LadderFit(c) /\ LadderMove(c)
  BY LaddersMove DEF FitInv
<1>2. CASE ladder'[c] = ladder[c]
  BY <1>1, <1>2 DEF LadderFit, OnLadder, Doing
<1>3. CASE ladder'[c].at = "row"
  BY <1>3 DEF LadderFit
<1>4. CASE OnLadder(c) /\ ladder'[c].rung = ladder[c].rung /\ ladder'[c].at # "write"
           /\ (c \in Holdout => ladder'[c].at = "advance")
  BY <1>4 DEF LadderFit, OnLadder
<1>5. CASE /\ OnLadder(c) /\ ladder'[c].rung = ladder[c].rung /\ c \notin Holdout
           /\ ladder'[c].read \in IF Doing(c) = "escalate_to_human" THEN BriefSources ELSE Counted
  BY <1>5 DEF LadderFit, OnLadder, Doing
<1> QED BY <1>1, <1>2, <1>3, <1>4, <1>5 DEF LadderMove

LEMMA HandMoves ==
  ASSUME PeopleTypes, FitInv, QueueStep, NEW h \in Hand
  PROVE  \/ hands'[h] = hands[h]
         \/ hands'[h].at # "tell"
         \/ /\ HandCreates(h) /\ hands[h].of \in Key /\ queue[hands[h].of] = NoRow
            /\ hands'[h].of = hands[h].of
<1>0. hands[h] \in [at : {"idle", "write", "tell", "done"}, of : {NoRow} \union Key,
                    source : BriefSources]
  BY DEF PeopleTypes
<1>1. ASSUME NEW i \in Hand, HandStep(i)
      PROVE  \/ hands'[h] = hands[h]
             \/ hands'[h].at # "tell"
             \/ /\ HandCreates(h) /\ hands[h].of \in Key /\ queue[hands[h].of] = NoRow
                /\ hands'[h].of = hands[h].of
  <2>1. CASE i # h
    <3>1. hands'[h] = hands[h]
      BY <1>1, <2>1 DEF HandStep, HandBegins, HandCreates, HandTells, HandDies, PeopleTypes
    <3> QED BY <3>1
  <2>2. CASE i = h /\ ((\E c \in Case : HandBegins(h, c)) \/ HandTells(h) \/ HandDies(h))
    <3>1. hands'[h].at # "tell"
      BY <2>2, <1>0 DEF HandBegins, HandTells, HandDies, PeopleTypes
    <3> QED BY <3>1
  <2>3. CASE i = h /\ HandCreates(h)
    <3>1. hands[h].of \in Key
      BY <2>3 DEF HandCreates, FitInv, HandFit
    <3>2. hands'[h] = [hands[h] EXCEPT !.at = IF Created(hands[h].of) THEN "tell" ELSE "done"]
      BY <2>3 DEF HandCreates, PeopleTypes
    <3>3. hands'[h].of = hands[h].of
          /\ hands'[h].at = IF Created(hands[h].of) THEN "tell" ELSE "done"
      BY <3>2, <1>0
    <3> QED BY <2>3, <3>1, <3>3 DEF Created
  <2> QED BY <1>1, <2>1, <2>2, <2>3 DEF HandStep
<1>2. ASSUME NEW c \in Case, LadderStep(c) PROVE UNCHANGED hands
  BY <1>2 DEF LadderStep, OpenCase, Recover, Ages, Defer, RecordAction, WriteBrief, RaiseAlert,
              CreateEscalation, TellEscalated, CountCluster, TellAlerted, Advance, StepDies
<1>3. ASSUME NEW p \in Person,
             \/ RouteUpdates(p) \/ GoesOn(p)
             \/ \E k \in Key, act \in Acting : RouteChecks(p, k, act) \/ ScriptUpdates(p, k, act)
      PROVE  UNCHANGED hands
  BY <1>3 DEF RouteUpdates, GoesOn, RouteChecks, ScriptUpdates
<1>4. ASSUME ResolveAlert \/ UNCHANGED evars PROVE UNCHANGED hands
  BY <1>4 DEF ResolveAlert, evars
<1> QED BY <1>1, <1>2, <1>3, <1>4 DEF QueueStep

----------------------------------------------------------------------------
(* The trail, the holdout, the ledger.                                      *)

\* The event of a row is written once, by the one who made the row.
LEMMA TrailStays ==
  ASSUME Types, FitInv, RowInv, SaidInv, TrailInv, QueueStep
  PROVE  TrailInv'
<1> USE DEF Types
<1>1. /\ trail \in [Key -> Nat] /\ EscalatedOnce
      /\ \A k \in Key : queue[k] # NoRow => queue'[k] # NoRow
  BY QueueStays DEF TrailInv, QueueTypes
<1>2. \A k \in Key : queue[k] = NoRow => trail[k] = 0
  BY <1>1 DEF EscalatedOnce
<1>3. ASSUME NEW k \in Key, trail'[k] # trail[k]
      PROVE  /\ queue[k] # NoRow /\ trail[k] = 0 /\ trail'[k] = 1
             /\ \/ \E c \in Case : TellEscalated(c) /\ OnLadder(c) /\ k = Rung(c)
                \/ \E h \in Hand : HandTells(h) /\ hands[h].at = "tell" /\ k = hands[h].of
  <2>1. ASSUME NEW l \in Key, Inserts(l) PROVE FALSE
    BY <2>1, <1>3 DEF Inserts
  <2>2. ASSUME NEW p \in Person, NEW l \in Key, NEW act \in Acting, NEW name \in Names,
               Updates(p, l, act, name)
        PROVE  FALSE
    BY <2>2, <1>3 DEF Updates
  <2>3. ASSUME NEW c \in Case, ladder[c].at = "tell", Doing(c) = "escalate_to_human",
               OnLadder(c), Tells(Rung(c)), TellEscalated(c)
        PROVE  /\ queue[k] # NoRow /\ trail[k] = 0 /\ trail'[k] = 1 /\ k = Rung(c)
    <3>1. Rung(c) \in Key
      BY <2>3, RungIs
    <3>2. k = Rung(c) /\ trail'[k] = trail[k] + 1
      BY <2>3, <3>1, <1>1, <1>3 DEF Tells
    <3> QED BY <3>2, <2>3 DEF TrailInv
  <2>4. ASSUME NEW h \in Hand, hands[h].at = "tell", Tells(hands[h].of), HandTells(h)
        PROVE  /\ queue[k] # NoRow /\ trail[k] = 0 /\ trail'[k] = 1 /\ k = hands[h].of
    <3>1. hands[h].of \in Key
      BY <2>4 DEF FitInv, HandFit
    <3>2. k = hands[h].of /\ trail'[k] = trail[k] + 1
      BY <2>4, <3>1, <1>1, <1>3 DEF Tells
    <3> QED BY <3>2, <2>4 DEF TrailInv
  <2>5. CASE UNCHANGED <<queue, trail, said>>
    BY <2>5, <1>3
  <2>6. \A c \in Case : OnLadder(c) => Rung(c) \in Key
    BY RungIs
  <2>7. \A h \in Hand : hands[h].at = "write" => hands[h].of \in Key
    BY DEF FitInv, HandFit
  <2> QED BY <2>1, <2>2, <2>3, <2>4, <2>5, <2>6, <2>7, QueueChanges
<1>4. EscalatedOnce'
  BY <1>1, <1>3 DEF EscalatedOnce
<1>5. ASSUME NEW c \in Case, ladder'[c].at = "tell", Doing(c)' = "escalate_to_human"
      PROVE  queue'[Rung(c)'] # NoRow /\ trail'[Rung(c)'] = 0
  <2>0. LadderMove(c)
    BY LaddersMove
  <2>1. CASE ladder'[c] = ladder[c]
    <3>1. /\ ladder[c].at = "tell" /\ Doing(c) = "escalate_to_human" /\ Rung(c)' = Rung(c)
          /\ OnLadder(c)
      BY <1>5, <2>1 DEF Doing, Rung, FitInv, LadderFit
    <3>2. Rung(c) \in Key /\ Rung(c)[1] = c /\ Rung(c)[2] # ManualRung
      BY <3>1, RungIs
    <3>3. queue[Rung(c)] # NoRow /\ trail[Rung(c)] = 0
      BY <3>1 DEF TrailInv
    <3>4. ~TellEscalated(c)
      <4>1. ASSUME TellEscalated(c) PROVE FALSE
        <5>1. At(c, "advance") /\ "advance" \in Positions
          BY <4>1 DEF TellEscalated, Positions
        <5>2. ladder'[c].at = "advance"
          BY <5>1, AtIs
        <5> QED BY <5>2, <1>5
      <4> QED BY <4>1
    <3>5. ASSUME NEW d \in Case, OnLadder(d), Rung(c) = Rung(d) PROVE d = c
      BY <3>2, <3>5, RungIs
    <3>6. ASSUME NEW h \in Hand, hands[h].at = "tell" PROVE hands[h].of # Rung(c)
      BY <3>2, <3>6 DEF FitInv, HandFit
    <3>7. trail'[Rung(c)] = trail[Rung(c)]
      BY <1>3, <3>2, <3>4, <3>5, <3>6
    <3> QED BY <1>1, <3>1, <3>2, <3>3, <3>7
  <2>2. CASE CreateEscalation(c) /\ OnLadder(c) /\ ladder'[c].rung = ladder[c].rung
             /\ ladder'[c].at = IF Created(Rung(c)) THEN "tell" ELSE "advance"
    <3>1. Rung(c)' = Rung(c) /\ queue[Rung(c)] = NoRow
      BY <1>5, <2>2 DEF Rung, Created
    <3>2. Rung(c) \in Key /\ AuthorOf(Rung(c)) = "workflow"
      BY <2>2, RungIs DEF AuthorOf
    <3>3. ladder[c].read \in BriefSources
      BY <2>2 DEF CreateEscalation, FitInv, LadderFit
    <3>4. Inserts(Rung(c))
      BY <2>2, <3>2, <3>3 DEF CreateEscalation, Inserts
    <3>5. queue'[Rung(c)] # NoRow /\ trail' = trail
      BY <3>2, <3>4, InsertStep
    <3> QED BY <3>1, <3>2, <3>5, <1>2
  <2>3. CASE Doing(c) = "merchant_alert" /\ ladder'[c].rung = ladder[c].rung
    BY <2>3, <1>5 DEF Doing
  <2> QED BY <2>0, <2>1, <2>2, <2>3, <1>5 DEF LadderMove
<1>6. ASSUME NEW h \in Hand, hands'[h].at = "tell"
      PROVE  queue'[hands'[h].of] # NoRow /\ trail'[hands'[h].of] = 0
  <2>1. CASE hands'[h] = hands[h]
    <3>1. /\ hands[h].at = "tell" /\ hands[h].of \in Key /\ hands[h].of[2] = ManualRung
      BY <1>6, <2>1 DEF FitInv, HandFit
    <3>2. queue[hands[h].of] # NoRow /\ trail[hands[h].of] = 0
      BY <3>1 DEF TrailInv
    <3>3. ASSUME NEW i \in Hand, HandTells(i), hands[i].at = "tell", hands[h].of = hands[i].of
          PROVE  FALSE
      <4>1. i = h
        BY <3>1, <3>3 DEF TrailInv
      <4>2. hands'[h].at = "done"
        BY <4>1, <3>3 DEF HandTells, PeopleTypes
      <4> QED BY <4>2, <1>6
    <3>4. ASSUME NEW c \in Case, OnLadder(c) PROVE hands[h].of # Rung(c)
      BY <3>1, <3>4, RungIs
    <3>5. trail'[hands[h].of] = trail[hands[h].of]
      BY <1>3, <3>1, <3>3, <3>4
    <3> QED BY <1>1, <2>1, <3>1, <3>2, <3>5
  <2>2. CASE HandCreates(h) /\ hands[h].of \in Key /\ queue[hands[h].of] = NoRow
             /\ hands'[h].of = hands[h].of
    <3>1. AuthorOf(hands[h].of) = "console" /\ hands[h].source \in BriefSources
      BY <2>2 DEF HandCreates, FitInv, HandFit, AuthorOf, PeopleTypes
    <3>2. Inserts(hands[h].of)
      BY <2>2, <3>1 DEF HandCreates, Inserts
    <3>3. queue'[hands[h].of] # NoRow /\ trail' = trail
      BY <2>2, <3>2, InsertStep
    <3> QED BY <2>2, <3>3, <1>2
  <2> QED BY <2>1, <2>2, <1>6, HandMoves
<1>7. ASSUME NEW h \in Hand, NEW i \in Hand, hands'[h].at = "tell", hands'[i].at = "tell",
             hands'[h].of = hands'[i].of
      PROVE  h = i
  <2>1. ASSUME NEW j \in Hand, NEW m \in Hand, HandCreates(j), hands[j].of \in Key,
               queue[hands[j].of] = NoRow, hands'[m].at = "tell", j # m,
               hands'[j].of = hands[j].of
        PROVE  hands'[m].of # hands'[j].of
    <3>1. hands'[m] = hands[m]
      BY <2>1 DEF HandCreates, PeopleTypes
    <3>2. queue[hands[m].of] # NoRow
      BY <2>1, <3>1 DEF TrailInv
    <3> QED BY <2>1, <3>1, <3>2
  <2>2. CASE hands'[h] = hands[h] /\ hands'[i] = hands[i]
    BY <1>7, <2>2 DEF TrailInv
  <2> QED BY <1>7, <2>1, <2>2, HandMoves
<1> QED BY <1>4, <1>5, <1>6, <1>7 DEF TrailInv

\* Who tells of an alert, and who says that a rung was fired.
LEMMA LedgerChanges ==
  ASSUME LadderTypes, QueueStep
  PROVE  /\ \A c \in Case : alerted'[c] # alerted[c] => TellAlerted(c)
         /\ \A k \in fired' \ fired : \E c \in Case : ladder[c].at = "advance" /\ k = Rung(c)
<1> DEFINE Goal == /\ \A c \in Case : alerted'[c] # alerted[c] => TellAlerted(c)
                   /\ \A k \in fired' \ fired :
                        \E c \in Case : ladder[c].at = "advance" /\ k = Rung(c)
<1>1. ASSUME UNCHANGED <<alerted, fired>> PROVE Goal
  BY <1>1
<1>2. ASSUME NEW c \in Case, LadderStep(c) PROVE Goal
  <2>1. CASE TellAlerted(c)
    <3>1. \A d \in Case \ {c} : alerted'[d] = alerted[d]
      BY <2>1 DEF TellAlerted, LadderTypes
    <3>2. UNCHANGED fired
      BY <2>1 DEF TellAlerted
    <3> QED BY <2>1, <3>1, <3>2
  <2>2. CASE Advance(c)
    <3>1. fired' = fired \union {Rung(c)} /\ ladder[c].at = "advance" /\ UNCHANGED alerted
      BY <2>2 DEF Advance
    <3> QED BY <3>1
  <2>3. CASE OpenCase(c) \/ Recover(c) \/ Ages(c) \/ Defer(c) \/ RecordAction(c) \/ WriteBrief(c)
             \/ CreateEscalation(c) \/ TellEscalated(c) \/ CountCluster(c) \/ RaiseAlert(c)
             \/ StepDies(c)
    <3>1. UNCHANGED <<alerted, fired>>
      BY <2>3 DEF OpenCase, Recover, Ages, Defer, RecordAction, WriteBrief, CreateEscalation,
                  TellEscalated, CountCluster, RaiseAlert, StepDies
    <3> QED BY <3>1
  <2> QED BY <1>2, <2>1, <2>2, <2>3 DEF LadderStep
<1>3. ASSUME NEW h \in Hand, HandStep(h) PROVE UNCHANGED <<alerted, fired>>
  BY <1>3 DEF HandStep, HandBegins, HandCreates, HandTells, HandDies
<1>4. ASSUME NEW p \in Person,
             \/ RouteUpdates(p) \/ GoesOn(p)
             \/ \E k \in Key, act \in Acting : RouteChecks(p, k, act) \/ ScriptUpdates(p, k, act)
      PROVE  UNCHANGED <<alerted, fired>>
  BY <1>4 DEF RouteUpdates, GoesOn, RouteChecks, ScriptUpdates
<1>5. ASSUME ResolveAlert \/ UNCHANGED evars PROVE UNCHANGED <<alerted, fired>>
  BY <1>5 DEF ResolveAlert, evars
<1> HIDE DEF Goal
<1>6. Goal
  BY <1>1, <1>2, <1>3, <1>4, <1>5 DEF QueueStep
<1> QED BY <1>6 DEF Goal

\* Nothing a ladder of the holdout does reaches a person.
LEMMA HoldoutStays ==
  ASSUME Types, FitInv, RowInv, SaidInv, HoldoutUntouched, QueueStep
  PROVE  HoldoutUntouched'
<1> USE DEF Types
<1>1. ASSUME NEW c \in Holdout, NEW k \in Key, k[1] = c, k[2] # ManualRung
      PROVE  queue'[k] = NoRow
  <2>0. c \in Case /\ queue[k] = NoRow
    BY <1>1, LadderAssumption DEF HoldoutUntouched
  <2>1. ASSUME NEW l \in Key, Inserts(l), l # k PROVE queue'[k] = NoRow
    BY <2>0, <2>1, InsertStep
  <2>2. ASSUME NEW d \in Case \ Holdout, OnLadder(d) PROVE Rung(d) \in Key /\ Rung(d) # k
    BY <1>1, <2>2, RungIs
  <2>3. ASSUME NEW h \in Hand, hands[h].at = "write"
        PROVE  hands[h].of \in Key /\ hands[h].of # k
    BY <1>1, <2>3 DEF FitInv, HandFit
  <2>4. ASSUME NEW p \in Person, NEW l \in Key, NEW act \in Acting, NEW name \in Names,
               Updates(p, l, act, name)
        PROVE  queue'[k] = NoRow
    BY <2>0, <2>4, UpdateStep
  <2>5. ASSUME NEW l, Tells(l) PROVE queue'[k] = NoRow
    BY <2>0, <2>5 DEF Tells
  <2>6. CASE UNCHANGED <<queue, trail, said>>
    BY <2>0, <2>6
  <2> QED BY <2>1, <2>2, <2>3, <2>4, <2>5, <2>6, QueueChanges
<1>2. ASSUME NEW c \in Holdout PROVE alerted'[c] = "no"
  <2>1. c \in Case /\ alerted[c] = "no" /\ ladder[c].at # "tell"
    BY LadderAssumption DEF HoldoutUntouched, FitInv, LadderFit
  <2>2. ~TellAlerted(c)
    BY <2>1 DEF TellAlerted
  <2> QED BY <2>1, <2>2, LedgerChanges
<1> QED BY <1>1, <1>2 DEF HoldoutUntouched

LEMMA DeliveredStays ==
  ASSUME Types, FitInv, RowInv, SaidInv, QueueStep, NEW k \in Key, k[2] < Len(Rungs), Delivered(k)
  PROVE  Delivered(k)'
<1> USE DEF Types
<1>1. k[1] \in Case
  BY DEF Key
<1>2. queue[k] # NoRow /\ queue[k].by = "workflow"
      => queue'[k] # NoRow /\ queue'[k].by = "workflow"
  BY QueueStays DEF RowMovesForward
<1>3. alerted[k[1]] # "no" => alerted'[k[1]] # "no"
  <2>1. ASSUME NEW c \in Case, TellAlerted(c) PROVE alerted'[c] # "no"
    BY <2>1 DEF TellAlerted, LadderTypes
  <2> QED BY <1>1, <2>1, LedgerChanges
<1> QED BY <1>2, <1>3 DEF Delivered

\* A rung is passed when what it does has been done, and stays done.
LEMMA FiredStays ==
  ASSUME Types, FitInv, RowInv, SaidInv, TrailInv, FiredInv, QueueStep
  PROVE  FiredInv'
<1> USE DEF Types
<1>1. ASSUME NEW k \in fired', k[1] \notin Holdout PROVE Delivered(k)'
  <2>1. CASE k \in fired
    BY <1>1, <2>1, DeliveredStays DEF FiredInv, LadderTypes
  <2>2. CASE k \notin fired
    <3>1. PICK c \in Case : ladder[c].at = "advance" /\ k = Rung(c)
      BY <2>2, LedgerChanges
    <3>2. OnLadder(c)
      BY <3>1 DEF FitInv, LadderFit
    <3>3. k \in Key /\ k[1] = c /\ k[2] < Len(Rungs)
      BY <3>1, <3>2, RungIs
    <3>4. Delivered(k)
      BY <3>1, <3>3, <1>1 DEF FiredInv
    <3> QED BY <3>3, <3>4, DeliveredStays
  <2> QED BY <2>1, <2>2
<1>2. ASSUME NEW c \in Case \ Holdout, ladder'[c].at = "advance" PROVE Delivered(Rung(c))'
  <2>0. LadderMove(c)
    BY LaddersMove
  <2>1. CASE ladder'[c] = ladder[c]
    <3>1. ladder[c].at = "advance" /\ Rung(c)' = Rung(c)
      BY <1>2, <2>1 DEF Rung
    <3>2. OnLadder(c)
      BY <3>1 DEF FitInv, LadderFit
    <3>3. Rung(c) \in Key /\ Rung(c)[2] < Len(Rungs) /\ Delivered(Rung(c))
      BY <3>1, <3>2, RungIs DEF FiredInv
    <3> QED BY <3>1, <3>3, DeliveredStays DEF Delivered
  <2>2. CASE OnLadder(c) /\ ladder'[c].rung = ladder[c].rung
             /\ (CreateEscalation(c) \/ TellEscalated(c) \/ TellAlerted(c))
    <3>1. /\ Rung(c)' = Rung(c) /\ Rung(c) \in Key /\ Rung(c)[1] = c /\ Rung(c)[2] # ManualRung
          /\ Rungs[Rung(c)[2] + 1] = Doing(c)
      BY <2>2, RungIs DEF Rung
    <3>2. CASE CreateEscalation(c)
      <4>1. Doing(c) = "escalate_to_human" /\ ladder[c].read \in BriefSources
        BY <3>2 DEF CreateEscalation, FitInv, LadderFit
      <4>2. Inserts(Rung(c))
        BY <3>1, <3>2, <4>1 DEF CreateEscalation, Inserts, AuthorOf
      <4>3. queue'[Rung(c)] # NoRow /\ RowInv'
        BY <3>1, <4>2, InsertStep
      <4>4. queue'[Rung(c)].by = "workflow"
        BY <3>1, <4>3 DEF RowInv
      <4> QED BY <3>1, <4>1, <4>3, <4>4 DEF Delivered
    <3>3. CASE TellEscalated(c)
      <4>1. Doing(c) = "escalate_to_human" /\ queue[Rung(c)] # NoRow /\ UNCHANGED queue
        BY <3>3 DEF TellEscalated, TrailInv
      <4>2. queue[Rung(c)].by = "workflow"
        BY <3>1, <4>1 DEF RowInv
      <4> QED BY <3>1, <4>1, <4>2 DEF Delivered
    <3>4. CASE TellAlerted(c)
      <4>1. Doing(c) = "merchant_alert" /\ alerted'[c] # "no"
        BY <3>4 DEF TellAlerted, LadderTypes
      <4> QED BY <3>1, <4>1 DEF Delivered
    <3> QED BY <2>2, <3>2, <3>3, <3>4
  <2> QED BY <2>0, <2>1, <2>2, <1>2 DEF LadderMove
<1>3. ASSUME NEW c \in Case, ladder'[c].at = "tell", Doing(c)' = "merchant_alert"
      PROVE  ladder'[c].read = NoRow \/ alerts' # <<>>
  <2>0. LadderMove(c)
    BY LaddersMove
  <2>1. CASE ladder'[c] = ladder[c]
    BY <1>3, <2>1, AlertsStay DEF FiredInv, Doing
  <2>2. CASE CreateEscalation(c) /\ ladder'[c].rung = ladder[c].rung
    BY <2>2, <1>3 DEF CreateEscalation, Doing
  <2>3. CASE RaiseAlert(c)
    BY <2>3, AlertsStay
  <2> QED BY <2>0, <2>1, <2>2, <2>3, <1>3 DEF LadderMove
<1>4. ASSUME NEW c \in Case, alerted'[c] = "raised" PROVE alerts' # <<>>
  <2>1. CASE alerted[c] = "raised"
    BY <2>1, AlertsStay DEF FiredInv
  <2>2. CASE alerted[c] # "raised"
    <3>1. TellAlerted(c)
      BY <1>4, <2>2, LedgerChanges
    <3>2. ladder[c].read # NoRow /\ ladder[c].at = "tell" /\ Doing(c) = "merchant_alert"
      BY <1>4, <3>1 DEF TellAlerted, LadderTypes
    <3> QED BY <3>2, AlertsStay DEF FiredInv
  <2> QED BY <2>1, <2>2
<1> QED BY <1>1, <1>2, <1>3, <1>4 DEF FiredInv

----------------------------------------------------------------------------
(* What is at risk, summed over the cases of a set.  The sum is the one of  *)
(* the community modules, which adds a set up in the order CHOOSE takes it  *)
(* apart; that the order does not matter, and so that a larger set is worth *)
(* no less, goes by induction on the size, as a least counterexample.       *)

First(s) == CHOOSE x \in s : TRUE

Sums(g, D) ==
  g = [s \in D |-> IF s = {} THEN 0 ELSE Amount[First(s)] + g[s \ {First(s)}]]

Summing(S) == CHOOSE g : Sums(g, SUBSET S)
Sum(S) == Summing(S)[S]

LEMMA SumIs ==
  ASSUME NEW S
  PROVE  LET amount(c) == Amount[c] IN MapThenSumSet(amount, S) = Sum(S)
BY Zenon DEF MapThenSumSet, MapThenFoldSet, Sum, Summing, Sums, First


\* Induction on finite sets, with a set of sets for what holds of them.
LEMMA SubsetInduction ==
  ASSUME NEW X, IsFiniteSet(X), NEW Good,
         \A s \in SUBSET X : (\A u \in SUBSET s : u # s => u \in Good) => s \in Good
  PROVE  SUBSET X \subseteq Good
<1> DEFINE Bad == {n \in Nat : \E s \in SUBSET X : Cardinality(s) = n /\ s \notin Good}
<1>1. \A s \in SUBSET X : IsFiniteSet(s) /\ Cardinality(s) \in Nat
  BY FS_Subset, FS_CardinalityType
<1>2. ASSUME Bad # {} PROVE FALSE
  <2>1. Bad \subseteq Nat
    OBVIOUS
  <2> HIDE DEF Bad
  <2>2. PICK m \in Bad : \A n \in Bad : m <= n
    BY <1>2, <2>1, LeastNatural
  <2>3. m \in Nat /\ \A n \in Nat : n < m => n \notin Bad
    BY <2>1, <2>2
  <2> USE DEF Bad
  <2>4. PICK s \in SUBSET X : Cardinality(s) = m /\ s \notin Good
    BY <2>2
  <2>5. ASSUME NEW u \in SUBSET s, u # s PROVE u \in Good
    <3>1. IsFiniteSet(s) /\ Cardinality(u) < Cardinality(s)
      BY <1>1, <2>5, FS_Subset
    <3>2. u \in SUBSET X /\ Cardinality(u) \in Nat
      BY <1>1
    <3>3. Cardinality(u) \notin Bad
      BY <3>1, <3>2, <2>3, <2>4
    <3> QED BY <3>2, <3>3
  <2> QED BY <2>4, <2>5
<1>3. ASSUME NEW s \in SUBSET X PROVE s \in Good
  BY <1>1, <1>2
<1> QED BY <1>3


LEMMA FirstIs ==
  ASSUME NEW s, s # {}
  PROVE  First(s) \in s /\ s \ {First(s)} \in SUBSET s /\ s \ {First(s)} # s
<1>1. First(s) \in s
  BY DEF First
<1> QED BY <1>1

LEMMA SumsAt ==
  ASSUME NEW D, NEW g, Sums(g, D), NEW s \in D
  PROVE  g[s] = IF s = {} THEN 0 ELSE Amount[First(s)] + g[s \ {First(s)}]
BY DEF Sums

\* What two sums are of one set is one, whatever larger sets they were made for.
LEMMA SumsAgree ==
  ASSUME NEW S, NEW T, IsFiniteSet(T), T \subseteq S, NEW g, NEW h,
         Sums(g, SUBSET S), Sums(h, SUBSET T)
  PROVE  g[T] = h[T]
<1> DEFINE Good == {s \in SUBSET T : g[s] = h[s]}
<1>1. ASSUME NEW s \in SUBSET T, \A u \in SUBSET s : u # s => u \in Good PROVE s \in Good
  <2>1. Sums(g, SUBSET S) /\ s \in SUBSET S
    OBVIOUS
  <2>a. g[s] = IF s = {} THEN 0 ELSE Amount[First(s)] + g[s \ {First(s)}]
    BY <2>1 DEF Sums
  <2>b. Sums(h, SUBSET T) /\ s \in SUBSET T
    OBVIOUS
  <2>2. h[s] = IF s = {} THEN 0 ELSE Amount[First(s)] + h[s \ {First(s)}]
    BY <2>b DEF Sums
  <2>3. CASE s = {}
    BY <2>a, <2>2, <2>3
  <2>4. CASE s # {}
    <3>1. s \ {First(s)} \in Good
      BY <1>1, <2>4, FirstIs
    <3> QED BY <2>a, <2>2, <2>4, <3>1
  <2> QED BY <2>3, <2>4
<1> HIDE DEF Good
<1>2. SUBSET T \subseteq Good
  BY <1>1, SubsetInduction
<1> QED BY <1>2 DEF Good

LEMMA SumsExist ==
  ASSUME NEW S, IsFiniteSet(S) PROVE Sums(Summing(S), SUBSET S)
<1> DEFINE Good == {s \in SUBSET S : Sums(Summing(s), SUBSET s)}
<1>1. ASSUME NEW s \in SUBSET S, \A u \in SUBSET s : u # s => u \in Good PROVE s \in Good
  <2> DEFINE g == [t \in SUBSET s |-> IF t = {} THEN 0 ELSE Amount[First(t)] + Sum(t \ {First(t)})]
  <2>1. ASSUME NEW u \in SUBSET s, u # s PROVE g[u] = Sum(u)
    <3>1. Sums(Summing(u), SUBSET u)
      BY <1>1, <2>1
    <3>2. Sum(u) = IF u = {} THEN 0 ELSE Amount[First(u)] + Summing(u)[u \ {First(u)}]
      BY <3>1, SumsAt DEF Sum
    <3>3. CASE u = {}
      BY <3>2, <3>3
    <3>4. CASE u # {}
      <4> DEFINE v == u \ {First(u)}
      <4>1. v \in SUBSET u /\ v # s /\ v \in SUBSET s
        BY <3>4, <2>1, FirstIs
      <4>2. Sums(Summing(v), SUBSET v) /\ IsFiniteSet(v)
        BY <4>1, <1>1, FS_Subset
      <4> HIDE DEF v
      <4>3. Summing(u)[v] = Summing(v)[v]
        BY <4>1, <4>2, <3>1, SumsAgree
      <4>4. Sum(u) = Amount[First(u)] + Sum(v)
        BY <3>2, <3>4, <4>3 DEF v, Sum
      <4> QED BY <4>4, <3>4 DEF v
    <3> QED BY <3>3, <3>4
  <2>2. ASSUME NEW t \in SUBSET s, t # {} PROVE g[t \ {First(t)}] = Sum(t \ {First(t)})
    <3>1. First(t) \in t
      BY <2>2, FirstIs
    <3>2. t \ {First(t)} \in SUBSET s /\ t \ {First(t)} # s
      BY <3>1
    <3> HIDE DEF g
    <3> QED BY <3>2, <2>1
  <2>3. g = [t \in SUBSET s |-> IF t = {} THEN 0 ELSE Amount[First(t)] + g[t \ {First(t)}]]
    <3> DEFINE k == [t \in SUBSET s |-> IF t = {} THEN 0 ELSE Amount[First(t)] + g[t \ {First(t)}]]
    <3>1. ASSUME NEW t \in SUBSET s PROVE g[t] = k[t]
      <4>1. g[t] = IF t = {} THEN 0 ELSE Amount[First(t)] + Sum(t \ {First(t)})
        OBVIOUS
      <4>2. k[t] = IF t = {} THEN 0 ELSE Amount[First(t)] + g[t \ {First(t)}]
        OBVIOUS
      <4> HIDE DEF g, k
      <4> QED BY <4>1, <4>2, <2>2
    <3>2. g = [t \in SUBSET s |-> g[t]] /\ k = [t \in SUBSET s |-> k[t]]
      OBVIOUS
    <3> HIDE DEF g, k
    <3>3. g = k
      BY <3>1, <3>2
    <3> QED BY <3>3 DEF k
  <2> HIDE DEF g
  <2>4. Sums(g, SUBSET s)
    BY <2>3 DEF Sums
  <2>5. Sums(Summing(s), SUBSET s)
    BY <2>4 DEF Summing
  <2> QED BY <2>5
<1> HIDE DEF Good
<1>2. SUBSET S \subseteq Good
  BY <1>1, SubsetInduction
<1> QED BY <1>2 DEF Good


\* The sum of a set is the first element's amount and the sum of the rest.
LEMMA SumStep ==
  ASSUME NEW S, IsFiniteSet(S)
  PROVE  Sum(S) = IF S = {} THEN 0 ELSE Amount[First(S)] + Sum(S \ {First(S)})
<1> DEFINE v == S \ {First(S)}
<1>1. Sums(Summing(S), SUBSET S)
  BY SumsExist
<1>2. Sum(S) = IF S = {} THEN 0 ELSE Amount[First(S)] + Summing(S)[v]
  BY <1>1, SumsAt DEF Sum
<1>3. v \subseteq S /\ IsFiniteSet(v)
  BY FS_Subset
<1> HIDE DEF v
<1>4. Sums(Summing(v), SUBSET v)
  BY <1>3, SumsExist
<1>5. Summing(S)[v] = Summing(v)[v]
  BY <1>1, <1>3, <1>4, SumsAgree
<1>6. Sum(v) = Summing(v)[v]
  BY DEF Sum
<1> QED BY <1>2, <1>5, <1>6 DEF v

LEMMA SumIsNat ==
  ASSUME NEW S \in SUBSET Case PROVE Sum(S) \in Nat
<1> DEFINE Good == {s \in SUBSET Case : Sum(s) \in Nat}
<1>1. ASSUME NEW s \in SUBSET Case, \A u \in SUBSET s : u # s => u \in Good PROVE s \in Good
  <2>1. IsFiniteSet(s)
    BY FS_Subset, LadderAssumption
  <2>2. CASE s = {}
    <3>1. Sum(s) = 0
      BY <2>1, <2>2, SumStep
    <3> QED BY <3>1
  <2>3. CASE s # {}
    <3>1. First(s) \in Case /\ Sum(s \ {First(s)}) \in Nat
      BY <1>1, <2>3, FirstIs
    <3>2. Amount[First(s)] \in Nat
      BY <3>1, LadderAssumption
    <3>3. Sum(s) = Amount[First(s)] + Sum(s \ {First(s)})
      BY <2>1, <2>3, SumStep
    <3> QED BY <3>1, <3>2, <3>3
  <2> QED BY <2>2, <2>3
<1> HIDE DEF Good
<1>2. SUBSET Case \subseteq Good
  BY <1>1, SubsetInduction, LadderAssumption
<1> QED BY <1>2 DEF Good

\* Whichever element is taken first.
LEMMA SumOfAny ==
  ASSUME NEW S \in SUBSET Case, NEW x \in S
  PROVE  Sum(S) = Amount[x] + Sum(S \ {x})
<1> DEFINE Good == {s \in SUBSET Case : \A y \in s : Sum(s) = Amount[y] + Sum(s \ {y})}
<1>1. ASSUME NEW s \in SUBSET Case, \A u \in SUBSET s : u # s => u \in Good PROVE s \in Good
  <2> SUFFICES ASSUME NEW y \in s PROVE Sum(s) = Amount[y] + Sum(s \ {y})
    OBVIOUS
  <2>1. \A t \in SUBSET Case : IsFiniteSet(t)
    BY FS_Subset, LadderAssumption
  <2> DEFINE z == First(s)
             both == (s \ {y}) \ {z}
  <2>2. z \in s
    BY FirstIs
  <2>3. Sum(s) = Amount[z] + Sum(s \ {z})
    BY <2>1, SumStep
  <2>4. CASE z = y
    BY <2>3, <2>4
  <2>5. CASE z # y
    <3>1. s \ {z} \in Good /\ s \ {y} \in Good
      BY <1>1, <2>2
    <3>2. y \in s \ {z} /\ z \in s \ {y} /\ (s \ {z}) \ {y} = both
      BY <2>2, <2>5
    <3>3. Sum(s \ {z}) = Amount[y] + Sum(both) /\ Sum(s \ {y}) = Amount[z] + Sum(both)
      BY <3>1, <3>2
    <3>4. Amount[y] \in Nat /\ Amount[z] \in Nat /\ Sum(both) \in Nat
      BY <2>2, SumIsNat, LadderAssumption
    <3> HIDE DEF z, both
    <3> QED BY <2>3, <3>3, <3>4
  <2> QED BY <2>4, <2>5
<1> HIDE DEF Good
<1>2. SUBSET Case \subseteq Good
  BY <1>1, SubsetInduction, LadderAssumption
<1> QED BY <1>2 DEF Good

LEMMA SumGrows ==
  ASSUME NEW S \in SUBSET Case, NEW T \in SUBSET S PROVE Sum(T) <= Sum(S)
<1> DEFINE Good == {s \in SUBSET S : T \subseteq s => Sum(T) <= Sum(s)}
<1>0. IsFiniteSet(S)
  BY FS_Subset, LadderAssumption
<1>1. ASSUME NEW s \in SUBSET S, \A u \in SUBSET s : u # s => u \in Good PROVE s \in Good
  <2> SUFFICES ASSUME T \subseteq s PROVE Sum(T) <= Sum(s)
    OBVIOUS
  <2>1. CASE T = s
    <3>1. Sum(T) \in Nat
      BY SumIsNat
    <3> QED BY <2>1, <3>1
  <2>2. CASE T # s
    <3>1. PICK x \in s : x \notin T
      BY <2>2
    <3>2. Sum(T) <= Sum(s \ {x})
      BY <1>1, <3>1
    <3>3. Sum(s) = Amount[x] + Sum(s \ {x})
      BY SumOfAny
    <3>4. Amount[x] \in Nat /\ Sum(T) \in Nat /\ Sum(s \ {x}) \in Nat
      BY SumIsNat, LadderAssumption
    <3> QED BY <3>2, <3>3, <3>4
  <2> QED BY <2>1, <2>2
<1> HIDE DEF Good
<1>2. SUBSET S \subseteq Good
  BY <1>0, <1>1, SubsetInduction
<1> QED BY <1>2 DEF Good

\* So the audit's bucket is worth no more than the cases there are.
LEMMA MoneyIsCounted ==
  ASSUME LadderTypes, DeferInv PROVE MoneyCountedOnce
<1> DEFINE PerCase == {e[1] : e \in Deferrals}
           born == {c \in Case : cases[c].born}
<1>1. PerCase \in SUBSET born /\ born \in SUBSET Case
  <2>1. ASSUME NEW e \in Deferrals PROVE e[1] \in born
    <3>1. e[1] \in Case /\ e[2] \in 1 .. MaxDefers /\ e[2] <= deferred[e[1]]
      BY DEF Deferrals
    <3>2. deferred[e[1]] \in Nat
      BY <3>1 DEF LadderTypes
    <3>3. deferred[e[1]] > 0
      BY <3>1, <3>2
    <3> QED BY <3>1, <3>3 DEF DeferInv
  <2> QED BY <2>1
<1>2. IsFiniteSet(born)
  BY <1>1, FS_Subset, LadderAssumption
<1> HIDE DEF PerCase, born
<1>3. Cardinality(PerCase) <= Cardinality(born)
  BY <1>1, <1>2, FS_Subset
<1>4. Sum(PerCase) <= Sum(born)
  BY <1>1, SumGrows
<1>5. DeferredBucket.caseCount = Cardinality(PerCase)
  BY DEF DeferredBucket, PerCase
<1>6. DeferredBucket.amountAtRisk = Sum(PerCase)
  BY Zenon, SumIs DEF DeferredBucket, PerCase
<1>7. DeferredBucket.amountAtRisk <= LET amount(c) == Amount[c] IN MapThenSumSet(amount, born)
  BY Zenon, <1>4, <1>6, SumIs
<1> QED BY Zenon, <1>3, <1>5, <1>7 DEF MoneyCountedOnce, born

----------------------------------------------------------------------------
(* The page.                                                                *)

Pages == [on : BOOLEAN, timers : Nat, current : BOOLEAN, misses : 0 .. STALE_AFTER_POLLS]
PollSet == [by : {"none", "loop", "refresh", "act"}, saw : SUBSET Key]
Sets(by) == by \in {"loop", "refresh"}

\* A poll that starts is one more of those that will set a timer, or is none.
LEMMA PollStarts ==
  ASSUME PageInv, NEW by \in {"loop", "refresh", "act"}, StartPoll(by)
  PROVE  /\ polls' \in [Polls -> PollSet]
         /\ Cardinality(Loops') = Cardinality(Loops) + (IF Sets(by) THEN 1 ELSE 0)
<1> DEFINE i == CHOOSE j \in Free : TRUE
           new == [by |-> by, saw |-> OpenEscalations]
<1>1. i \in Polls /\ polls[i] = NoPoll
  BY DEF StartPoll, Free
<1>2. polls' = [polls EXCEPT ![i] = new]
  BY DEF StartPoll
<1>3. new \in PollSet /\ polls \in [Polls -> PollSet]
  BY DEF OpenEscalations, PageInv, PollSet
<1> HIDE DEF i
<1>4. polls[i].by = "none" /\ polls'[i].by = by /\ \A j \in Polls \ {i} : polls'[j] = polls[j]
  BY <1>1, <1>2, <1>3 DEF NoPoll
<1>5. IsFiniteSet(Loops) /\ i \notin Loops
  BY <1>4, FS_Subset, PageAssumption DEF Loops
<1>6. CASE Sets(by)
  <2>1. Loops' = Loops \union {i}
    BY <1>1, <1>4, <1>6 DEF Loops, Sets
  <2>2. Cardinality(Loops \union {i}) = Cardinality(Loops) + 1
    BY <1>5, FS_AddElement
  <2> QED BY <1>1, <1>2, <1>3, <1>6, <2>1, <2>2
<1>7. CASE ~Sets(by)
  <2>1. Loops' = Loops
    BY <1>1, <1>4, <1>7 DEF Loops, Sets
  <2>2. Cardinality(Loops) \in Nat
    BY <1>5, FS_CardinalityType
  <2> QED BY <1>1, <1>2, <1>3, <1>7, <2>1, <2>2
<1> QED BY <1>6, <1>7

LEMMA PollEnds ==
  ASSUME PageInv, NEW i \in Polls, polls' = [polls EXCEPT ![i] = NoPoll]
  PROVE  /\ polls' \in [Polls -> PollSet]
         /\ Cardinality(Loops) = Cardinality(Loops') + (IF Sets(polls[i].by) THEN 1 ELSE 0)
         /\ Cardinality(Loops') \in Nat
<1>1. polls \in [Polls -> PollSet] /\ NoPoll \in PollSet
  BY DEF PageInv, PollSet, NoPoll
<1>2. polls'[i].by = "none" /\ \A j \in Polls \ {i} : polls'[j] = polls[j]
  BY <1>1 DEF NoPoll
<1>3. Loops' = Loops \ {i}
  BY <1>2 DEF Loops
<1>4. IsFiniteSet(Loops)
  BY FS_Subset, PageAssumption DEF Loops
<1>5. /\ Cardinality(Loops) \in Nat /\ Cardinality(Loops \ {i}) \in Nat
      /\ Cardinality(Loops \ {i}) = IF i \in Loops THEN Cardinality(Loops) - 1 ELSE Cardinality(Loops)
  BY <1>4, FS_RemoveElement, FS_CardinalityType
<1>6. i \in Loops <=> Sets(polls[i].by)
  BY DEF Loops, Sets
<1> QED BY <1>1, <1>3, <1>5, <1>6

\* The timers a page has after each of its steps.
LEMMA ClearedIs ==
  ASSUME NEW p \in Pages, p.current => p.timers > 0
  PROVE  Cleared(p) \in Pages /\ ~Cleared(p).current /\ Cleared(p).timers <= p.timers
<1>1. CASE p.current
  <2>1. p.timers - 1 \in Nat
    BY <1>1 DEF Pages
  <2>2. Cleared(p) = [p EXCEPT !.timers = p.timers - 1, !.current = FALSE]
    BY <1>1 DEF Cleared
  <2>3. /\ Cleared(p) \in Pages /\ Cleared(p).timers = p.timers - 1
        /\ Cleared(p).current = FALSE
    BY <2>1, <2>2 DEF Pages
  <2> QED BY <2>1, <2>3 DEF Pages
<1>2. CASE ~p.current
  <2>1. Cleared(p) = p
    BY <1>2 DEF Cleared
  <2> QED BY <1>2, <2>1 DEF Pages
<1> QED BY <1>1, <1>2

LEMMA RearmedIs ==
  ASSUME NEW p \in Pages, p.current => p.timers > 0, NEW by, NEW answered \in BOOLEAN
  PROVE  /\ Rearmed(p, by, answered) \in Pages
         /\ Rearmed(p, by, answered).current => Rearmed(p, by, answered).timers > 0
         /\ Rearmed(p, by, answered).timers = p.timers + (IF Sets(by) THEN 1 ELSE 0)
<1>1. CASE Sets(by)
  <2>1. p.timers + 1 \in Nat /\ p.timers + 1 > 0
    BY DEF Pages
  <2>2. Rearmed(p, by, answered) = [p EXCEPT !.timers = p.timers + 1, !.current = TRUE]
    BY <1>1 DEF Rearmed, Armed, Sets
  <2>3. Rearmed(p, by, answered) \in Pages /\ Rearmed(p, by, answered).timers = p.timers + 1
    BY <2>1, <2>2 DEF Pages
  <2> QED BY <1>1, <2>1, <2>3
<1>2. CASE ~Sets(by)
  <2>1. Rearmed(p, by, answered) = p /\ p.timers \in Nat
    BY <1>2 DEF Rearmed, Sets, Pages
  <2> QED BY <1>2, <2>1
<1> QED BY <1>1, <1>2

LEMMA PageStays ==
  ASSUME PageInv, Next PROVE PageInv'
<1> DEFINE n == Cardinality(Loops)
<1>0. /\ page \in Pages /\ polls \in [Polls -> PollSet] /\ shown \subseteq Key
      /\ clicks \in 0 .. MaxClicks /\ (page.current => page.timers > 0)
      /\ page.timers \in Nat /\ n \in Nat /\ page.timers + n <= clicks + 1
      /\ clicks \in Nat /\ MaxClicks \in Nat
  <2>1. IsFiniteSet(Loops)
    BY FS_Subset, PageAssumption DEF Loops
  <2>2. n \in Nat
    BY <2>1, FS_CardinalityType
  <2> QED BY <2>2, PageAssumption DEF PageInv, Pages, PollSet
<1>a. ASSUME UNCHANGED pvars PROVE PageInv'
  <2>1. Loops' = Loops
    BY <1>a DEF pvars, Loops
  <2> QED BY <1>a, <2>1 DEF pvars, PageInv
<1>1. ASSUME TimerFires PROVE PageInv'
  <2>1. PICK current \in BOOLEAN :
          /\ IF current THEN page.current ELSE page.timers > (IF page.current THEN 1 ELSE 0)
          /\ page' = [page EXCEPT !.timers = @ - 1, !.current = IF current THEN FALSE ELSE @]
    BY <1>1 DEF TimerFires
  <2>2. page.timers > 0 /\ StartPoll("loop") /\ UNCHANGED <<shown, clicks>>
    BY <1>1 DEF TimerFires
  <2>3. page' \in Pages /\ page'.timers = page.timers - 1 /\ (page'.current => page'.timers > 0)
    <3>1. page.timers - 1 \in Nat
      BY <1>0, <2>2
    <3>2. CASE current
      BY <1>0, <2>1, <3>1, <3>2 DEF Pages
    <3>3. CASE ~current
      <4>1. page' = [page EXCEPT !.timers = page.timers - 1]
        BY <1>0, <2>1, <3>3 DEF Pages
      <4>2. page.current => page.timers > 1
        BY <2>1, <3>3
      <4> QED BY <1>0, <3>1, <4>1, <4>2 DEF Pages
    <3> QED BY <3>2, <3>3
  <2>4. polls' \in [Polls -> PollSet] /\ Cardinality(Loops') = n + 1
    BY <2>2, PollStarts DEF Sets
  <2> HIDE DEF n
  <2>5. page'.timers + Cardinality(Loops') <= clicks' + 1
    BY <1>0, <2>2, <2>3, <2>4
  <2> QED BY <1>0, <2>2, <2>3, <2>4, <2>5 DEF PageInv, Pages, PollSet
<1>2. ASSUME Refresh PROVE PageInv'
  <2>1. /\ clicks' = clicks + 1 /\ clicks < MaxClicks /\ page' = Cleared(page)
        /\ StartPoll("refresh") /\ UNCHANGED shown
    BY <1>2 DEF Refresh
  <2>2. page' \in Pages /\ page'.timers <= page.timers /\ ~page'.current
    BY <1>0, <2>1, ClearedIs
  <2>3. polls' \in [Polls -> PollSet] /\ Cardinality(Loops') = n + 1
    BY <2>1, PollStarts DEF Sets
  <2>a. page'.timers \in Nat
    BY <2>2 DEF Pages
  <2> HIDE DEF n
  <2>4. page'.timers + Cardinality(Loops') <= clicks' + 1 /\ clicks' \in 0 .. MaxClicks
    BY <1>0, <2>1, <2>2, <2>3, <2>a
  <2> QED BY <1>0, <2>1, <2>2, <2>3, <2>4 DEF PageInv, Pages, PollSet
<1>3. ASSUME Unmount PROVE PageInv'
  <2>1. page' = [Cleared(page) EXCEPT !.on = FALSE] /\ UNCHANGED <<polls, shown, clicks>>
    BY <1>3 DEF Unmount
  <2>2. Cleared(page) \in Pages /\ Cleared(page).timers <= page.timers
        /\ ~Cleared(page).current
    BY <1>0, ClearedIs
  <2>3. page' \in Pages /\ page'.timers = Cleared(page).timers /\ ~page'.current
    BY <2>1, <2>2 DEF Pages
  <2>4. Loops' = Loops /\ page'.timers \in Nat
    BY <2>1, <2>3 DEF Loops, Pages
  <2> HIDE DEF n
  <2>5. page'.timers + n <= clicks + 1
    BY <1>0, <2>2, <2>3, <2>4
  <2> QED BY <1>0, <2>1, <2>3, <2>4, <2>5 DEF PageInv, Pages, PollSet, n
<1>4. ASSUME NEW i \in Polls, PollAnswered(i) \/ PollMissed(i) PROVE PageInv'
  <2>1. /\ polls' = [polls EXCEPT ![i] = NoPoll] /\ UNCHANGED clicks
        /\ shown' = polls[i].saw \/ shown' = shown
    BY <1>4 DEF PollAnswered, PollMissed
  <2>2. shown' \subseteq Key
    BY <1>0, <2>1 DEF PollSet
  <2>3. PICK m \in 0 .. STALE_AFTER_POLLS, answered \in BOOLEAN :
          page' = Rearmed([page EXCEPT !.misses = m], polls[i].by, answered)
    <3>1. CASE PollAnswered(i)
      <4>1. 0 \in 0 .. STALE_AFTER_POLLS
        BY DEF STALE_AFTER_POLLS
      <4> QED BY <3>1, <4>1 DEF PollAnswered
    <3>2. CASE PollMissed(i)
      <4> DEFINE T == {page.misses + 1, STALE_AFTER_POLLS}
      <4>1. page.misses + 1 \in Nat /\ STALE_AFTER_POLLS \in Nat
        BY <1>0 DEF Pages, STALE_AFTER_POLLS
      <4>2. T \subseteq Nat /\ T # {} /\ STALE_AFTER_POLLS \in T
        BY <4>1
      <4> HIDE DEF T
      <4>3. Min(T) \in T /\ Min(T) <= STALE_AFTER_POLLS
        BY <4>2, LeastNatural
      <4>a. Min(T) \in Nat
        BY <4>2, <4>3
      <4>4. Min(T) \in 0 .. STALE_AFTER_POLLS
        BY <4>1, <4>3, <4>a
      <4> QED BY <3>2, <4>4 DEF PollMissed, T
    <3> QED BY <1>4, <3>1, <3>2
  <2> DEFINE old == [page EXCEPT !.misses = m]
  <2>4. old \in Pages /\ old.timers = page.timers /\ old.current = page.current
    BY <1>0 DEF Pages
  <2>a. page' = Rearmed(old, polls[i].by, answered)
    BY <2>3
  <2> HIDE DEF old
  <2>5. /\ page' \in Pages /\ (page'.current => page'.timers > 0)
        /\ page'.timers = page.timers + (IF Sets(polls[i].by) THEN 1 ELSE 0)
    BY <1>0, <2>a, <2>4, RearmedIs
  <2>6. /\ polls' \in [Polls -> PollSet]
        /\ n = Cardinality(Loops') + (IF Sets(polls[i].by) THEN 1 ELSE 0)
        /\ Cardinality(Loops') \in Nat
    BY <2>1, PollEnds
  <2> HIDE DEF n
  <2>7. page'.timers + Cardinality(Loops') <= clicks' + 1
    BY <1>0, <2>1, <2>5, <2>6
  <2> QED BY <1>0, <2>1, <2>2, <2>5, <2>6, <2>7 DEF PageInv, Pages, PollSet
<1>5. ASSUME ViewerPolls PROVE PageInv'
  <2>1. StartPoll("act") /\ UNCHANGED <<page, shown, clicks>>
    BY <1>5 DEF ViewerPolls
  <2>2. polls' \in [Polls -> PollSet] /\ Cardinality(Loops') = n
    BY <2>1, <1>0, PollStarts DEF Sets
  <2> HIDE DEF n
  <2> QED BY <1>0, <2>1, <2>2 DEF PageInv, Pages, PollSet
<1>6. ASSUME ViewerActs PROVE UNCHANGED pvars
  BY <1>6 DEF ViewerActs
<1> QED BY <1>a, <1>1, <1>2, <1>3, <1>4, <1>5, <1>6 DEF Next, PageStep

----------------------------------------------------------------------------
(* The triage.                                                              *)

Proposal == [status : {"pending", "accepted", "rejected"}, class : Class]
Run == [at : {NotStarted, "asking", "recording", Dead}, todo : SUBSET UnknownReasons,
        class : Class \union {"none"}]

\* What was decided stands, and no proposal is lost.
DecidedKept ==
  \A r \in Reason : \A i \in DOMAIN proposals[r] :
    proposals[r][i].status # "pending" =>
      i \in DOMAIN proposals'[r] /\ proposals'[r][i] = proposals[r][i]

\* A proposal of a reason goes to the one that is pending, or is a row of its own.
LEMMA UpsertIs ==
  ASSUME TriageInv, NEW r \in Reason, NEW class \in Class
  PROVE  /\ Upserted(r, class) \in Seq(Proposal) /\ Upserted(r, class) # <<>>
         /\ \A i, j \in DOMAIN Upserted(r, class) :
              Upserted(r, class)[i].status = "pending" /\ Upserted(r, class)[j].status = "pending"
                => i = j
         /\ \A i \in DOMAIN proposals[r] : proposals[r][i].status # "pending" =>
              i \in DOMAIN Upserted(r, class) /\ Upserted(r, class)[i] = proposals[r][i]
<1> DEFINE q == proposals[r]
           new == NewProposal(class)
<1>1. q \in Seq(Proposal) /\ \A i, j \in Pending(r) : i = j
  BY DEF TriageInv, Proposal
<1>2. new \in Proposal /\ new.status = "pending"
  BY DEF NewProposal, Proposal
<1>3. Pending(r) = {i \in DOMAIN q : q[i].status = "pending"}
  BY DEF Pending
<1> HIDE DEF q, new
<1>4. CASE Pending(r) = {}
  <2>1. Upserted(r, class) = Append(q, new)
    BY <1>4 DEF Upserted, q, new
  <2>2. /\ Append(q, new) \in Seq(Proposal) /\ Append(q, new) # <<>>
        /\ Len(Append(q, new)) = Len(q) + 1 /\ Append(q, new)[Len(q) + 1] = new
        /\ \A i \in DOMAIN q : i \in DOMAIN Append(q, new) /\ Append(q, new)[i] = q[i]
    BY <1>1, <1>2
  <2>3. ASSUME NEW i \in DOMAIN Append(q, new), Append(q, new)[i].status = "pending"
        PROVE  i = Len(q) + 1
    <3>1. i \in 1 .. Len(q) + 1 /\ Len(q) \in Nat /\ DOMAIN q = 1 .. Len(q)
      BY <1>1, <2>2
    <3>2. i # Len(q) + 1 => i \in DOMAIN q
      BY <3>1
    <3> QED BY <1>3, <1>4, <2>2, <2>3, <3>2
  <2> QED BY <2>1, <2>2, <2>3 DEF q
<1>5. CASE Pending(r) # {}
  <2> DEFINE n == CHOOSE i \in Pending(r) : TRUE
             row == [q[n] EXCEPT !.class = class]
             up == [q EXCEPT ![n] = row]
  <2>1. n \in Pending(r)
    BY <1>5
  <2>2. Upserted(r, class) = up
    BY <1>5 DEF Upserted, q
  <2> HIDE DEF n
  <2>3. n \in 1 .. Len(q) /\ q[n].status = "pending" /\ q[n] \in Proposal
    BY <1>1, <1>3, <2>1
  <2>4. row \in Proposal /\ row.status = "pending"
    BY <2>3 DEF Proposal
  <2> HIDE DEF row
  <2>5. up \in Seq(Proposal) /\ up # <<>> /\ DOMAIN up = DOMAIN q /\ up[n] = row
        /\ \A i \in DOMAIN q \ {n} : up[i] = q[i]
    BY <1>1, <2>3, <2>4
  <2> HIDE DEF up
  <2>6. ASSUME NEW i \in DOMAIN up, up[i].status = "pending" PROVE i \in Pending(r)
    BY <1>3, <2>1, <2>5, <2>6
  <2>7. ASSUME NEW i \in DOMAIN q, q[i].status # "pending" PROVE up[i] = q[i]
    BY <2>3, <2>5, <2>7
  <2> QED BY <1>1, <2>2, <2>5, <2>6, <2>7 DEF q
<1> QED BY <1>4, <1>5

LEMMA TriageStays ==
  ASSUME TriageInv, Next PROVE TriageInv' /\ DecidedKept
<1>0. /\ proposals \in [Reason -> Seq(Proposal)] /\ runs \in [TriageRun -> Run]
      /\ tried \in [TriageRun -> SUBSET UnknownReasons]
  BY DEF TriageInv, Proposal, Run
<1>a. ASSUME UNCHANGED proposals PROVE DecidedKept
  BY <1>a DEF DecidedKept
<1>b. ASSUME UNCHANGED proposals, runs' \in [TriageRun -> Run],
             tried' \in [TriageRun -> SUBSET UnknownReasons],
             \A t \in TriageRun :
               /\ runs'[t].at = NotStarted => tried'[t] = {}
               /\ runs'[t].at \in {"asking", "recording"} =>
                    tried'[t] \union runs'[t].todo = UnknownReasons
               /\ runs'[t].at = "recording" => runs'[t].class \in Class
      PROVE  TriageInv'
  <2>1. UnknownReasons' = UnknownReasons /\ \A r \in Reason : Pending(r)' = Pending(r)
    BY <1>b DEF UnknownReasons, Pending
  <2>2. \A r \in Reason : /\ \A i, j \in Pending(r)' : i = j
                         /\ proposals'[r] # <<>> => r \in UnknownReasons'
    BY <1>b, <2>1 DEF TriageInv
  <2>3. proposals' \in [Reason -> Seq(Proposal)] /\ UNCHANGED UnknownReasons
    BY <1>0, <1>b, <2>1
  <2> QED BY <1>b, <2>1, <2>2, <2>3 DEF TriageInv, Run, Proposal
<1>1. ASSUME UNCHANGED tvars PROVE TriageInv' /\ DecidedKept
  <2>1. UNCHANGED <<proposals, runs, tried>>
    BY <1>1 DEF tvars
  <2> QED BY <2>1, <1>0, <1>a, <1>b DEF TriageInv
<1>2. ASSUME NEW t \in TriageRun, NEW new \in Run, NEW told \in SUBSET UnknownReasons,
             runs' = [runs EXCEPT ![t] = new], tried' = [tried EXCEPT ![t] = told],
             new.at # NotStarted,
             new.at \in {"asking", "recording"} => told \union new.todo = UnknownReasons,
             new.at = "recording" => new.class \in Class
      PROVE  /\ runs' \in [TriageRun -> Run] /\ tried' \in [TriageRun -> SUBSET UnknownReasons]
             /\ \A u \in TriageRun :
                  /\ runs'[u].at = NotStarted => tried'[u] = {}
                  /\ runs'[u].at \in {"asking", "recording"} =>
                       tried'[u] \union runs'[u].todo = UnknownReasons
                  /\ runs'[u].at = "recording" => runs'[u].class \in Class
  <2>1. /\ runs' \in [TriageRun -> Run] /\ runs'[t] = new
        /\ \A u \in TriageRun \ {t} : runs'[u] = runs[u]
    BY <1>0, <1>2
  <2>2. /\ tried' \in [TriageRun -> SUBSET UnknownReasons] /\ tried'[t] = told
        /\ \A u \in TriageRun \ {t} : tried'[u] = tried[u]
    BY <1>0, <1>2
  <2>3. ASSUME NEW u \in TriageRun \ {t}
        PROVE  /\ runs[u].at = NotStarted => tried[u] = {}
               /\ runs[u].at \in {"asking", "recording"} => tried[u] \union runs[u].todo = UnknownReasons
               /\ runs[u].at = "recording" => runs[u].class \in Class
    BY DEF TriageInv
  <2> QED BY <1>2, <2>1, <2>2, <2>3
<1>3. ASSUME NEW t \in TriageRun, TriageStep(t) PROVE TriageInv' /\ DecidedKept
  <2>0. runs[t] \in Run /\ tried[t] \in SUBSET UnknownReasons
    BY <1>0
  <2>a. /\ runs[t].at = NotStarted => tried[t] = {}
        /\ runs[t].at \in {"asking", "recording"} => tried[t] \union runs[t].todo = UnknownReasons
        /\ runs[t].at = "recording" => runs[t].class \in Class
    BY DEF TriageInv
  <2>b. tried = [tried EXCEPT ![t] = tried[t]]
    BY <1>0
  <2>1. CASE FindUnknownReasons(t)
    <3> DEFINE new == [runs[t] EXCEPT !.at = "asking", !.todo = UnknownReasons]
    <3>1. new \in Run /\ new.at = "asking" /\ new.todo = UnknownReasons
      BY <2>0 DEF Run
    <3>2. runs' = [runs EXCEPT ![t] = new] /\ UNCHANGED <<proposals, tried>>
      BY <2>1, <1>0 DEF FindUnknownReasons
    <3>3. new.at # NotStarted /\ new.at # "recording"
      BY <3>1 DEF NotStarted
    <3>4. tried[t] \union new.todo = UnknownReasons
      BY <2>0, <3>1
    <3> HIDE DEF new
    <3> QED BY <3>1, <3>2, <3>3, <3>4, <2>0, <2>b, <1>2, <1>a, <1>b
  <2>2. CASE Propose(t)
    <3>1. PICK class \in Class : runs' = [runs EXCEPT ![t].at = "recording", ![t].class = class]
      BY <2>2 DEF Propose
    <3> DEFINE new == [runs[t] EXCEPT !.at = "recording", !.class = class]
    <3>2. new \in Run /\ new.at = "recording" /\ new.todo = runs[t].todo /\ new.class = class
      BY <2>0 DEF Run
    <3>3. runs' = [runs EXCEPT ![t] = new] /\ UNCHANGED <<proposals, tried>> /\ runs[t].at = "asking"
      BY <2>2, <3>1, <1>0 DEF Propose
    <3>4. new.at # NotStarted
      BY <3>2 DEF NotStarted
    <3> HIDE DEF new
    <3> QED BY <3>2, <3>3, <3>4, <2>0, <2>a, <2>b, <1>2, <1>a, <1>b
  <2>3. CASE ProposalFails(t)
    <3>1. PICK r \in MostSeen(runs[t].todo) :
            tried' = [tried EXCEPT ![t] = tried[t] \union {r}] /\ GoOnAfter(t, r)
      BY <2>3 DEF ProposalFails
    <3> DEFINE new == [runs[t] EXCEPT !.todo = runs[t].todo \ {r}]
               told == tried[t] \union {r}
    <3>2. r \in runs[t].todo /\ runs[t].todo \subseteq UnknownReasons
      BY <2>0 DEF MostSeen, Run
    <3>3. new \in Run /\ new.at = runs[t].at /\ new.todo = runs[t].todo \ {r}
      BY <2>0, <3>2 DEF Run
    <3>4. /\ runs' = [runs EXCEPT ![t] = new] /\ tried' = [tried EXCEPT ![t] = told]
          /\ UNCHANGED proposals /\ runs[t].at = "asking"
      BY <2>3, <3>1 DEF ProposalFails, GoOnAfter
    <3>5. told \in SUBSET UnknownReasons /\ told \union new.todo = UnknownReasons
      BY <2>0, <2>a, <3>2, <3>3, <3>4
    <3>6. new.at # NotStarted /\ new.at # "recording"
      BY <3>3, <3>4 DEF NotStarted
    <3> HIDE DEF new, told
    <3> QED BY <3>3, <3>4, <3>5, <3>6, <1>2, <1>a, <1>b
  <2>4. CASE UpsertProposal(t)
    <3>1. PICK r \in MostSeen(runs[t].todo) :
            /\ proposals' = [proposals EXCEPT ![r] = Upserted(r, runs[t].class)]
            /\ tried' = [tried EXCEPT ![t] = tried[t] \union {r}]
            /\ runs' = [runs EXCEPT ![t] = [at |-> "asking", todo |-> runs[t].todo \ {r},
                                            class |-> "none"]]
      BY <2>4 DEF UpsertProposal
    <3> DEFINE new == [at |-> "asking", todo |-> runs[t].todo \ {r}, class |-> "none"]
               told == tried[t] \union {r}
               rows == Upserted(r, runs[t].class)
    <3>2. r \in runs[t].todo /\ runs[t].todo \subseteq UnknownReasons /\ r \in Reason
      BY <2>0 DEF MostSeen, Run, UnknownReasons
    <3>3. runs[t].at = "recording" /\ runs[t].class \in Class
      BY <2>4, <2>a DEF UpsertProposal
    <3>4. new \in Run /\ new.at = "asking" /\ new.todo = runs[t].todo \ {r}
      BY <3>2 DEF Run
    <3>5. told \in SUBSET UnknownReasons /\ told \union new.todo = UnknownReasons
      BY <2>0, <2>a, <3>2, <3>3
    <3>6. /\ rows \in Seq(Proposal) /\ rows # <<>>
          /\ \A i, j \in DOMAIN rows :
               rows[i].status = "pending" /\ rows[j].status = "pending" => i = j
          /\ \A i \in DOMAIN proposals[r] : proposals[r][i].status # "pending" =>
               i \in DOMAIN rows /\ rows[i] = proposals[r][i]
      BY <3>2, <3>3, UpsertIs
    <3>7. new.at # NotStarted /\ new.at # "recording"
      BY <3>4 DEF NotStarted
    <3>8. /\ proposals' = [proposals EXCEPT ![r] = rows] /\ tried' = [tried EXCEPT ![t] = told]
          /\ runs' = [runs EXCEPT ![t] = new]
      BY <3>1
    <3> HIDE DEF new, told, rows
    <3>9. /\ runs' \in [TriageRun -> Run] /\ tried' \in [TriageRun -> SUBSET UnknownReasons]
          /\ \A u \in TriageRun :
               /\ runs'[u].at = NotStarted => tried'[u] = {}
               /\ runs'[u].at \in {"asking", "recording"} =>
                    tried'[u] \union runs'[u].todo = UnknownReasons
               /\ runs'[u].at = "recording" => runs'[u].class \in Class
      BY <3>4, <3>5, <3>7, <3>8, <1>2
    <3>10. /\ proposals' \in [Reason -> Seq(Proposal)] /\ proposals'[r] = rows
           /\ \A q \in Reason \ {r} : proposals'[q] = proposals[q]
      BY <1>0, <3>2, <3>6, <3>8
    <3>11. DecidedKept
      BY <3>6, <3>10 DEF DecidedKept
    <3>12. ASSUME NEW q \in Reason
           PROVE  /\ \A i, j \in Pending(q)' : i = j
                  /\ proposals'[q] # <<>> => q \in UnknownReasons
      <4>1. CASE q = r
        BY <4>1, <3>2, <3>6, <3>10 DEF Pending
      <4>2. CASE q # r
        BY <4>2, <3>10 DEF Pending, TriageInv
      <4> QED BY <4>1, <4>2
    <3>13. UnknownReasons' = UnknownReasons
      BY DEF UnknownReasons
    <3>14. TriageInv'
      BY <3>9, <3>10, <3>12, <3>13 DEF TriageInv, Run, Proposal
    <3> QED BY <3>11, <3>14
  <2>5. CASE TriageDies(t)
    <3> DEFINE new == [runs[t] EXCEPT !.at = Dead]
    <3>1. new \in Run /\ new.at = Dead
      BY <2>0 DEF Run
    <3>2. runs' = [runs EXCEPT ![t] = new] /\ UNCHANGED <<proposals, tried>>
      BY <2>5 DEF TriageDies
    <3>3. new.at # NotStarted /\ new.at \notin {"asking", "recording"}
      BY <3>1 DEF NotStarted, Dead
    <3> HIDE DEF new
    <3> QED BY <3>1, <3>2, <3>3, <2>0, <2>b, <1>2, <1>a, <1>b
  <2> QED BY <1>3, <2>1, <2>2, <2>3, <2>4, <2>5 DEF TriageStep
<1>4. ASSUME NEW r \in Reason, NEW i \in DOMAIN proposals[r], NEW d \in {"accepted", "rejected"},
             ReviewProposal(r, i, d)
      PROVE  TriageInv' /\ DecidedKept
  <2> DEFINE q == proposals[r]
             row == [q[i] EXCEPT !.status = d]
             rows == [q EXCEPT ![i] = row]
  <2>1. q \in Seq(Proposal) /\ i \in 1 .. Len(q) /\ q[i] \in Proposal /\ q[i].status = "pending"
    BY <1>0, <1>4 DEF ReviewProposal, Reviewable
  <2>2. row \in Proposal /\ row.status = d /\ d # "pending"
    BY <2>1 DEF Proposal
  <2>3. proposals' = [proposals EXCEPT ![r] = rows] /\ UNCHANGED <<runs, tried>>
    BY <1>4 DEF ReviewProposal
  <2> HIDE DEF row, q
  <2>4. rows \in Seq(Proposal) /\ DOMAIN rows = DOMAIN q /\ rows[i] = row
        /\ \A j \in DOMAIN q \ {i} : rows[j] = q[j]
    BY <2>1, <2>2
  <2> HIDE DEF rows
  <2>5. /\ proposals' \in [Reason -> Seq(Proposal)] /\ proposals'[r] = rows
        /\ \A p \in Reason \ {r} : proposals'[p] = proposals[p]
    BY <1>0, <2>3, <2>4
  <2>6. DecidedKept
    BY <2>1, <2>4, <2>5 DEF DecidedKept, q
  <2>7. ASSUME NEW p \in Reason
        PROVE  /\ \A k, j \in Pending(p)' : k = j
               /\ proposals'[p] # <<>> => p \in UnknownReasons
    <3>1. CASE p = r
      <4>1. Pending(r)' \subseteq Pending(r)
        BY <2>2, <2>4, <2>5 DEF Pending, q
      <4>2. q # <<>>
        BY <2>1
      <4> QED BY <3>1, <4>1, <4>2 DEF TriageInv, q
    <3>2. CASE p # r
      BY <3>2, <2>5 DEF Pending, TriageInv
    <3> QED BY <3>1, <3>2
  <2>8. UnknownReasons' = UnknownReasons
    BY DEF UnknownReasons
  <2>9. TriageInv'
    BY <2>3, <2>5, <2>7, <2>8 DEF TriageInv, Proposal
  <2> QED BY <2>6, <2>9
<1> QED BY <1>1, <1>3, <1>4 DEF Next

----------------------------------------------------------------------------
(* The invariant, and what follows from it.                                 *)

IInv == Types /\ QueueInv /\ PageInv /\ TriageInv

LEMMA InitQueue == ASSUME EscalationsInit PROVE Types /\ QueueInv
<1>1. /\ queue = [k \in Key |-> NoRow] /\ trail = [k \in Key |-> 0] /\ said = {}
      /\ actions = {} /\ fired = {} /\ alerts = <<>>
      /\ alerted = [c \in Case |-> "no"] /\ deferred = [c \in Case |-> 0]
      /\ ladder = [c \in Case |-> [rung |-> 0, at |-> "row", read |-> NoRow]]
      /\ hands = [h \in Hand |-> [at |-> "idle", of |-> NoRow, source |-> "fallback"]]
      /\ people = [p \in Person |-> [at |-> "idle", of |-> NoRow, act |-> "acknowledge", acts |-> 0]]
  BY DEF EscalationsInit
<1>2. QueueTypes
  BY <1>1 DEF QueueTypes
<1>3. LadderTypes
  <2>1. cases \in [Case -> [born : BOOLEAN, old : BOOLEAN, paid : BOOLEAN]]
    <3>1. cases = [c \in Case |-> [born |-> \A d \in Case : c <= d, old |-> FALSE, paid |-> FALSE]]
      BY DEF EscalationsInit
    <3>2. \A c \in Case : (\A d \in Case : c <= d) \in BOOLEAN
      OBVIOUS
    <3> QED BY Zenon, <3>1, <3>2
  <2>2. ladder \in [Case -> Ladders]
    <3>1. Len(Rungs) \in Nat
      BY LadderAssumption
    <3>2. [rung |-> 0, at |-> "row", read |-> NoRow] \in Ladders
      BY <3>1 DEF Ladders, Positions, Read
    <3> QED BY <1>1, <3>2
  <2> QED BY <1>1, <2>1, <2>2 DEF LadderTypes, Ladders
<1>4. AlertTypes
  BY <1>1 DEF AlertTypes
<1>5. PeopleTypes
  BY <1>1 DEF PeopleTypes, Acting, BriefSources
<1>6. FitInv
  BY <1>1 DEF FitInv, LadderFit, HandFit, PersonFit
<1>7. RowInv /\ TrailInv
  BY <1>1 DEF RowInv, TrailInv, EscalatedOnce
<1>8. HoldoutUntouched
  BY <1>1, LadderAssumption DEF HoldoutUntouched
<1>9. FiredInv
  BY <1>1 DEF FiredInv
<1>10. SaidInv
  <2>1. \A k \in Key : Acked(k) = {} /\ Closed(k) = {}
    BY <1>1 DEF Acked, Closed
  <2>2. Cardinality({}) = 0
    BY FS_EmptySet
  <2>3. ASSUME NEW k \in Key PROVE Answers(k)
    <3>1. Cardinality(Acked(k)) = 0 /\ Cardinality(Closed(k)) = 0 /\ queue[k] = NoRow
      BY <1>1, <2>1, <2>2
    <3> QED BY <2>1, <3>1 DEF Answers
  <2> QED BY <2>3 DEF SaidInv
<1>11. DeferInv
  BY <1>1 DEF DeferInv
<1> QED BY <1>2, <1>3, <1>4, <1>5, <1>6, <1>7, <1>8, <1>9, <1>10, <1>11 DEF Types, QueueInv

LEMMA InitPage == ASSUME NEW mounted \in BOOLEAN, PageInit(mounted) PROVE PageInv
<1>1. polls = [i \in Polls |-> NoPoll] /\ shown = {} /\ clicks = 0
  BY DEF PageInit
<1>2. page = [on |-> mounted, timers |-> IF mounted THEN 1 ELSE 0, current |-> mounted, misses |-> 0]
  BY DEF PageInit
<1>3. page \in [on : BOOLEAN, timers : Nat, current : BOOLEAN, misses : 0 .. STALE_AFTER_POLLS]
  BY <1>2 DEF STALE_AFTER_POLLS
<1>4. page.timers = (IF mounted THEN 1 ELSE 0) /\ (page.current => page.timers > 0)
  <2>1. CASE mounted
    BY <1>2, <2>1
  <2>2. CASE ~mounted
    BY <1>2, <2>2
  <2> QED BY <2>1, <2>2
<1>5. Loops = {}
  BY <1>1 DEF Loops, NoPoll
<1>6. Cardinality(Loops) = 0
  BY <1>5, FS_EmptySet
<1>7. page.timers + Cardinality(Loops) <= clicks + 1
  BY <1>1, <1>4, <1>6
<1>8. polls \in [Polls -> [by : {"none", "loop", "refresh", "act"}, saw : SUBSET Key]]
  BY <1>1 DEF NoPoll
<1> QED BY <1>1, <1>3, <1>4, <1>7, <1>8, PageAssumption DEF PageInv

LEMMA InitTriage == ASSUME TriageInit PROVE TriageInv
<1>1. /\ proposals = [r \in Reason |-> <<>>] /\ tried = [t \in TriageRun |-> {}]
      /\ runs = [t \in TriageRun |-> [at |-> NotStarted, todo |-> {}, class |-> "none"]]
  BY DEF TriageInit
<1>2. /\ proposals \in [Reason -> Seq(Proposal)] /\ runs \in [TriageRun -> Run]
      /\ tried \in [TriageRun -> SUBSET UnknownReasons]
  BY <1>1 DEF Run
<1>3. \A r \in Reason : proposals[r] = <<>> /\ Pending(r) = {}
  BY <1>1 DEF Pending
<1>4. \A t \in TriageRun : runs[t].at = NotStarted /\ tried[t] = {}
  BY <1>1
<1> QED BY <1>2, <1>3, <1>4 DEF TriageInv, Proposal, Run, NotStarted

LEMMA IInvInit == Init => IInv
<1> SUFFICES ASSUME Init PROVE IInv
  OBVIOUS
<1>1. Types /\ QueueInv
  BY InitQueue DEF Init
<1>2. (Page \in shift) \in BOOLEAN /\ PageInit(Page \in shift)
  BY DEF Init
<1>3. PageInv
  BY Zenon, <1>2, InitPage
<1> QED BY <1>1, <1>3, InitTriage DEF Init, IInv

LEMMA QueueInvStays ==
  ASSUME Types, QueueInv, QueueStep PROVE Types' /\ QueueInv'
<1>1. LadderTypes' /\ DeferInv'
  BY LadderTypesStay DEF Types, QueueInv
<1>2. /\ QueueTypes' /\ RowInv' /\ SaidInv'
      /\ \A k \in Key : queue[k] # NoRow => queue'[k] # NoRow
  BY QueueStays DEF Types, QueueInv
<1>3. AlertTypes'
  BY AlertsStay DEF Types, QueueInv
<1>4. /\ PeopleTypes' /\ \A h \in Hand : HandFit(h)'
      /\ \A p \in Person : PersonFit(p)'
  BY <1>2, PeopleStay DEF Types, QueueInv
<1>5. FitInv'
  BY <1>4, LaddersFit DEF FitInv, Types, QueueInv
<1>6. TrailInv' /\ HoldoutUntouched' /\ FiredInv'
  BY TrailStays, HoldoutStays, FiredStays DEF QueueInv
<1> QED BY <1>1, <1>2, <1>3, <1>4, <1>5, <1>6 DEF Types, QueueInv

LEMMA IInvStep == IInv /\ [Next]_vars => IInv'
<1>1. ASSUME IInv, Next PROVE IInv'
  <2>1. QueueStep
    BY <1>1, StepsAtTheQueue DEF IInv, PageInv
  <2> QED BY <1>1, <2>1, QueueInvStays, PageStays, TriageStays DEF IInv
<1>2. ASSUME IInv, UNCHANGED vars PROVE IInv'
  <2>1. UNCHANGED evars /\ UNCHANGED pvars /\ UNCHANGED tvars
    BY <1>2 DEF vars
  <2>2. QueueStep
    BY <2>1 DEF QueueStep
  <2>3. PageInv'
    <3>1. Loops' = Loops
      BY <2>1 DEF pvars, Loops
    <3> QED BY <1>2, <2>1, <3>1 DEF IInv, PageInv, pvars
  <2>4. TriageInv'
    <3>1. \A r \in Reason : Pending(r)' = Pending(r)
      BY <2>1 DEF tvars, Pending
    <3> QED BY <1>2, <2>1, <3>1 DEF IInv, TriageInv, tvars, UnknownReasons
  <2> QED BY <1>2, <2>2, <2>3, <2>4, QueueInvStays DEF IInv
<1> QED BY <1>1, <1>2

LEMMA IInvAlways == Spec => []IInv
BY IInvInit, IInvStep, PTL DEF Spec


\* What a rung leaves behind agrees, across deaths of its step, escalations by hand and
\* whatever people do at the queue meanwhile (executeRung, escalateCase): the trail has
\* an `escalated` event once and of a row that is there, a fired rung did what it says,
\* and nothing of a holdout's case reached a person.
THEOREM MarksAgree == Spec => []RungLeavesItsMark
<1>1. ASSUME IInv PROVE RungLeavesItsMark
  <2>1. EscalationTypes
    <3>1. \A k \in Key : trail[k] \in 0 .. 2
      BY <1>1 DEF IInv, Types, QueueTypes, QueueInv, TrailInv, EscalatedOnce
    <3>2. trail \in [Key -> 0 .. 2]
      BY <1>1, <3>1 DEF IInv, Types, QueueTypes
    <3>3. DOMAIN queue = Key /\ \A k \in Key : queue[k] # NoRow => queue[k].status \in Status
      BY <1>1 DEF IInv, Types, QueueTypes, Escalation
    <3>4. \A i \in DOMAIN alerts : alerts[i].count \in 1 .. Cardinality(Case)
      <4> DEFINE Alert == [count : 1 .. Cardinality(Case), onset : Case, open : BOOLEAN]
      <4>1. alerts \in Seq(Alert)
        BY <1>1 DEF IInv, Types, AlertTypes
      <4> HIDE DEF Alert
      <4>2. \A i \in DOMAIN alerts : alerts[i] \in Alert
        BY <4>1
      <4> QED BY <4>2 DEF Alert
    <3>5. /\ cases \in [Case -> [born : BOOLEAN, old : BOOLEAN, paid : BOOLEAN]]
          /\ \A c \in Case : /\ ladder[c].rung \in 0 .. Len(Rungs)
                             /\ ladder[c].at \in {"row", "read", "write", "tell", "advance"}
          /\ actions \subseteq Key /\ fired \subseteq Key
      BY <1>1 DEF IInv, Types, LadderTypes, Positions
    <3> QED BY <3>2, <3>3, <3>4, <3>5 DEF EscalationTypes
  <2>2. ConsoleTypes
    <3>1. IsFiniteSet(Loops)
      BY FS_Subset, PageAssumption DEF Loops
    <3>2. Cardinality(Loops) \in Nat
      BY <3>1, FS_CardinalityType
    <3>3. /\ page.timers \in Nat /\ page.timers + Cardinality(Loops) <= clicks + 1
          /\ clicks \in 0 .. MaxClicks /\ MaxClicks \in Nat
      BY <1>1, PageAssumption DEF IInv, PageInv
    <3>4. page.timers \in 0 .. (MaxClicks + 1)
      BY <3>2, <3>3
    <3> QED BY <1>1, <3>4 DEF ConsoleTypes, IInv, PageInv
  <2>3. TriageTypes
    <3>1. \A r \in Reason : \A i \in DOMAIN proposals[r] : proposals[r][i] \in Proposal
      <4>1. proposals \in [Reason -> Seq(Proposal)]
        BY <1>1 DEF IInv, TriageInv, Proposal
      <4> QED BY <4>1
    <3>2. UnknownReasons \subseteq Reason
      BY DEF UnknownReasons
    <3>3. \A t \in TriageRun : runs[t].todo \subseteq UnknownReasons /\ tried[t] \subseteq UnknownReasons
      BY <1>1 DEF IInv, TriageInv
    <3> QED BY <3>1, <3>2, <3>3 DEF TriageTypes, Proposal
  <2>4. EscalatedOnce /\ HoldoutUntouched
    BY <1>1 DEF IInv, QueueInv, TrailInv
  <2>5. FiredIsDelivered
    BY <1>1 DEF IInv, QueueInv, FiredInv, FiredIsDelivered, Delivered
  <2> QED BY <2>1, <2>2, <2>3, <2>4, <2>5 DEF RungLeavesItsMark, TypeOK
<1> QED BY <1>1, IInvAlways, PTL

\* What people are told of the queue is true, however the check and the update of
\* several of them interleave (acknowledgeEscalation, closeEscalation): one person per
\* answer; and no bucket of the audit counts a case's money twice (gatherAuditFacts).
THEOREM ToldTruly == Spec => []PeopleToldTruly
<1>1. ASSUME IInv PROVE PeopleToldTruly
  <2>1. OneAnswerPerRow
    BY <1>1 DEF IInv, QueueInv, SaidInv, Answers, Acked, Closed, OneAnswerPerRow
  <2>2. MoneyCountedOnce
    BY <1>1, MoneyIsCounted DEF IInv, Types, QueueInv
  <2> QED BY <2>1, <2>2 DEF PeopleToldTruly
<1> QED BY <1>1, IInvAlways, PTL

\* Overlapping runs of the triage, whatever fails in them and whatever is decided
\* meanwhile, leave at most one proposal of a reason to decide, and a run that was not
\* stopped has an outcome for every reason it found (runTriage, upsertProposal).
THEOREM TriageSettlesAlways == Spec => []TriageSettles
<1>1. ASSUME IInv PROVE TriageSettles
  <2>1. OnePendingPerReason
    <3> SUFFICES ASSUME NEW r \in Reason
                 PROVE  Cardinality(Pending(r)) <= 1 /\ (proposals[r] # <<>> => r \in UnknownReasons)
      BY DEF OnePendingPerReason
    <3>1. (\A i, j \in Pending(r) : i = j) /\ (proposals[r] # <<>> => r \in UnknownReasons)
      BY <1>1, Zenon DEF IInv, TriageInv
    <3>2. Pending(r) = {} \/ \E i \in Pending(r) : Pending(r) = {i}
      BY <3>1
    <3>3. \A i : Cardinality({i}) = 1
      BY FS_Singleton
    <3>4. Cardinality(Pending(r)) \in {0, 1}
      BY <3>2, <3>3, FS_EmptySet
    <3> QED BY <3>1, <3>4
  <2>2. TriageReachesAll
    <3>1. \A t \in TriageRun : runs[t].at \in {"asking", "recording"} =>
                               tried[t] \union runs[t].todo = UnknownReasons
      BY <1>1, Zenon DEF IInv, TriageInv
    <3> QED BY <3>1 DEF TriageReachesAll
  <2> QED BY <2>1, <2>2 DEF TriageSettles
<1> QED BY <1>1, IInvAlways, PTL

\* No step, of whoever acts, takes a record back: a row of the queue moves only forward,
\* an open alert keeps its onset and a resolved one is history, a decided proposal
\* stands (createEscalation, raiseMerchantAlert, upsertProposal).
THEOREM RecordsMoveForwardAlways == Spec => RecordsMoveForward
<1>1. ASSUME IInv, [Next]_vars
      PROVE  /\ [\A k \in Key : queue[k] # NoRow => RowMovesForward(queue[k], queue'[k])]_evars
             /\ [AlertKept]_evars
             /\ [DecidedKept]_tvars
  <2>1. CASE UNCHANGED vars
    BY <2>1 DEF vars
  <2>2. CASE Next
    <3>1. QueueStep
      BY <1>1, <2>2, StepsAtTheQueue DEF IInv, PageInv
    <3>2. \A k \in Key : queue[k] # NoRow => RowMovesForward(queue[k], queue'[k])
      BY <1>1, <3>1, QueueStays DEF IInv, Types, QueueInv
    <3>3. AlertKept
      BY <1>1, <3>1, AlertsStay DEF IInv, Types, QueueInv
    <3>4. DecidedKept
      BY <1>1, <2>2, TriageStays DEF IInv
    <3> QED BY <3>2, <3>3, <3>4
  <2> QED BY <1>1, <2>1, <2>2
<1>2. Spec => QueueMovesForward
  BY <1>1, IInvAlways, PTL DEF Spec, QueueMovesForward
<1>3. Spec => AlertKeepsItsOnset
  BY <1>1, IInvAlways, PTL DEF Spec, AlertKeepsItsOnset, AlertKept
<1>4. Spec => DecisionStands
  BY <1>1, IInvAlways, PTL DEF Spec, DecisionStands, DecidedKept
<1> QED BY <1>2, <1>3, <1>4 DEF RecordsMoveForward

===============================================================================
