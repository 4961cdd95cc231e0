-------------------------- MODULE Deliveries_proofs --------------------------
(***************************************************************************)
(* That a delivery reaches its end only for cause, for any deliveries, any *)
(* runs of the redrive that overlap, any batch and any number of attempts: *)
(* its handlers and the redrive act on rows, places and contacts they read *)
(* some steps before, and the invariant says what is left of what they     *)
(* read, either still so or written over since.                            *)
(***************************************************************************)
EXTENDS Deliveries, WellFoundedInduction, FiniteSetTheorems, TLAPS

----------------------------------------------------------------------------
(* What the variables hold.                                                 *)

EventRow == [status : {"new", "claimed", "processed"}, attempts : Nat, merchant : BOOLEAN]

Batches == UNION {[places -> EventRow] : places \in SUBSET Nat}

Upserting == {"customer", "backfill", "insert", "reselect", "case"}
Positions == {"idle", "batch", "route", "downtime", "mark"} \cup Upserting

WorkRow == [pc : Positions, d : Delivery \cup {None}, id : Nat, read : Reach, batch : Batches]

EventTypes ==
  /\ DOMAIN event \subseteq Delivery
  /\ \A d \in DOMAIN event : /\ ContactOf(event[d]) \in Reach
                             /\ event[d].kind = "failed" => event[d].order \in Orders

CustomerTypes ==
  /\ customers \in Seq(Reach)
  /\ \A w \in Worker : work[w].id <= Len(customers)
  /\ \A o \in Orders : cases[o] # None => cases[o] <= Len(customers)
  /\ lost \subseteq Phone \cup Email

Types ==
  /\ EventTypes /\ CustomerTypes
  /\ rows \in [Delivery -> EventRow]
  /\ received \in Seq(Delivery)
  /\ cases \in [Orders -> Nat \cup {None}]
  /\ \A o \in DOMAIN windows : windows[o] \in {"open", "closed"}
  /\ work \in [Worker -> WorkRow]
  /\ gone \in BOOLEAN /\ faults \in 0..MaxFaults

----------------------------------------------------------------------------
(* The inductive invariant.                                                 *)

\* A redriver has a delivery before it while it handles it, or has yet to take it.
Holds(r, d) ==
  \/ Handling(r) /\ work[r].d = d
  \/ \E i \in DOMAIN work[r].batch : received[i] = d /\ work[r].batch[i].attempts < MaxAttempts

Others(d) == {r \in Redriver : ~Holds(r, d)}

\* A delivery is claimed once, and has a place from then on.
PlacesFit ==
  /\ \A i, j \in DOMAIN received : received[i] = received[j] => i = j
  /\ \A i \in DOMAIN received : received[i] \in DOMAIN event /\ rows[received[i]].status # "new"
  /\ \A d \in Delivery : rows[d].status = "new" => rows[d].attempts = 0
  /\ \A d \in Delivery : ~rows[d].merchant => d \in Unstamped

\* A batch is of claimed rows, and only those never stamped were read without a merchant.
BatchFits(r) ==
  /\ DOMAIN work[r].batch \subseteq DOMAIN received
  /\ At(r, "batch") => DOMAIN work[r].batch # {}
  /\ \A i \in DOMAIN work[r].batch : ~work[r].batch[i].merchant => received[i] \in Unstamped

\* What is handled was claimed; an invocation handles its own delivery, which nobody
\* else has yet, and a redriver one that is not in the rest of its batch.
WorkFits(w) ==
  Handling(w) =>
    /\ work[w].d \in DOMAIN event /\ rows[work[w].d].status # "new"
    /\ w \in Delivery => /\ work[w].d = w /\ rows[w].attempts = 0
                         /\ \A r \in Redriver : ~Holds(r, w)
    /\ w \in Redriver => \A i \in DOMAIN work[w].batch : received[i] # work[w].d

\* Whoever fails a delivery beyond its last attempt had it before that.
Bounded(d) == rows[d].attempts <= MaxAttempts - 1 + Cardinality(Others(d))

QueueSound ==
  /\ PlacesFit
  /\ \A r \in Redriver : BatchFits(r)
  /\ \A w \in Worker : WorkFits(w)
  /\ \A d \in Delivery : Bounded(d)

\* A contact read from a row is still its, or written over.
StillThere(read, row) ==
  /\ read.phone \in {None, row.phone} \cup lost
  /\ read.email \in {None, row.email} \cup lost

\* What a handler knows of its customer: the row it read matched, somebody had its
\* contact when its insert lost, and a case without a customer is one of nobody's.
UpsertSound(w) ==
  /\ work[w].pc \in Upserting => event[work[w].d].kind = "failed"
  /\ At(w, "downtime") => event[work[w].d].kind # "failed"
  /\ At(w, "backfill") => /\ work[w].id \in DOMAIN customers
                          /\ Shares(work[w].read, Contact(w))
                          /\ StillThere(work[w].read, customers[work[w].id])
  /\ At(w, "reselect") => Matches(Contact(w)) # {} \/ Overwritten(work[w].d)
  /\ At(w, "case") => work[w].id # 0 \/ Contact(w) = Nobody \/ Overwritten(work[w].d)

CustomersSound == NoneShared(customers) /\ \A w \in Worker : UpsertSound(w)

\* Why a delivery may fail for good.
Cause(d) == Split(d) \/ Overwritten(d) \/ gone \/ d \in Unstamped

FailedForCause == \A d \in Delivery : rows[d].attempts > faults => Cause(d)

\* An order's case is there once a failure of the order is marked, and has no customer
\* only if one of them had none.
Blank(o) == \E f \in DOMAIN event : event[f].order = o /\ (ContactOf(event[f]) = Nobody \/ Overwritten(f))

CasesSound ==
  /\ \A w \in Worker : At(w, "mark") /\ event[work[w].d].kind = "failed" => cases[event[work[w].d].order] # None
  /\ \A d \in DOMAIN event : rows[d].status = "processed" /\ event[d].kind = "failed" => cases[event[d].order] # None
  /\ \A o \in Orders : cases[o] = 0 => Blank(o)

IInv == Types /\ QueueSound /\ CustomersSound /\ FailedForCause /\ CasesSound

----------------------------------------------------------------------------
(* What the operators give.                                                 *)

LEMMA Constants ==
  /\ IsFiniteSet(Delivery) /\ IsFiniteSet(Redriver) /\ Delivery \cap Redriver = {}
  /\ None \notin Delivery /\ None \notin Phone /\ None \notin Email /\ None \notin Nat
  /\ Phone \cap Email = {} /\ Cron \in Redriver
  /\ Limit \in Nat \ {0} /\ MaxAttempts \in Nat \ {0}
  /\ MaxFaults \in 0..(MaxAttempts - 1)
BY DeliveriesAssumption

LEMMA Workers == Delivery \subseteq Worker /\ Redriver \subseteq Worker
BY DEF Worker

LEMMA BatchIs ==
  /\ \A S \in SUBSET Nat : \A b \in [S -> EventRow] : b \in Batches
  /\ \A b \in Batches : /\ DOMAIN b \subseteq Nat /\ b = [i \in DOMAIN b |-> b[i]]
                        /\ \A i \in DOMAIN b : b[i] \in EventRow
BY DEF Batches

LEMMA IdleIs ==
  /\ Idle \in WorkRow /\ DOMAIN Idle.batch = {}
  /\ Idle.pc = "idle" /\ Idle.d = None /\ Idle.id = 0 /\ Idle.read = Nobody
<1>1. <<>> \in Batches
  <2>1. <<>> \in [{} -> EventRow]
    OBVIOUS
  <2> QED BY <2>1, BatchIs
<1>2. Nobody \in Reach
  BY DEF Nobody, Reach
<1> HIDE DEF Reach, Batches
<1> QED BY <1>1, <1>2 DEF Idle, WorkRow, Positions

\* The first of a batch is one of it.
LEMMA FirstIs ==
  ASSUME NEW S, S \subseteq Nat, S # {}
  PROVE  Min(S) \in S /\ \A y \in S : Min(S) <= y
<1>1. IsWellFoundedOn(OpToRel(<, Nat), Nat)
  BY NatLessThanWellFounded
<1>2. PICK x \in S : \A y \in S : ~(<<y, x>> \in OpToRel(<, Nat))
  BY <1>1, WFMin
<1>3. \A y \in S : ~(y < x)
  BY <1>2 DEF OpToRel
<1>4. \A y \in S : x <= y
  BY <1>3
<1> QED BY <1>4 DEF Min

LEMMA MoreThanOne ==
  ASSUME NEW S, IsFiniteSet(S)
  PROVE  Cardinality(S) > 1 <=> \E x, y \in S : x # y
<1>1. ASSUME NEW x \in S, NEW y \in S, x # y PROVE Cardinality(S) > 1
  <2>1. IsFiniteSet({x}) /\ Cardinality({x}) = 1
    BY FS_Singleton
  <2>2. IsFiniteSet({x} \cup {y}) /\ Cardinality({x} \cup {y}) = 2
    BY <2>1, <1>1, FS_AddElement
  <2>3. Cardinality({x} \cup {y}) <= Cardinality(S)
    BY FS_Subset
  <2>4. Cardinality(S) \in Nat
    BY FS_CardinalityType
  <2> QED BY <2>2, <2>3, <2>4
<1>2. ASSUME \A x, y \in S : x = y PROVE ~(Cardinality(S) > 1)
  <2>1. CASE S = {}
    BY <2>1, FS_EmptySet
  <2>2. CASE S # {}
    <3>1. PICK x : x \in S
      BY <2>2
    <3>2. S = {x}
      BY <3>1, <1>2
    <3> QED BY <3>2, FS_Singleton
  <2> QED BY <2>1, <2>2
<1> QED BY <1>1, <1>2

\* A contact is two customers' when two rows share it.
LEMMA SplitIs ==
  ASSUME Types, NEW d
  PROVE  Split(d) <=> /\ event[d].kind = "failed"
                      /\ \E i, j \in Matches(ContactOf(event[d])) : i # j
<1> DEFINE M == Matches(ContactOf(event[d]))
<1>1. M \subseteq 1..Len(customers) /\ Len(customers) \in Nat
  BY DEF Matches, Types, CustomerTypes
<1>2. IsFiniteSet(M)
  <2>1. IsFiniteSet(1..Len(customers))
    BY <1>1, FS_Interval
  <2> HIDE DEF M
  <2> QED BY <1>1, <2>1, FS_Subset
<1>3. Cardinality(M) > 1 <=> \E i, j \in M : i # j
  BY <1>2, MoreThanOne
<1> QED BY <1>3 DEF Split

\* When a handler is over, only what is left of its batch is.
LEMMA FinishIs ==
  ASSUME Types, NEW w \in Worker, Finish(w)
  PROVE  /\ work' \in [Worker -> WorkRow]
         /\ \A v \in Worker \ {w} : work'[v] = work[v]
         /\ work'[w].pc = (IF DOMAIN work[w].batch = {} THEN "idle" ELSE "batch")
         /\ work'[w].batch = work[w].batch /\ work'[w].id = 0
<1>1. work[w].batch \in Batches
  BY DEF Types, WorkRow
<1> DEFINE idle == [Idle EXCEPT !.pc = IF DOMAIN work[w].batch = {} THEN "idle" ELSE "batch",
                                !.batch = work[w].batch]
<1>2. /\ idle \in WorkRow /\ idle.batch = work[w].batch /\ idle.id = 0
      /\ idle.pc = (IF DOMAIN work[w].batch = {} THEN "idle" ELSE "batch")
  <2> HIDE DEF Reach, Batches
  <2> QED BY <1>1, IdleIs DEF WorkRow, Positions
<1>3. work' = [work EXCEPT ![w] = idle]
  BY DEF Finish
<1> HIDE DEF idle
<1> QED BY <1>2, <1>3 DEF Types

LEMMA GotoIs ==
  ASSUME Types, NEW w \in Worker, NEW pc \in Positions, Goto(w, pc)
  PROVE  /\ work' \in [Worker -> WorkRow]
         /\ \A v \in Worker \ {w} : work'[v] = work[v]
         /\ work'[w] = [work[w] EXCEPT !.pc = pc]
         /\ work'[w].pc = pc /\ work'[w].d = work[w].d /\ work'[w].id = work[w].id
         /\ work'[w].read = work[w].read /\ work'[w].batch = work[w].batch
<1>1. work[w] \in WorkRow
  BY DEF Types
<1>2. [work[w] EXCEPT !.pc = pc] \in WorkRow
  <2> HIDE DEF Reach, Batches
  <2> QED BY <1>1 DEF WorkRow
<1>3. work' = [work EXCEPT ![w] = [work[w] EXCEPT !.pc = pc]]
  BY DEF Goto
<1>4. /\ work' \in [Worker -> WorkRow]
      /\ \A v \in Worker \ {w} : work'[v] = work[v]
      /\ work'[w] = [work[w] EXCEPT !.pc = pc]
  <2> DEFINE row == [work[w] EXCEPT !.pc = pc]
  <2> HIDE DEF row, WorkRow
  <2> QED BY <1>2, <1>3 DEF Types, row
<1>5. /\ [work[w] EXCEPT !.pc = pc].pc = pc /\ [work[w] EXCEPT !.pc = pc].d = work[w].d
      /\ [work[w] EXCEPT !.pc = pc].id = work[w].id /\ [work[w] EXCEPT !.pc = pc].read = work[w].read
      /\ [work[w] EXCEPT !.pc = pc].batch = work[w].batch
  <2> HIDE DEF Reach, Batches
  <2> QED BY <1>1 DEF WorkRow
<1> QED BY <1>4, <1>5

\* The delivery in a handler's hands, and the contact it names.
LEMMA HandledIs ==
  ASSUME Types, QueueSound, NEW w \in Worker, Handling(w)
  PROVE  /\ work[w].d \in Delivery /\ work[w].d \in DOMAIN event /\ Contact(w) \in Reach
         /\ Contact(w) = ContactOf(event[work[w].d])
         /\ event[work[w].d].kind = "failed" => event[work[w].d].order \in Orders
<1>1. work[w].d \in DOMAIN event
  BY DEF QueueSound, WorkFits
<1> HIDE DEF Reach, Orders
<1> QED BY <1>1 DEF Types, EventTypes, Contact

LEMMA InitTypes == Init => Types
<1> SUFFICES ASSUME Init PROVE Types
  OBVIOUS
<1>1. PICK h \in Histories : event = h.event /\ customers = h.table /\ received = h.received
  BY DEF Init
<1>2. EventTypes
  <2>1. \A d \in DOMAIN event : ContactOf(event[d]) \in Reach
    BY <1>1, DeliveriesAssumption
  <2>2. ASSUME NEW d \in DOMAIN event, event[d].kind = "failed" PROVE event[d].order \in Orders
    <3>1. event[d].order # None
      BY <1>1, <2>2, DeliveriesAssumption
    <3>2. event[d].order \in {h.event[x].order : x \in DOMAIN h.event}
      BY <1>1, <2>2
    <3> QED BY <3>1, <3>2 DEF Orders
  <2>3. DOMAIN event \subseteq Delivery
    BY <1>1, DeliveriesAssumption
  <2> QED BY <2>1, <2>2, <2>3 DEF EventTypes
<1>3. work = [w \in Worker |-> Idle] /\ work \in [Worker -> WorkRow] /\ \A w \in Worker : work[w].id = 0
  <2> HIDE DEF WorkRow, Idle
  <2> QED BY IdleIs DEF Init
<1>4. customers \in Seq(Reach) /\ received \in Seq(Delivery) /\ Len(customers) \in Nat
  BY <1>1, DeliveriesAssumption
<1>5. CustomerTypes
  BY <1>3, <1>4 DEF CustomerTypes, Init
<1>6. rows \in [Delivery -> EventRow]
  BY DEF Init, EventRow
<1>7. cases \in [Orders -> Nat \cup {None}] /\ faults \in 0..MaxFaults
  BY Constants DEF Init
<1>8. \A o \in DOMAIN windows : windows[o] \in {"open", "closed"}
  BY DEF Init
<1> QED BY <1>2, <1>3, <1>4, <1>5, <1>6, <1>7, <1>8 DEF Types, Init

----------------------------------------------------------------------------
(* What the actions do to the handlers.                                     *)

Alone(w) == \A v \in Worker \ {w} : work'[v] = work[v]

\* A handler goes on with its delivery, or is done with it.
Goes(w) ==
  /\ Handling(w) /\ work'[w].pc \notin {"idle", "batch"} /\ Alone(w)
  /\ work'[w].d = work[w].d /\ work'[w].batch = work[w].batch
  /\ UNCHANGED <<rows, received>>

Ends(w) ==
  /\ Handling(w) /\ Alone(w) /\ UNCHANGED received
  /\ work'[w].pc = (IF DOMAIN work[w].batch = {} THEN "idle" ELSE "batch")
  /\ work'[w].batch = work[w].batch

LEMMA ProcessEventIs ==
  ASSUME IInv, NEW w \in Worker, ProcessEvent(w)
  PROVE  Types' /\ Goes(w)
<1>1. PICK pc \in {"customer", "downtime", "mark"} : Goto(w, pc)
  BY DEF ProcessEvent
<1>2. pc \in Positions
  BY DEF Positions, Upserting
<1>3. Types
  BY DEF IInv
<1>4. /\ work' \in [Worker -> WorkRow] /\ work'[w].pc = pc
      /\ Alone(w) /\ work'[w].d = work[w].d /\ work'[w].batch = work[w].batch
      /\ \A v \in Worker : work'[v].id = work[v].id
  <2> HIDE DEF Positions, WorkRow
  <2> QED BY <1>1, <1>2, <1>3, GotoIs DEF Alone
<1> HIDE DEF Reach, WorkRow, EventRow, Orders
<1>5. Types'
  BY <1>3, <1>4 DEF Types, EventTypes, CustomerTypes, ProcessEvent
<1> QED BY <1>4, <1>5 DEF Goes, ProcessEvent, Handling, At

LEMMA RowIs ==
  ASSUME Types, NEW w \in Worker, NEW row \in WorkRow, work' = [work EXCEPT ![w] = row]
  PROVE  work' \in [Worker -> WorkRow] /\ Alone(w) /\ work'[w] = row
<1> HIDE DEF WorkRow
<1> QED BY DEF Types, Alone

\* A handler goes on with a customer's row.
TurnsTo(w, pc, i, read) == work' = [work EXCEPT ![w] = [work[w] EXCEPT !.pc = pc, !.id = i, !.read = read]]

LEMMA TurnIs ==
  ASSUME Types, NEW w \in Worker, NEW pc \in Positions, NEW i \in Nat, NEW read \in Reach,
         TurnsTo(w, pc, i, read)
  PROVE  /\ work' \in [Worker -> WorkRow] /\ Alone(w)
         /\ work'[w].pc = pc /\ work'[w].id = i /\ work'[w].read = read
         /\ work'[w].d = work[w].d /\ work'[w].batch = work[w].batch
<1> DEFINE row == [work[w] EXCEPT !.pc = pc, !.id = i, !.read = read]
<1>1. work[w] \in WorkRow
  BY DEF Types
<1>2. /\ row \in WorkRow /\ row.pc = pc /\ row.id = i /\ row.read = read
      /\ row.d = work[w].d /\ row.batch = work[w].batch
  <2> HIDE DEF Reach, Batches
  <2> QED BY <1>1 DEF WorkRow
<1>3. work' = [work EXCEPT ![w] = row]
  BY DEF TurnsTo
<1> HIDE DEF row
<1> QED BY <1>2, <1>3, RowIs

\* Or found it without another look.
LEMMA TurnsByPlace ==
  ASSUME Types, NEW w \in Worker, NEW pc, NEW i, work' = [work EXCEPT ![w].pc = pc, ![w].id = i]
  PROVE  TurnsTo(w, pc, i, work[w].read)
<1>1. work[w] \in WorkRow
  BY DEF Types
<1>2. [work[w] EXCEPT !.pc = pc, !.id = i] = [work[w] EXCEPT !.pc = pc, !.id = i, !.read = work[w].read]
  <2> HIDE DEF Reach, Batches
  <2> QED BY <1>1 DEF WorkRow
<1> QED BY <1>2 DEF TurnsTo

LEMMA FindCustomerIs ==
  ASSUME IInv, NEW w \in Worker, FindCustomer(w)
  PROVE  Types' /\ Goes(w) /\ work'[w].pc # "mark"
<1>1. Types /\ customers \in Seq(Reach)
  BY DEF IInv, Types, CustomerTypes
<1>2. /\ work' \in [Worker -> WorkRow] /\ work'[w].pc \in {"case", "insert", "backfill"}
      /\ Alone(w) /\ work'[w].d = work[w].d /\ work'[w].batch = work[w].batch
      /\ \A v \in Worker : work'[v].id <= Len(customers)
  <2>1. CASE Matches(Contact(w)) = {}
    <3>1. PICK pc \in {"case", "insert"} : Goto(w, pc)
      BY <2>1 DEF FindCustomer
    <3>2. pc \in Positions
      BY DEF Positions, Upserting
    <3> HIDE DEF Positions, WorkRow
    <3> QED BY <1>1, <3>1, <3>2, GotoIs DEF Alone, Types, CustomerTypes
  <2>2. CASE Matches(Contact(w)) # {}
    <3>1. PICK i \in Matches(Contact(w)) :
            work' = [work EXCEPT ![w] = [@ EXCEPT !.pc = "backfill", !.id = i, !.read = customers[i]]]
      BY <2>2 DEF FindCustomer
    <3>2. i \in 1..Len(customers) /\ customers[i] \in Reach
      BY <1>1 DEF Matches
    <3>3. "backfill" \in Positions
      BY DEF Positions, Upserting
    <3>4. TurnsTo(w, "backfill", i, customers[i]) /\ i \in Nat
      BY <1>1, <3>1, <3>2 DEF TurnsTo
    <3> HIDE DEF Positions, WorkRow, Reach
    <3>5. Types /\ "backfill" \in Positions /\ i \in Nat /\ customers[i] \in Reach
      BY <1>1, <3>2, <3>3, <3>4
    <3>6. /\ work' \in [Worker -> WorkRow] /\ Alone(w)
          /\ work'[w].pc = "backfill" /\ work'[w].id = i
          /\ work'[w].d = work[w].d /\ work'[w].batch = work[w].batch
      BY <3>4, <3>5, TurnIs, SMTT(30)
    <3>7. \A v \in Worker : work[v].id <= Len(customers)
      BY <1>1 DEF Types, CustomerTypes
    <3>8. \A v \in Worker : work'[v].id <= Len(customers)
      BY <3>2, <3>6, <3>7 DEF Alone
    <3> QED BY <3>6, <3>8
  <2> QED BY <2>1, <2>2
<1> HIDE DEF Reach, WorkRow, EventRow, Orders
<1>3. Types'
  BY <1>1, <1>2 DEF Types, EventTypes, CustomerTypes, FindCustomer
<1> QED BY <1>2, <1>3 DEF Goes, FindCustomer, Handling, At

LEMMA FailedIs ==
  ASSUME Types, NEW d \in Delivery, Failed(d)
  PROVE  /\ rows' \in [Delivery -> EventRow]
         /\ rows'[d].attempts = rows[d].attempts + 1
         /\ \A x \in Delivery \ {d} : rows'[x] = rows[x]
         /\ \A x \in Delivery : rows'[x].status = rows[x].status /\ rows'[x].merchant = rows[x].merchant
<1> DEFINE row == [rows[d] EXCEPT !.attempts = rows[d].attempts + 1]
<1>1. rows[d] \in EventRow
  BY DEF Types
<1>2. /\ row \in EventRow /\ row.attempts = rows[d].attempts + 1
      /\ row.status = rows[d].status /\ row.merchant = rows[d].merchant
  BY <1>1 DEF EventRow
<1>3. rows' = [rows EXCEPT ![d] = row]
  BY DEF Failed
<1> HIDE DEF row, EventRow
<1> QED BY <1>2, <1>3 DEF Types

LEMMA ThrowIs ==
  ASSUME IInv, NEW w \in Worker, Throw(w), Handling(w), faults' \in 0..MaxFaults
  PROVE  Types' /\ Ends(w) /\ Failed(work[w].d)
<1>1. Types /\ QueueSound
  BY DEF IInv
<1>2. /\ work' \in [Worker -> WorkRow] /\ Alone(w) /\ work'[w].id = 0
      /\ work'[w].pc = (IF DOMAIN work[w].batch = {} THEN "idle" ELSE "batch")
      /\ work'[w].batch = work[w].batch
  <2> HIDE DEF WorkRow
  <2> QED BY <1>1, FinishIs DEF Throw, Alone
<1>3. rows' \in [Delivery -> EventRow]
  <2>1. work[w].d \in Delivery
    BY <1>1, HandledIs
  <2> QED BY <2>1, <1>1, FailedIs DEF Throw
<1>4. CustomerTypes'
  <2>1. UNCHANGED <<customers, cases, lost>> /\ CustomerTypes /\ Len(customers) \in Nat
    BY <1>1 DEF Throw, Types, CustomerTypes
  <2> QED BY <1>2, <2>1 DEF CustomerTypes, Alone
<1> HIDE DEF Reach, WorkRow, EventRow, Orders
<1>5. Types'
  BY <1>1, <1>2, <1>3, <1>4 DEF Types, EventTypes, Throw
<1> QED BY <1>2, <1>5 DEF Ends, Throw

\* What a backfill leaves of the row.
Filled(w) ==
  [phone |-> IF work[w].read.phone = None /\ Contact(w).phone # None
             THEN Contact(w).phone ELSE customers[work[w].id].phone,
   email |-> IF work[w].read.email = None /\ Contact(w).email # None
             THEN Contact(w).email ELSE customers[work[w].id].email]

Fills(w) ==
  LET row == customers[work[w].id]
  IN /\ \A i \in DOMAIN customers \ {work[w].id} : ~Shares(customers[i], Filled(w))
     /\ customers' = [customers EXCEPT ![work[w].id] = Filled(w)]
     /\ lost' = lost \cup ({row.phone, row.email} \ {Filled(w).phone, Filled(w).email, None})
     /\ Goto(w, "case")
     /\ UNCHANGED <<event, rows, received, cases, windows, gone, faults>>

Clashes(w) == \E i \in DOMAIN customers \ {work[w].id} : Shares(customers[i], Filled(w))

LEMMA BackfillIs ==
  ASSUME NEW w \in Worker, Backfill(w)
  PROVE  /\ At(w, "backfill")
         /\ Fills(w) \/ (Clashes(w) /\ Throw(w) /\ UNCHANGED faults)
BY DEF Backfill, Fills, Clashes, Filled

\* A row is reached somehow, at most by one phone and one address.
LEMMA FieldsIs ==
  ASSUME NEW c \in Reach
  PROVE  c.phone \in Phone \cup {None} /\ c.email \in Email \cup {None}
BY DEF Reach

LEMMA FillsIs ==
  ASSUME IInv, NEW w \in Worker, At(w, "backfill"), Fills(w)
  PROVE  /\ Types' /\ Goes(w)
         /\ work[w].id \in DOMAIN customers /\ Filled(w) \in Reach
         /\ work'[w].pc = "case" /\ work'[w].id = work[w].id
<1>1. Types /\ customers \in Seq(Reach) /\ lost \subseteq Phone \cup Email /\ QueueSound
  BY DEF IInv, Types, CustomerTypes
<1>2. work[w].id \in DOMAIN customers /\ Handling(w)
  BY DEF IInv, CustomersSound, UpsertSound, Handling, At
<1>3. /\ customers[work[w].id].phone \in Phone \cup {None} /\ customers[work[w].id].email \in Email \cup {None}
      /\ Contact(w).phone \in Phone \cup {None} /\ Contact(w).email \in Email \cup {None}
  <2>1. customers[work[w].id] \in Reach
    BY <1>1, <1>2
  <2>2. Contact(w) \in Reach
    BY <1>1, <1>2, HandledIs
  <2> QED BY <2>1, <2>2, FieldsIs
<1>4. /\ Filled(w) \in Reach /\ Filled(w).phone \in Phone \cup {None} /\ Filled(w).email \in Email \cup {None}
  BY <1>3 DEF Filled, Reach
<1>5. customers' \in Seq(Reach) /\ Len(customers') = Len(customers)
  <2> HIDE DEF Reach, Filled
  <2> QED BY <1>1, <1>2, <1>4 DEF Fills
<1>6. lost' \subseteq Phone \cup Email
  BY <1>1, <1>3 DEF Fills
<1>7. /\ work' \in [Worker -> WorkRow] /\ Alone(w)
      /\ work'[w].pc = "case" /\ work'[w].d = work[w].d /\ work'[w].batch = work[w].batch
      /\ work'[w].id = work[w].id /\ \A v \in Worker : work'[v].id = work[v].id
  <2>1. "case" \in Positions
    BY DEF Positions, Upserting
  <2> HIDE DEF Positions, WorkRow
  <2> QED BY <1>1, <2>1, GotoIs DEF Alone, Fills
<1>8. CustomerTypes'
  <2>1. cases' = cases /\ CustomerTypes
    BY <1>1 DEF Fills, Types
  <2> QED BY <1>5, <1>6, <1>7, <2>1 DEF CustomerTypes
<1> HIDE DEF Reach, WorkRow, EventRow, Orders
<1>9. Types'
  BY <1>1, <1>7, <1>8 DEF Types, EventTypes, Fills
<1> QED BY <1>2, <1>4, <1>7, <1>9 DEF Goes, Fills

LEMMA InsertCustomerIs ==
  ASSUME IInv, NEW w \in Worker, InsertCustomer(w)
  PROVE  Types' /\ Goes(w) /\ work'[w].pc # "mark" /\ Contact(w) \in Reach
<1>1. Types /\ customers \in Seq(Reach) /\ QueueSound
  BY DEF IInv, Types, CustomerTypes
<1>2. Contact(w) \in Reach
  <2>1. Handling(w)
    BY DEF InsertCustomer, Handling, At
  <2> QED BY <1>1, <2>1, HandledIs
<1>3. /\ customers' \in Seq(Reach) /\ Len(customers) <= Len(customers')
      /\ work' \in [Worker -> WorkRow] /\ work'[w].pc \in {"case", "reselect"}
      /\ Alone(w) /\ work'[w].d = work[w].d /\ work'[w].batch = work[w].batch
      /\ \A v \in Worker : work'[v].id <= Len(customers')
  <2>1. CASE Matches(Contact(w)) = {}
    <3>1. /\ customers' = Append(customers, Contact(w))
          /\ work' = [work EXCEPT ![w].pc = "case", ![w].id = Len(customers')]
      BY <2>1 DEF InsertCustomer
    <3> HIDE DEF Reach
    <3>2. customers' \in Seq(Reach) /\ Len(customers') = Len(customers) + 1 /\ Len(customers) \in Nat
      BY <1>1, <1>2, <3>1
    <3>3. "case" \in Positions
      BY DEF Positions, Upserting
    <3>4. TurnsTo(w, "case", Len(customers'), work[w].read)
      BY <1>1, <3>1, TurnsByPlace
    <3>5. work[w].read \in Reach
      BY <1>1 DEF Types, WorkRow
    <3> HIDE DEF Positions, WorkRow
    <3>6. /\ work' \in [Worker -> WorkRow] /\ Alone(w)
          /\ work'[w].pc = "case" /\ work'[w].id = Len(customers')
          /\ work'[w].d = work[w].d /\ work'[w].batch = work[w].batch
      BY <1>1, <3>2, <3>3, <3>4, <3>5, TurnIs
    <3>7. \A v \in Worker : work[v].id <= Len(customers) /\ work[v].id \in Nat
      BY <1>1 DEF Types, CustomerTypes, WorkRow
    <3> QED BY <3>2, <3>6, <3>7 DEF Alone
  <2>2. CASE Matches(Contact(w)) # {}
    <3>1. Goto(w, "reselect") /\ customers' = customers /\ Len(customers) \in Nat
      BY <1>1, <2>2 DEF InsertCustomer
    <3>2. "reselect" \in Positions
      BY DEF Positions, Upserting
    <3> HIDE DEF Positions, WorkRow, Reach
    <3>3. /\ work' \in [Worker -> WorkRow] /\ work'[w].pc = "reselect" /\ Alone(w)
          /\ work'[w].d = work[w].d /\ work'[w].batch = work[w].batch /\ work'[w].id = work[w].id
      BY <1>1, <3>1, <3>2, GotoIs DEF Alone
    <3>4. \A v \in Worker : work[v].id <= Len(customers)
      BY <1>1 DEF Types, CustomerTypes
    <3>5. \A v \in Worker : work'[v].id <= Len(customers')
      BY <3>1, <3>3, <3>4 DEF Alone
    <3> QED BY <1>1, <3>1, <3>3, <3>5
  <2> QED BY <2>1, <2>2
<1>4. CustomerTypes'
  <2>1. UNCHANGED <<cases, lost>> /\ CustomerTypes
    BY <1>1 DEF InsertCustomer, Types
  <2>2. Len(customers) \in Nat /\ Len(customers') \in Nat /\ \A o \in Orders : cases[o] # None => cases[o] \in Nat
    BY <1>1, <1>3 DEF Types
  <2> QED BY <1>3, <2>1, <2>2 DEF CustomerTypes
<1> HIDE DEF Reach, WorkRow, EventRow, Orders
<1>5. Types'
  BY <1>1, <1>3, <1>4 DEF Types, EventTypes, InsertCustomer
<1> QED BY <1>2, <1>3, <1>5 DEF Goes, InsertCustomer, Handling, At

LEMMA ReselectCustomerIs ==
  ASSUME IInv, NEW w \in Worker, ReselectCustomer(w)
  PROVE  /\ Types' /\ Goes(w) /\ work'[w].pc = "case"
         /\ (Matches(Contact(w)) # {} /\ work'[w].id # 0) \/ (Matches(Contact(w)) = {})
<1>1. Types /\ customers \in Seq(Reach)
  BY DEF IInv, Types, CustomerTypes
<1>2. "case" \in Positions
  BY DEF Positions, Upserting
<1>3. work[w].read \in Reach
  BY <1>1 DEF Types, WorkRow
<1>4. /\ work' \in [Worker -> WorkRow] /\ work'[w].pc = "case"
      /\ Alone(w) /\ work'[w].d = work[w].d /\ work'[w].batch = work[w].batch
      /\ work'[w].id <= Len(customers)
      /\ (Matches(Contact(w)) # {} /\ work'[w].id # 0) \/ (Matches(Contact(w)) = {})
  <2>1. CASE Matches(Contact(w)) = {} /\ Goto(w, "case")
    <3> HIDE DEF Positions, WorkRow, Reach
    <3>1. /\ work' \in [Worker -> WorkRow] /\ work'[w].pc = "case" /\ Alone(w)
          /\ work'[w].d = work[w].d /\ work'[w].batch = work[w].batch /\ work'[w].id = work[w].id
      BY <1>1, <1>2, <2>1, GotoIs DEF Alone
    <3> QED BY <1>1, <2>1, <3>1 DEF Types, CustomerTypes
  <2>2. CASE \E i \in Matches(Contact(w)) : work' = [work EXCEPT ![w].pc = "case", ![w].id = i]
    <3>1. PICK i \in Matches(Contact(w)) : work' = [work EXCEPT ![w].pc = "case", ![w].id = i]
      BY <2>2
    <3>2. i \in 1..Len(customers) /\ i \in Nat
      BY <1>1 DEF Matches
    <3>3. TurnsTo(w, "case", i, work[w].read)
      BY <1>1, <3>1, TurnsByPlace
    <3> HIDE DEF Positions, WorkRow, Reach
    <3>4. /\ work' \in [Worker -> WorkRow] /\ Alone(w)
          /\ work'[w].pc = "case" /\ work'[w].id = i
          /\ work'[w].d = work[w].d /\ work'[w].batch = work[w].batch
      BY <1>1, <1>2, <1>3, <3>2, <3>3, TurnIs
    <3>5. Matches(Contact(w)) # {} /\ i # 0 /\ i <= Len(customers)
      BY <3>1, <3>2
    <3> QED BY <3>4, <3>5
  <2> QED BY <2>1, <2>2 DEF ReselectCustomer
<1>5. CustomerTypes'
  <2>1. UNCHANGED <<customers, cases, lost>> /\ CustomerTypes
    BY <1>1 DEF ReselectCustomer, Types
  <2> QED BY <1>4, <2>1 DEF CustomerTypes, Alone
<1> HIDE DEF Reach, WorkRow, EventRow, Orders
<1>6. Types'
  BY <1>1, <1>4, <1>5 DEF Types, EventTypes, ReselectCustomer
<1> QED BY <1>4, <1>6 DEF Goes, ReselectCustomer, Handling, At

\* What is left to do after the case or the outage is to mark the delivery.
LEMMA MarksNext ==
  ASSUME IInv, NEW w \in Worker, Goto(w, "mark"), UNCHANGED customers, UNCHANGED lost,
         \A o \in Orders : cases'[o] # None => cases'[o] <= Len(customers)
  PROVE  /\ work' \in [Worker -> WorkRow] /\ work'[w].pc = "mark" /\ Alone(w)
         /\ work'[w].d = work[w].d /\ work'[w].batch = work[w].batch
         /\ CustomerTypes'
<1>1. Types
  BY DEF IInv
<1>2. "mark" \in Positions
  BY DEF Positions
<1> HIDE DEF Positions, WorkRow, Reach, Orders
<1>3. /\ work' \in [Worker -> WorkRow] /\ work'[w].pc = "mark" /\ Alone(w)
      /\ work'[w].d = work[w].d /\ work'[w].batch = work[w].batch /\ work'[w].id = work[w].id
  BY <1>1, <1>2, GotoIs DEF Alone
<1>4. CustomerTypes
  BY <1>1 DEF Types
<1>5. CustomerTypes'
  BY <1>3, <1>4 DEF CustomerTypes, Alone
<1> QED BY <1>3, <1>5

LEMMA OpenCaseIs ==
  ASSUME IInv, NEW w \in Worker, OpenCase(w)
  PROVE  /\ Types' /\ Goes(w) /\ work'[w].pc = "mark"
         /\ \A o \in Orders : cases'[o] = (IF o = event[work[w].d].order /\ cases[o] = None
                                           THEN work[w].id ELSE cases[o])
         /\ event[work[w].d].order \in Orders /\ work[w].id \in Nat
<1> DEFINE order == event[work[w].d].order
<1>1. Types /\ QueueSound /\ Handling(w) /\ event[work[w].d].kind = "failed"
  BY DEF IInv, OpenCase, Handling, At, CustomersSound, UpsertSound, Upserting
<1>2. order \in Orders
  BY <1>1, HandledIs
<1>3. work[w].id \in Nat /\ work[w].id <= Len(customers)
  BY <1>1 DEF Types, CustomerTypes, WorkRow
<1>4. /\ cases' \in [Orders -> Nat \cup {None}]
      /\ \A o \in Orders : cases'[o] = (IF o = order /\ cases[o] = None THEN work[w].id ELSE cases[o])
  <2>1. cases \in [Orders -> Nat \cup {None}]
    BY <1>1 DEF Types
  <2>2. cases' = IF cases[order] = None THEN [cases EXCEPT ![order] = work[w].id] ELSE cases
    BY DEF OpenCase
  <2> HIDE DEF Orders, order
  <2> QED BY <1>2, <1>3, <2>1, <2>2
<1>5. \A o \in Orders : cases'[o] # None => cases'[o] <= Len(customers)
  BY <1>1, <1>3, <1>4 DEF Types, CustomerTypes
<1>6. /\ work' \in [Worker -> WorkRow] /\ work'[w].pc = "mark" /\ Alone(w)
      /\ work'[w].d = work[w].d /\ work'[w].batch = work[w].batch /\ CustomerTypes'
  BY <1>5, MarksNext DEF OpenCase
<1> HIDE DEF Reach, WorkRow, EventRow, Orders
<1>7. Types'
  BY <1>1, <1>4, <1>6 DEF Types, EventTypes, OpenCase
<1> QED BY <1>1, <1>2, <1>3, <1>4, <1>6, <1>7 DEF Goes, OpenCase

LEMMA HandleDowntimeIs ==
  ASSUME IInv, NEW w \in Worker, HandleDowntime(w)
  PROVE  Types' /\ Goes(w) /\ work'[w].pc = "mark" /\ UNCHANGED cases
<1>1. Types /\ Handling(w)
  BY DEF IInv, HandleDowntime, Handling, At
<1>2. /\ work' \in [Worker -> WorkRow] /\ work'[w].pc = "mark" /\ Alone(w)
      /\ work'[w].d = work[w].d /\ work'[w].batch = work[w].batch /\ CustomerTypes'
  BY <1>1, MarksNext DEF HandleDowntime, Types, CustomerTypes
<1>3. \A o \in DOMAIN windows' : windows'[o] \in {"open", "closed"}
  BY <1>1 DEF HandleDowntime, Types
<1> HIDE DEF Reach, WorkRow, EventRow, Orders
<1>4. Types'
  BY <1>1, <1>2, <1>3 DEF Types, EventTypes, HandleDowntime
<1> QED BY <1>1, <1>2, <1>4 DEF Goes, HandleDowntime

LEMMA ProcessedIs ==
  ASSUME IInv, NEW w \in Worker, Processed(w)
  PROVE  /\ Types' /\ Ends(w) /\ At(w, "mark")
         /\ \A d \in Delivery : /\ rows'[d].attempts = rows[d].attempts
                                /\ rows'[d].merchant = rows[d].merchant
                                /\ rows'[d].status = IF d = work[w].d THEN "processed" ELSE rows[d].status
<1>1. Types /\ QueueSound /\ Handling(w)
  BY DEF IInv, Processed, Handling, At
<1>2. /\ work' \in [Worker -> WorkRow] /\ Alone(w) /\ work'[w].id = 0
      /\ work'[w].pc = (IF DOMAIN work[w].batch = {} THEN "idle" ELSE "batch")
      /\ work'[w].batch = work[w].batch
  <2> HIDE DEF WorkRow
  <2> QED BY <1>1, FinishIs DEF Processed, Alone
<1>3. /\ rows' \in [Delivery -> EventRow]
      /\ \A d \in Delivery : /\ rows'[d].attempts = rows[d].attempts
                             /\ rows'[d].merchant = rows[d].merchant
                             /\ rows'[d].status = IF d = work[w].d THEN "processed" ELSE rows[d].status
  <2>1. work[w].d \in Delivery
    BY <1>1, HandledIs
  <2>2. rows \in [Delivery -> EventRow] /\ rows' = [rows EXCEPT ![work[w].d].status = "processed"]
    BY <1>1 DEF Types, Processed
  <2> QED BY <2>1, <2>2 DEF EventRow
<1>4. CustomerTypes'
  <2>1. UNCHANGED <<customers, cases, lost>> /\ CustomerTypes /\ Len(customers) \in Nat
    BY <1>1 DEF Processed, Types, CustomerTypes
  <2> QED BY <1>2, <2>1 DEF CustomerTypes, Alone
<1> HIDE DEF Reach, WorkRow, EventRow, Orders
<1>5. Types'
  BY <1>1, <1>2, <1>3, <1>4 DEF Types, EventTypes, Processed
<1> QED BY <1>1, <1>2, <1>3, <1>5 DEF Ends, Processed

LEMMA CallFailsIs ==
  ASSUME IInv, NEW w \in Worker, CallFails(w)
  PROVE  Types' /\ Ends(w) /\ Failed(work[w].d) /\ faults' = faults + 1
<1>1. faults' \in 0..MaxFaults /\ faults' = faults + 1
  BY Constants DEF CallFails, AnyFault, IInv, Types
<1> QED BY <1>1, ThrowIs DEF CallFails

LEMMA DieIs ==
  ASSUME IInv, NEW w \in Worker, Die(w)
  PROVE  Types' /\ Alone(w) /\ work'[w] = Idle /\ UNCHANGED <<rows, received>>
<1>1. Types
  BY DEF IInv
<1>2. work' \in [Worker -> WorkRow] /\ Alone(w) /\ work'[w] = Idle
  BY <1>1, IdleIs, RowIs DEF Die
<1>3. faults' \in 0..MaxFaults
  BY Constants DEF Die, AnyFault, IInv, Types
<1>4. CustomerTypes'
  <2>1. UNCHANGED <<customers, cases, lost>> /\ CustomerTypes /\ Len(customers) \in Nat
    BY <1>1 DEF Die, Types, CustomerTypes
  <2> QED BY <1>2, <2>1, IdleIs DEF CustomerTypes, Alone
<1> HIDE DEF Reach, WorkRow, EventRow, Orders
<1>5. Types'
  BY <1>1, <1>2, <1>3, <1>4 DEF Types, EventTypes, Die
<1> QED BY <1>2, <1>5 DEF Die

LEMMA ClaimIs ==
  ASSUME IInv, NEW d \in Delivery, Claim(d)
  PROVE  /\ Types' /\ Alone(d)
         /\ work'[d].pc \in {"idle", "route"} /\ work'[d].d = d /\ DOMAIN work'[d].batch = {}
         /\ rows[d].status = "new" /\ d \in DOMAIN event /\ received' = Append(received, d)
         /\ rows'[d].status = "claimed" /\ \A x \in Delivery \ {d} : rows'[x] = rows[x]
         /\ \A x \in Delivery : rows'[x].attempts = rows[x].attempts /\ rows'[x].merchant = rows[x].merchant
<1>1. Types /\ d \in Worker
  BY Workers DEF IInv
<1> DEFINE row == [Idle EXCEPT !.pc = IF gone THEN "idle" ELSE "route", !.d = d]
<1>2. /\ row \in WorkRow /\ row.pc \in {"idle", "route"} /\ row.d = d /\ DOMAIN row.batch = {} /\ row.id = 0
  <2>1. /\ row.batch = Idle.batch /\ row.id = Idle.id
        /\ row.pc \in {"idle", "route"} /\ row.d = d /\ row \in WorkRow
    <3> HIDE DEF Reach, Batches, Idle
    <3> QED BY IdleIs DEF WorkRow, Positions
  <2> QED BY <2>1, IdleIs
<1>3. work' = [work EXCEPT ![d] = row]
  BY DEF Claim
<1> HIDE DEF row
<1>4. work' \in [Worker -> WorkRow] /\ Alone(d) /\ work'[d] = row
  BY <1>1, <1>2, <1>3, RowIs
<1>5. /\ rows' \in [Delivery -> EventRow]
      /\ rows'[d].status = "claimed" /\ \A x \in Delivery \ {d} : rows'[x] = rows[x]
      /\ \A x \in Delivery : rows'[x].attempts = rows[x].attempts /\ rows'[x].merchant = rows[x].merchant
  <2>1. rows \in [Delivery -> EventRow] /\ rows' = [rows EXCEPT ![d].status = "claimed"]
    BY <1>1 DEF Types, Claim
  <2> QED BY <2>1 DEF EventRow
<1>6. received' \in Seq(Delivery)
  BY <1>1 DEF Types, Claim
<1>7. CustomerTypes'
  <2>1. UNCHANGED <<customers, cases, lost>> /\ CustomerTypes /\ Len(customers) \in Nat
    BY <1>1 DEF Claim, Types, CustomerTypes
  <2> QED BY <1>2, <1>4, <2>1 DEF CustomerTypes, Alone
<1> HIDE DEF Reach, WorkRow, EventRow, Orders
<1>8. Types'
  BY <1>1, <1>4, <1>5, <1>6, <1>7 DEF Types, EventTypes, Claim
<1> QED BY <1>2, <1>4, <1>5, <1>8 DEF Claim

LEMMA OldestIs ==
  ASSUME Types, Stranded # {}
  PROVE  Oldest # {} /\ Oldest \subseteq Stranded /\ Stranded \subseteq DOMAIN received
<1>1. Stranded \subseteq DOMAIN received /\ DOMAIN received \subseteq Nat
  BY DEF Stranded, Types
<1>2. Min(Stranded) \in Stranded /\ \A j \in Stranded : Min(Stranded) <= j
  BY <1>1, FirstIs
<1>3. {j \in Stranded : j < Min(Stranded)} = {}
  BY <1>1, <1>2
<1>4. Cardinality({j \in Stranded : j < Min(Stranded)}) < Limit
  <2>1. Cardinality({}) = 0 /\ 0 < Limit
    BY FS_EmptySet, Constants
  <2> QED BY <1>3, <2>1
<1> QED BY <1>1, <1>2, <1>4 DEF Oldest

LEMMA FindUnprocessedIs ==
  ASSUME IInv, NEW r \in Redriver, FindUnprocessed(r)
  PROVE  /\ Types' /\ Alone(r) /\ UNCHANGED <<rows, received>>
         /\ work'[r].pc = "batch" /\ DOMAIN work'[r].batch = Oldest
         /\ Oldest # {} /\ Oldest \subseteq DOMAIN received
         /\ \A i \in Oldest : /\ work'[r].batch[i] = rows[received[i]]
                              /\ rows[received[i]].status = "claimed" /\ At(received[i], "idle")
<1>1. Types /\ r \in Worker /\ work[r] \in WorkRow
  BY Workers DEF IInv, Types
<1>2. Oldest # {} /\ Oldest \subseteq Stranded /\ Stranded \subseteq DOMAIN received
  BY <1>1, OldestIs DEF FindUnprocessed
<1> DEFINE batch == [i \in Oldest |-> rows[received[i]]]
<1>3. batch \in Batches
  <2>1. \A i \in Oldest : rows[received[i]] \in EventRow
    BY <1>1, <1>2 DEF Types
  <2>2. Oldest \in SUBSET Nat
    BY <1>1, <1>2 DEF Types
  <2> HIDE DEF EventRow
  <2>3. batch \in [Oldest -> EventRow]
    BY <2>1
  <2> HIDE DEF batch
  <2> QED BY <2>2, <2>3, BatchIs
<1>4. DOMAIN batch = Oldest /\ \A i \in Oldest : batch[i] = rows[received[i]]
  OBVIOUS
<1>5. work' = [work EXCEPT ![r].pc = "batch", ![r].batch = batch]
  BY DEF FindUnprocessed
<1>6. \A i \in Oldest : rows[received[i]].status = "claimed" /\ At(received[i], "idle")
  BY <1>2 DEF Stranded
<1> DEFINE row == [work[r] EXCEPT !.pc = "batch", !.batch = batch]
<1> HIDE DEF batch
<1>7. row \in WorkRow /\ row.pc = "batch" /\ row.batch = batch /\ row.id = work[r].id
  <2> HIDE DEF Reach, Batches
  <2> QED BY <1>1, <1>3 DEF WorkRow, Positions
<1>8. work' = [work EXCEPT ![r] = row]
  BY <1>1, <1>5 DEF Types
<1> HIDE DEF row
<1>9. work' \in [Worker -> WorkRow] /\ Alone(r) /\ work'[r] = row
  BY <1>1, <1>7, <1>8, RowIs
<1>10. CustomerTypes'
  <2>1. UNCHANGED <<customers, cases, lost>> /\ CustomerTypes
    BY <1>1 DEF FindUnprocessed, Types
  <2> QED BY <1>1, <1>7, <1>9, <2>1 DEF CustomerTypes, Alone
<1> HIDE DEF Reach, WorkRow, EventRow, Orders
<1>11. Types'
  BY <1>1, <1>9, <1>10 DEF Types, EventTypes, FindUnprocessed
<1> QED BY <1>2, <1>4, <1>6, <1>7, <1>9, <1>11 DEF FindUnprocessed

\* What the redrive has before it, and what is left of its batch.
LEMMA ItemIs ==
  ASSUME IInv, NEW r \in Redriver, At(r, "batch")
  PROVE  /\ r \in Worker /\ First(r) \in DOMAIN work[r].batch /\ DOMAIN work[r].batch \subseteq DOMAIN received
         /\ Item(r) = received[First(r)] /\ Item(r) \in Delivery
         /\ Rest(r) \in Batches /\ DOMAIN Rest(r) = DOMAIN work[r].batch \ {First(r)}
         /\ \A i \in DOMAIN Rest(r) : Rest(r)[i] = work[r].batch[i]
<1>1. Types /\ r \in Worker /\ work[r] \in WorkRow /\ BatchFits(r)
  BY Workers DEF IInv, Types, QueueSound
<1>2. work[r].batch \in Batches /\ DOMAIN work[r].batch # {} /\ DOMAIN work[r].batch \subseteq DOMAIN received
  BY <1>1 DEF WorkRow, BatchFits
<1>3. /\ DOMAIN work[r].batch \subseteq Nat
      /\ \A i \in DOMAIN work[r].batch : work[r].batch[i] \in EventRow
  BY <1>2, BatchIs
<1>4. First(r) \in DOMAIN work[r].batch
  <2> DEFINE S == DOMAIN work[r].batch
  <2>1. S \subseteq Nat /\ S # {}
    BY <1>2, <1>3
  <2> HIDE DEF S
  <2>2. Min(S) \in S
    BY <2>1, FirstIs
  <2> QED BY <2>2 DEF S, First
<1>5. received[First(r)] \in Delivery
  BY <1>1, <1>2, <1>4 DEF Types
<1>6. /\ DOMAIN Rest(r) = DOMAIN work[r].batch \ {First(r)}
      /\ \A i \in DOMAIN Rest(r) : Rest(r)[i] = work[r].batch[i]
  BY DEF Rest
<1>7. Rest(r) \in [DOMAIN Rest(r) -> EventRow] /\ DOMAIN Rest(r) \in SUBSET Nat
  <2>1. DOMAIN Rest(r) \in SUBSET Nat /\ \A i \in DOMAIN Rest(r) : Rest(r)[i] \in EventRow
    BY <1>3, <1>6
  <2>2. Rest(r) = [i \in DOMAIN Rest(r) |-> Rest(r)[i]]
    BY DEF Rest
  <2> HIDE DEF Rest, EventRow
  <2> QED BY <2>1, <2>2
<1>8. Rest(r) \in Batches
  <2> HIDE DEF Rest, EventRow, Batches
  <2> QED BY <1>7, BatchIs
<1> QED BY <1>1, <1>2, <1>4, <1>5, <1>6, <1>8 DEF Item

LEMMA PassIs ==
  ASSUME IInv, NEW r \in Redriver, At(r, "batch"), Pass(r)
  PROVE  /\ work' \in [Worker -> WorkRow] /\ Alone(r) /\ work'[r].batch = Rest(r) /\ work'[r].id = 0
         /\ work'[r].pc = (IF DOMAIN Rest(r) = {} THEN "idle" ELSE "batch")
<1>1. Types /\ r \in Worker /\ Rest(r) \in Batches
  BY ItemIs DEF IInv
<1> DEFINE row == [Idle EXCEPT !.pc = IF DOMAIN Rest(r) = {} THEN "idle" ELSE "batch", !.batch = Rest(r)]
<1>2. /\ row \in WorkRow /\ row.batch = Rest(r) /\ row.id = 0
      /\ row.pc = (IF DOMAIN Rest(r) = {} THEN "idle" ELSE "batch")
  <2> HIDE DEF Reach, Batches, Rest, Idle
  <2> QED BY <1>1, IdleIs DEF WorkRow, Positions
<1>3. work' = [work EXCEPT ![r] = row]
  BY DEF Pass
<1> HIDE DEF row
<1> QED BY <1>1, <1>2, <1>3, RowIs

LEMMA TakeIs ==
  ASSUME IInv, NEW r \in Redriver, At(r, "batch"), Take(r)
  PROVE  /\ work' \in [Worker -> WorkRow] /\ Alone(r) /\ work'[r].batch = Rest(r) /\ work'[r].id = work[r].id
         /\ work'[r].pc = "route" /\ work'[r].d = Item(r)
<1>1. Types /\ r \in Worker /\ work[r] \in WorkRow /\ Rest(r) \in Batches /\ Item(r) \in Delivery
  BY ItemIs DEF IInv, Types
<1> DEFINE row == [work[r] EXCEPT !.pc = "route", !.d = Item(r), !.batch = Rest(r)]
<1>2. /\ row \in WorkRow /\ row.batch = Rest(r) /\ row.id = work[r].id
      /\ row.pc = "route" /\ row.d = Item(r)
  <2> HIDE DEF Reach, Batches, Rest, Item
  <2> QED BY <1>1 DEF WorkRow, Positions
<1>3. work' = [work EXCEPT ![r] = row]
  BY DEF Take
<1> HIDE DEF row
<1> QED BY <1>1, <1>2, <1>3, RowIs

\* The redrive's three ways with a row.
PassesOver(r) == Worn(r) /\ UNCHANGED rows /\ work'[r].pc # "route"
GivesUp(r) == ~Worn(r) /\ Hopeless(r) /\ Failed(Item(r)) /\ work'[r].pc # "route"
TakesUp(r) == ~Worn(r) /\ UNCHANGED rows /\ work'[r].pc = "route" /\ work'[r].d = Item(r)

LEMMA RedriveIs ==
  ASSUME IInv, NEW r \in Redriver, Redrive(r)
  PROVE  /\ Types' /\ Alone(r) /\ UNCHANGED <<received, faults>> /\ work'[r].batch = Rest(r) /\ At(r, "batch")
         /\ work'[r].pc \in {"idle", "batch", "route"}
         /\ work'[r].pc = "batch" => DOMAIN Rest(r) # {}
         /\ PassesOver(r) \/ GivesUp(r) \/ TakesUp(r)
<1>1. Types /\ At(r, "batch") /\ Item(r) \in Delivery /\ r \in Worker
  BY ItemIs DEF IInv, Redrive
<1>2. CASE Worn(r)
  <2>1. Pass(r) /\ UNCHANGED rows
    BY <1>2 DEF Redrive
  <2> HIDE DEF Types, WorkRow
  <2>2. /\ work' \in [Worker -> WorkRow] /\ Alone(r) /\ work'[r].batch = Rest(r) /\ work'[r].id = 0
        /\ work'[r].pc = (IF DOMAIN Rest(r) = {} THEN "idle" ELSE "batch")
    BY <1>1, <2>1, PassIs
  <2>3. CustomerTypes'
    <3>1. UNCHANGED <<customers, cases, lost>> /\ CustomerTypes /\ Len(customers) \in Nat
      BY <1>1 DEF Redrive, Types, CustomerTypes
    <3> QED BY <2>2, <3>1 DEF CustomerTypes, Alone
  <2> HIDE DEF Reach, WorkRow, EventRow, Orders
  <2>4. Types'
    BY <1>1, <2>1, <2>2, <2>3 DEF Types, EventTypes, Redrive
  <2> QED BY <1>1, <1>2, <2>1, <2>2, <2>4 DEF Redrive, PassesOver
<1>3. CASE ~Worn(r) /\ Hopeless(r)
  <2>1. Pass(r) /\ Failed(Item(r))
    BY <1>3 DEF Redrive
  <2> HIDE DEF Types, WorkRow
  <2>2. /\ work' \in [Worker -> WorkRow] /\ Alone(r) /\ work'[r].batch = Rest(r) /\ work'[r].id = 0
        /\ work'[r].pc = (IF DOMAIN Rest(r) = {} THEN "idle" ELSE "batch")
    BY <1>1, <2>1, PassIs
  <2>3. CustomerTypes'
    <3>1. UNCHANGED <<customers, cases, lost>> /\ CustomerTypes /\ Len(customers) \in Nat
      BY <1>1 DEF Redrive, Types, CustomerTypes
    <3> QED BY <2>2, <3>1 DEF CustomerTypes, Alone
  <2>4. rows' \in [Delivery -> EventRow]
    BY <1>1, <2>1, FailedIs
  <2> HIDE DEF Reach, WorkRow, EventRow, Orders
  <2>5. Types'
    BY <1>1, <2>2, <2>3, <2>4 DEF Types, EventTypes, Redrive
  <2> QED BY <1>1, <1>3, <2>1, <2>2, <2>5 DEF Redrive, GivesUp
<1>4. CASE ~Worn(r) /\ ~Hopeless(r)
  <2>1. Take(r) /\ UNCHANGED rows
    BY <1>4 DEF Redrive
  <2> HIDE DEF Types, WorkRow
  <2>2. /\ work' \in [Worker -> WorkRow] /\ Alone(r) /\ work'[r].batch = Rest(r) /\ work'[r].id = work[r].id
        /\ work'[r].pc = "route" /\ work'[r].d = Item(r)
    BY <1>1, <2>1, TakeIs
  <2>3. CustomerTypes'
    <3>1. UNCHANGED <<customers, cases, lost>> /\ CustomerTypes
      BY <1>1 DEF Redrive, Types
    <3> QED BY <2>2, <3>1 DEF CustomerTypes, Alone
  <2> HIDE DEF Reach, WorkRow, EventRow, Orders
  <2>4. Types'
    BY <1>1, <2>1, <2>2, <2>3 DEF Types, EventTypes, Redrive
  <2> QED BY <1>1, <1>4, <2>1, <2>2, <2>4 DEF Redrive, TakesUp
<1> QED BY <1>2, <1>3, <1>4

LEMMA BackfillMerchantIs ==
  ASSUME IInv, NEW d \in Delivery, BackfillMerchant(d)
  PROVE  /\ Types' /\ UNCHANGED <<work, received>>
         /\ \A x \in Delivery : /\ rows'[x].status = rows[x].status
                                /\ rows'[x].attempts = rows[x].attempts
                                /\ rows'[x].merchant = (rows[x].merchant \/ x = d)
<1>1. Types /\ rows \in [Delivery -> EventRow] /\ rows' = [rows EXCEPT ![d].merchant = TRUE]
  BY DEF IInv, Types, BackfillMerchant
<1> DEFINE row == [rows[d] EXCEPT !.merchant = TRUE]
<1>2. row \in EventRow /\ row.status = rows[d].status /\ row.attempts = rows[d].attempts /\ row.merchant = TRUE
  BY <1>1 DEF EventRow
<1>3. rows' = [rows EXCEPT ![d] = row]
  BY <1>1
<1> HIDE DEF row
<1>4. /\ rows' \in [Delivery -> EventRow] /\ rows'[d] = row
      /\ \A x \in Delivery \ {d} : rows'[x] = rows[x]
  <2> HIDE DEF EventRow
  <2> QED BY <1>1, <1>2, <1>3
<1>5. \A x \in Delivery : /\ rows'[x].status = rows[x].status
                          /\ rows'[x].attempts = rows[x].attempts
                          /\ rows'[x].merchant = (rows[x].merchant \/ x = d)
  <2> SUFFICES ASSUME NEW x \in Delivery
               PROVE  /\ rows'[x].status = rows[x].status
                      /\ rows'[x].attempts = rows[x].attempts
                      /\ rows'[x].merchant = (rows[x].merchant \/ x = d)
    OBVIOUS
  <2>1. CASE x = d
    BY <1>2, <1>4, <2>1
  <2>2. CASE x # d
    <3>1. rows'[x] = rows[x] /\ rows[x].merchant \in BOOLEAN
      BY <1>1, <1>4, <2>2 DEF EventRow
    <3> QED BY <3>1, <2>2
  <2> QED BY <2>1, <2>2
<1> HIDE DEF Reach, WorkRow, EventRow, Orders
<1>6. Types'
  BY <1>1, <1>4 DEF Types, EventTypes, CustomerTypes, BackfillMerchant
<1> QED BY <1>5, <1>6 DEF BackfillMerchant

LEMMA StillIs ==
  ASSUME IInv, MerchantLeaves \/ UNCHANGED vars
  PROVE  Types' /\ UNCHANGED <<event, rows, received, customers, cases, work, lost, faults>> /\ (gone => gone')
<1> HIDE DEF Reach, WorkRow, EventRow, Orders
<1> QED BY DEF IInv, MerchantLeaves, vars, Types, EventTypes, CustomerTypes

----------------------------------------------------------------------------
(* The queue.                                                               *)

\* Nobody takes hold of the delivery.
Ebbs(d) == \A r \in Redriver : Holds(r, d)' => Holds(r, d)

LEMMA OthersFinite ==
  ASSUME NEW d
  PROVE  /\ IsFiniteSet(Others(d)) /\ IsFiniteSet(Others(d)')
         /\ Cardinality(Others(d)) \in 0..Cardinality(Redriver)
         /\ Cardinality(Others(d)') \in 0..Cardinality(Redriver)
<1>1. Others(d) \in SUBSET Redriver /\ Others(d)' \in SUBSET Redriver
  BY DEF Others
<1>2. IsFiniteSet(Redriver) /\ Cardinality(Redriver) \in Nat
  BY Constants, FS_CardinalityType
<1> HIDE DEF Others
<1>3. IsFiniteSet(Others(d)) /\ Cardinality(Others(d)) <= Cardinality(Redriver)
  BY <1>1, <1>2, FS_Subset
<1>4. IsFiniteSet(Others(d)') /\ Cardinality(Others(d)') <= Cardinality(Redriver)
  BY <1>1, <1>2, FS_Subset
<1>5. Cardinality(Others(d)) \in Nat /\ Cardinality(Others(d)') \in Nat
  BY <1>3, <1>4, FS_CardinalityType
<1> QED BY <1>2, <1>3, <1>4, <1>5

LEMMA BoundedKept ==
  ASSUME NEW d \in Delivery, Types, Bounded(d), Ebbs(d), rows'[d].attempts = rows[d].attempts
  PROVE  Bounded(d)'
<1>1. Others(d) \in SUBSET Others(d)'
  BY DEF Others, Ebbs
<1>2. Cardinality(Others(d)) <= Cardinality(Others(d)')
  <2> HIDE DEF Others
  <2> QED BY <1>1, OthersFinite, FS_Subset
<1>3. Cardinality(Others(d)) \in Nat /\ Cardinality(Others(d)') \in Nat
  BY OthersFinite, FS_CardinalityType
<1>4. rows[d].attempts \in Nat /\ MaxAttempts \in Nat
  BY Constants DEF Types, EventRow
<1>5. rows[d].attempts <= MaxAttempts - 1 + Cardinality(Others(d))
  BY DEF Bounded
<1>6. rows'[d].attempts <= MaxAttempts - 1 + Cardinality(Others(d)')
  BY <1>2, <1>3, <1>4, <1>5
<1> QED BY <1>6 DEF Bounded

\* Whoever fails it lets it go.
LEMMA BoundedFailed ==
  ASSUME NEW d \in Delivery, Types, Bounded(d), Ebbs(d), rows'[d].attempts = rows[d].attempts + 1,
         NEW r \in Redriver, Holds(r, d), ~Holds(r, d)'
  PROVE  Bounded(d)'
<1>1. Others(d) \cup {r} \in SUBSET Others(d)' /\ r \notin Others(d)
  BY DEF Others, Ebbs
<1>2. /\ IsFiniteSet(Others(d) \cup {r})
      /\ Cardinality(Others(d) \cup {r}) = Cardinality(Others(d)) + 1
  <2> HIDE DEF Others
  <2> QED BY <1>1, OthersFinite, FS_AddElement
<1>3. Cardinality(Others(d) \cup {r}) <= Cardinality(Others(d)')
  <2> HIDE DEF Others
  <2> QED BY <1>1, OthersFinite, FS_Subset
<1>4. Cardinality(Others(d)) \in Nat /\ Cardinality(Others(d)') \in Nat
  BY OthersFinite, FS_CardinalityType
<1>5. rows[d].attempts \in Nat /\ MaxAttempts \in Nat
  BY Constants DEF Types, EventRow
<1>6. rows[d].attempts <= MaxAttempts - 1 + Cardinality(Others(d))
  BY DEF Bounded
<1>7. rows'[d].attempts <= MaxAttempts - 1 + Cardinality(Others(d)')
  BY <1>2, <1>3, <1>4, <1>5, <1>6
<1> QED BY <1>7 DEF Bounded

LEMMA BoundedEarly ==
  ASSUME NEW d \in Delivery, rows'[d].attempts \in Nat, rows'[d].attempts <= MaxAttempts - 1
  PROVE  Bounded(d)'
<1>1. Cardinality(Others(d)') \in Nat /\ MaxAttempts \in Nat
  BY OthersFinite, FS_CardinalityType, Constants
<1>2. rows'[d].attempts <= MaxAttempts - 1 + Cardinality(Others(d)')
  BY <1>1
<1> QED BY <1>2 DEF Bounded

\* Nor when its own invocation fails it, before anybody else had it.
LEMMA BoundedFirst ==
  ASSUME NEW d \in Delivery, rows'[d].attempts = 1, \A r \in Redriver : ~Holds(r, d)'
  PROVE  Bounded(d)'
<1>1. Others(d)' = Redriver
  BY DEF Others
<1>2. Cardinality(Redriver) \in Nat \ {0}
  <2>1. IsFiniteSet(Redriver) /\ Redriver # {}
    BY Constants
  <2> QED BY <2>1, FS_CardinalityType, FS_EmptySet
<1>3. MaxAttempts \in Nat \ {0}
  BY Constants
<1>4. rows'[d].attempts <= MaxAttempts - 1 + Cardinality(Others(d)')
  BY <1>1, <1>2, <1>3
<1> QED BY <1>4 DEF Bounded

\* A row moves on, and no place is given or taken.
RowsMove ==
  /\ UNCHANGED <<event, received>>
  /\ \A d \in Delivery : /\ rows'[d].status = "new" <=> rows[d].status = "new"
                         /\ rows[d].merchant => rows'[d].merchant

LEMMA PlacesMove ==
  ASSUME Types, PlacesFit, RowsMove,
         \A d \in Delivery : rows'[d].attempts # rows[d].attempts => rows[d].status # "new"
  PROVE  PlacesFit'
<1>1. \A i \in DOMAIN received : received[i] \in Delivery
  BY DEF Types
<1> QED BY <1>1 DEF PlacesFit, RowsMove

LEMMA GoesQueue ==
  ASSUME IInv, NEW w \in Worker, Goes(w), UNCHANGED event
  PROVE  QueueSound'
<1>1. Types /\ QueueSound
  BY DEF IInv
<1>2. \A v \in Worker : /\ Handling(v)' <=> Handling(v)
                        /\ work'[v].d = work[v].d /\ work'[v].batch = work[v].batch
                        /\ At(v, "batch")' => At(v, "batch")
  BY DEF Goes, Alone, Handling, At
<1>3. \A r \in Redriver : \A d : Holds(r, d)' <=> Holds(r, d)
  BY <1>2, Workers DEF Goes, Holds
<1>4. PlacesFit'
  BY <1>1 DEF QueueSound, PlacesFit, Goes
<1>5. \A r \in Redriver : BatchFits(r)'
  BY <1>1, <1>2, Workers DEF QueueSound, BatchFits, Goes
<1>6. \A v \in Worker : WorkFits(v)'
  BY <1>1, <1>2, <1>3 DEF QueueSound, WorkFits, Goes
<1>7. ASSUME NEW d \in Delivery PROVE Bounded(d)'
  <2>1. Ebbs(d) /\ rows'[d].attempts = rows[d].attempts /\ Bounded(d)
    BY <1>1, <1>3 DEF Ebbs, Goes, QueueSound
  <2> QED BY <1>1, <2>1, BoundedKept
<1> QED BY <1>4, <1>5, <1>6, <1>7 DEF QueueSound

LEMMA EndsQueue ==
  ASSUME IInv, NEW w \in Worker, Ends(w), RowsMove,
         \A d \in Delivery \ {work[w].d} : rows'[d].attempts = rows[d].attempts,
         rows'[work[w].d].attempts \in {rows[work[w].d].attempts, rows[work[w].d].attempts + 1}
  PROVE  QueueSound'
<1>0. PICK mine : mine = work[w].d
  OBVIOUS
<1>1. Types /\ QueueSound /\ Handling(w) /\ mine \in Delivery /\ mine \in DOMAIN event
  BY <1>0, HandledIs DEF IInv, Ends
<1>2. \A v \in Worker : /\ v # w => (Handling(v)' <=> Handling(v)) /\ work'[v].d = work[v].d
                        /\ work'[v].batch = work[v].batch
                        /\ At(v, "batch")' => At(v, "batch") \/ DOMAIN work[v].batch # {}
  BY DEF Ends, Alone, Handling, At
<1>3. ~Handling(w)'
  BY DEF Ends, Handling
<1>4. \A r \in Redriver : \A d : Holds(r, d)' => Holds(r, d)
  BY <1>2, <1>3, Workers DEF Ends, Holds
<1>5. WorkFits(w) /\ (w \in Redriver => Holds(w, mine) /\ ~Holds(w, mine)')
  <2>1. WorkFits(w)
    BY <1>1 DEF QueueSound
  <2>2. ASSUME w \in Redriver PROVE Holds(w, mine) /\ ~Holds(w, mine)'
    <3>1. Holds(w, mine)
      BY <1>0, <1>1 DEF Holds
    <3>2. \A i \in DOMAIN work'[w].batch : received'[i] # mine
      BY <1>0, <1>1, <1>2, <2>1, <2>2 DEF WorkFits, Ends
    <3> QED BY <1>3, <3>1, <3>2 DEF Holds
  <2> QED BY <2>1, <2>2
<1>6. \A v \in Delivery : v # w /\ Handling(v) => v # mine
  <2> SUFFICES ASSUME NEW v \in Delivery, v # w, Handling(v), v = mine PROVE FALSE
    OBVIOUS
  <2>1. CASE w \in Delivery
    BY <1>0, <1>1, <1>5, <2>1 DEF WorkFits
  <2>2. CASE w \in Redriver
    BY <1>0, <1>1, <1>5, <2>2, Workers DEF QueueSound, WorkFits
  <2> QED BY <2>1, <2>2 DEF Worker
<1>7. PlacesFit'
  <2>1. \A d \in Delivery : rows'[d].attempts # rows[d].attempts => rows[d].status # "new"
    BY <1>0, <1>1, <1>5 DEF WorkFits
  <2> QED BY <1>1, <2>1, PlacesMove DEF QueueSound
<1>8. \A r \in Redriver : BatchFits(r)'
  BY <1>1, <1>2, Workers DEF QueueSound, BatchFits, RowsMove
<1>9. ASSUME NEW v \in Worker, Handling(v)' PROVE WorkFits(v)'
  <2>1. v # w /\ Handling(v) /\ WorkFits(v) /\ work'[v].d = work[v].d /\ work'[v].batch = work[v].batch
    BY <1>1, <1>2, <1>3, <1>9 DEF QueueSound
  <2>2. work[v].d \in DOMAIN event /\ work[v].d \in Delivery /\ rows'[work[v].d].status # "new"
    BY <1>1, <2>1 DEF WorkFits, RowsMove, Types, EventTypes
  <2>3. v \in Delivery => rows'[v].attempts = 0 /\ \A r \in Redriver : ~Holds(r, v)'
    BY <1>0, <1>4, <1>6, <2>1 DEF WorkFits
  <2> QED BY <2>1, <2>2, <2>3 DEF WorkFits, RowsMove
<1>10. ASSUME NEW d \in Delivery PROVE Bounded(d)'
  <2>1. Bounded(d) /\ Ebbs(d)
    BY <1>1, <1>4 DEF QueueSound, Ebbs
  <2>2. CASE rows'[d].attempts = rows[d].attempts
    BY <1>1, <2>1, <2>2, BoundedKept
  <2>3. CASE rows'[d].attempts # rows[d].attempts
    <3>1. d = mine /\ rows'[d].attempts = rows[d].attempts + 1
      BY <1>0, <2>3
    <3>2. CASE w \in Redriver
      BY <1>1, <1>5, <2>1, <3>1, <3>2, BoundedFailed
    <3>3. CASE w \in Delivery
      <4>1. rows'[d].attempts = 1 /\ \A r \in Redriver : ~Holds(r, d)'
        BY <1>0, <1>1, <1>4, <1>5, <3>1, <3>3 DEF WorkFits
      <4> QED BY <4>1, BoundedFirst
    <3> QED BY <3>2, <3>3 DEF Worker
  <2> QED BY <2>2, <2>3
<1> QED BY <1>7, <1>8, <1>9, <1>10 DEF QueueSound, WorkFits

LEMMA DieQueue ==
  ASSUME IInv, NEW w \in Worker, Die(w)
  PROVE  QueueSound'
<1>1. Types /\ QueueSound /\ Alone(w) /\ work'[w] = Idle /\ UNCHANGED <<event, rows, received>>
  BY DieIs DEF IInv, Die
<1>2. ~Handling(w)' /\ ~At(w, "batch")' /\ DOMAIN work'[w].batch = {}
  BY <1>1, IdleIs DEF Handling, At
<1>3. \A v \in Worker \ {w} : work'[v] = work[v] /\ (Handling(v)' <=> Handling(v))
  BY <1>1 DEF Alone, Handling, At
<1>4. \A r \in Redriver : \A d : Holds(r, d)' => Holds(r, d)
  BY <1>1, <1>2, <1>3, Workers DEF Holds
<1>5. PlacesFit'
  BY <1>1 DEF QueueSound, PlacesFit
<1>6. \A r \in Redriver : BatchFits(r)'
  BY <1>1, <1>2, <1>3, Workers DEF QueueSound, BatchFits, At
<1>7. \A v \in Worker : WorkFits(v)'
  BY <1>1, <1>2, <1>3, <1>4 DEF QueueSound, WorkFits
<1>8. ASSUME NEW d \in Delivery PROVE Bounded(d)'
  <2>1. Ebbs(d) /\ rows'[d].attempts = rows[d].attempts /\ Bounded(d)
    BY <1>1, <1>4 DEF Ebbs, QueueSound
  <2> QED BY <1>1, <2>1, BoundedKept
<1> QED BY <1>5, <1>6, <1>7, <1>8 DEF QueueSound

LEMMA ClaimQueue ==
  ASSUME IInv, NEW d \in Delivery, Claim(d)
  PROVE  QueueSound'
<1>1. Types /\ QueueSound /\ PlacesFit /\ d \in Worker /\ d \notin Redriver /\ UNCHANGED event
  BY Workers, Constants DEF IInv, QueueSound, Claim
<1>2. /\ Alone(d) /\ work'[d].pc \in {"idle", "route"} /\ work'[d].d = d
      /\ rows[d].status = "new" /\ d \in DOMAIN event /\ received' = Append(received, d)
      /\ rows'[d].status = "claimed" /\ \A x \in Delivery \ {d} : rows'[x] = rows[x]
      /\ \A x \in Delivery : rows'[x].attempts = rows[x].attempts /\ rows'[x].merchant = rows[x].merchant
  BY ClaimIs
<1>3. /\ DOMAIN received \subseteq DOMAIN received' /\ \A i \in DOMAIN received : received'[i] = received[i]
      /\ \A i \in DOMAIN received' : i \in DOMAIN received \/ received'[i] = d
      /\ \A i, j \in DOMAIN received' : i \notin DOMAIN received /\ j \notin DOMAIN received => i = j
      /\ \A i \in DOMAIN received : received[i] \in Delivery /\ received[i] # d
  <2>1. received \in Seq(Delivery)
    BY <1>1 DEF Types
  <2>2. \A i \in DOMAIN received : received[i] # d
    BY <1>1, <1>2 DEF PlacesFit
  <2> QED BY <1>2, <2>1, <2>2
<1>4. \A v \in Worker \ {d} : work'[v] = work[v] /\ (Handling(v)' <=> Handling(v)) /\ (At(v, "batch")' <=> At(v, "batch"))
  BY <1>2 DEF Alone, Handling, At
<1>5. \A r \in Redriver : \A x : Holds(r, x)' => Holds(r, x)
  <2>1. \A r \in Redriver : work'[r] = work[r] /\ (Handling(r)' <=> Handling(r)) /\ DOMAIN work[r].batch \subseteq DOMAIN received
    BY <1>1, <1>4, Workers DEF QueueSound, BatchFits
  <2> QED BY <1>3, <2>1 DEF Holds
<1>6. PlacesFit'
  <2>1. \A i, j \in DOMAIN received' : received'[i] = received'[j] => i = j
    BY <1>1, <1>3 DEF PlacesFit
  <2>2. \A i \in DOMAIN received' : received'[i] \in DOMAIN event' /\ rows'[received'[i]].status # "new"
    BY <1>1, <1>2, <1>3 DEF PlacesFit
  <2>3. \A x \in Delivery : /\ rows'[x].status = "new" => rows'[x].attempts = 0
                            /\ ~rows'[x].merchant => x \in Unstamped
    BY <1>1, <1>2 DEF PlacesFit
  <2> QED BY <2>1, <2>2, <2>3 DEF PlacesFit
<1>7. ASSUME NEW r \in Redriver PROVE BatchFits(r)'
  <2>1. BatchFits(r) /\ work'[r] = work[r] /\ (At(r, "batch")' <=> At(r, "batch"))
    BY <1>1, <1>4, Workers DEF QueueSound
  <2> QED BY <1>3, <2>1 DEF BatchFits
<1>8. ASSUME NEW v \in Worker, Handling(v)' PROVE WorkFits(v)'
  <2>1. CASE v = d
    <3>1. rows'[d].attempts = 0
      BY <1>1, <1>2 DEF PlacesFit
    <3>2. ASSUME NEW r \in Redriver PROVE ~Holds(r, d)
      <4>1. WorkFits(r) /\ BatchFits(r)
        BY <1>1, Workers DEF QueueSound
      <4>2. \A i \in DOMAIN work[r].batch : received[i] # d
        BY <1>3, <4>1 DEF BatchFits
      <4> QED BY <1>2, <4>1, <4>2 DEF Holds, WorkFits
    <3>3. \A r \in Redriver : ~Holds(r, d)'
      BY <1>5, <3>2
    <3> QED BY <1>1, <1>2, <2>1, <3>1, <3>3 DEF WorkFits
  <2>2. CASE v # d
    <3>1. Handling(v) /\ WorkFits(v) /\ work'[v] = work[v]
      BY <1>1, <1>4, <1>8, <2>2 DEF QueueSound
    <3>2. work[v].d \in DOMAIN event /\ rows'[work[v].d].status # "new"
      BY <1>1, <1>2, <3>1 DEF WorkFits, Types, EventTypes
    <3>3. v \in Delivery => work[v].d = v /\ rows'[v].attempts = 0 /\ \A r \in Redriver : ~Holds(r, v)'
      BY <1>2, <1>5, <3>1 DEF WorkFits
    <3>4. v \in Redriver => \A i \in DOMAIN work[v].batch : received'[i] # work[v].d
      BY <1>1, <1>3, <3>1 DEF WorkFits, QueueSound, BatchFits
    <3> QED BY <1>1, <3>1, <3>2, <3>3, <3>4 DEF WorkFits
  <2> QED BY <2>1, <2>2
<1>9. ASSUME NEW x \in Delivery PROVE Bounded(x)'
  <2>1. Ebbs(x) /\ rows'[x].attempts = rows[x].attempts /\ Bounded(x)
    BY <1>1, <1>2, <1>5 DEF Ebbs, QueueSound
  <2> QED BY <1>1, <2>1, BoundedKept
<1> QED BY <1>6, <1>7, <1>8, <1>9 DEF QueueSound, WorkFits

LEMMA FindQueue ==
  ASSUME IInv, NEW r \in Redriver, FindUnprocessed(r)
  PROVE  QueueSound'
<1>1. Types /\ QueueSound /\ PlacesFit /\ r \in Worker /\ r \notin Delivery /\ UNCHANGED event
  BY Workers, Constants DEF IInv, QueueSound, FindUnprocessed
<1>2. /\ Alone(r) /\ UNCHANGED <<rows, received>>
      /\ work'[r].pc = "batch" /\ DOMAIN work'[r].batch = Oldest
      /\ Oldest # {} /\ Oldest \subseteq DOMAIN received
      /\ \A i \in Oldest : work'[r].batch[i] = rows[received[i]] /\ At(received[i], "idle")
  BY FindUnprocessedIs
<1>3. \A v \in Worker \ {r} : work'[v] = work[v] /\ (Handling(v)' <=> Handling(v)) /\ (At(v, "batch")' <=> At(v, "batch"))
  BY <1>2 DEF Alone, Handling, At
<1>4. ~Handling(r)' /\ At(r, "batch")'
  BY <1>2 DEF Handling, At
<1>5. \A q \in Redriver \ {r} : \A x : Holds(q, x)' => Holds(q, x)
  BY <1>2, <1>3, Workers DEF Holds
<1>6. \A x : Holds(r, x)' => At(x, "idle") /\ rows[x].attempts < MaxAttempts
  BY <1>2, <1>4 DEF Holds
<1>7. PlacesFit'
  BY <1>1, <1>2 DEF PlacesFit
<1>8. ASSUME NEW q \in Redriver PROVE BatchFits(q)'
  <2>1. CASE q = r
    <3>1. \A i \in DOMAIN received : received[i] \in Delivery
      BY <1>1 DEF Types
    <3>2. \A i \in Oldest : ~work'[r].batch[i].merchant => received[i] \in Unstamped
      BY <1>1, <1>2, <3>1 DEF PlacesFit
    <3> QED BY <1>2, <2>1, <3>2 DEF BatchFits
  <2>2. CASE q # r
    BY <1>1, <1>2, <1>3, <2>2, Workers DEF QueueSound, BatchFits
  <2> QED BY <2>1, <2>2
<1>9. ASSUME NEW v \in Worker, Handling(v)' PROVE WorkFits(v)'
  <2>1. v # r /\ Handling(v) /\ WorkFits(v) /\ work'[v] = work[v]
    BY <1>1, <1>3, <1>4, <1>9 DEF QueueSound
  <2>2. ~At(v, "idle")
    BY <2>1 DEF Handling, At
  <2>3. v \in Delivery => \A q \in Redriver : ~Holds(q, v)'
    BY <1>5, <1>6, <2>1, <2>2 DEF WorkFits
  <2> QED BY <1>1, <1>2, <2>1, <2>3 DEF WorkFits
<1>10. ASSUME NEW x \in Delivery PROVE Bounded(x)'
  <2>1. CASE Holds(r, x)'
    <3>1. rows'[x].attempts \in Nat /\ rows'[x].attempts <= MaxAttempts - 1
      BY <1>1, <1>2, <1>6, <2>1, Constants DEF Types, EventRow
    <3> QED BY <3>1, BoundedEarly
  <2>2. CASE ~Holds(r, x)'
    <3>1. Ebbs(x) /\ rows'[x].attempts = rows[x].attempts /\ Bounded(x)
      BY <1>1, <1>2, <1>5, <2>2 DEF Ebbs, QueueSound
    <3> QED BY <1>1, <3>1, BoundedKept
  <2> QED BY <2>1, <2>2
<1> QED BY <1>7, <1>8, <1>9, <1>10 DEF QueueSound, WorkFits

LEMMA RedriveQueue ==
  ASSUME IInv, NEW r \in Redriver, Redrive(r)
  PROVE  QueueSound'
<1>0. PICK item : item = Item(r)
  OBVIOUS
<1>1. Types /\ QueueSound /\ PlacesFit /\ BatchFits(r) /\ r \in Worker /\ r \notin Delivery /\ UNCHANGED event
  BY Workers, Constants DEF IInv, QueueSound, Redrive
<1>2. /\ Alone(r) /\ UNCHANGED received /\ work'[r].batch = Rest(r) /\ At(r, "batch")
      /\ work'[r].pc \in {"idle", "batch", "route"}
      /\ work'[r].pc = "batch" => DOMAIN Rest(r) # {}
      /\ PassesOver(r) \/ GivesUp(r) \/ TakesUp(r)
  BY RedriveIs
<1>3. /\ First(r) \in DOMAIN work[r].batch /\ DOMAIN work[r].batch \subseteq DOMAIN received
      /\ item = received[First(r)] /\ item \in Delivery
      /\ DOMAIN Rest(r) = DOMAIN work[r].batch \ {First(r)}
      /\ \A i \in DOMAIN Rest(r) : Rest(r)[i] = work[r].batch[i]
  BY <1>0, <1>2, ItemIs
<1>4. \A i \in DOMAIN Rest(r) : received[i] # item
  BY <1>1, <1>3 DEF PlacesFit
<1>5. item \in DOMAIN event /\ rows[item].status # "new"
  BY <1>1, <1>3 DEF PlacesFit
<1>6. \A v \in Worker \ {r} : work'[v] = work[v] /\ (Handling(v)' <=> Handling(v)) /\ (At(v, "batch")' <=> At(v, "batch"))
  BY <1>2 DEF Alone, Handling, At
<1>7. Handling(r)' <=> TakesUp(r)
  BY <1>2 DEF Handling, TakesUp, PassesOver, GivesUp
<1>8. ~Worn(r) => Holds(r, item)
  <2>1. work[r].batch[First(r)] \in EventRow
    <3>1. work[r].batch \in Batches
      BY <1>1 DEF Types, WorkRow
    <3> QED BY <1>3, <3>1, BatchIs
  <2>2. ~Worn(r) => work[r].batch[First(r)].attempts < MaxAttempts
    BY <2>1, Constants DEF Worn, EventRow
  <2> QED BY <1>3, <2>2 DEF Holds
<1>9. \A q \in Redriver : \A x : Holds(q, x)' => Holds(q, x)
  <2>1. \A q \in Redriver \ {r} : \A x : Holds(q, x)' => Holds(q, x)
    BY <1>2, <1>6, Workers DEF Holds
  <2>2. \A x : Handling(r)' /\ work'[r].d = x => Holds(r, x)
    BY <1>0, <1>7, <1>8 DEF TakesUp
  <2>3. \A x : (\E i \in DOMAIN work'[r].batch : received'[i] = x /\ work'[r].batch[i].attempts < MaxAttempts)
               => Holds(r, x)
    BY <1>2, <1>3 DEF Holds
  <2> QED BY <2>1, <2>2, <2>3 DEF Holds
<1>10. /\ \A x \in Delivery : /\ rows'[x].status = rows[x].status /\ rows'[x].merchant = rows[x].merchant
                              /\ rows'[x].attempts # rows[x].attempts =>
                                   x = item /\ GivesUp(r) /\ rows'[x].attempts = rows[x].attempts + 1
  <2>1. CASE GivesUp(r)
    <3>1. Failed(item)
      BY <1>0, <2>1 DEF GivesUp
    <3> QED BY <1>1, <1>3, <2>1, <3>1, FailedIs
  <2>2. CASE ~GivesUp(r)
    BY <1>2, <2>2 DEF PassesOver, TakesUp
  <2> QED BY <2>1, <2>2
<1>11. GivesUp(r) => Holds(r, item) /\ ~Holds(r, item)'
  <2>1. GivesUp(r) => ~Handling(r)' /\ ~Worn(r)
    BY <1>7 DEF GivesUp, TakesUp
  <2> QED BY <1>2, <1>4, <1>8, <2>1 DEF Holds
<1>12. PlacesFit'
  <2>1. RowsMove
    BY <1>1, <1>2, <1>10 DEF RowsMove
  <2> QED BY <1>1, <1>5, <1>10, <2>1, PlacesMove
<1>13. ASSUME NEW q \in Redriver PROVE BatchFits(q)'
  <2>1. CASE q = r
    <3>1. At(r, "batch")' => DOMAIN Rest(r) # {}
      BY <1>2 DEF At
    <3> QED BY <1>1, <1>2, <1>3, <2>1, <3>1 DEF BatchFits
  <2>2. CASE q # r
    BY <1>1, <1>2, <1>6, <2>2, Workers DEF QueueSound, BatchFits
  <2> QED BY <2>1, <2>2
<1>14. ASSUME NEW v \in Worker, Handling(v)' PROVE WorkFits(v)'
  <2>1. CASE v = r
    <3>1. work'[r].d = item
      BY <1>0, <1>7, <1>14, <2>1 DEF TakesUp
    <3> QED BY <1>1, <1>2, <1>3, <1>4, <1>5, <1>10, <2>1, <3>1 DEF WorkFits
  <2>2. CASE v # r
    <3>1. Handling(v) /\ WorkFits(v) /\ work'[v] = work[v]
      BY <1>1, <1>6, <1>14, <2>2 DEF QueueSound
    <3>2. work[v].d \in DOMAIN event /\ rows'[work[v].d].status # "new"
      BY <1>1, <1>10, <3>1 DEF WorkFits, Types, EventTypes
    <3>3. v \in Delivery => work[v].d = v /\ rows'[v].attempts = 0 /\ \A q \in Redriver : ~Holds(q, v)'
      BY <1>9, <1>10, <1>11, <3>1 DEF WorkFits
    <3> QED BY <1>1, <1>2, <3>1, <3>2, <3>3 DEF WorkFits
  <2> QED BY <2>1, <2>2
<1>15. ASSUME NEW x \in Delivery PROVE Bounded(x)'
  <2>1. Ebbs(x) /\ Bounded(x)
    BY <1>1, <1>9 DEF Ebbs, QueueSound
  <2>2. CASE rows'[x].attempts = rows[x].attempts
    BY <1>1, <2>1, <2>2, BoundedKept
  <2>3. CASE rows'[x].attempts # rows[x].attempts
    <3>1. x = item /\ rows'[x].attempts = rows[x].attempts + 1 /\ GivesUp(r)
      BY <1>10, <2>3
    <3>2. Holds(r, x) /\ ~Holds(r, x)'
      BY <1>11, <3>1
    <3> QED BY <1>1, <2>1, <3>1, <3>2, BoundedFailed
  <2> QED BY <2>2, <2>3
<1> QED BY <1>12, <1>13, <1>14, <1>15 DEF QueueSound, WorkFits

LEMMA StillQueue ==
  ASSUME IInv, UNCHANGED work, RowsMove,
         \A d \in Delivery : rows'[d].attempts = rows[d].attempts
  PROVE  QueueSound'
<1>1. Types /\ QueueSound /\ PlacesFit
  BY DEF IInv, QueueSound
<1>2. \A r, d : Holds(r, d)' <=> Holds(r, d)
  BY DEF Holds, Handling, At, RowsMove
<1>3. PlacesFit'
  BY <1>1, PlacesMove
<1>4. \A r \in Redriver : BatchFits(r)'
  BY <1>1 DEF QueueSound, BatchFits, At, RowsMove
<1>5. ASSUME NEW v \in Worker, Handling(v)' PROVE WorkFits(v)'
  <2>1. Handling(v) /\ WorkFits(v) /\ work[v].d \in Delivery
    BY <1>1, <1>5 DEF QueueSound, Handling, At, WorkFits, Types, EventTypes
  <2> QED BY <1>2, <2>1 DEF WorkFits, RowsMove
<1>6. ASSUME NEW d \in Delivery PROVE Bounded(d)'
  <2>1. Ebbs(d) /\ rows'[d].attempts = rows[d].attempts /\ Bounded(d)
    BY <1>1, <1>2 DEF Ebbs, QueueSound
  <2> QED BY <1>1, <2>1, BoundedKept
<1> QED BY <1>3, <1>4, <1>5, <1>6 DEF QueueSound, WorkFits

LEMMA InitQueue ==
  ASSUME Init PROVE QueueSound
<1>1. PICK h \in Histories : event = h.event /\ customers = h.table /\ received = h.received
  BY DEF Init
<1>2. /\ \A i, j \in DOMAIN received : received[i] = received[j] => i = j
      /\ \A i \in DOMAIN received : received[i] \in Unstamped /\ received[i] \in DOMAIN event
      /\ DOMAIN event \subseteq Delivery
  <2>1. /\ {h.received[i] : i \in DOMAIN h.received} = Unstamped \cap DOMAIN h.event
        /\ \A i, j \in DOMAIN h.received : h.received[i] = h.received[j] => i = j
        /\ DOMAIN h.event \subseteq Delivery
    BY DeliveriesAssumption
  <2>2. \A i \in DOMAIN received : received[i] \in {h.received[j] : j \in DOMAIN h.received}
    BY <1>1
  <2> QED BY <1>1, <2>1, <2>2
<1>3. \A w \in Worker : work[w] = Idle /\ ~Handling(w) /\ ~At(w, "batch") /\ DOMAIN work[w].batch = {}
  BY IdleIs DEF Init, Handling, At
<1>4. /\ \A d \in Delivery : rows[d].attempts = 0 /\ (~rows[d].merchant => d \in Unstamped)
      /\ \A d \in Unstamped \cap DOMAIN event : d \in Delivery => rows[d].status # "new"
  BY DEF Init
<1>5. PlacesFit
  BY <1>2, <1>4 DEF PlacesFit
<1>6. \A r \in Redriver : BatchFits(r)
  BY <1>3, Workers DEF BatchFits
<1>7. \A w \in Worker : WorkFits(w)
  BY <1>3 DEF WorkFits
<1>8. ASSUME NEW d \in Delivery PROVE Bounded(d)
  <2>1. Cardinality(Others(d)) \in Nat /\ MaxAttempts \in Nat \ {0} /\ rows[d].attempts = 0
    BY <1>4, OthersFinite, FS_CardinalityType, Constants
  <2>2. rows[d].attempts <= MaxAttempts - 1 + Cardinality(Others(d))
    BY <2>1
  <2> QED BY <2>2 DEF Bounded
<1> QED BY <1>5, <1>6, <1>7, <1>8 DEF QueueSound

\* A handler that throws leaves a failure on its delivery, and nothing else on any.
LEMMA ThrowQueue ==
  ASSUME IInv, NEW w \in Worker, Ends(w), Failed(work[w].d), UNCHANGED event
  PROVE  /\ QueueSound' /\ work[w].d \in Delivery
         /\ rows'[work[w].d].attempts = rows[work[w].d].attempts + 1
         /\ \A d \in Delivery \ {work[w].d} : rows'[d].attempts = rows[d].attempts
         /\ \A d \in Delivery : rows'[d].status = rows[d].status
<1>0. PICK mine : mine = work[w].d
  OBVIOUS
<1>1. Types /\ mine \in Delivery /\ UNCHANGED received
  BY <1>0, HandledIs DEF IInv, Ends
<1>2. /\ rows'[mine].attempts = rows[mine].attempts + 1
      /\ \A d \in Delivery \ {mine} : rows'[d].attempts = rows[d].attempts
      /\ \A d \in Delivery : rows'[d].status = rows[d].status /\ rows'[d].merchant = rows[d].merchant
  BY <1>0, <1>1, FailedIs
<1>3. RowsMove
  BY <1>1, <1>2 DEF RowsMove
<1>4. QueueSound'
  BY <1>0, <1>2, <1>3, EndsQueue
<1> QED BY <1>0, <1>1, <1>2, <1>4

LEMMA ProcessedQueue ==
  ASSUME IInv, NEW w \in Worker, Processed(w)
  PROVE  QueueSound'
<1>0. PICK mine : mine = work[w].d
  OBVIOUS
<1>1. /\ Ends(w) /\ UNCHANGED <<event, received>> /\ mine \in Delivery /\ rows[mine].status # "new"
      /\ \A d \in Delivery : /\ rows'[d].attempts = rows[d].attempts
                             /\ rows'[d].merchant = rows[d].merchant
                             /\ rows'[d].status = IF d = mine THEN "processed" ELSE rows[d].status
  <2>1. Types /\ QueueSound /\ Handling(w) /\ UNCHANGED <<event, received>>
    BY DEF IInv, Processed, Handling, At
  <2>2. mine \in Delivery /\ rows[mine].status # "new"
    BY <1>0, <2>1, HandledIs DEF QueueSound, WorkFits
  <2>3. Ends(w) /\ \A d \in Delivery : /\ rows'[d].attempts = rows[d].attempts
                                       /\ rows'[d].merchant = rows[d].merchant
                                       /\ rows'[d].status = IF d = mine THEN "processed" ELSE rows[d].status
    BY <1>0, ProcessedIs
  <2> QED BY <2>1, <2>2, <2>3
<1>2. RowsMove
  BY <1>1 DEF RowsMove
<1> QED BY <1>0, <1>1, <1>2, EndsQueue

LEMMA BackfillKeeps ==
  ASSUME IInv, NEW w \in Worker, Backfill(w)
  PROVE  Types' /\ QueueSound'
<1>1. At(w, "backfill") /\ (Fills(w) \/ (Clashes(w) /\ Throw(w) /\ UNCHANGED faults))
  BY BackfillIs
<1>2. CASE Fills(w)
  <2>1. Types' /\ Goes(w) /\ UNCHANGED event
    BY <1>1, <1>2, FillsIs DEF Fills
  <2> QED BY <2>1, GoesQueue
<1>3. CASE Throw(w) /\ UNCHANGED faults
  <2>1. Handling(w) /\ faults' \in 0..MaxFaults /\ UNCHANGED event
    BY <1>1, <1>3 DEF Handling, At, IInv, Types, Throw
  <2>2. Types' /\ Ends(w) /\ Failed(work[w].d)
    BY <1>3, <2>1, ThrowIs
  <2> QED BY <2>1, <2>2, ThrowQueue
<1> QED BY <1>1, <1>2, <1>3

LEMMA HandleKeeps ==
  ASSUME IInv, NEW w \in Worker, Handle(w)
  PROVE  Types' /\ QueueSound'
<1>1. CASE ProcessEvent(w)
  BY <1>1, ProcessEventIs, GoesQueue DEF ProcessEvent
<1>2. CASE FindCustomer(w)
  BY <1>2, FindCustomerIs, GoesQueue DEF FindCustomer
<1>3. CASE Backfill(w)
  BY <1>3, BackfillKeeps
<1>4. CASE InsertCustomer(w)
  BY <1>4, InsertCustomerIs, GoesQueue DEF InsertCustomer
<1>5. CASE ReselectCustomer(w)
  BY <1>5, ReselectCustomerIs, GoesQueue DEF ReselectCustomer
<1>6. CASE OpenCase(w)
  <2>1. UNCHANGED event
    BY <1>6 DEF OpenCase
  <2> QED BY <1>6, <2>1, OpenCaseIs, GoesQueue
<1>7. CASE HandleDowntime(w)
  <2>1. UNCHANGED event
    BY <1>7 DEF HandleDowntime
  <2> QED BY <1>7, <2>1, HandleDowntimeIs, GoesQueue
<1>8. CASE Processed(w)
  BY <1>8, ProcessedIs, ProcessedQueue
<1> QED BY <1>1, <1>2, <1>3, <1>4, <1>5, <1>6, <1>7, <1>8 DEF Handle

LEMMA QueueKept ==
  ASSUME IInv, [Next]_vars
  PROVE  Types' /\ QueueSound'
<1>1. ASSUME NEW d \in Delivery, Claim(d) PROVE Types' /\ QueueSound'
  BY <1>1, ClaimIs, ClaimQueue
<1>2. ASSUME NEW d \in Delivery, BackfillMerchant(d) PROVE Types' /\ QueueSound'
  <2>1. /\ Types' /\ UNCHANGED <<event, work, received>>
        /\ \A x \in Delivery : /\ rows'[x].status = rows[x].status
                               /\ rows'[x].attempts = rows[x].attempts
                               /\ rows'[x].merchant = (rows[x].merchant \/ x = d)
    BY <1>2, BackfillMerchantIs DEF BackfillMerchant
  <2>2. RowsMove
    BY <2>1 DEF RowsMove
  <2> QED BY <2>1, <2>2, StillQueue
<1>3. ASSUME NEW w \in Worker, Handle(w) PROVE Types' /\ QueueSound'
  BY <1>3, HandleKeeps
<1>4. ASSUME NEW w \in Worker, CallFails(w) PROVE Types' /\ QueueSound'
  <2>1. UNCHANGED event
    BY <1>4 DEF CallFails, Throw
  <2> QED BY <1>4, <2>1, CallFailsIs, ThrowQueue
<1>5. ASSUME NEW w \in Worker, Die(w) PROVE Types' /\ QueueSound'
  BY <1>5, DieIs, DieQueue
<1>6. ASSUME NEW r \in Redriver, FindUnprocessed(r) PROVE Types' /\ QueueSound'
  BY <1>6, FindUnprocessedIs, FindQueue
<1>7. ASSUME NEW r \in Redriver, Redrive(r) PROVE Types' /\ QueueSound'
  BY <1>7, RedriveIs, RedriveQueue
<1>8. ASSUME MerchantLeaves \/ UNCHANGED vars PROVE Types' /\ QueueSound'
  <2>1. Types' /\ UNCHANGED <<event, rows, received, work>>
    BY <1>8, StillIs
  <2>2. RowsMove
    BY <2>1 DEF RowsMove
  <2> QED BY <2>1, <2>2, StillQueue
<1> QED BY <1>1, <1>2, <1>3, <1>4, <1>5, <1>6, <1>7, <1>8 DEF Next

----------------------------------------------------------------------------
(* What was read of the customers table.                                    *)

\* A row's contact is still its, or written over.
KeptIn(before, after) ==
  /\ before.phone \in {None, after.phone} \cup lost'
  /\ before.email \in {None, after.email} \cup lost'

\* What a step may do to the customers: fill, write over for good, and add.
Remembers ==
  /\ UNCHANGED event /\ lost \subseteq lost'
  /\ gone => gone'
  /\ DOMAIN customers \subseteq DOMAIN customers'
  /\ \A i \in DOMAIN customers : KeptIn(customers[i], customers'[i])

LEMMA SameRemembers ==
  ASSUME UNCHANGED <<event, customers, lost>>, gone => gone'
  PROVE  Remembers
BY DEF Remembers, KeptIn

LEMMA FillsRemembers ==
  ASSUME IInv, NEW w \in Worker, At(w, "backfill"), Fills(w)
  PROVE  Remembers
<1>1. customers \in Seq(Reach) /\ work[w].id \in DOMAIN customers
  BY FillsIs DEF IInv, Types, CustomerTypes
<1>2. PICK row : row = customers[work[w].id]
  OBVIOUS
<1>3. PICK filled : filled = Filled(w)
  OBVIOUS
<1>4. /\ customers' = [customers EXCEPT ![work[w].id] = filled]
      /\ lost' = lost \cup ({row.phone, row.email} \ {filled.phone, filled.email, None})
      /\ UNCHANGED <<event, gone>>
  BY <1>2, <1>3 DEF Fills
<1>5. /\ filled.phone = row.phone \/ filled.phone \in Phone
      /\ filled.email = row.email \/ filled.email \in Email
      /\ row.phone \in Phone \cup {None} /\ row.email \in Email \cup {None}
  <2>1. row \in Reach /\ Contact(w) \in Reach
    <3>1. Types /\ QueueSound /\ Handling(w)
      BY DEF IInv, Handling, At
    <3> QED BY <1>1, <1>2, <3>1, HandledIs
  <2>2. /\ Contact(w).phone \in Phone \cup {None} /\ Contact(w).email \in Email \cup {None}
        /\ row.phone \in Phone \cup {None} /\ row.email \in Email \cup {None}
    BY <2>1, FieldsIs
  <2> QED BY <1>2, <1>3, <2>2 DEF Filled
<1>6. KeptIn(row, filled)
  <2>1. row.phone \in {None, filled.phone, filled.email} \cup lost'
    BY <1>4
  <2>2. row.email \in {None, filled.phone, filled.email} \cup lost'
    BY <1>4
  <2>3. row.phone = filled.email => row.phone = None
    BY <1>5, Constants
  <2>4. row.email = filled.phone => row.email = None
    BY <1>5, Constants
  <2> QED BY <2>1, <2>2, <2>3, <2>4 DEF KeptIn
<1>7. /\ DOMAIN customers' = DOMAIN customers
      /\ \A i \in DOMAIN customers : customers'[i] = IF i = work[w].id THEN filled ELSE customers[i]
  <2> HIDE DEF Reach
  <2> QED BY <1>1, <1>4
<1>8. \A i \in DOMAIN customers : KeptIn(customers[i], customers'[i])
  BY <1>2, <1>6, <1>7 DEF KeptIn
<1> QED BY <1>4, <1>7, <1>8 DEF Remembers

LEMMA InsertRemembers ==
  ASSUME IInv, NEW w \in Worker, InsertCustomer(w)
  PROVE  Remembers
<1>1. customers \in Seq(Reach) /\ UNCHANGED <<event, lost, gone>>
  BY DEF IInv, Types, CustomerTypes, InsertCustomer
<1>2. customers' = customers \/ customers' = Append(customers, Contact(w))
  BY DEF InsertCustomer
<1>3. DOMAIN customers \subseteq DOMAIN customers' /\ \A i \in DOMAIN customers : customers'[i] = customers[i]
  <2> HIDE DEF Reach
  <2> QED BY <1>1, <1>2
<1> QED BY <1>1, <1>3 DEF Remembers, KeptIn

LEMMA StepRemembers ==
  ASSUME IInv, [Next]_vars
  PROVE  Remembers
<1>1. ASSUME NEW w \in Worker, Backfill(w) PROVE Remembers
  <2>1. At(w, "backfill") /\ (Fills(w) \/ Throw(w))
    BY <1>1, BackfillIs
  <2>2. Throw(w) => UNCHANGED <<event, customers, lost>> /\ (gone => gone')
    BY DEF Throw
  <2> QED BY <2>1, <2>2, FillsRemembers, SameRemembers
<1>2. ASSUME NEW w \in Worker, InsertCustomer(w) PROVE Remembers
  BY <1>2, InsertRemembers
<1>3. ASSUME NEW w \in Worker, Handle(w), ~Backfill(w), ~InsertCustomer(w) PROVE Remembers
  <2>1. UNCHANGED <<event, customers, lost, gone>>
    BY <1>3 DEF Handle, ProcessEvent, FindCustomer, ReselectCustomer, OpenCase, HandleDowntime, Processed
  <2> QED BY <2>1, SameRemembers
<1>4. ASSUME NEW w \in Worker, CallFails(w) \/ Die(w) PROVE Remembers
  <2>1. UNCHANGED <<event, customers, lost, gone>>
    BY <1>4 DEF CallFails, Throw, Die
  <2> QED BY <2>1, SameRemembers
<1>5. ASSUME NEW d \in Delivery, Claim(d) \/ BackfillMerchant(d) PROVE Remembers
  <2>1. UNCHANGED <<event, customers, lost, gone>>
    BY <1>5 DEF Claim, BackfillMerchant
  <2> QED BY <2>1, SameRemembers
<1>6. ASSUME NEW r \in Redriver, FindUnprocessed(r) \/ Redrive(r) PROVE Remembers
  <2>1. UNCHANGED <<event, customers, lost, gone>>
    BY <1>6 DEF FindUnprocessed, Redrive
  <2> QED BY <2>1, SameRemembers
<1>7. ASSUME MerchantLeaves \/ UNCHANGED vars PROVE Remembers
  <2>1. UNCHANGED <<event, customers, lost>> /\ (gone => gone')
    BY <1>7 DEF MerchantLeaves, vars
  <2> QED BY <2>1, SameRemembers
<1> QED BY <1>1, <1>2, <1>3, <1>4, <1>5, <1>6, <1>7 DEF Next

LEMMA OverwrittenStays ==
  ASSUME Remembers, NEW d, Overwritten(d)
  PROVE  Overwritten(d)'
BY DEF Remembers, Overwritten

\* A row that has a contact has it after the step, or it is written over.
LEMMA MatchStays ==
  ASSUME Remembers, NEW contact, NEW i \in Matches(contact)
  PROVE  i \in Matches(contact)' \/ {contact.phone, contact.email} \cap lost' # {}
<1>1. i \in DOMAIN customers' /\ Shares(customers[i], contact) /\ KeptIn(customers[i], customers'[i])
  BY DEF Matches, Remembers
<1>2. CASE contact.phone \in lost' \/ contact.email \in lost'
  BY <1>2
<1>3. CASE ~(contact.phone \in lost' \/ contact.email \in lost')
  <2>1. Shares(customers'[i], contact)
    BY <1>1, <1>3 DEF Shares, KeptIn
  <2> QED BY <1>1, <2>1 DEF Matches
<1> QED BY <1>2, <1>3

LEMMA SplitNext ==
  ASSUME Types', NEW d, event'[d].kind = "failed",
         NEW i, NEW j, i # j, i \in Matches(ContactOf(event[d]))', j \in Matches(ContactOf(event[d]))'
  PROVE  Split(d)'
<1>0. PICK M : M = Matches(ContactOf(event[d]))'
  OBVIOUS
<1>1. M \subseteq 1..Len(customers') /\ Len(customers') \in Nat
  BY <1>0 DEF Matches, Types, CustomerTypes
<1>2. IsFiniteSet(M)
  <2>1. IsFiniteSet(1..Len(customers'))
    BY <1>1, FS_Interval
  <2> QED BY <1>1, <2>1, FS_Subset
<1>3. Cardinality(M) > 1
  BY <1>0, <1>2, MoreThanOne
<1> QED BY <1>0, <1>3 DEF Split

\* So a cause for giving up is never taken back.
LEMMA CauseStays ==
  ASSUME Types, Types', Remembers, NEW d \in Delivery, Cause(d)
  PROVE  Cause(d)'
<1>1. CASE Split(d)
  <2>1. PICK i, j \in Matches(ContactOf(event[d])) : i # j
    BY <1>1, SplitIs
  <2>2. event'[d] = event[d] /\ event'[d].kind = "failed"
    BY <1>1 DEF Split, Remembers
  <2>3. CASE Overwritten(d)'
    BY <2>3 DEF Cause
  <2>4. CASE ~Overwritten(d)'
    <3>1. {ContactOf(event[d]).phone, ContactOf(event[d]).email} \cap lost' = {}
      BY <2>2, <2>4 DEF Overwritten, ContactOf
    <3>2. i \in Matches(ContactOf(event[d]))' /\ j \in Matches(ContactOf(event[d]))'
      <4>1. PICK contact : contact = ContactOf(event[d])
        OBVIOUS
      <4>2. i \in Matches(contact)' /\ j \in Matches(contact)'
        BY <2>1, <3>1, <4>1, MatchStays
      <4> QED BY <2>2, <4>1, <4>2 DEF Matches, Remembers
    <3> QED BY <2>1, <2>2, <3>2, SplitNext DEF Cause
  <2> QED BY <2>3, <2>4
<1>2. CASE Overwritten(d)
  BY <1>2, OverwrittenStays DEF Cause
<1>3. CASE gone \/ d \in Unstamped
  BY <1>3 DEF Cause, Remembers
<1> QED BY <1>1, <1>2, <1>3 DEF Cause

\* A handler that makes no step knows what it knew.
LEMMA UpsertStays ==
  ASSUME Remembers, NEW v \in Worker, UpsertSound(v), work'[v] = work[v]
  PROVE  UpsertSound(v)'
<1>0. PICK contact, d, i, read : contact = Contact(v) /\ d = work[v].d /\ i = work[v].id /\ read = work[v].read
  OBVIOUS
<1>1. /\ contact = Contact(v)' /\ event' = event /\ contact = ContactOf(event[d])
      /\ d = work'[v].d /\ i = work'[v].id /\ read = work'[v].read
  BY <1>0 DEF Remembers, Contact
<1>2. \A pc : At(v, pc)' <=> At(v, pc)
  BY DEF At
<1>3. Overwritten(d) => Overwritten(d)'
  BY OverwrittenStays
<1>4. ASSUME At(v, "backfill") PROVE i \in DOMAIN customers' /\ Shares(read, contact) /\ KeptIn(read, customers'[i])
  <2>1. i \in DOMAIN customers /\ Shares(read, contact) /\ StillThere(read, customers[i])
    BY <1>0, <1>4 DEF UpsertSound
  <2>2. i \in DOMAIN customers' /\ lost \subseteq lost' /\ KeptIn(customers[i], customers'[i])
    BY <2>1 DEF Remembers
  <2> QED BY <2>1, <2>2 DEF StillThere, KeptIn
<1>5. ASSUME At(v, "reselect") PROVE Matches(contact)' # {} \/ Overwritten(d)'
  <2>1. CASE Matches(contact) = {}
    BY <1>0, <1>3, <1>5, <2>1 DEF UpsertSound
  <2>2. ASSUME NEW k \in Matches(contact) PROVE Matches(contact)' # {} \/ Overwritten(d)'
    <3>1. k \in Matches(contact)' \/ {contact.phone, contact.email} \cap lost' # {}
      BY MatchStays
    <3>2. contact.phone = event'[d].phone /\ contact.email = event'[d].email
      BY <1>1 DEF ContactOf
    <3> QED BY <3>1, <3>2 DEF Overwritten
  <2> QED BY <2>1, <2>2
<1>6. At(v, "case") => i # 0 \/ contact = Nobody \/ Overwritten(d)'
  BY <1>0, <1>3 DEF UpsertSound
<1>7. /\ work[v].pc \in Upserting => event[d].kind = "failed"
      /\ At(v, "downtime") => event[d].kind # "failed"
  BY <1>0 DEF UpsertSound
<1>8. At(v, "reselect") => Matches(Contact(v))' # {} \/ Overwritten(d)'
  BY <1>1, <1>5 DEF Matches
<1>9. At(v, "backfill") => StillThere(read, customers[i])'
  BY <1>4 DEF StillThere, KeptIn
<1>10. /\ work'[v].pc \in Upserting => event'[work'[v].d].kind = "failed"
       /\ At(v, "downtime")' => event'[work'[v].d].kind # "failed"
  BY <1>1, <1>2, <1>7
<1>11. At(v, "backfill")' => /\ work'[v].id \in DOMAIN customers'
                            /\ Shares(work'[v].read, Contact(v)')
                            /\ StillThere(work[v].read, customers[work[v].id])'
  BY <1>1, <1>2, <1>4, <1>9 DEF StillThere
<1>12. At(v, "reselect")' => Matches(Contact(v))' # {} \/ Overwritten(work[v].d)'
  BY <1>1, <1>2, <1>8 DEF Overwritten
<1>13. At(v, "case")' => work'[v].id # 0 \/ Contact(v)' = Nobody \/ Overwritten(work[v].d)'
  BY <1>1, <1>2, <1>6 DEF Overwritten
<1> HIDE DEF StillThere
<1> QED BY <1>10, <1>11, <1>12, <1>13 DEF UpsertSound, Shares

\* One that is not among the customers knows nothing of them.
LEMMA Elsewhere ==
  ASSUME NEW w \in Worker, work'[w].pc \in {"idle", "batch", "route", "mark"}
  PROVE  UpsertSound(w)'
BY DEF UpsertSound, At, Upserting

LEMMA RouteSound ==
  ASSUME IInv, NEW w \in Worker, ProcessEvent(w)
  PROVE  UpsertSound(w)'
<1>1. Goes(w) /\ UNCHANGED event
  BY ProcessEventIs DEF ProcessEvent
<1>2. work[w] \in WorkRow /\ work' = [work EXCEPT ![w].pc = work'[w].pc]
  BY DEF IInv, Types, ProcessEvent, Goto
<1>3. work'[w].pc = CASE event[work[w].d].kind = "failed" -> "customer"
                      [] event[work[w].d].kind \in {"started", "updated", "resolved"} -> "downtime"
                      [] OTHER -> "mark"
  <2>1. PICK pc : /\ Goto(w, pc)
                  /\ pc = CASE event[work[w].d].kind = "failed" -> "customer"
                            [] event[work[w].d].kind \in {"started", "updated", "resolved"} -> "downtime"
                            [] OTHER -> "mark"
    BY DEF ProcessEvent
  <2>2. pc \in Positions
    BY <2>1 DEF Positions, Upserting
  <2>3. work'[w].pc = pc
    BY <2>1, <2>2, GotoIs DEF IInv
  <2> QED BY <2>1, <2>3
<1>4. CASE event[work[w].d].kind = "failed"
  <2>1. work'[w].pc = "customer" /\ event'[work'[w].d].kind = "failed"
    BY <1>1, <1>3, <1>4 DEF Goes
  <2> QED BY <2>1 DEF UpsertSound, At
<1>5. CASE event[work[w].d].kind \in {"started", "updated", "resolved"}
  <2>1. work'[w].pc = "downtime" /\ event'[work'[w].d].kind # "failed"
    BY <1>1, <1>3, <1>5 DEF Goes
  <2> QED BY <2>1 DEF UpsertSound, At, Upserting
<1>6. CASE event[work[w].d].kind \notin {"failed", "started", "updated", "resolved"}
  <2>1. work'[w].pc = "mark"
    BY <1>3, <1>6
  <2> QED BY <2>1, Elsewhere
<1> QED BY <1>4, <1>5, <1>6

LEMMA FindSound ==
  ASSUME IInv, NEW w \in Worker, FindCustomer(w)
  PROVE  UpsertSound(w)'
<1>0. PICK contact : contact = Contact(w)
  OBVIOUS
<1>1. /\ Types /\ Goes(w) /\ UNCHANGED <<event, customers, lost>> /\ customers \in Seq(Reach)
      /\ event[work[w].d].kind = "failed"
  BY FindCustomerIs DEF IInv, Types, CustomerTypes, FindCustomer, CustomersSound, UpsertSound, At, Upserting
<1>2. work'[w].d = work[w].d /\ Contact(w)' = contact /\ event'[work'[w].d].kind = "failed"
  BY <1>0, <1>1 DEF Goes, Contact
<1>3. CASE Matches(contact) = {}
  <2>1. PICK pc \in {"case", "insert"} : Goto(w, pc) /\ (pc = "case" => contact = Nobody)
    BY <1>0, <1>3 DEF FindCustomer
  <2>2. work'[w].pc = pc
    <3>1. pc \in Positions
      BY DEF Positions, Upserting
    <3> QED BY <1>1, <2>1, <3>1, GotoIs
  <2> QED BY <1>2, <2>1, <2>2 DEF UpsertSound, At
<1>4. CASE Matches(contact) # {}
  <2>1. PICK i \in Matches(contact) :
          work' = [work EXCEPT ![w] = [@ EXCEPT !.pc = "backfill", !.id = i, !.read = customers[i]]]
    BY <1>0, <1>4 DEF FindCustomer
  <2>2. i \in DOMAIN customers /\ i \in Nat /\ customers[i] \in Reach /\ Shares(customers[i], contact)
    <3> HIDE DEF Reach
    <3> QED BY <1>1 DEF Matches
  <2>3. TurnsTo(w, "backfill", i, customers[i])
    BY <2>1 DEF TurnsTo
  <2>4. work'[w].pc = "backfill" /\ work'[w].id = i /\ work'[w].read = customers[i]
    <3>1. "backfill" \in Positions
      BY DEF Positions, Upserting
    <3> QED BY <1>1, <2>2, <2>3, <3>1, TurnIs
  <2>5. StillThere(work[w].read, customers[work[w].id])'
    BY <1>1, <2>4 DEF StillThere
  <2> QED BY <1>1, <1>2, <2>2, <2>4, <2>5 DEF UpsertSound, At
<1> QED BY <1>3, <1>4

LEMMA FillsSound ==
  ASSUME IInv, NEW w \in Worker, At(w, "backfill"), Fills(w)
  PROVE  UpsertSound(w)'
<1>1. Goes(w) /\ work[w].id \in DOMAIN customers /\ work'[w].pc = "case" /\ work'[w].id = work[w].id
  BY FillsIs
<1>2. customers \in Seq(Reach) /\ UNCHANGED event /\ event[work[w].d].kind = "failed"
  BY DEF IInv, Types, CustomerTypes, Fills, CustomersSound, UpsertSound, At, Upserting
<1>3. work'[w].id # 0
  <2> HIDE DEF Reach
  <2> QED BY <1>1, <1>2
<1>4. event'[work'[w].d].kind = "failed"
  BY <1>1, <1>2 DEF Goes
<1> QED BY <1>1, <1>3, <1>4 DEF UpsertSound, At

LEMMA InsertSound ==
  ASSUME IInv, NEW w \in Worker, InsertCustomer(w)
  PROVE  UpsertSound(w)'
<1>0. PICK contact : contact = Contact(w)
  OBVIOUS
<1>1. /\ Types /\ Goes(w) /\ Contact(w) \in Reach /\ UNCHANGED event /\ customers \in Seq(Reach)
      /\ event[work[w].d].kind = "failed"
  BY InsertCustomerIs DEF IInv, Types, CustomerTypes, InsertCustomer, CustomersSound, UpsertSound, At, Upserting
<1>2. work'[w].d = work[w].d /\ Contact(w)' = contact /\ event'[work'[w].d].kind = "failed"
  BY <1>0, <1>1 DEF Goes, Contact
<1>3. CASE Matches(contact) = {}
  <2>1. /\ customers' = Append(customers, contact)
        /\ work' = [work EXCEPT ![w].pc = "case", ![w].id = Len(customers')]
    BY <1>0, <1>3 DEF InsertCustomer
  <2>2. Len(customers') \in Nat \ {0}
    <3> HIDE DEF Reach
    <3> QED BY <1>0, <1>1, <2>1
  <2>3. work'[w].pc = "case" /\ work'[w].id = Len(customers')
    <3>1. TurnsTo(w, "case", Len(customers'), work[w].read)
      BY <1>1, <2>1, TurnsByPlace
    <3>2. work[w].read \in Reach /\ "case" \in Positions
      BY <1>1 DEF Types, WorkRow, Positions, Upserting
    <3> QED BY <1>1, <2>2, <3>1, <3>2, TurnIs
  <2> QED BY <1>2, <2>2, <2>3 DEF UpsertSound, At
<1>4. CASE Matches(contact) # {}
  <2>1. Goto(w, "reselect") /\ UNCHANGED customers
    BY <1>0, <1>4 DEF InsertCustomer
  <2>2. work'[w].pc = "reselect"
    <3>1. "reselect" \in Positions
      BY DEF Positions, Upserting
    <3> QED BY <1>1, <2>1, <3>1, GotoIs
  <2>3. Matches(contact)' # {}
    BY <1>4, <2>1 DEF Matches
  <2>4. Matches(Contact(w))' # {}
    BY <1>2, <2>3 DEF Matches
  <2> QED BY <1>2, <2>2, <2>4 DEF UpsertSound, At
<1> QED BY <1>3, <1>4

LEMMA ReselectSound ==
  ASSUME IInv, NEW w \in Worker, ReselectCustomer(w)
  PROVE  UpsertSound(w)'
<1>1. /\ Goes(w) /\ work'[w].pc = "case"
      /\ (Matches(Contact(w)) # {} /\ work'[w].id # 0) \/ (Matches(Contact(w)) = {})
  BY ReselectCustomerIs
<1>2. /\ UNCHANGED <<event, lost>> /\ event[work[w].d].kind = "failed"
      /\ Matches(Contact(w)) # {} \/ Overwritten(work[w].d)
  BY DEF IInv, ReselectCustomer, CustomersSound, UpsertSound, At, Upserting
<1>3. work'[w].d = work[w].d /\ event'[work'[w].d].kind = "failed"
  BY <1>1, <1>2 DEF Goes
<1>4. work'[w].id # 0 \/ Overwritten(work[w].d)'
  BY <1>1, <1>2, <1>3 DEF Overwritten
<1> QED BY <1>1, <1>3, <1>4 DEF UpsertSound, At

\* The unique indexes hold.
LEMMA FillsUnique ==
  ASSUME IInv, NEW w \in Worker, At(w, "backfill"), Fills(w)
  PROVE  NoneShared(customers')
<1>1. /\ customers \in Seq(Reach) /\ NoneShared(customers) /\ work[w].id \in DOMAIN customers
  BY FillsIs DEF IInv, Types, CustomerTypes, CustomersSound
<1>2. PICK i, filled : i = work[w].id /\ filled = Filled(w)
  OBVIOUS
<1>3. /\ \A k \in DOMAIN customers \ {i} : ~Shares(customers[k], filled)
      /\ customers' = [customers EXCEPT ![i] = filled]
  BY <1>2 DEF Fills
<1>4. /\ DOMAIN customers' = DOMAIN customers /\ customers'[i] = filled
      /\ \A k \in DOMAIN customers \ {i} : customers'[k] = customers[k]
  <2> HIDE DEF Reach
  <2> QED BY <1>1, <1>2, <1>3
<1> SUFFICES ASSUME NEW j \in DOMAIN customers', NEW k \in DOMAIN customers',
                    Shares(customers'[j], customers'[k]), j # k
             PROVE  FALSE
  BY DEF NoneShared
<1>5. Shares(customers'[k], customers'[j])
  BY DEF Shares
<1>6. CASE j = i
  BY <1>3, <1>4, <1>5, <1>6
<1>7. CASE k = i
  BY <1>3, <1>4, <1>7
<1>8. CASE j # i /\ k # i
  BY <1>1, <1>4, <1>8 DEF NoneShared
<1> QED BY <1>6, <1>7, <1>8

LEMMA InsertUnique ==
  ASSUME IInv, NEW w \in Worker, InsertCustomer(w)
  PROVE  NoneShared(customers')
<1>1. customers \in Seq(Reach) /\ NoneShared(customers)
  BY DEF IInv, Types, CustomerTypes, CustomersSound
<1>2. CASE Matches(Contact(w)) # {}
  BY <1>1, <1>2 DEF InsertCustomer
<1>3. CASE Matches(Contact(w)) = {}
  <2>1. PICK contact : contact = Contact(w)
    OBVIOUS
  <2>2. customers' = Append(customers, contact) /\ \A k \in DOMAIN customers : ~Shares(customers[k], contact)
    BY <1>3, <2>1 DEF InsertCustomer, Matches
  <2>3. \A k \in DOMAIN customers' : \/ k \in DOMAIN customers /\ customers'[k] = customers[k]
                                     \/ k = Len(customers) + 1 /\ customers'[k] = contact
    <3> HIDE DEF Reach
    <3> QED BY <1>1, <2>2
  <2> SUFFICES ASSUME NEW j \in DOMAIN customers', NEW k \in DOMAIN customers',
                      Shares(customers'[j], customers'[k]), j # k
               PROVE  FALSE
    BY DEF NoneShared
  <2>4. Shares(customers'[k], customers'[j])
    BY DEF Shares
  <2>5. CASE j \in DOMAIN customers /\ k \in DOMAIN customers /\ customers'[j] = customers[j] /\ customers'[k] = customers[k]
    BY <1>1, <2>5 DEF NoneShared
  <2>6. CASE j \in DOMAIN customers /\ customers'[j] = customers[j] /\ customers'[k] = contact
    BY <2>2, <2>6
  <2>7. CASE k \in DOMAIN customers /\ customers'[k] = customers[k] /\ customers'[j] = contact
    BY <2>2, <2>4, <2>7
  <2> QED BY <2>3, <2>5, <2>6, <2>7
<1> QED BY <1>2, <1>3

\* A step that leaves the table alone and moves one handler, if any.
LEMMA MoveSound ==
  ASSUME IInv, Remembers, NEW w \in Worker, Alone(w), NoneShared(customers'), UpsertSound(w)'
  PROVE  CustomersSound'
<1>1. ASSUME NEW v \in Worker \ {w} PROVE UpsertSound(v)'
  <2>1. work'[v] = work[v] /\ UpsertSound(v)
    BY DEF Alone, IInv, CustomersSound
  <2> QED BY <2>1, UpsertStays
<1> QED BY <1>1 DEF CustomersSound

LEMMA EndsSound ==
  ASSUME NEW w \in Worker, Ends(w)
  PROVE  UpsertSound(w)' /\ Alone(w)
<1>1. work'[w].pc \in {"idle", "batch"} /\ Alone(w)
  BY DEF Ends
<1> QED BY <1>1, Elsewhere

LEMMA HandleSound ==
  ASSUME IInv, Remembers, NEW w \in Worker, Handle(w)
  PROVE  CustomersSound'
<1>1. NoneShared(customers)
  BY DEF IInv, CustomersSound
<1>2. CASE ProcessEvent(w)
  <2>1. UNCHANGED customers /\ Alone(w)
    BY <1>2, ProcessEventIs DEF ProcessEvent, Goes
  <2> QED BY <1>1, <1>2, <2>1, RouteSound, MoveSound
<1>3. CASE FindCustomer(w)
  <2>1. UNCHANGED customers /\ Alone(w)
    BY <1>3, FindCustomerIs DEF FindCustomer, Goes
  <2> QED BY <1>1, <1>3, <2>1, FindSound, MoveSound
<1>4. CASE Backfill(w)
  <2>1. At(w, "backfill") /\ (Fills(w) \/ (Throw(w) /\ UNCHANGED faults))
    BY <1>4, BackfillIs
  <2>2. CASE Fills(w)
    <3>1. Alone(w)
      BY <2>1, <2>2, FillsIs DEF Goes
    <3> QED BY <2>1, <2>2, <3>1, FillsSound, FillsUnique, MoveSound
  <2>3. CASE Throw(w) /\ UNCHANGED faults
    <3>1. Handling(w) /\ faults' \in 0..MaxFaults /\ UNCHANGED customers
      BY <2>1, <2>3 DEF Handling, At, IInv, Types, Throw
    <3>2. Ends(w)
      BY <2>3, <3>1, ThrowIs
    <3> QED BY <1>1, <3>1, <3>2, EndsSound, MoveSound
  <2> QED BY <2>1, <2>2, <2>3
<1>5. CASE InsertCustomer(w)
  <2>1. Alone(w)
    BY <1>5, InsertCustomerIs DEF Goes
  <2> QED BY <1>5, <2>1, InsertSound, InsertUnique, MoveSound
<1>6. CASE ReselectCustomer(w)
  <2>1. UNCHANGED customers /\ Alone(w)
    BY <1>6, ReselectCustomerIs DEF ReselectCustomer, Goes
  <2> QED BY <1>1, <1>6, <2>1, ReselectSound, MoveSound
<1>7. CASE OpenCase(w)
  <2>1. UNCHANGED customers /\ Alone(w) /\ work'[w].pc = "mark"
    BY <1>7, OpenCaseIs DEF OpenCase, Goes
  <2> QED BY <1>1, <2>1, Elsewhere, MoveSound
<1>8. CASE HandleDowntime(w)
  <2>1. UNCHANGED customers /\ Alone(w) /\ work'[w].pc = "mark"
    BY <1>8, HandleDowntimeIs DEF HandleDowntime, Goes
  <2> QED BY <1>1, <2>1, Elsewhere, MoveSound
<1>9. CASE Processed(w)
  <2>1. UNCHANGED customers /\ Ends(w)
    BY <1>9, ProcessedIs DEF Processed
  <2> QED BY <1>1, <2>1, EndsSound, MoveSound
<1> QED BY <1>2, <1>3, <1>4, <1>5, <1>6, <1>7, <1>8, <1>9 DEF Handle

LEMMA CustomersKept ==
  ASSUME IInv, [Next]_vars
  PROVE  CustomersSound'
<1>0. Remembers /\ NoneShared(customers)
  BY StepRemembers DEF IInv, CustomersSound
<1>1. ASSUME NEW d \in Delivery, Claim(d) PROVE CustomersSound'
  <2>1. UNCHANGED customers /\ Alone(d) /\ work'[d].pc \in {"idle", "route"} /\ d \in Worker
    BY <1>1, ClaimIs, Workers DEF Claim
  <2> QED BY <1>0, <2>1, Elsewhere, MoveSound
<1>2. ASSUME UNCHANGED <<work, customers>> PROVE CustomersSound'
  <2>1. ASSUME NEW v \in Worker PROVE UpsertSound(v)'
    <3>1. UpsertSound(v) /\ work'[v] = work[v]
      BY <1>2 DEF IInv, CustomersSound
    <3> QED BY <1>0, <3>1, UpsertStays
  <2> QED BY <1>0, <1>2, <2>1 DEF CustomersSound
<1>3. ASSUME NEW w \in Worker, Handle(w) PROVE CustomersSound'
  BY <1>0, <1>3, HandleSound
<1>4. ASSUME NEW w \in Worker, CallFails(w) PROVE CustomersSound'
  <2>1. UNCHANGED customers /\ Ends(w)
    BY <1>4, CallFailsIs DEF CallFails, Throw
  <2> QED BY <1>0, <2>1, EndsSound, MoveSound
<1>5. ASSUME NEW w \in Worker, Die(w) PROVE CustomersSound'
  <2>1. UNCHANGED customers /\ Alone(w) /\ work'[w].pc = "idle"
    BY <1>5, DieIs, IdleIs DEF Die
  <2> QED BY <1>0, <2>1, Elsewhere, MoveSound
<1>6. ASSUME NEW r \in Redriver, FindUnprocessed(r) PROVE CustomersSound'
  <2>1. UNCHANGED customers /\ Alone(r) /\ work'[r].pc = "batch" /\ r \in Worker
    BY <1>6, FindUnprocessedIs, Workers DEF FindUnprocessed
  <2> QED BY <1>0, <2>1, Elsewhere, MoveSound
<1>7. ASSUME NEW r \in Redriver, Redrive(r) PROVE CustomersSound'
  <2>1. UNCHANGED customers /\ Alone(r) /\ work'[r].pc \in {"idle", "batch", "route"} /\ r \in Worker
    BY <1>7, RedriveIs, Workers DEF Redrive
  <2> QED BY <1>0, <2>1, Elsewhere, MoveSound
<1>8. ASSUME NEW d \in Delivery, BackfillMerchant(d) PROVE CustomersSound'
  BY <1>2, <1>8 DEF BackfillMerchant
<1>9. ASSUME MerchantLeaves \/ UNCHANGED vars PROVE CustomersSound'
  BY <1>2, <1>9 DEF MerchantLeaves, vars
<1> QED BY <1>1, <1>3, <1>4, <1>5, <1>6, <1>7, <1>8, <1>9 DEF Next

----------------------------------------------------------------------------
(* Why a delivery fails for good, and what a processed one leaves.          *)

\* A backfill that violates an index: the contact is another's as well, or was the
\* matched row's until it was written over.
LEMMA ClashIsCause ==
  ASSUME IInv, NEW w \in Worker, At(w, "backfill"), Clashes(w)
  PROVE  Cause(work[w].d)
<1>1. /\ Types /\ NoneShared(customers) /\ work[w].id \in DOMAIN customers
      /\ Shares(work[w].read, Contact(w)) /\ StillThere(work[w].read, customers[work[w].id])
      /\ event[work[w].d].kind = "failed"
  BY DEF IInv, CustomersSound, UpsertSound, At, Upserting
<1>2. PICK d, read, row, contact : /\ d = work[w].d /\ read = work[w].read
                                   /\ row = customers[work[w].id] /\ contact = Contact(w)
  OBVIOUS
<1>3. contact = ContactOf(event[d])
  BY <1>2 DEF Contact
<1>4. PICK i \in DOMAIN customers \ {work[w].id} : Shares(customers[i], Filled(w))
  BY DEF Clashes
<1>5. ~Shares(customers[i], row)
  BY <1>1, <1>2, <1>4 DEF NoneShared
<1>6. /\ Filled(w).phone = IF read.phone = None /\ contact.phone # None THEN contact.phone ELSE row.phone
      /\ Filled(w).email = IF read.email = None /\ contact.email # None THEN contact.email ELSE row.email
  BY <1>2 DEF Filled
<1>7. CASE customers[i].phone # None /\ customers[i].phone = Filled(w).phone
  <2>1. read.phone = None /\ contact.phone = customers[i].phone
    BY <1>5, <1>6, <1>7 DEF Shares
  <2>2. read.email # None /\ read.email = contact.email
    BY <1>1, <1>2, <2>1 DEF Shares
  <2>3. contact.email = row.email \/ contact.email \in lost
    BY <1>1, <1>2, <2>2 DEF StillThere
  <2>4. contact.email = row.email => i \in Matches(contact) /\ work[w].id \in Matches(contact)
    BY <1>1, <1>2, <1>4, <1>7, <2>1, <2>2 DEF Matches, Shares
  <2>5. contact.email \in lost => Overwritten(d)
    BY <1>3 DEF Overwritten, ContactOf
  <2>6. contact.email = row.email => Split(d)
    BY <1>1, <1>2, <1>3, <1>4, <2>4, SplitIs
  <2> QED BY <1>2, <2>3, <2>5, <2>6 DEF Cause
<1>8. CASE customers[i].email # None /\ customers[i].email = Filled(w).email
  <2>1. read.email = None /\ contact.email = customers[i].email
    BY <1>5, <1>6, <1>8 DEF Shares
  <2>2. read.phone # None /\ read.phone = contact.phone
    BY <1>1, <1>2, <2>1 DEF Shares
  <2>3. contact.phone = row.phone \/ contact.phone \in lost
    BY <1>1, <1>2, <2>2 DEF StillThere
  <2>4. contact.phone = row.phone => i \in Matches(contact) /\ work[w].id \in Matches(contact)
    BY <1>1, <1>2, <1>4, <1>8, <2>1, <2>2 DEF Matches, Shares
  <2>5. contact.phone \in lost => Overwritten(d)
    BY <1>3 DEF Overwritten, ContactOf
  <2>6. contact.phone = row.phone => Split(d)
    BY <1>1, <1>2, <1>3, <1>4, <2>4, SplitIs
  <2> QED BY <1>2, <2>3, <2>5, <2>6 DEF Cause
<1> QED BY <1>4, <1>7, <1>8 DEF Shares

\* And a redriver gives up what nobody is named on.
LEMMA GivenUpIsCause ==
  ASSUME IInv, NEW r \in Redriver, At(r, "batch"), Hopeless(r)
  PROVE  Cause(Item(r))
<1>1. First(r) \in DOMAIN work[r].batch /\ Item(r) = received[First(r)]
  BY ItemIs
<1>2. ~work[r].batch[First(r)].merchant => Item(r) \in Unstamped
  BY <1>1 DEF IInv, QueueSound, BatchFits
<1> QED BY <1>2 DEF Hopeless, Cause

LEMMA FailureMoves ==
  ASSUME IInv, Types', Remembers, faults <= faults',
         \A d \in Delivery : \/ rows'[d].attempts = rows[d].attempts
                             \/ rows'[d].attempts = rows[d].attempts + 1 /\ (Cause(d) \/ faults' = faults + 1)
  PROVE  FailedForCause'
<1> SUFFICES ASSUME NEW d \in Delivery, rows'[d].attempts > faults' PROVE Cause(d)'
  BY DEF FailedForCause
<1>1. Types /\ rows[d].attempts \in Nat /\ faults \in Nat /\ faults' \in Nat
  BY DEF IInv, Types, EventRow
<1>2. rows[d].attempts > faults \/ Cause(d)
  BY <1>1
<1>3. Cause(d)
  BY <1>2 DEF IInv, FailedForCause
<1> QED BY <1>1, <1>3, CauseStays

LEMMA FailuresKept ==
  ASSUME IInv, [Next]_vars
  PROVE  FailedForCause'
<1>0. Remembers /\ Types /\ Types' /\ QueueSound /\ faults \in Nat /\ faults' \in Nat
  BY StepRemembers, QueueKept DEF IInv, Types
<1>1. ASSUME faults <= faults', \A d \in Delivery : rows'[d].attempts = rows[d].attempts
      PROVE  FailedForCause'
  BY <1>0, <1>1, FailureMoves
<1>2. ASSUME UNCHANGED <<rows, faults>> PROVE FailedForCause'
  BY <1>0, <1>1, <1>2
<1>3. ASSUME NEW w \in Worker, Backfill(w) PROVE FailedForCause'
  <2>1. At(w, "backfill") /\ (Fills(w) \/ (Clashes(w) /\ Throw(w) /\ UNCHANGED faults))
    BY <1>3, BackfillIs
  <2>2. CASE Fills(w)
    BY <1>2, <2>2 DEF Fills
  <2>3. CASE Clashes(w) /\ Throw(w) /\ UNCHANGED faults
    <3>1. PICK mine : mine = work[w].d
      OBVIOUS
    <3>2. Cause(mine) /\ Handling(w) /\ UNCHANGED event /\ faults' \in 0..MaxFaults
      BY <2>1, <2>3, <3>1, ClashIsCause DEF Handling, At, Throw, IInv, Types
    <3>3. Ends(w) /\ Failed(work[w].d)
      BY <2>3, <3>2, ThrowIs
    <3>4. /\ rows'[mine].attempts = rows[mine].attempts + 1
          /\ \A d \in Delivery \ {mine} : rows'[d].attempts = rows[d].attempts
      BY <3>1, <3>2, <3>3, ThrowQueue
    <3> QED BY <1>0, <2>3, <3>2, <3>4, FailureMoves
  <2> QED BY <2>1, <2>2, <2>3
<1>4. ASSUME NEW w \in Worker, Handle(w), ~Backfill(w) PROVE FailedForCause'
  <2>1. CASE Processed(w)
    <3>1. \A d \in Delivery : rows'[d].attempts = rows[d].attempts
      BY <2>1, ProcessedIs
    <3>2. faults <= faults'
      BY <1>0, <2>1 DEF Processed
    <3> QED BY <1>1, <3>1, <3>2
  <2>2. CASE ~Processed(w)
    <3>1. UNCHANGED <<rows, faults>>
      BY <1>4, <2>2 DEF Handle, ProcessEvent, FindCustomer, InsertCustomer, ReselectCustomer, OpenCase, HandleDowntime
    <3> QED BY <1>2, <3>1
  <2> QED BY <2>1, <2>2
<1>5. ASSUME NEW w \in Worker, CallFails(w) PROVE FailedForCause'
  <2>1. PICK mine : mine = work[w].d
    OBVIOUS
  <2>2. Ends(w) /\ Failed(work[w].d) /\ faults' = faults + 1 /\ UNCHANGED event
    BY <1>5, CallFailsIs DEF CallFails, Throw
  <2>3. /\ rows'[mine].attempts = rows[mine].attempts + 1
        /\ \A d \in Delivery \ {mine} : rows'[d].attempts = rows[d].attempts
    BY <2>1, <2>2, ThrowQueue
  <2> QED BY <1>0, <2>2, <2>3, FailureMoves
<1>6. ASSUME NEW w \in Worker, Die(w) PROVE FailedForCause'
  BY <1>0, <1>1, <1>6 DEF Die, AnyFault
<1>7. ASSUME NEW d \in Delivery, Claim(d) PROVE FailedForCause'
  <2>1. \A x \in Delivery : rows'[x].attempts = rows[x].attempts
    BY <1>7, ClaimIs
  <2>2. faults <= faults'
    BY <1>0, <1>7 DEF Claim
  <2> QED BY <1>1, <2>1, <2>2
<1>8. ASSUME NEW d \in Delivery, BackfillMerchant(d) PROVE FailedForCause'
  <2>1. \A x \in Delivery : rows'[x].attempts = rows[x].attempts
    BY <1>8, BackfillMerchantIs
  <2>2. faults <= faults'
    BY <1>0, <1>8 DEF BackfillMerchant
  <2> QED BY <1>1, <2>1, <2>2
<1>9. ASSUME NEW r \in Redriver, FindUnprocessed(r) PROVE FailedForCause'
  BY <1>2, <1>9 DEF FindUnprocessed
<1>10. ASSUME NEW r \in Redriver, Redrive(r) PROVE FailedForCause'
  <2>1. At(r, "batch") /\ UNCHANGED faults /\ (PassesOver(r) \/ GivesUp(r) \/ TakesUp(r))
    BY <1>10, RedriveIs DEF Redrive
  <2>2. CASE PassesOver(r) \/ TakesUp(r)
    BY <1>2, <2>1, <2>2 DEF PassesOver, TakesUp
  <2>3. CASE GivesUp(r)
    <3>1. PICK item : item = Item(r)
      OBVIOUS
    <3>2. item \in Delivery /\ Cause(item) /\ Failed(item)
      BY <2>1, <2>3, <3>1, ItemIs, GivenUpIsCause DEF GivesUp
    <3>3. /\ rows'[item].attempts = rows[item].attempts + 1
          /\ \A x \in Delivery \ {item} : rows'[x] = rows[x]
      BY <1>0, <3>2, FailedIs
    <3> QED BY <1>0, <2>1, <3>2, <3>3, FailureMoves
  <2> QED BY <2>1, <2>2, <2>3
<1>11. ASSUME MerchantLeaves \/ UNCHANGED vars PROVE FailedForCause'
  BY <1>2, <1>11 DEF MerchantLeaves, vars
<1> QED BY <1>3, <1>4, <1>5, <1>6, <1>7, <1>8, <1>9, <1>10, <1>11 DEF Next

LEMMA CasesMove ==
  ASSUME IInv, Types', QueueSound', Remembers,
         \A o \in Orders : cases[o] # None => cases'[o] = cases[o],
         \A o \in Orders : cases'[o] = 0 => cases[o] = 0 \/ Blank(o)',
         \A v \in Worker : At(v, "mark")' => \/ At(v, "mark") /\ work'[v].d = work[v].d
                                             \/ event[work'[v].d].kind # "failed"
                                             \/ cases'[event[work'[v].d].order] # None,
         \A d \in Delivery : rows'[d].status = "processed" =>
                               \/ rows[d].status = "processed"
                               \/ \E v \in Worker : At(v, "mark") /\ work[v].d = d
  PROVE  CasesSound'
<1>1. /\ event' = event /\ CasesSound /\ Types /\ QueueSound
      /\ \A d \in DOMAIN event : event[d].kind = "failed" => event[d].order \in Orders
      /\ DOMAIN event \subseteq Delivery
  BY DEF IInv, Types, EventTypes, Remembers
<1>2. ASSUME NEW v \in Worker, At(v, "mark"), event[work[v].d].kind = "failed"
      PROVE  /\ work[v].d \in DOMAIN event
             /\ cases[event[work[v].d].order] # None /\ cases'[event[work[v].d].order] # None
  <2>1. Handling(v)
    BY <1>2 DEF Handling, At
  <2>2. work[v].d \in DOMAIN event /\ event[work[v].d].order \in Orders
    BY <1>1, <1>2, <2>1, HandledIs
  <2>3. cases[event[work[v].d].order] # None
    BY <1>1, <1>2 DEF CasesSound
  <2> QED BY <2>2, <2>3
<1>3. ASSUME NEW v \in Worker, At(v, "mark")', event'[work'[v].d].kind = "failed"
      PROVE  cases'[event'[work'[v].d].order] # None
  BY <1>1, <1>2, <1>3
<1>4. ASSUME NEW d \in DOMAIN event, rows'[d].status = "processed", event[d].kind = "failed"
      PROVE  cases'[event[d].order] # None
  <2>1. CASE rows[d].status = "processed"
    <3>1. cases[event[d].order] # None /\ event[d].order \in Orders
      BY <1>1, <1>4, <2>1 DEF CasesSound
    <3> QED BY <3>1
  <2>2. ASSUME NEW v \in Worker, At(v, "mark"), work[v].d = d PROVE cases'[event[d].order] # None
    BY <1>2, <1>4, <2>2
  <2> QED BY <1>1, <1>4, <2>1, <2>2
<1>5. ASSUME NEW o \in Orders, cases'[o] = 0 PROVE Blank(o)'
  <2>1. CASE Blank(o)'
    BY <2>1
  <2>2. CASE cases[o] = 0
    <3>1. PICK f \in DOMAIN event : event[f].order = o /\ (ContactOf(event[f]) = Nobody \/ Overwritten(f))
      BY <1>1, <2>2 DEF CasesSound, Blank
    <3>2. Overwritten(f) => Overwritten(f)'
      BY OverwrittenStays
    <3> QED BY <1>1, <3>1, <3>2 DEF Blank
  <2> QED BY <1>5, <2>1, <2>2
<1> HIDE DEF Orders
<1> QED BY <1>1, <1>3, <1>4, <1>5 DEF CasesSound

\* createCase is told no customer only for a failure that names nobody, or somebody
\* whose contact was written over.
LEMMA OpenCaseCases ==
  ASSUME IInv, NEW w \in Worker, OpenCase(w)
  PROVE  CasesSound'
<1>0. PICK d, order : d = work[w].d /\ order = event[work[w].d].order
  OBVIOUS
<1>1. /\ Types' /\ Goes(w) /\ work'[w].pc = "mark" /\ order \in Orders /\ work[w].id \in Nat
      /\ \A o \in Orders : cases'[o] = IF o = order /\ cases[o] = None THEN work[w].id ELSE cases[o]
  BY <1>0, OpenCaseIs
<1>2. UNCHANGED <<event, rows, customers, lost, gone>> /\ At(w, "case")
  BY DEF OpenCase
<1>3. Remembers /\ QueueSound'
  BY <1>1, <1>2, SameRemembers, GoesQueue
<1>4. d \in DOMAIN event /\ (work[w].id # 0 \/ ContactOf(event[d]) = Nobody \/ Overwritten(d))
  <2>1. Types /\ QueueSound /\ Handling(w) /\ (work[w].id # 0 \/ Contact(w) = Nobody \/ Overwritten(d))
    BY <1>0, <1>2 DEF IInv, Handling, At, CustomersSound, UpsertSound
  <2> QED BY <1>0, <2>1, HandledIs
<1>5. \A o \in Orders : cases[o] # None => cases'[o] = cases[o]
  BY <1>1
<1>6. ASSUME NEW o \in Orders, cases'[o] = 0 PROVE cases[o] = 0 \/ Blank(o)'
  <2>1. CASE cases'[o] = cases[o]
    BY <1>6, <2>1
  <2>2. CASE o = order /\ work[w].id = 0
    <3>1. Overwritten(d) => Overwritten(d)'
      BY <1>3, OverwrittenStays
    <3>2. event'[d].order = o /\ d \in DOMAIN event' /\ event'[d] = event[d]
      BY <1>0, <1>2, <1>4, <2>2
    <3> QED BY <1>4, <2>2, <3>1, <3>2 DEF Blank
  <2> QED BY <1>1, <1>6, <2>1, <2>2
<1>7. cases'[order] # None
  BY <1>1, Constants
<1>8. \A v \in Worker : At(v, "mark")' => \/ At(v, "mark") /\ work'[v].d = work[v].d
                                          \/ cases'[event[work'[v].d].order] # None
  BY <1>0, <1>1, <1>7 DEF Goes, Alone, At
<1> QED BY <1>1, <1>2, <1>3, <1>5, <1>6, <1>8, CasesMove

LEMMA CasesKept ==
  ASSUME IInv, [Next]_vars
  PROVE  CasesSound'
<1>0. Remembers /\ Types' /\ QueueSound' /\ Types
  BY StepRemembers, QueueKept DEF IInv
<1>1. ASSUME UNCHANGED cases, \A d \in Delivery : rows'[d].status = "processed" => rows[d].status = "processed",
             \A v \in Worker : At(v, "mark")' => \/ At(v, "mark") /\ work'[v].d = work[v].d
                                                 \/ event[work'[v].d].kind # "failed"
      PROVE  CasesSound'
  <2> HIDE DEF Orders
  <2> QED BY <1>0, <1>1, CasesMove
<1>2. ASSUME UNCHANGED <<cases, rows>>, NEW w \in Worker, Alone(w),
             work'[w].pc = "mark" => event[work'[w].d].kind # "failed"
      PROVE  CasesSound'
  <2>1. \A v \in Worker : At(v, "mark")' => \/ At(v, "mark") /\ work'[v].d = work[v].d
                                            \/ event[work'[v].d].kind # "failed"
    BY <1>2 DEF Alone, At
  <2> QED BY <1>1, <1>2, <2>1
<1>3. ASSUME NEW w \in Worker, Ends(w), Failed(work[w].d), UNCHANGED <<event, cases>> PROVE CasesSound'
  <2>1. \A d \in Delivery : rows'[d].status = rows[d].status
    BY <1>3, ThrowQueue
  <2>2. \A v \in Worker : At(v, "mark")' => At(v, "mark") /\ work'[v].d = work[v].d
    BY <1>3 DEF Ends, Alone, At
  <2> QED BY <1>1, <1>3, <2>1, <2>2
<1>4. ASSUME NEW w \in Worker, ProcessEvent(w) PROVE CasesSound'
  <2>1. UNCHANGED <<cases, rows, event>> /\ Goes(w)
    BY <1>4, ProcessEventIs DEF ProcessEvent
  <2>2. UpsertSound(w)' /\ work'[w].d = work[w].d
    BY <1>4, <2>1, RouteSound DEF Goes
  <2>3. event[work[w].d].kind = "failed" => work'[w].pc = "customer"
    <3>1. ASSUME event[work[w].d].kind = "failed" PROVE Goto(w, "customer") /\ "customer" \in Positions
      BY <1>4, <3>1 DEF ProcessEvent, Positions, Upserting
    <3> QED BY <1>0, <3>1, GotoIs
  <2> QED BY <1>2, <2>1, <2>2, <2>3 DEF Goes
<1>5. ASSUME NEW w \in Worker, FindCustomer(w) \/ InsertCustomer(w) \/ ReselectCustomer(w) PROVE CasesSound'
  <2>1. UNCHANGED <<cases, rows>>
    BY <1>5 DEF FindCustomer, InsertCustomer, ReselectCustomer
  <2>2. Goes(w) /\ work'[w].pc # "mark"
    BY <1>5, FindCustomerIs, InsertCustomerIs, ReselectCustomerIs
  <2> QED BY <1>2, <2>1, <2>2 DEF Goes
<1>6. ASSUME NEW w \in Worker, Backfill(w) PROVE CasesSound'
  <2>1. At(w, "backfill") /\ (Fills(w) \/ (Throw(w) /\ UNCHANGED faults))
    BY <1>6, BackfillIs
  <2>2. CASE Fills(w)
    <3>1. UNCHANGED <<cases, rows>> /\ Goes(w) /\ work'[w].pc = "case"
      BY <2>1, <2>2, FillsIs DEF Fills
    <3> QED BY <1>2, <3>1 DEF Goes
  <2>3. CASE Throw(w) /\ UNCHANGED faults
    <3>1. Handling(w) /\ faults' \in 0..MaxFaults /\ UNCHANGED <<event, cases>>
      BY <2>1, <2>3 DEF Handling, At, IInv, Types, Throw
    <3>2. Ends(w) /\ Failed(work[w].d)
      BY <2>3, <3>1, ThrowIs
    <3> QED BY <1>3, <3>1, <3>2
  <2> QED BY <2>1, <2>2, <2>3
<1>7. ASSUME NEW w \in Worker, HandleDowntime(w) PROVE CasesSound'
  <2>1. /\ UNCHANGED <<cases, rows>> /\ Goes(w) /\ event[work[w].d].kind # "failed"
    BY <1>7, HandleDowntimeIs DEF HandleDowntime, IInv, CustomersSound, UpsertSound
  <2> QED BY <1>2, <2>1 DEF Goes
<1>8. ASSUME NEW w \in Worker, Processed(w) PROVE CasesSound'
  <2>1. PICK d : d = work[w].d
    OBVIOUS
  <2>2. /\ Ends(w) /\ At(w, "mark") /\ UNCHANGED cases
        /\ \A x \in Delivery : rows'[x].status = IF x = d THEN "processed" ELSE rows[x].status
    <3>1. UNCHANGED cases
      BY <1>8 DEF Processed
    <3> QED BY <1>8, <2>1, <3>1, ProcessedIs
  <2>3. \A x \in Delivery : rows'[x].status = "processed" =>
          rows[x].status = "processed" \/ \E v \in Worker : At(v, "mark") /\ work[v].d = x
    BY <2>1, <2>2
  <2>4. \A v \in Worker : At(v, "mark")' => At(v, "mark") /\ work'[v].d = work[v].d
    BY <2>2 DEF Ends, Alone, At
  <2> HIDE DEF Orders
  <2> QED BY <1>0, <2>2, <2>3, <2>4, CasesMove
<1>9. ASSUME NEW w \in Worker, Handle(w) PROVE CasesSound'
  BY <1>4, <1>5, <1>6, <1>7, <1>8, <1>9, OpenCaseCases DEF Handle
<1>10. ASSUME NEW w \in Worker, CallFails(w) PROVE CasesSound'
  <2>1. Ends(w) /\ Failed(work[w].d) /\ UNCHANGED <<event, cases>>
    BY <1>10, CallFailsIs DEF CallFails, Throw
  <2> QED BY <1>3, <2>1
<1>11. ASSUME NEW w \in Worker, Die(w) PROVE CasesSound'
  <2>1. UNCHANGED <<cases, rows>> /\ Alone(w) /\ work'[w].pc = "idle"
    BY <1>11, DieIs, IdleIs DEF Die
  <2> QED BY <1>2, <2>1
<1>12. ASSUME NEW d \in Delivery, Claim(d) PROVE CasesSound'
  <2>1. /\ UNCHANGED cases /\ Alone(d) /\ work'[d].pc \in {"idle", "route"}
        /\ rows'[d].status = "claimed" /\ \A x \in Delivery \ {d} : rows'[x] = rows[x]
    BY <1>12, ClaimIs DEF Claim
  <2>2. \A v \in Worker : At(v, "mark")' => At(v, "mark") /\ work'[v].d = work[v].d
    BY <2>1 DEF Alone, At
  <2> QED BY <1>1, <2>1, <2>2
<1>13. ASSUME NEW d \in Delivery, BackfillMerchant(d) PROVE CasesSound'
  <2>1. /\ UNCHANGED <<cases, work>> /\ \A x \in Delivery : rows'[x].status = rows[x].status
    BY <1>13, BackfillMerchantIs DEF BackfillMerchant
  <2> QED BY <1>1, <2>1 DEF At
<1>14. ASSUME NEW r \in Redriver, FindUnprocessed(r) PROVE CasesSound'
  <2>1. UNCHANGED <<cases, rows>> /\ Alone(r) /\ work'[r].pc = "batch" /\ r \in Worker
    BY <1>14, FindUnprocessedIs, Workers DEF FindUnprocessed
  <2> QED BY <1>2, <2>1
<1>15. ASSUME NEW r \in Redriver, Redrive(r) PROVE CasesSound'
  <2>1. /\ UNCHANGED cases /\ Alone(r) /\ At(r, "batch") /\ work'[r].pc \in {"idle", "batch", "route"}
        /\ PassesOver(r) \/ GivesUp(r) \/ TakesUp(r)
    BY <1>15, RedriveIs DEF Redrive
  <2>2. \A x \in Delivery : rows'[x].status = rows[x].status
    <3>1. Item(r) \in Delivery
      BY <2>1, ItemIs
    <3>2. CASE GivesUp(r)
      BY <1>0, <3>1, <3>2, FailedIs DEF GivesUp
    <3> QED BY <2>1, <3>2 DEF PassesOver, TakesUp
  <2>3. \A v \in Worker : At(v, "mark")' => At(v, "mark") /\ work'[v].d = work[v].d
    BY <2>1 DEF Alone, At
  <2> QED BY <1>1, <2>1, <2>2, <2>3
<1>16. ASSUME MerchantLeaves \/ UNCHANGED vars PROVE CasesSound'
  BY <1>1, <1>16 DEF MerchantLeaves, vars, At
<1> QED BY <1>9, <1>10, <1>11, <1>12, <1>13, <1>14, <1>15, <1>16 DEF Next

----------------------------------------------------------------------------
(* The theorem.                                                             *)

LEMMA InitIInv == Init => IInv
<1> SUFFICES ASSUME Init PROVE IInv
  OBVIOUS
<1>1. Types /\ QueueSound
  BY InitTypes, InitQueue
<1>2. PICK h \in Histories : customers = h.table
  BY DEF Init
<1>3. NoneShared(customers)
  BY <1>2, DeliveriesAssumption
<1>4. \A w \in Worker : UpsertSound(w) /\ ~At(w, "mark")
  BY IdleIs DEF Init, UpsertSound, At, Upserting
<1>5. FailedForCause
  BY DEF Init, FailedForCause
<1>6. CasesSound
  <2>1. \A d \in DOMAIN event : rows[d].status # "processed"
    BY <1>1 DEF Init, Types, EventTypes
  <2>2. \A o \in Orders : cases[o] # 0
    BY Constants DEF Init
  <2> QED BY <1>4, <2>1, <2>2 DEF CasesSound
<1> QED BY <1>1, <1>3, <1>4, <1>5, <1>6 DEF IInv, CustomersSound

LEMMA IInvKept == IInv /\ [Next]_vars => IInv'
<1> SUFFICES ASSUME IInv, [Next]_vars PROVE IInv'
  OBVIOUS
<1>1. Types' /\ QueueSound' /\ CustomersSound' /\ FailedForCause' /\ CasesSound'
  BY QueueKept, CustomersKept, FailuresKept, CasesKept
<1> QED BY <1>1 DEF IInv

LEMMA IInvSettles == IInv => SettledForCause
<1> SUFFICES ASSUME IInv PROVE SettledForCause
  OBVIOUS
<1>1. Types /\ QueueSound /\ CustomersSound /\ FailedForCause /\ CasesSound
  BY DEF IInv
<1>2. ASSUME NEW d \in Delivery
      PROVE  /\ rows[d].status \in {"new", "claimed", "processed"}
             /\ rows[d].attempts \in 0..(MaxAttempts + Cardinality(Redriver) - 1)
             /\ rows[d].merchant \in BOOLEAN
  <2>1. rows[d] \in EventRow
    BY <1>1 DEF Types
  <2>2. rows[d].attempts <= MaxAttempts - 1 + Cardinality(Others(d))
    BY <1>1 DEF QueueSound, Bounded
  <2>3. /\ Cardinality(Redriver) \in Nat /\ Cardinality(Others(d)) \in 0..Cardinality(Redriver)
        /\ MaxAttempts \in Nat
    BY Constants, OthersFinite, FS_CardinalityType
  <2> QED BY <2>1, <2>2, <2>3 DEF EventRow
<1>3. TypeOK
  <2>1. \A w \in Worker : work[w].d \in Delivery \cup {None} /\ work[w].id \in 0..Len(customers)
    <3>1. \A w \in Worker : work[w].d \in Delivery \cup {None} /\ work[w].id \in Nat /\ work[w].id <= Len(customers)
      BY <1>1 DEF Types, CustomerTypes, WorkRow
    <3>2. Len(customers) \in Nat
      BY <1>1 DEF Types, CustomerTypes
    <3> QED BY <3>1, <3>2
  <2>2. \A o \in Orders : cases[o] \in {None} \cup (0..Len(customers))
    <3>1. \A o \in Orders : cases[o] \in Nat \cup {None} /\ (cases[o] # None => cases[o] <= Len(customers))
      BY <1>1 DEF Types, CustomerTypes
    <3>2. Len(customers) \in Nat
      BY <1>1 DEF Types, CustomerTypes
    <3> QED BY <3>1, <3>2
  <2>3. /\ \A o \in DOMAIN windows : windows[o] \in {"open", "closed"}
        /\ faults \in 0..MaxFaults /\ gone \in BOOLEAN
        /\ NoneShared(customers) /\ lost \subseteq Phone \cup Email
    BY <1>1 DEF Types, CustomerTypes, CustomersSound
  <2> QED BY <1>2, <2>1, <2>2, <2>3 DEF TypeOK
<1>4. OnlyHopelessIsSpent
  <2> SUFFICES ASSUME NEW d \in Delivery, rows[d].attempts >= MaxAttempts PROVE Cause(d)
    BY DEF OnlyHopelessIsSpent, Spent, Cause
  <2>1. rows[d].attempts \in Nat /\ faults \in 0..MaxFaults
    BY <1>1 DEF Types, EventRow
  <2>2. rows[d].attempts > faults
    BY <2>1, Constants
  <2> QED BY <1>1, <2>2 DEF FailedForCause
<1>5. ProcessedIsHandled
  <2> SUFFICES ASSUME NEW d \in DOMAIN event, rows[d].status = "processed", event[d].kind = "failed"
               PROVE  /\ cases[event[d].order] # None
                      /\ cases[event[d].order] = 0 => Blank(event[d].order)
    BY DEF ProcessedIsHandled, Blank
  <2>1. event[d].order \in Orders
    BY <1>1 DEF Types, EventTypes
  <2> HIDE DEF Orders
  <2> QED BY <1>1, <2>1 DEF CasesSound
<1> QED BY <1>3, <1>4, <1>5 DEF SettledForCause

\* A row reaches its end only for cause: what the redrive gives up on could never be
\* handled, however its runs overlap and whatever calls fail for a while, and what
\* says processed left its order a case, with the customer the payment named.
THEOREM DeliveriesSettleForCause == Spec => []SettledForCause
<1>1. Init => IInv
  BY InitIInv
<1>2. IInv /\ [Next]_vars => IInv'
  BY IInvKept
<1>3. IInv => SettledForCause
  BY IInvSettles
<1> QED BY <1>1, <1>2, <1>3, PTL DEF Spec
=============================================================================
