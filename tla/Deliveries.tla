----------------------------- MODULE Deliveries -----------------------------
(***************************************************************************)
(* Webhook deliveries from their claim to their end.  The endpoint claims  *)
(* a delivery once and handles it; a handler that throws is recorded on    *)
(* the row, one that dies leaves the row as it is, and the redrive takes   *)
(* the oldest rows that were never finished, a batch at a time, until they *)
(* have failed too often.  A failed payment is given its customer row,     *)
(* which concurrent handlers look up, complete and insert by separate      *)
(* statements; the downtime feed opens and closes windows.  What a case    *)
(* goes through once it is open is Recovery's.                             *)
(***************************************************************************)
EXTENDS Integers, Sequences, FiniteSetsExt

CONSTANTS
  Delivery,
  Histories,      \* the customers table and the claimed deliveries at first, and what the deliveries
                  \* say: [table, received, event], the event [kind, phone, email, order, outage] of each
  Unstamped,      \* deliveries claimed before the claim named its merchant
  Phone, Email,
  None,           \* no phone, no email, no order
  Redriver,       \* the redrive's runs that may overlap: the cron's and the script's
  Cron,           \* the one of them that runs for ever
  Limit,          \* rows one run of the redrive takes
  MaxAttempts,    \* failures after which a row is left alone
  MaxFaults       \* bound: calls that fail for a while, and deaths

\* How a person can be reached, as far as a payment or a row tells.
Reach == [phone : Phone \cup {None}, email : Email \cup {None}]

ContactOf(e) == [phone |-> e.phone, email |-> e.email]

Shares(a, b) == \/ a.phone # None /\ a.phone = b.phone
                \/ a.email # None /\ a.email = b.email

Nobody == [phone |-> None, email |-> None]

\* The unique indexes of the customers table.
NoneShared(table) == \A i, j \in DOMAIN table : Shares(table[i], table[j]) => i = j

ASSUME DeliveriesAssumption ==
  /\ IsFiniteSet(Delivery) /\ IsFiniteSet(Redriver) /\ Delivery \cap Redriver = {}
  /\ None \notin Delivery \cup Phone \cup Email \cup Nat /\ Phone \cap Email = {}
  /\ \A h \in Histories :
       /\ h.table \in Seq(Reach) /\ NoneShared(h.table) /\ \A i \in DOMAIN h.table : h.table[i] # Nobody
       /\ DOMAIN h.event \subseteq Delivery /\ h.received \in Seq(Delivery)
       /\ {h.received[i] : i \in DOMAIN h.received} = Unstamped \cap DOMAIN h.event
       /\ \A i, j \in DOMAIN h.received : h.received[i] = h.received[j] => i = j
       /\ \A d \in DOMAIN h.event : /\ ContactOf(h.event[d]) \in Reach
                                    /\ h.event[d].kind = "failed" => h.event[d].order # None
  /\ Cron \in Redriver
  /\ {Limit, MaxAttempts} \subseteq Nat \ {0} /\ MaxFaults \in 0..(MaxAttempts - 1)

VARIABLES
  event,     \* what each delivery says that arrives
  rows,      \* webhook_events: status (new | claimed | processed), attempts, merchant
  received,  \* the claimed deliveries, oldest first
  customers, \* the customers table: [phone, email] of each row
  cases,     \* the live case of each order: None or its customer (0: it has none)
  windows,   \* downtime_windows: open or closed, for each outage a row exists for
  work,      \* each handler: where it is, its delivery, what it read, what is left of its batch
  gone,      \* the merchant was deleted
  lost,      \* history: phones and emails a customer's row had and has no more
  faults

vars == <<event, rows, received, customers, cases, windows, work, gone, lost, faults>>

\* The endpoint handles each delivery in an invocation of its own.
Worker == Delivery \cup Redriver
Orders == (UNION {{h.event[d].order : d \in DOMAIN h.event} : h \in Histories}) \ {None}

\* A batch holds places of received, and each row as it was read.
Idle == [pc |-> "idle", d |-> None, id |-> 0, read |-> Nobody, batch |-> <<>>]

Init ==
  /\ \E h \in Histories : event = h.event /\ customers = h.table /\ received = h.received
  /\ rows = [d \in Delivery |->
       [status |-> IF d \in Unstamped \cap DOMAIN event THEN "claimed" ELSE "new",
        attempts |-> 0, merchant |-> d \notin Unstamped]]
  /\ cases = [o \in Orders |-> None] /\ windows = [o \in {} |-> "open"]
  /\ work = [w \in Worker |-> Idle]
  /\ gone = FALSE /\ lost = {} /\ faults = 0

At(w, pc) == work[w].pc = pc
Goto(w, pc) == work' = [work EXCEPT ![w].pc = pc]

\* A redriver takes up the rest of its batch; an invocation is over.
Finish(w) ==
  work' = [work EXCEPT ![w] = [Idle EXCEPT !.pc = IF DOMAIN work[w].batch = {} THEN "idle" ELSE "batch",
                                           !.batch = work[w].batch]]

\* ---- the row ----
Claim(d) ==
  /\ d \in DOMAIN event /\ rows[d].status = "new"
  /\ rows' = [rows EXCEPT ![d].status = "claimed"]
  /\ received' = Append(received, d)
  /\ work' = [work EXCEPT ![d] = [Idle EXCEPT !.pc = IF gone THEN "idle" ELSE "route", !.d = d]]
  /\ UNCHANGED <<event, customers, cases, windows, gone, lost, faults>>

Processed(w) ==
  /\ At(w, "mark")
  /\ rows' = [rows EXCEPT ![work[w].d].status = "processed"]
  /\ Finish(w)
  /\ UNCHANGED <<event, received, customers, cases, windows, gone, lost, faults>>

Failed(d) == rows' = [rows EXCEPT ![d].attempts = @ + 1]

Throw(w) == Failed(work[w].d) /\ Finish(w) /\ UNCHANGED <<event, received, customers, cases, windows, gone, lost>>

\* ---- upsertCustomer ----
Contact(w) == ContactOf(event[work[w].d])

Matches(contact) == {i \in DOMAIN customers : Shares(customers[i], contact)}

\* A phone match wins; with none to reach, the case has no customer.
FindCustomer(w) ==
  LET contact == Contact(w)
      byPhone == {i \in Matches(contact) : customers[i].phone = contact.phone}
  IN /\ At(w, "customer")
     /\ IF Matches(contact) = {}
        THEN Goto(w, IF contact = Nobody THEN "case" ELSE "insert")
        ELSE \E i \in IF byPhone = {} THEN Matches(contact) ELSE byPhone :
               work' = [work EXCEPT ![w] = [@ EXCEPT !.pc = "backfill", !.id = i, !.read = customers[i]]]
     /\ UNCHANGED <<event, rows, received, customers, cases, windows, gone, lost, faults>>

\* Only what was missing from the row as it was read is filled in, over what came
\* meanwhile.  A contact that another row holds violates its unique index.
Backfill(w) ==
  LET read == work[w].read
      row == customers[work[w].id]
      filled == [phone |-> IF read.phone = None /\ Contact(w).phone # None THEN Contact(w).phone ELSE row.phone,
                 email |-> IF read.email = None /\ Contact(w).email # None THEN Contact(w).email ELSE row.email]
  IN /\ At(w, "backfill")
     /\ IF \E i \in DOMAIN customers \ {work[w].id} : Shares(customers[i], filled)
        THEN Throw(w)
        ELSE /\ customers' = [customers EXCEPT ![work[w].id] = filled]
             /\ lost' = lost \cup ({row.phone, row.email} \ {filled.phone, filled.email, None})
             /\ Goto(w, "case")
             /\ UNCHANGED <<event, rows, received, cases, windows, gone>>
     /\ UNCHANGED faults

\* Faulty variant: a lost race is an error.
InsertCustomerOrThrow(w) ==
  /\ At(w, "insert")
  /\ IF Matches(Contact(w)) # {} THEN Throw(w)
     ELSE /\ customers' = Append(customers, Contact(w))
          /\ work' = [work EXCEPT ![w].pc = "case", ![w].id = Len(customers')]
          /\ UNCHANGED <<event, rows, received, cases, windows, gone, lost>>
  /\ UNCHANGED faults

InsertCustomer(w) ==
  /\ At(w, "insert")
  /\ IF Matches(Contact(w)) # {} THEN Goto(w, "reselect") /\ UNCHANGED customers
     ELSE /\ customers' = Append(customers, Contact(w))
          /\ work' = [work EXCEPT ![w].pc = "case", ![w].id = Len(customers')]
  /\ UNCHANGED <<event, rows, received, cases, windows, gone, lost, faults>>

\* Whichever row the race left, or nobody, when that has another contact by now.
ReselectCustomer(w) ==
  /\ At(w, "reselect")
  /\ \/ \E i \in Matches(Contact(w)) : work' = [work EXCEPT ![w].pc = "case", ![w].id = i]
     \/ Matches(Contact(w)) = {} /\ Goto(w, "case")
  /\ UNCHANGED <<event, rows, received, customers, cases, windows, gone, lost, faults>>

\* ---- the handlers ----
\* createCase keeps the live case an order has.
OpenCase(w) ==
  LET order == event[work[w].d].order
  IN /\ At(w, "case")
     /\ cases' = IF cases[order] = None THEN [cases EXCEPT ![order] = work[w].id] ELSE cases
     /\ Goto(w, "mark")
     /\ UNCHANGED <<event, rows, received, customers, windows, gone, lost, faults>>

\* News of an outage opens its row again; its end closes the row, if there is one.
HandleDowntime(w) ==
  LET e == event[work[w].d]
  IN /\ At(w, "downtime")
     /\ windows' = [o \in DOMAIN windows \cup (IF e.kind = "resolved" THEN {} ELSE {e.outage}) |->
                      IF o # e.outage THEN windows[o]
                      ELSE IF e.kind = "resolved" THEN "closed" ELSE "open"]
     /\ Goto(w, "mark")
     /\ UNCHANGED <<event, rows, received, customers, cases, gone, lost, faults>>

ProcessEvent(w) ==
  /\ At(w, "route")
  /\ Goto(w, CASE event[work[w].d].kind = "failed" -> "customer"
               [] event[work[w].d].kind \in {"started", "updated", "resolved"} -> "downtime"
               [] OTHER -> "mark")
  /\ UNCHANGED <<event, rows, received, customers, cases, windows, gone, lost, faults>>

\* ---- the redrive ----
\* A claimed row is stranded once its own invocation cannot be running any more.
Stranded == {i \in DOMAIN received : rows[received[i]].status = "claimed" /\ At(received[i], "idle")}
Oldest == {i \in Stranded : Cardinality({j \in Stranded : j < i}) < Limit}

FindUnprocessed(r) ==
  /\ At(r, "idle") /\ Stranded # {}
  /\ work' = [work EXCEPT ![r].pc = "batch", ![r].batch = [i \in Oldest |-> rows[received[i]]]]
  /\ UNCHANGED <<event, rows, received, customers, cases, windows, gone, lost, faults>>

First(r) == Min(DOMAIN work[r].batch)
Item(r) == received[First(r)]
Worn(r) == work[r].batch[First(r)].attempts >= MaxAttempts
Rest(r) == [i \in DOMAIN work[r].batch \ {First(r)} |-> work[r].batch[i]]
Hopeless(r) == ~work[r].batch[First(r)].merchant \/ gone

\* On to the rest of the batch, or into the handling of the row.
Pass(r) == work' = [work EXCEPT ![r] = [Idle EXCEPT !.pc = IF DOMAIN Rest(r) = {} THEN "idle" ELSE "batch",
                                                    !.batch = Rest(r)]]
Take(r) == work' = [work EXCEPT ![r] = [@ EXCEPT !.pc = "route", !.d = Item(r), !.batch = Rest(r)]]

\* Faulty variant: a row that nobody is named on is passed over.
RedriveSkips(r) ==
  /\ At(r, "batch")
  /\ IF Worn(r) \/ Hopeless(r) THEN Pass(r) ELSE Take(r)
  /\ UNCHANGED <<event, rows, received, customers, cases, windows, gone, lost, faults>>

\* A row out of attempts is passed over; one that nobody is named on fails.
Redrive(r) ==
  /\ At(r, "batch")
  /\ IF Worn(r) THEN Pass(r) /\ UNCHANGED rows
     ELSE IF Hopeless(r) THEN Failed(Item(r)) /\ Pass(r)
     ELSE Take(r) /\ UNCHANGED rows
  /\ UNCHANGED <<event, received, customers, cases, windows, gone, lost, faults>>

\* The account an old row names is a merchant's after all.
BackfillMerchant(d) ==
  /\ rows[d].status # "new" /\ ~rows[d].merchant
  /\ rows' = [rows EXCEPT ![d].merchant = TRUE]
  /\ UNCHANGED <<event, received, customers, cases, windows, work, gone, lost, faults>>

\* ---- around ----
Handling(w) == work[w].pc \notin {"idle", "batch"}
AnyFault == faults < MaxFaults /\ faults' = faults + 1

CallFails(w) == Handling(w) /\ AnyFault /\ Throw(w)

Die(w) ==
  /\ ~At(w, "idle") /\ AnyFault
  /\ work' = [work EXCEPT ![w] = Idle]
  /\ UNCHANGED <<event, rows, received, customers, cases, windows, gone, lost>>

MerchantLeaves ==
  /\ ~gone /\ gone' = TRUE
  /\ UNCHANGED <<event, rows, received, customers, cases, windows, work, lost, faults>>

Handle(w) ==
  \/ ProcessEvent(w)
  \/ FindCustomer(w) \/ Backfill(w) \/ InsertCustomer(w) \/ ReselectCustomer(w)
  \/ OpenCase(w) \/ HandleDowntime(w) \/ Processed(w)

Next ==
  \/ \E d \in Delivery : Claim(d) \/ BackfillMerchant(d)
  \/ \E w \in Worker : Handle(w) \/ CallFails(w) \/ Die(w)
  \/ \E r \in Redriver : FindUnprocessed(r) \/ Redrive(r)
  \/ MerchantLeaves

\* An invocation that runs goes on, and Inngest's cron comes back for ever.
Spec == /\ Init /\ [][Next]_vars
        /\ \A w \in Worker : WF_vars(Handle(w))
        /\ WF_vars(FindUnprocessed(Cron)) /\ \A r \in Redriver : WF_vars(Redrive(r))

-----------------------------------------------------------------------------
\* ---- properties ----

\* The state's types; a row fails at most once for each of the redrive's runs more
\* than the one that would have been its last.
TypeOK ==
  /\ \A d \in Delivery : /\ rows[d].status \in {"new", "claimed", "processed"}
                         /\ rows[d].attempts \in 0..(MaxAttempts + Cardinality(Redriver) - 1)
                         /\ rows[d].merchant \in BOOLEAN
  /\ \A w \in Worker : work[w].d \in Delivery \cup {None} /\ work[w].id \in 0..Len(customers)
  /\ \A o \in Orders : cases[o] \in {None} \cup (0..Len(customers))
  /\ \A o \in DOMAIN windows : windows[o] \in {"open", "closed"}
  /\ faults \in 0..MaxFaults /\ gone \in BOOLEAN
  /\ NoneShared(customers) /\ lost \subseteq Phone \cup Email

\* A delivery's contact belongs to two rows, which upsertCustomer will not merge.
Split(d) == event[d].kind = "failed" /\ Cardinality(Matches(ContactOf(event[d]))) > 1

\* Its contact was some row's, and another was written over it.
Overwritten(d) == {event[d].phone, event[d].email} \cap lost # {}

Spent(d) == rows[d].status = "claimed" /\ rows[d].attempts >= MaxAttempts

\* redrive.ts: what it gives up on fails for good.  Deaths and calls that fail
\* for a while never use up a delivery's attempts; only a payment whose phone
\* and email are, or before one was overwritten were, two customers', or a merchant
\* nobody can name, does.
OnlyHopelessIsSpent ==
  \A d \in Delivery : Spent(d) => Split(d) \/ Overwritten(d) \/ gone \/ d \in Unstamped

\* webhook-handler.ts: a row that says processed was handled.  A failure left
\* its order a case, and the case has a customer unless a failure of the order
\* named nobody, or somebody whose contact was overwritten.
ProcessedIsHandled ==
  \A d \in DOMAIN event : rows[d].status = "processed" /\ event[d].kind = "failed" =>
    /\ cases[event[d].order] # None
    /\ cases[event[d].order] = 0 =>
         \E f \in DOMAIN event : /\ event[f].order = event[d].order
                                 /\ ContactOf(event[f]) = Nobody \/ Overwritten(f)

\* Limit older rows that the redrive will take and skip, for ever.
Starved(d) ==
  \E i \in DOMAIN received :
    received[i] = d /\ Cardinality({j \in 1..(i - 1) : Spent(received[j])}) >= Limit

\* A claimed delivery is handled or given up, unless a whole batch of rows
\* given up before it is older: those the redrive takes, every time, instead.
EveryDeliverySettles ==
  \A d \in Delivery : rows[d].status = "claimed" ~> (rows[d].status = "processed" \/ Spent(d) \/ Starved(d))

\* A row reaches its end only for cause: processed when it was handled, given up when
\* it could never be.
SettledForCause == TypeOK /\ OnlyHopelessIsSpent /\ ProcessedIsHandled
=============================================================================
