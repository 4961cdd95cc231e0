---------------------------- MODULE MCDeliveries ----------------------------
(* Small instances of Deliveries. *)
EXTENDS Deliveries

CONSTANTS new, old, older, p1, p2, e1, e2, o1, o2, bank

FailedPayment(phone, email, order) ==
  [kind |-> "failed", phone |-> phone, email |-> email, order |-> order, outage |-> None]
News(kind) == [kind |-> kind, phone |-> None, email |-> None, order |-> None, outage |-> bank]

Both(first, second) == [d \in {new, old} |-> IF d = new THEN first ELSE second]

Row(phone, email) == [phone |-> phone, email |-> email]
Started(table, claimed, says) == [table |-> table, received |-> claimed, event |-> says]

\* Two failures of one person, who is nobody's row or two, or of two who share an
\* address; an outage's news around its end, and a failure nobody is named on.
Pairs ==
  {Started(<<>>, <<old>>, Both(FailedPayment(p1, e1, o1), FailedPayment(p2, e1, o2))),
   Started(<<Row(p1, None), Row(None, e1)>>, <<old>>,
           Both(FailedPayment(p1, e1, o1), FailedPayment(p1, None, o1))),
   Started(<<>>, <<old>>, Both(News("started"), News("resolved"))),
   Started(<<Row(None, e1)>>, <<old>>, Both(FailedPayment(None, None, o1), News("updated")))}

\* Of three failures two overwrite each other's address in the one row there is.
Three == [d \in {new, old, older} |-> FailedPayment(IF d = new THEN None ELSE p2, IF d = older THEN e2 ELSE e1,
                                                  IF d = new THEN o2 ELSE o1)]

AllHistories == Pairs \cup {Started(<<Row(p2, None)>>, <<old, older>>, Three)}
=============================================================================
