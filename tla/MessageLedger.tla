--------------------------- MODULE MessageLedger ---------------------------
(***************************************************************************)
(* The send path: sendMessage (messaging/send.ts) and the frequency cap it *)
(* claims a slot from, recordMessageIfPermitted (db/repos/messages.ts).    *)
(*                                                                         *)
(* Independent workflows call it for the same person at once: the ladders  *)
(* of several cases, the console's Start button, the voice and cart        *)
(* agents.  A sender is one such call.  Its claim is a transaction under   *)
(* the customer's advisory lock; hand-over to the provider and the status  *)
(* write follow outside it, and the process may die before either.         *)
(***************************************************************************)
EXTENDS Naturals, FiniteSets

CONSTANTS Customer,
          Key,         \* idempotency keys, one per case, rung and kind of touch
          KeyCustomer, \* Key -> Customer: whom the key's case belongs to
          Sender,      \* concurrent callers of sendMessage
          None,        \* "nobody"
          Cap,         \* the frequency caps callers may pass
          MaxCap,      \* the largest of them
          Day,         \* the length of the sliding window, in ticks
          Horizon      \* bound on the clock, to keep the model finite

ASSUME KeysAssumption == IsFiniteSet(Key) /\ KeyCustomer \in [Key -> Customer]
ASSUME NoneAssumption == None \notin Sender
ASSUME CapAssumption == MaxCap \in Nat /\ Cap \subseteq 1..MaxCap
ASSUME TimeAssumption == Day \in Nat \ {0} /\ Horizon \in Nat

VARIABLES
  clock,       \* the database's clock
  log,         \* message_log: the row each idempotency key has, if any
  lock,        \* who holds the advisory lock of each customer
  call,        \* where each sender is in sendMessage, and its arguments
  optedOut,    \* customers.opted_out_at, as the tick it was set; Never when null
  accepted     \* history: how often the provider accepted a message of each key

vars == <<clock, log, lock, call, optedOut, accepted>>

Never == Horizon + 1

\* "touch" draws on the cap; "exempt" is an intent of CAP_EXEMPT_INTENTS;
\* "suppressed" is a holdout or dry-run row.
Kind == {"touch", "exempt", "suppressed"}

\* "receipt" stands for delivered, read and failed, whichever was reported last.
Status == {"none", "queued", "sent", "failed", "suppressed", "receipt"}

Row == [status : Status, kind : Kind, sentAt : 0..Horizon]
NoRow == [status |-> "none", kind |-> "touch", sentAt |-> 0]

\* "waiting" for the lock; inside the transaction "check" (opt-out), "count" and
\* "insert"; outside it "dispatch" (provider call) and then "markSent" or "markFailed".
Call == [pc : {"idle", "waiting", "check", "count", "insert", "dispatch", "markSent", "markFailed"},
         key : Key \cup {None}, kind : Kind, cap : Cap \cup {0}, begun : 0..Horizon]

Idle == [pc |-> "idle", key |-> None, kind |-> "touch", cap |-> 0, begun |-> 0]

InTransaction(s) == call[s].pc \in {"check", "count", "insert"}

\* Rows that count towards the cap of c and whose sent_at passes P.
Logged(k) == log[k].status # "none"
Counted(c) == {k \in Key : Logged(k) /\ KeyCustomer[k] = c /\ log[k].kind = "touch"}

\* countRecentMessages: sent_at > now() - 24h, now() being the start of the
\* transaction that asks.
Recent(c, now) == {k \in Counted(c) : log[k].sentAt + Day > now}

TypeOK == /\ clock \in 0..Horizon
          /\ log \in [Key -> Row]
          /\ lock \in [Customer -> Sender \cup {None}]
          /\ call \in [Sender -> Call]
          /\ optedOut \in [Customer -> 0..Never]
          /\ accepted \in [Key -> Nat]

Init == /\ clock = 0
        /\ log = [k \in Key |-> NoRow]
        /\ lock = [c \in Customer |-> None]
        /\ call = [s \in Sender |-> Idle]
        /\ optedOut = [c \in Customer |-> Never]
        /\ accepted = [k \in Key |-> 0]

----------------------------------------------------------------------------
\* The transaction opens (now() is fixed here) and queues for the lock.  Any
\* caller may ask for any key, again and again: replays are not prevented here.
Begin(s, k, kind, cap) ==
  /\ call[s].pc = "idle"
  /\ call' = [call EXCEPT ![s] = [pc |-> "waiting", key |-> k, kind |-> kind,
                                  cap |-> cap, begun |-> clock]]
  /\ UNCHANGED <<clock, log, lock, optedOut, accepted>>

\* pg_advisory_xact_lock, keyed on the person.
Acquire(s) ==
  /\ call[s].pc = "waiting"
  /\ lock[KeyCustomer[call[s].key]] = None
  /\ lock' = [lock EXCEPT ![KeyCustomer[call[s].key]] = s]
  /\ call' = [call EXCEPT ![s].pc = "check"]
  /\ UNCHANGED <<clock, log, optedOut, accepted>>

\* Commit or rollback: the lock goes with the transaction.
EndTransaction(s) == lock' = [lock EXCEPT ![KeyCustomer[call[s].key]] = None]

Refuse(s) == /\ EndTransaction(s)
             /\ call' = [call EXCEPT ![s] = Idle]

\* Faulty variant: the opt-out is not asked again under the lock.
CheckOptOutSkipped(s) ==
  /\ call[s].pc = "check"
  /\ call' = [call EXCEPT ![s].pc = "count"]
  /\ UNCHANGED <<clock, log, lock, optedOut, accepted>>

CheckOptOut(s) ==
  /\ call[s].pc = "check"
  /\ IF optedOut[KeyCustomer[call[s].key]] # Never
     THEN Refuse(s)
     ELSE call' = [call EXCEPT ![s].pc = "count"] /\ UNCHANGED lock
  /\ UNCHANGED <<clock, log, optedOut, accepted>>

\* Faulty variant: one touch too many.
CountRecentOffByOne(s) ==
  /\ call[s].pc = "count"
  /\ LET recent == Recent(KeyCustomer[call[s].key], call[s].begun)
     IN IF call[s].kind = "touch" /\ Cardinality(recent) > call[s].cap
        THEN Refuse(s)
        ELSE call' = [call EXCEPT ![s].pc = "insert"] /\ UNCHANGED lock
  /\ UNCHANGED <<clock, log, optedOut, accepted>>

CountRecent(s) ==
  /\ call[s].pc = "count"
  /\ LET recent == Recent(KeyCustomer[call[s].key], call[s].begun)
     IN IF call[s].kind = "touch" /\ Cardinality(recent) >= call[s].cap
        THEN Refuse(s)
        ELSE call' = [call EXCEPT ![s].pc = "insert"] /\ UNCHANGED lock
  /\ UNCHANGED <<clock, log, optedOut, accepted>>

\* Faulty variants: a conflicting insert taken for permission, a suppressed row
\* handed to the provider, a status outside the enum.
InsertRowNoConflict(s) ==
  /\ call[s].pc = "insert"
  /\ EndTransaction(s)
  /\ log' = [log EXCEPT ![call[s].key] =
       [status |-> "queued", kind |-> call[s].kind, sentAt |-> call[s].begun]]
  /\ call' = [call EXCEPT ![s].pc = "dispatch"]
  /\ UNCHANGED <<clock, optedOut, accepted>>

\* INSERT ... ON CONFLICT DO NOTHING on the idempotency key, then commit.  A
\* suppressed row ends the call; a permitted one goes on to the provider.
InsertRow(s) ==
  /\ call[s].pc = "insert"
  /\ EndTransaction(s)
  /\ IF Logged(call[s].key)
     THEN call' = [call EXCEPT ![s] = Idle] /\ UNCHANGED log
     ELSE /\ log' = [log EXCEPT ![call[s].key] =
               [status |-> IF call[s].kind = "suppressed" THEN "suppressed" ELSE "queued",
                kind |-> call[s].kind, sentAt |-> call[s].begun]]
          /\ call' = [call EXCEPT ![s] =
               IF @.kind = "suppressed" THEN Idle ELSE [@ EXCEPT !.pc = "dispatch"]]
  /\ UNCHANGED <<clock, optedOut, accepted>>

\* dispatch: the provider takes the message, or refuses it, or there is no
\* channel to hand it to.
Dispatch(s) ==
  /\ call[s].pc = "dispatch"
  /\ \/ /\ accepted' = [accepted EXCEPT ![call[s].key] = @ + 1]
        /\ call' = [call EXCEPT ![s].pc = "markSent"]
     \/ /\ call' = [call EXCEPT ![s].pc = "markFailed"]
        /\ UNCHANGED accepted
  /\ UNCHANGED <<clock, log, lock, optedOut>>

\* markMessageSent / markMessageFailed: the row is updated by id, never deleted.
MarkSent(s) ==
  /\ call[s].pc = "markSent"
  /\ log' = [log EXCEPT ![call[s].key].status = "sent"]
  /\ call' = [call EXCEPT ![s] = Idle]
  /\ UNCHANGED <<clock, lock, optedOut, accepted>>

MarkFailed(s) ==
  /\ call[s].pc = "markFailed"
  /\ log' = [log EXCEPT ![call[s].key].status = "failed"]
  /\ call' = [call EXCEPT ![s] = Idle]
  /\ UNCHANGED <<clock, lock, optedOut, accepted>>

\* Faulty variant: a session lock, which a crash does not release.
CrashKeepsLock(s) ==
  /\ call[s].pc # "idle"
  /\ call' = [call EXCEPT ![s] = Idle]
  /\ UNCHANGED <<clock, log, lock, optedOut, accepted>>

\* The process dies: an open transaction rolls back and its lock is released.
Crash(s) ==
  /\ call[s].pc # "idle"
  /\ IF InTransaction(s) THEN EndTransaction(s) ELSE UNCHANGED lock
  /\ call' = [call EXCEPT ![s] = Idle]
  /\ UNCHANGED <<clock, log, optedOut, accepted>>

----------------------------------------------------------------------------
(* What happens around the senders.                                         *)

\* recordDeliveryStatus, from the provider's webhook: receipts come in any order
\* and only find a row whose provider id has been written.
Receipt(k) ==
  /\ log[k].status = "sent"
  /\ log' = [log EXCEPT ![k].status = "receipt"]
  /\ UNCHANGED <<clock, lock, call, optedOut, accepted>>

\* optOutByPhone: STOP sets opted_out_at on the customer, without the lock.
OptOut(c) ==
  /\ optedOut[c] = Never
  /\ optedOut' = [optedOut EXCEPT ![c] = clock]
  /\ UNCHANGED <<clock, log, lock, call, accepted>>

Tick == /\ clock < Horizon
        /\ clock' = clock + 1
        /\ UNCHANGED <<log, lock, call, optedOut, accepted>>

Proceed(s) == \/ Acquire(s) \/ CheckOptOut(s) \/ CountRecent(s) \/ InsertRow(s)
              \/ Dispatch(s) \/ MarkSent(s) \/ MarkFailed(s)

Next == \/ \E s \in Sender : \/ \E k \in Key, kind \in Kind, cap \in Cap : Begin(s, k, kind, cap)
                             \/ Proceed(s)
                             \/ Crash(s)
        \/ \E k \in Key : Receipt(k)
        \/ \E c \in Customer : OptOut(c)
        \/ Tick

Spec == Init /\ [][Next]_vars

----------------------------------------------------------------------------
(* The cap the file exists for: in no 24-hour window does a person get more *)
(* counted touches than the largest cap a caller passed, whatever senders   *)
(* overlap and however long they waited for the lock.                       *)
FrequencyCap ==
  \A c \in Customer : \A t \in 0..Horizon :
     Cardinality({k \in Recent(c, t) : log[k].sentAt <= t}) <= MaxCap

(* A replayed rung never fires twice: the provider accepts at most one      *)
(* message per idempotency key, over retries, crashes and other callers.    *)
AtMostOneTouch == \A k \in Key : accepted[k] <= 1

(* A send that starts after a STOP was recorded leaves no row.              *)
OptOutHonoured ==
  \A k \in Key : Logged(k) => log[k].sentAt <= optedOut[KeyCustomer[k]]

(* What a suppressed row stands for never reaches a customer.               *)
SuppressedNeverSent ==
  \A k \in Key : log[k].kind = "suppressed" => accepted[k] = 0

----------------------------------------------------------------------------
(* The parts that make those properties inductive.                          *)

\* The lock of a customer is held exactly while its holder's transaction is open:
\* every way out, refusals and crashes included, releases it.
LockSound ==
  /\ \A s \in Sender : call[s].pc # "idle" => call[s].key \in Key /\ call[s].cap \in Cap
  /\ \A s \in Sender : InTransaction(s) => lock[KeyCustomer[call[s].key]] = s
  /\ \A c \in Customer, s \in Sender :
        lock[c] = s => InTransaction(s) /\ c = KeyCustomer[call[s].key]

\* A transaction past its count has room for the row it is about to write.
RoomLeft ==
  \A s \in Sender : call[s].pc = "insert" /\ call[s].kind = "touch"
     => Cardinality(Recent(KeyCustomer[call[s].key], call[s].begun)) < MaxCap

\* Nothing is dated in the future, and a transaction past the opt-out check began
\* before any opt-out it did not see.
CheckedBeforeOptOut ==
  /\ \A k \in Key : log[k].sentAt <= clock
  /\ \A s \in Sender : call[s].pc # "idle" => call[s].begun <= clock
  /\ \A s \in Sender : call[s].pc \in {"count", "insert"}
        => call[s].begun <= optedOut[KeyCustomer[call[s].key]]

\* One sender at most is between a key's row and its provider call.
OneDispatcher ==
  /\ \A s \in Sender : call[s].pc \in {"dispatch", "markSent", "markFailed"}
       => Logged(call[s].key) /\ log[call[s].key].kind # "suppressed"
  /\ \A s \in Sender : call[s].pc = "dispatch" => accepted[call[s].key] = 0
  /\ \A s, t \in Sender :
       s # t /\ call[s].pc \in {"dispatch", "markSent"} /\ call[t].pc \in {"dispatch", "markSent"}
         => call[s].key # call[t].key
  /\ \A k \in Key : ~Logged(k) => accepted[k] = 0

(* The advisory lock never outlives its transaction, a transaction past its *)
(* count has room for its row, nothing permitted is older than an opt-out,  *)
(* and no key is between its row and its provider call twice.               *)
IInv == /\ TypeOK /\ LockSound /\ RoomLeft /\ CheckedBeforeOptOut /\ OneDispatcher
        /\ FrequencyCap /\ AtMostOneTouch /\ OptOutHonoured /\ SuppressedNeverSent
============================================================================
