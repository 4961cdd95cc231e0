----------------------------- MODULE CaseStore -----------------------------
(***************************************************************************)
(* The case repository (db/repos/cases.ts) under concurrent workers.       *)
(*                                                                         *)
(* Every function of that file is a few autocommitted SQL statements, and  *)
(* webhook handlers, ladder steps, the resume switch and the sweep call    *)
(* them at the same time.  A worker here is one such call: a step is one   *)
(* statement, and a worker may die between any two of them.                *)
(***************************************************************************)
EXTENDS CaseMachine, Naturals

CONSTANTS Case, Order, Invoice, None,
          Worker,      \* concurrent callers of the repository
          MaxPauses    \* bound on how often one case is paused, to keep the model finite

ASSUME NoneAssumption == None \notin Order /\ None \notin Invoice
ASSUME CaseAssumption == None \notin Case
ASSUME MaxPausesAssumption == MaxPauses \in Nat

VARIABLES
  cases,     \* recovery_cases: the row of each case id, state "absent" before INSERT
  worker,    \* the call each worker is in the middle of
  ledger,    \* case_events: the endings recorded for each case
  parked     \* history: how many times each case entered "paused"

vars == <<cases, worker, ledger, parked>>

Key == [order : Order \cup {None}, invoice : Invoice \cup {None}]
NoKey == [order |-> None, invoice |-> None]

SameKey(k1, k2) ==
  \/ k1.order # None /\ k1.order = k2.order
  \/ k1.invoice # None /\ k1.invoice = k2.invoice

Row == [state : CaseState \cup {"absent"}, key : Key, resumeCount : Nat]

\* "append" holds a committed move whose event is not written yet; "update" an
\* observed state not yet re-asserted; "find" a conflicting INSERT whose
\* incumbent has not been read yet; "threw" a createCase that gave up;
\* "claimed" a resume claim whose event is not written yet and "publish" a wake()
\* that has claimed its case and not yet published its run.
Call == [pc : {"idle", "find", "update", "append", "claimed", "publish", "threw"},
         case : Case \cup {None},
         from : CaseState \cup {"absent"},
         to : CaseState \cup {"absent"},
         key : Key]

Idle == [pc |-> "idle", case |-> None, from |-> "absent", to |-> "absent", key |-> NoKey]

TypeOK == /\ cases \in [Case -> Row]
          /\ worker \in [Worker -> Call]
          /\ ledger \in [Case -> SUBSET TerminalState]
          /\ parked \in [Case -> Nat]

Init == /\ cases = [c \in Case |-> [state |-> "absent", key |-> NoKey,
                                    resumeCount |-> 0]]
        /\ worker = [w \in Worker |-> Idle]
        /\ ledger = [c \in Case |-> {}]
        /\ parked = [c \in Case |-> 0]

Live(c) == cases[c].state \in LiveState

\* The one UPDATE shape every mover shares: set the state (resolved_at with it,
\* when the case ends), then leave the worker owing the ledger its event.
SetState(w, c, to) ==
  /\ to = "paused" => parked[c] < MaxPauses
  /\ cases' = [cases EXCEPT ![c].state = to]
  /\ worker' = [worker EXCEPT ![w] = [Idle EXCEPT !.pc = "append", !.case = c,
                                        !.from = cases[c].state, !.to = to]]
  /\ parked' = [parked EXCEPT ![c] = IF to = "paused" THEN @ + 1 ELSE @]
  /\ UNCHANGED ledger

----------------------------------------------------------------------------
(* Faulty variants: an index on orders alone, and a state outside the     *)
(* enum.                                                                    *)
CreateInsertOrderIndex(w, c, k) ==
  /\ worker[w].pc = "idle"
  /\ cases[c].state = "absent"
  /\ \A d \in Case : Live(d) => k.order = None \/ k.order # cases[d].key.order
  /\ cases' = [cases EXCEPT ![c].state = "detected", ![c].key = k]
  /\ worker' = [worker EXCEPT ![w] = [Idle EXCEPT !.pc = "append", !.case = c,
                                        !.to = "detected"]]
  /\ UNCHANGED <<ledger, parked>>

(* createCase: INSERT ... ON CONFLICT DO NOTHING against the two partial    *)
(* unique indexes on live rows.                                             *)
CreateInsert(w, c, k) ==
  /\ worker[w].pc = "idle"
  /\ cases[c].state = "absent"
  /\ \A d \in Case : Live(d) => ~SameKey(k, cases[d].key)
  /\ cases' = [cases EXCEPT ![c].state = "detected", ![c].key = k]
  /\ worker' = [worker EXCEPT ![w] = [Idle EXCEPT !.pc = "append", !.case = c,
                                        !.to = "detected"]]
  /\ UNCHANGED <<ledger, parked>>

\* The INSERT met a live row with the same order or invoice: nothing returned.
CreateConflict(w, k) ==
  /\ worker[w].pc = "idle"
  /\ \E d \in Case : Live(d) /\ SameKey(k, cases[d].key)
  /\ worker' = [worker EXCEPT ![w] = [Idle EXCEPT !.pc = "find", !.key = k]]
  /\ UNCHANGED <<cases, ledger, parked>>

\* findLiveCaseForOrder reads the incumbent back, by order only: the worker
\* goes on with that case, or throws when there is no such live case any more.
CreateFindIncumbent(w) ==
  /\ worker[w].pc = "find"
  /\ LET k == worker[w].key
         found == \E d \in Case : Live(d) /\ k.order # None /\ cases[d].key.order = k.order
     IN worker' = [worker EXCEPT ![w] = IF found THEN Idle ELSE [@ EXCEPT !.pc = "threw"]]
  /\ UNCHANGED <<cases, ledger, parked>>

\* The caller's catch (the webhook row is marked failed) frees the worker.
CatchThrow(w) ==
  /\ worker[w].pc = "threw"
  /\ worker' = [worker EXCEPT ![w] = Idle]
  /\ UNCHANGED <<cases, ledger, parked>>

----------------------------------------------------------------------------
(* transitionCase.  The arguments its callers pass:                         *)
CallSite == {<<"diagnosed", "diagnosed">>, <<"executing", "ladder_started">>,
             <<"paused", "paused_by_merchant">>, <<"recovered", "payment_received">>,
             <<"lost", "deadline_passed">>, <<"aborted", "already_paid">>,
             <<"aborted", "customer_opted_out">>, <<"aborted", "manual_abort">>}

\* SELECT the row and validate with core's machine.  (A refusal returns
\* ok: false and changes nothing, so it is not a step.)
TransitionRead(w, c, to, reason) ==
  /\ worker[w].pc = "idle"
  /\ cases[c].state # "absent"
  /\ transition(cases[c].state, to, reason)
  /\ worker' = [worker EXCEPT ![w] = [Idle EXCEPT !.pc = "update", !.case = c,
                                        !.from = cases[c].state, !.to = to]]
  /\ UNCHANGED <<cases, ledger, parked>>

\* Faulty variant: the UPDATE does not re-assert the state that was read.
TransitionUpdateBlind(w) ==
  /\ worker[w].pc = "update"
  /\ SetState(w, worker[w].case, worker[w].to)

\* UPDATE ... WHERE state = the state that was read: the caller who finds it
\* moved has lost the race and changes nothing.
TransitionUpdate(w) ==
  /\ worker[w].pc = "update"
  /\ LET c == worker[w].case
     IN IF cases[c].state = worker[w].from
        THEN SetState(w, c, worker[w].to)
        ELSE /\ worker' = [worker EXCEPT ![w] = Idle]
             /\ UNCHANGED <<cases, ledger, parked>>

----------------------------------------------------------------------------
(* The movers whose claim is the UPDATE itself.                             *)

\* Faulty variant: the claim is not guarded on "paused".
ClaimLiveForResume(w, c) ==
  /\ worker[w].pc = "idle"
  /\ cases[c].state \in {"executing", "paused"}
  /\ cases' = [cases EXCEPT ![c].state = "executing", ![c].resumeCount = @ + 1]
  /\ worker' = [worker EXCEPT ![w] = [Idle EXCEPT !.pc = "claimed", !.case = c,
                                        !.from = "paused", !.to = "executing"]]
  /\ UNCHANGED <<ledger, parked>>

ClaimPausedForResume(w, c) ==
  /\ worker[w].pc = "idle"
  /\ cases[c].state = "paused"
  /\ cases' = [cases EXCEPT ![c].state = "executing", ![c].resumeCount = @ + 1]
  /\ worker' = [worker EXCEPT ![w] = [Idle EXCEPT !.pc = "claimed", !.case = c,
                                        !.from = "paused", !.to = "executing"]]
  /\ UNCHANGED <<ledger, parked>>

\* wake() after its claim: the publish succeeds, or throws and repausePausedCase
\* puts the case back, guarded on the row still reading "executing".
WakePublished(w) ==
  /\ worker[w].pc = "publish"
  /\ worker' = [worker EXCEPT ![w] = Idle]
  /\ UNCHANGED <<cases, ledger, parked>>

RepausePaused(w) ==
  /\ worker[w].pc = "publish"
  /\ LET c == worker[w].case
     IN IF cases[c].state = "executing"
        THEN SetState(w, c, "paused")
        ELSE /\ worker' = [worker EXCEPT ![w] = Idle]
             /\ UNCHANGED <<cases, ledger, parked>>

ClosePaused(w, c) ==
  /\ worker[w].pc = "idle"
  /\ cases[c].state = "paused"
  /\ \E to \in {"lost", "aborted"} : SetState(w, c, to)

\* startRecovery's own UPDATE ... WHERE state = 'diagnosed'; it writes no event.
StartRecoveryMark(c) ==
  /\ cases[c].state = "diagnosed"
  /\ cases' = [cases EXCEPT ![c].state = "executing"]
  /\ UNCHANGED <<worker, ledger, parked>>

----------------------------------------------------------------------------
\* appendEvent, the statement after the move (the ledger keeps only what the
\* properties read, the endings); a claim goes on to its publish.
AppendEvent(w) ==
  /\ worker[w].pc \in {"append", "claimed"}
  /\ ledger' = [ledger EXCEPT ![worker[w].case] = @ \cup ({worker[w].to} \cap TerminalState)]
  /\ worker' = [worker EXCEPT ![w] =
       IF @.pc = "claimed" THEN [@ EXCEPT !.pc = "publish"] ELSE Idle]
  /\ UNCHANGED <<cases, parked>>

\* The process dies between two statements; what it committed stays committed.
Crash(w) ==
  /\ worker[w].pc # "idle"
  /\ worker' = [worker EXCEPT ![w] = Idle]
  /\ UNCHANGED <<cases, ledger, parked>>

Step(w) ==
  \/ \E c \in Case, k \in Key : CreateInsert(w, c, k)
  \/ \E k \in Key : CreateConflict(w, k)
  \/ CreateFindIncumbent(w)
  \/ CatchThrow(w)
  \/ \E c \in Case, s \in CallSite : TransitionRead(w, c, s[1], s[2])
  \/ TransitionUpdate(w)
  \/ \E c \in Case : ClaimPausedForResume(w, c)
  \/ WakePublished(w)
  \/ RepausePaused(w)
  \/ \E c \in Case : ClosePaused(w, c)
  \/ AppendEvent(w)
  \/ Crash(w)

Next == \/ \E w \in Worker : Step(w)
        \/ \E c \in Case : StartRecoveryMark(c)

Spec == Init /\ [][Next]_vars

----------------------------------------------------------------------------
(* The repository implements the abstract case table whatever its workers   *)
(* interleave: legal moves only, no reopening, one live case per order.     *)
Lifecycle == INSTANCE CaseLifecycle
               WITH state <- [c \in Case |-> cases[c].state],
                    key <- [c \in Case |-> cases[c].key]

RefinesLifecycle == Lifecycle!Spec

(* No two rows of one order or invoice are live together, although a row    *)
(* is inserted by one worker while others move the incumbent.               *)
OneLiveCasePerKey ==
  \A c, d \in Case : c # d /\ Live(c) /\ Live(d) => ~SameKey(cases[c].key, cases[d].key)

(* The append-only ledger never tells a reader about an outcome the case    *)
(* did not have: an ending that is recorded, or about to be by the worker   *)
(* that made it, is the ending the row carries.  A crash may leave the      *)
(* ending unrecorded; no race may record two.                               *)
LedgerHonest ==
  /\ \A c \in Case : \A ending \in ledger[c] : cases[c].state = ending
  /\ \A w \in Worker :
        worker[w].pc = "append" /\ worker[w].to \in TerminalState
          => cases[worker[w].case].state = worker[w].to

(* Each pause is resumed at most once: the resume switch and the sweep may  *)
(* both see a parked case, and only one of them may be given a run key.     *)
OneResumePerPause ==
  \A c \in Case :
     /\ cases[c].resumeCount <= parked[c]
     /\ cases[c].state = "paused" => cases[c].resumeCount < parked[c]

(* What every call in flight knows about its case; with it the properties   *)
(* above are inductive.                                                     *)
CallSound(r) ==
  /\ r.pc \in {"update", "append", "claimed", "publish"}
       => r.case \in Case /\ cases[r.case].state # "absent"
  /\ r.pc = "update" => canTransition(r.from, r.to)
  /\ r.pc = "claimed" => r.to = "executing"

CallsSound == \A w \in Worker : CallSound(worker[w])

IInv == TypeOK /\ CallsSound /\ OneLiveCasePerKey /\ LedgerHonest /\ OneResumePerPause
============================================================================
