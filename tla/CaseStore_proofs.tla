-------------------------- MODULE CaseStore_proofs --------------------------
(* Proofs about the case repository, for any number of cases, workers,     *)
(* orders, invoices and pauses.                                            *)
EXTENDS CaseStore, TLAPS

LEMMA MachineFacts ==
  /\ LiveState \subseteq CaseState
  /\ TerminalState \subseteq CaseState
  /\ LiveState \cap TerminalState = {}
  /\ CaseState = LiveState \cup TerminalState
  /\ "absent" \notin CaseState
  /\ \A s, to : canTransition(s, to)
        => s \in LiveState /\ to \in CaseState /\ to # "detected"
  BY DEF LiveState, TerminalState, CaseState, TRANSITIONS, canTransition

LEMMA SameKeySymmetric == \A k1, k2 : SameKey(k1, k2) <=> SameKey(k2, k1)
  BY DEF SameKey

\* A step on row c leaves the calls about it sound as long as the row exists.
LEMMA OtherCallsSound ==
  ASSUME IInv, NEW c \in Case, cases'[c].state # "absent",
         \A d \in Case : d # c => cases'[d] = cases[d],
         NEW v \in Worker, worker'[v] = worker[v]
  PROVE  CallSound(worker[v])'
  BY DEF IInv, CallsSound, CallSound

\* A step on a row that has not ended contradicts no recorded ending, and none
\* that another call still owes the ledger.
LEMMA OtherEndings ==
  ASSUME IInv, NEW c \in Case, cases[c].state \notin TerminalState, ledger' = ledger,
         \A d \in Case : d # c => cases'[d] = cases[d]
  PROVE  /\ \A d \in Case : \A ending \in ledger'[d] : cases'[d].state = ending
         /\ \A v \in Worker :
               worker'[v] = worker[v] /\ worker'[v].pc = "append" /\ worker'[v].to \in TerminalState
                 => cases'[worker'[v].case].state = worker'[v].to
  <1>1. ASSUME NEW d \in Case, NEW ending \in ledger[d] PROVE d # c /\ cases[d].state = ending
    BY <1>1 DEF IInv, LedgerHonest, TypeOK
  <1>2. ASSUME NEW v \in Worker, worker[v].pc = "append", worker[v].to \in TerminalState
        PROVE  /\ worker[v].case \in Case /\ worker[v].case # c
               /\ cases[worker[v].case].state = worker[v].to
    BY <1>2 DEF IInv, LedgerHonest, CallsSound, CallSound
  <1>. QED BY <1>1, <1>2

LEMMA InitIInv == Init => IInv
  BY NoneAssumption, MachineFacts
  DEF Init, IInv, TypeOK, CallsSound, CallSound, OneLiveCasePerKey, LedgerHonest, OneResumePerPause,
      Row, Call, Key, NoKey, Idle, Live, TerminalState, CaseState, LiveState

\* The rows, calls and histories a step produces are of the declared types.
LEMMA SetStateType ==
  ASSUME TypeOK, NEW w \in Worker, NEW c \in Case, NEW to \in CaseState, SetState(w, c, to)
  PROVE  TypeOK'
  <1>1. cases' \in [Case -> Row]
    BY MachineFacts DEF TypeOK, SetState, Row
  <1>2. worker' \in [Worker -> Call]
    BY MachineFacts, ZenonT(30) DEF TypeOK, SetState, Call, Idle, NoKey, Key, Row
  <1>3. parked' \in [Case -> Nat] /\ ledger' = ledger
    BY DEF TypeOK, SetState
  <1>. QED BY <1>1, <1>2, <1>3 DEF TypeOK

\* Moving a live case along the table keeps every part of the invariant: a
\* recorded ending belongs to a terminal row, and this row was live.
LEMMA SetStateInv ==
  ASSUME IInv, NEW w \in Worker, NEW c \in Case, NEW to \in CaseState,
         canTransition(cases[c].state, to), SetState(w, c, to)
  PROVE  IInv'
  <1>. USE DEF IInv
  <1>1. TypeOK'
    BY SetStateType
  <1>2. /\ cases[c].state \in LiveState /\ cases[c].state # "absent" /\ to # "absent"
        /\ cases'[c].state = to /\ cases'[c].key = cases[c].key
        /\ cases'[c].resumeCount = cases[c].resumeCount
        /\ \A d \in Case : d # c => cases'[d] = cases[d]
    BY MachineFacts DEF SetState, TypeOK, Row
  <1>3. /\ worker'[w] = [Idle EXCEPT !.pc = "append", !.case = c,
                                    !.from = cases[c].state, !.to = to]
        /\ \A v \in Worker : v # w => worker'[v] = worker[v]
        /\ ledger' = ledger
        /\ \A d \in Case : parked'[d] = IF d = c /\ to = "paused" THEN parked[d] + 1
                                                                ELSE parked[d]
    BY DEF SetState, TypeOK
  <1>4. CallsSound'
    <2>1. CallSound(worker[w])'
      BY <1>2, <1>3 DEF CallSound, Idle
    <2>2. \A v \in Worker : v # w => CallSound(worker[v])'
      BY <1>2, <1>3, OtherCallsSound
    <2>. QED BY <2>1, <2>2 DEF CallsSound
  <1>5. OneLiveCasePerKey'
    BY <1>2, MachineFacts DEF OneLiveCasePerKey, Live
  <1>6. LedgerHonest'
    <2>1. worker'[w].to \in TerminalState => cases'[worker'[w].case].state = worker'[w].to
      BY <1>2, <1>3 DEF Idle
    <2>. QED BY <2>1, <1>2, <1>3, OtherEndings, MachineFacts DEF LedgerHonest
  <1>7. OneResumePerPause'
    <2>1. \A d \in Case : parked[d] \in Nat /\ cases[d].resumeCount \in Nat
      BY DEF TypeOK, Row
    <2>. QED BY <2>1, <1>2, <1>3 DEF OneResumePerPause
  <1>. QED BY <1>1, <1>4, <1>5, <1>6, <1>7

\* A step that touches nothing but its own call, and does not come out of it
\* owing an event, keeps the invariant: reads, returns, throws and crashes.
LEMMA CallOnlyInv ==
  ASSUME IInv, NEW w \in Worker, NEW r \in Call, r.pc # "append", CallSound(r),
         worker' = [worker EXCEPT ![w] = r], UNCHANGED <<cases, ledger, parked>>
  PROVE  IInv'
  <1>. USE DEF IInv
  <1>1. TypeOK'
    BY DEF TypeOK
  <1>2. worker'[w] = r /\ \A v \in Worker : v # w => worker'[v] = worker[v]
    BY DEF TypeOK
  <1>3. CallsSound'
    BY <1>2 DEF CallsSound, CallSound
  <1>4. OneLiveCasePerKey' /\ OneResumePerPause'
    BY DEF OneLiveCasePerKey, OneResumePerPause, Live
  <1>5. LedgerHonest'
    BY <1>2 DEF LedgerHonest
  <1>. QED BY <1>1, <1>3, <1>4, <1>5

LEMMA IdleIsSoundCall == IInv => Idle \in Call /\ Idle.pc = "idle" /\ CallSound(Idle)
  BY DEF Idle, Call, Key, NoKey, CallSound

LEMMA CreateInsertInv ==
  ASSUME IInv, NEW w \in Worker, NEW c \in Case, NEW k \in Key, CreateInsert(w, c, k)
  PROVE  IInv'
  <1>. USE DEF IInv
  <1>1. /\ cases'[c].state = "detected" /\ cases'[c].key = k
        /\ cases'[c].resumeCount = cases[c].resumeCount
        /\ \A d \in Case : d # c => cases'[d] = cases[d]
        /\ cases[c].state = "absent"
    BY DEF CreateInsert, TypeOK, Row
  <1>2. /\ worker'[w] = [Idle EXCEPT !.pc = "append", !.case = c, !.to = "detected"]
        /\ \A v \in Worker : v # w => worker'[v] = worker[v]
        /\ ledger' = ledger /\ parked' = parked
    BY DEF CreateInsert, TypeOK
  <1>3. TypeOK'
    <2>1. cases' \in [Case -> Row]
      <3>1. cases[c] \in Row
        BY DEF TypeOK
      <3>2. [cases[c] EXCEPT !.state = "detected", !.key = k] \in Row
        BY <3>1 DEF Row, CaseState
      <3>3. cases' = [cases EXCEPT ![c] = [cases[c] EXCEPT !.state = "detected", !.key = k]]
        BY DEF CreateInsert, TypeOK
      <3>. QED BY <3>2, <3>3 DEF TypeOK
    <2>2. worker' \in [Worker -> Call]
      BY DEF TypeOK, CreateInsert, Call, Idle, NoKey, Key, CaseState
    <2>. QED BY <2>1, <2>2, <1>2 DEF TypeOK
  <1>4. CallsSound'
    <2>1. CallSound(worker[w])'
      BY <1>1, <1>2 DEF CallSound, Idle
    <2>2. \A v \in Worker : v # w => CallSound(worker[v])'
      BY <1>1, <1>2, OtherCallsSound
    <2>. QED BY <2>1, <2>2 DEF CallsSound
  <1>5. OneLiveCasePerKey'
    <2>1. \A d \in Case : Live(d) /\ d # c => ~SameKey(k, cases[d].key) /\ ~SameKey(cases[d].key, k)
      BY SameKeySymmetric DEF CreateInsert
    <2>. QED BY <2>1, <1>1 DEF OneLiveCasePerKey, Live
  <1>6. LedgerHonest'
    <2>1. cases[c].state \notin TerminalState
      BY <1>1 DEF TerminalState
    <2>2. worker'[w].to \notin TerminalState
      BY <1>2 DEF Idle, TerminalState
    <2>. QED BY <2>1, <2>2, <1>1, <1>2, OtherEndings DEF LedgerHonest
  <1>7. OneResumePerPause'
    BY <1>1, <1>2 DEF OneResumePerPause
  <1>. QED BY <1>3, <1>4, <1>5, <1>6, <1>7

LEMMA ClaimInv ==
  ASSUME IInv, NEW w \in Worker, NEW c \in Case, ClaimPausedForResume(w, c)
  PROVE  IInv'
  <1>. USE DEF IInv
  <1>1. /\ cases[c].state = "paused" /\ cases'[c].state = "executing"
        /\ cases'[c].key = cases[c].key
        /\ cases'[c].resumeCount = cases[c].resumeCount + 1
        /\ \A d \in Case : d # c => cases'[d] = cases[d]
    BY DEF ClaimPausedForResume, TypeOK, Row
  <1>2. /\ worker'[w] = [Idle EXCEPT !.pc = "claimed", !.case = c,
                                    !.from = "paused", !.to = "executing"]
        /\ \A v \in Worker : v # w => worker'[v] = worker[v]
        /\ ledger' = ledger /\ parked' = parked
    BY DEF ClaimPausedForResume, TypeOK
  <1>3. TypeOK'
    <2>1. cases' \in [Case -> Row]
      BY MachineFacts DEF TypeOK, ClaimPausedForResume, Row, CaseState
    <2>2. worker' \in [Worker -> Call]
      BY DEF TypeOK, ClaimPausedForResume, Call, Idle, NoKey, Key, CaseState
    <2>. QED BY <2>1, <2>2, <1>2 DEF TypeOK
  <1>4. CallsSound'
    <2>1. CallSound(worker[w])'
      BY <1>1, <1>2 DEF CallSound, Idle
    <2>2. \A v \in Worker : v # w => CallSound(worker[v])'
      BY <1>1, <1>2, OtherCallsSound
    <2>. QED BY <2>1, <2>2 DEF CallsSound
  <1>5. OneLiveCasePerKey'
    BY <1>1 DEF OneLiveCasePerKey, Live, LiveState
  <1>6. LedgerHonest'
    <2>1. cases[c].state \notin TerminalState
      BY <1>1 DEF TerminalState
    <2>2. worker'[w].to \notin TerminalState
      BY <1>2 DEF Idle, TerminalState
    <2>. QED BY <2>1, <2>2, <1>1, <1>2, OtherEndings DEF LedgerHonest
  <1>7. OneResumePerPause'
    <2>1. \A d \in Case : parked[d] \in Nat /\ cases[d].resumeCount \in Nat
      BY DEF TypeOK, Row
    <2>. QED BY <2>1, <1>1, <1>2 DEF OneResumePerPause
  <1>. QED BY <1>3, <1>4, <1>5, <1>6, <1>7

LEMMA StartRecoveryInv ==
  ASSUME IInv, NEW c \in Case, StartRecoveryMark(c)
  PROVE  IInv'
  <1>. USE DEF IInv
  <1>1. /\ cases[c].state = "diagnosed" /\ cases'[c].state = "executing"
        /\ cases'[c].key = cases[c].key
        /\ cases'[c].resumeCount = cases[c].resumeCount
        /\ \A d \in Case : d # c => cases'[d] = cases[d]
        /\ UNCHANGED <<worker, ledger, parked>>
    BY DEF StartRecoveryMark, TypeOK, Row
  <1>2. TypeOK'
    BY <1>1, MachineFacts DEF TypeOK, StartRecoveryMark, Row, CaseState
  <1>3. CallsSound' /\ OneResumePerPause'
    BY <1>1, OtherCallsSound DEF CallsSound, OneResumePerPause
  <1>4. OneLiveCasePerKey'
    BY <1>1 DEF OneLiveCasePerKey, Live, LiveState
  <1>5. LedgerHonest'
    <2>1. cases[c].state \notin TerminalState
      BY <1>1 DEF TerminalState
    <2>. QED BY <2>1, <1>1, OtherEndings DEF LedgerHonest
  <1>. QED BY <1>2, <1>3, <1>4, <1>5

LEMMA AppendInv ==
  ASSUME IInv, NEW w \in Worker, AppendEvent(w)
  PROVE  IInv'
  <1>. USE DEF IInv
  <1>. DEFINE c == worker[w].case
              r == IF worker[w].pc = "claimed" THEN [worker[w] EXCEPT !.pc = "publish"]
                                               ELSE Idle
  <1>1. /\ worker[w].pc \in {"append", "claimed"} /\ c \in Case /\ cases' = cases
        /\ parked' = parked /\ worker[w] \in Call
        /\ ledger'[c] = ledger[c] \cup ({worker[w].to} \cap TerminalState)
        /\ \A d \in Case : d # c => ledger'[d] = ledger[d]
        /\ ledger' \in [Case -> SUBSET TerminalState]
    BY DEF AppendEvent, TypeOK, CallsSound, CallSound
  <1>2. r \in Call /\ r.pc # "append" /\ CallSound(r)
    BY <1>1, IdleIsSoundCall DEF Call, CallSound, CallsSound
  <1>3. worker' = [worker EXCEPT ![w] = r]
    BY DEF AppendEvent
  <1>4. worker'[w] = r /\ \A v \in Worker : v # w => worker'[v] = worker[v]
    BY <1>3 DEF TypeOK
  <1>5. TypeOK'
    BY <1>1, <1>2, <1>3 DEF TypeOK
  <1>6. CallsSound'
    BY <1>1, <1>2, <1>4, ZenonT(30) DEF CallsSound, CallSound
  <1>7. OneLiveCasePerKey' /\ OneResumePerPause'
    BY <1>1 DEF OneLiveCasePerKey, OneResumePerPause, Live
  <1>8. LedgerHonest'
    <2>1. worker[w].to \in TerminalState => worker[w].pc = "append" /\ cases[c].state = worker[w].to
      BY <1>1 DEF CallsSound, CallSound, LedgerHonest, TerminalState
    <2>2. \A d \in Case : \A ending \in ledger'[d] : cases'[d].state = ending
      BY <2>1, <1>1 DEF LedgerHonest
    <2>. QED BY <2>2, <1>1, <1>2, <1>4 DEF LedgerHonest
  <1>. QED BY <1>5, <1>6, <1>7, <1>8

\* The conflict path, the read of a transition, and every return.
LEMMA CallStepInv ==
  ASSUME IInv, NEW w \in Worker,
         \/ \E k \in Key : CreateConflict(w, k)
         \/ CreateFindIncumbent(w)
         \/ CatchThrow(w)
         \/ \E c \in Case, s \in CallSite : TransitionRead(w, c, s[1], s[2])
         \/ WakePublished(w)
         \/ Crash(w)
  PROVE  IInv'
  <1>1. worker[w] \in Call
    BY DEF IInv, TypeOK
  <1>2. ASSUME NEW k \in Key, CreateConflict(w, k) PROVE IInv'
    <2>. DEFINE r == [Idle EXCEPT !.pc = "find", !.key = k]
    <2>1. r \in Call /\ r.pc # "append" /\ CallSound(r)
      BY DEF Idle, Call, CallSound
    <2>. QED BY <1>2, <2>1, CallOnlyInv DEF CreateConflict
  <1>3. CASE CreateFindIncumbent(w)
    <2>. DEFINE r == [worker[w] EXCEPT !.pc = "threw"]
    <2>1. r \in Call /\ r.pc # "append" /\ CallSound(r)
      BY <1>1 DEF Call, CallSound
    <2>2. worker' = [worker EXCEPT ![w] = r] \/ worker' = [worker EXCEPT ![w] = Idle]
      BY <1>3 DEF CreateFindIncumbent
    <2>3. UNCHANGED <<cases, ledger, parked>>
      BY <1>3 DEF CreateFindIncumbent
    <2>. QED BY <2>1, <2>2, <2>3, IdleIsSoundCall, CallOnlyInv
  <1>4. ASSUME NEW c \in Case, NEW s \in CallSite, TransitionRead(w, c, s[1], s[2]) PROVE IInv'
    <2>. DEFINE r == [Idle EXCEPT !.pc = "update", !.case = c, !.from = cases[c].state,
                                  !.to = s[1]]
    <2>1. /\ cases[c].state \in CaseState \cup {"absent"} /\ cases[c].state # "absent"
          /\ canTransition(cases[c].state, s[1]) /\ s[1] \in CaseState
      BY <1>4, MachineFacts DEF TransitionRead, transition, IInv, TypeOK, Row
    <2>2. r \in Call
      BY <2>1 DEF Idle, Call, Key, NoKey
    <2>3. r.pc # "append" /\ CallSound(r)
      BY <2>1 DEF Idle, CallSound
    <2>. QED BY <1>4, <2>2, <2>3, CallOnlyInv DEF TransitionRead
  <1>5. CASE CatchThrow(w) \/ WakePublished(w) \/ Crash(w)
    BY <1>5, IdleIsSoundCall, CallOnlyInv DEF CatchThrow, WakePublished, Crash
  <1>. QED BY <1>2, <1>3, <1>4, <1>5

\* The steps that move a case through SetState: the row is re-read by the UPDATE
\* itself, so the move is along the table from the state the row has now.
LEMMA MoverInv ==
  ASSUME IInv, NEW w \in Worker,
         TransitionUpdate(w) \/ RepausePaused(w) \/ \E c \in Case : ClosePaused(w, c)
  PROVE  IInv'
  <1>1. CallSound(worker[w]) /\ worker[w] \in Call
    BY DEF IInv, CallsSound, TypeOK
  <1>2. canTransition("executing", "paused") /\ canTransition("paused", "lost")
        /\ canTransition("paused", "aborted") /\ {"paused", "lost", "aborted"} \subseteq CaseState
    BY DEF canTransition, TRANSITIONS, CaseState
  <1>3. CASE TransitionUpdate(w)
    <2>. DEFINE c == worker[w].case
    <2>1. c \in Case /\ canTransition(worker[w].from, worker[w].to) /\ worker[w].to \in CaseState
      BY <1>1, <1>3, MachineFacts DEF TransitionUpdate, CallSound
    <2>2. CASE cases[c].state = worker[w].from
      BY <1>3, <2>1, <2>2, SetStateInv DEF TransitionUpdate
    <2>3. CASE cases[c].state # worker[w].from
      BY <1>3, <2>3, IdleIsSoundCall, CallOnlyInv DEF TransitionUpdate
    <2>. QED BY <2>2, <2>3
  <1>4. CASE RepausePaused(w)
    <2>. DEFINE c == worker[w].case
    <2>1. c \in Case
      BY <1>1, <1>4 DEF RepausePaused, CallSound
    <2>2. CASE cases[c].state = "executing"
      BY <1>2, <1>4, <2>1, <2>2, SetStateInv DEF RepausePaused
    <2>3. CASE cases[c].state # "executing"
      BY <1>4, <2>3, IdleIsSoundCall, CallOnlyInv DEF RepausePaused
    <2>. QED BY <2>2, <2>3
  <1>5. ASSUME NEW c \in Case, ClosePaused(w, c) PROVE IInv'
    <2>1. PICK to \in {"lost", "aborted"} : SetState(w, c, to)
      BY <1>5 DEF ClosePaused
    <2>. QED BY <1>2, <1>5, <2>1, SetStateInv DEF ClosePaused
  <1>. QED BY <1>3, <1>4, <1>5

LEMMA NextIInv == IInv /\ [Next]_vars => IInv'
  <1>. SUFFICES ASSUME IInv, [Next]_vars PROVE IInv'
    OBVIOUS
  <1>1. ASSUME NEW w \in Worker, Step(w) PROVE IInv'
    BY <1>1, CreateInsertInv, CallStepInv, MoverInv, ClaimInv, AppendInv DEF Step
  <1>2. ASSUME NEW c \in Case, StartRecoveryMark(c) PROVE IInv'
    BY <1>2, StartRecoveryInv
  <1>3. CASE UNCHANGED vars
    BY <1>3 DEF vars, IInv, TypeOK, CallsSound, CallSound, OneLiveCasePerKey, LedgerHonest,
                OneResumePerPause, Live
  <1>. QED BY <1>1, <1>2, <1>3 DEF Next

(* The inductive invariant of the repository: whatever the callers interleave *)
(* and wherever they crash, rows, calls and ledger stay consistent.           *)
THEOREM RepositoryInvariant == Spec => []IInv
  BY InitIInv, NextIInv, PTL DEF Spec

(* No two live rows ever share an order or an invoice (createCase against     *)
(* every concurrent insert and every move of the incumbent).                  *)
THEOREM AtMostOneLiveCase == Spec => []OneLiveCasePerKey
  <1>1. IInv => OneLiveCasePerKey
    BY DEF IInv
  <1>. QED BY <1>1, RepositoryInvariant, PTL

(* The ledger never records, and no call still owes it, an ending the case    *)
(* did not have (transitionCase, closePausedCase).                            *)
THEOREM LedgerNeverLies == Spec => []LedgerHonest
  <1>1. IInv => LedgerHonest
    BY DEF IInv
  <1>. QED BY <1>1, RepositoryInvariant, PTL

(* A case is never resumed more often than it was paused                      *)
(* (claimPausedCaseForResume, called by the switch and the sweep at once).    *)
THEOREM ResumeOnce == Spec => []OneResumePerPause
  <1>1. IInv => OneResumePerPause
    BY DEF IInv
  <1>. QED BY <1>1, RepositoryInvariant, PTL

\* A move of one row along the table is a Move of the abstract case table.
LEMMA MoveRefines ==
  ASSUME NEW c \in Case, NEW to \in CaseState, cases[c].state # "absent",
         canTransition(cases[c].state, to),
         cases'[c].state = to, cases'[c].key = cases[c].key,
         \A d \in Case : d # c => cases'[d] = cases[d]
  PROVE  Lifecycle!Move(c, to)
  BY DEF Lifecycle!Move, Lifecycle!canTransition, Lifecycle!TRANSITIONS, canTransition, TRANSITIONS

LEMMA SetStateRefines ==
  ASSUME IInv, NEW w \in Worker, NEW c \in Case, NEW to \in CaseState,
         canTransition(cases[c].state, to), SetState(w, c, to)
  PROVE  Lifecycle!Move(c, to)
  <1>1. /\ cases'[c].state = to /\ cases'[c].key = cases[c].key
        /\ \A d \in Case : d # c => cases'[d] = cases[d]
    BY DEF SetState, IInv, TypeOK, Row
  <1>2. cases[c].state # "absent"
    BY MachineFacts
  <1>. QED BY <1>1, <1>2, MoveRefines

LEMMA StepRefines ==
  ASSUME IInv, IInv', [Next]_vars
  PROVE  [Lifecycle!Next]_(Lifecycle!vars)
  <1>1. UNCHANGED cases => UNCHANGED Lifecycle!vars
    BY DEF Lifecycle!vars
  <1>2. ASSUME NEW c \in Case, NEW to \in CaseState, Lifecycle!Move(c, to) PROVE Lifecycle!Next
    BY <1>2 DEF Lifecycle!Next, Lifecycle!CaseState, CaseState
  <1>3. ASSUME NEW w \in Worker, NEW c \in Case, NEW k \in Key, CreateInsert(w, c, k)
        PROVE  Lifecycle!Next
    <2>1. /\ cases[c].state = "absent" /\ cases'[c].state = "detected" /\ cases'[c].key = k
          /\ \A d \in Case : d # c => cases'[d] = cases[d]
          /\ \A d \in Case : cases[d].state \in LiveState => ~SameKey(k, cases[d].key)
      BY <1>3 DEF CreateInsert, Live, IInv, TypeOK, Row
    <2>2. Lifecycle!Open(c, k)
      BY <2>1 DEF Lifecycle!Open, Lifecycle!SameKey, SameKey, Lifecycle!LiveState, LiveState
    <2>. QED BY <2>2 DEF Lifecycle!Next, Lifecycle!Key, Key
  <1>4. ASSUME NEW w \in Worker, TransitionUpdate(w), ~UNCHANGED cases
        PROVE  Lifecycle!Next
    <2>1. CallSound(worker[w])
      BY DEF IInv, CallsSound
    <2>2. /\ worker[w].case \in Case /\ worker[w].to \in CaseState
          /\ canTransition(cases[worker[w].case].state, worker[w].to)
          /\ SetState(w, worker[w].case, worker[w].to)
      BY <1>4, <2>1, MachineFacts DEF TransitionUpdate, CallSound
    <2>. QED BY <2>2, SetStateRefines, <1>2
  <1>5. ASSUME NEW w \in Worker, NEW c \in Case, ClaimPausedForResume(w, c)
        PROVE  Lifecycle!Next
    <2>1. /\ cases[c].state = "paused" /\ cases'[c].state = "executing"
          /\ cases'[c].key = cases[c].key
          /\ \A d \in Case : d # c => cases'[d] = cases[d]
      BY <1>5 DEF ClaimPausedForResume, IInv, TypeOK, Row
    <2>2. canTransition("paused", "executing") /\ "executing" \in CaseState
      BY DEF canTransition, TRANSITIONS, CaseState
    <2>. QED BY <2>1, <2>2, MoveRefines, <1>2
  <1>6. ASSUME NEW w \in Worker, RepausePaused(w), ~UNCHANGED cases
        PROVE  Lifecycle!Next
    <2>1. /\ worker[w].case \in Case /\ cases[worker[w].case].state = "executing"
          /\ SetState(w, worker[w].case, "paused")
      BY <1>6 DEF RepausePaused, IInv, CallsSound, CallSound
    <2>2. canTransition("executing", "paused") /\ "paused" \in CaseState
      BY DEF canTransition, TRANSITIONS, CaseState
    <2>. QED BY <2>1, <2>2, SetStateRefines, <1>2
  <1>7. ASSUME NEW w \in Worker, NEW c \in Case, ClosePaused(w, c)
        PROVE  Lifecycle!Next
    <2>1. PICK to \in {"lost", "aborted"} : SetState(w, c, to)
      BY <1>7 DEF ClosePaused
    <2>2. canTransition(cases[c].state, to) /\ to \in CaseState
      <3>1. to = "lost" \/ to = "aborted"
        OBVIOUS
      <3>2. cases[c].state = "paused"
        BY <1>7 DEF ClosePaused
      <3>. QED BY <3>1, <3>2 DEF canTransition, TRANSITIONS, CaseState
    <2>. QED BY <2>1, <2>2, SetStateRefines, <1>2
  <1>8. ASSUME NEW c \in Case, StartRecoveryMark(c) PROVE Lifecycle!Next
    <2>1. /\ cases[c].state = "diagnosed" /\ cases'[c].state = "executing"
          /\ cases'[c].key = cases[c].key
          /\ \A d \in Case : d # c => cases'[d] = cases[d]
      BY <1>8 DEF StartRecoveryMark, IInv, TypeOK, Row
    <2>2. canTransition("diagnosed", "executing") /\ "executing" \in CaseState
      BY DEF canTransition, TRANSITIONS, CaseState
    <2>. QED BY <2>1, <2>2, MoveRefines, <1>2
  <1>9. ASSUME NEW w \in Worker, Step(w), ~UNCHANGED cases PROVE Lifecycle!Next
    BY <1>3, <1>4, <1>5, <1>6, <1>7, <1>9
    DEF Step, CreateConflict, CreateFindIncumbent, CatchThrow, TransitionRead, WakePublished,
        AppendEvent, Crash
  <1>. QED BY <1>1, <1>8, <1>9 DEF Next, vars

(* The repository implements the abstract case table: every interleaving of   *)
(* its statements only opens cases with a free key and moves them along       *)
(* TRANSITIONS (machine.ts), so no race reopens a case or skips a state.      *)
THEOREM ImplementsLifecycle == Spec => RefinesLifecycle
  <1>1. Init => Lifecycle!Init
    BY DEF Init, Lifecycle!Init, Lifecycle!NoKey, NoKey
  <1>2. IInv /\ IInv' /\ [Next]_vars => [Lifecycle!Next]_(Lifecycle!vars)
    BY StepRefines
  <1>. QED BY <1>1, <1>2, RepositoryInvariant, PTL DEF Spec, RefinesLifecycle, Lifecycle!Spec
============================================================================
