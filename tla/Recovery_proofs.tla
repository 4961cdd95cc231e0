--------------------------- MODULE Recovery_proofs ---------------------------
(* Proofs about one order's recovery, for any number of cases, deliveries,     *)
(* resume passes, rungs and faults.                                            *)
EXTENDS Recovery, TLAPS

----------------------------------------------------------------------------
(* The inductive invariant.                                                    *)

\* What a handler on its way has read of its case is still so.
HookSound == \A h \in Hook :
  /\ hooks[h].pc \in {"found", "update", "publish", "resolve"}
       => hooks[h].case \in Case /\ StateOf(hooks[h].case) # "absent"
  /\ hooks[h].pc = "update" => transition(hooks[h].from, Goal(h)[1], Goal(h)[2])
  /\ hooks[h].pc = "publish" => StateOf(hooks[h].case) # "detected"

\* A run is at a rung of its ladder, sends it to one channel unless it is a fanout
\* rung, and closes its case only along the table.
RunSound == \A r \in RunKey :
  /\ runs[r].pc \in {"none", "queued"} => runs[r].rung = 1
  /\ runs[r].pc \in {"gate", "act", "send"} => runs[r].rung \in Rung
  /\ runs[r].pc = "send" /\ runs[r].rung \notin Fanout => \E ch : runs[r].left \subseteq {ch}
  /\ runs[r].pc \in {"closing", "closeUpdate"} /\ runs[r].to = "lost" => r[1] \in world.expired
  /\ runs[r].pc = "closeUpdate" => canTransition(runs[r].from, runs[r].to)

WakerSound == \A w \in Waker :
  /\ wakers[w].pc # "idle" => wakers[w].case \in Case
  /\ wakers[w].pc = "listed" /\ wakers[w].to = "lost" => wakers[w].case \in world.expired

SweepSound == sweep.rows \subseteq world.expired

\* Nobody gives a case up before its deadline.
LostIsLate == \A c \in Case : StateOf(c) = "lost" => c \in world.expired

Slot(r) == <<r[1], runs[r].rung>>

Message(r, ch) == <<r[1], runs[r].rung, ch>>

\* A rung about to be sent belongs to the run that inserted its action row.
RungOwned ==
  /\ \A x \in Case \X Rung \X Channel :
       touched[x] <= 1 /\ (touched[x] # 0 => <<x[1], x[2]>> \in actions)
  /\ \A r \in RunKey : runs[r].pc = "send" =>
       Slot(r) \in actions /\ \A ch \in runs[r].left : touched[Message(r, ch)] = 0
  /\ \A q, r \in RunKey :
       runs[q].pc = "send" /\ runs[r].pc = "send" /\ Slot(q) = Slot(r) => q = r

\* A run that has sent after the end of its case is past its last gate, and goes on
\* only with the other channels of the same rung.
Silent(r) ==
  /\ RestOfOneRung(r) /\ runs[r].pc # "act"
  /\ runs[r].pc = "send" => /\ \A x \in late[r] : x[1] = runs[r].rung
                            /\ runs[r].left # {} => runs[r].rung \in Fanout
Silenced == \A r \in RunKey :
  late[r] # {} => /\ Ended(r[1])
                  /\ StateOf(r[1]) \in {"recovered", "lost"} => Silent(r)

IInv == /\ TypeOK /\ HookSound /\ RunSound /\ WakerSound /\ SweepSound
        /\ LostIsLate /\ RungOwned /\ Silenced

----------------------------------------------------------------------------
(* How cases move.                                                             *)

LEMMA MachineFacts ==
  /\ \A s \in TerminalState \cup {"absent"} : \A t : ~canTransition(s, t)
  /\ \A s, t : canTransition(s, t) => s \in CaseState /\ t \in CaseState \ {"detected"}
  /\ TerminalState = {"recovered", "lost", "aborted"}
  /\ "absent" \notin CaseState
  BY DEF canTransition, TRANSITIONS, TerminalState, CaseState

\* A step opens one case, moves one along the table, or leaves their states alone.
Opens(c) == /\ StateOf(c) = "absent" /\ cases'[c].state = "detected"
            /\ \A d \in Case : ~Live(d)
            /\ \A d \in Case \ {c} : cases'[d].state = cases[d].state
Moves(c) == /\ canTransition(StateOf(c), cases'[c].state)
            /\ cases'[c].state = "lost" => c \in world.expired
            /\ \A d \in Case \ {c} : cases'[d].state = cases[d].state
Legal == \/ \A c \in Case : cases'[c].state = cases[c].state
         \/ \E c \in Case : Opens(c) \/ Moves(c)

\* What everybody else may count on across such a step.
CasesKeep ==
  /\ \A c \in Case :
       /\ Ended(c) => cases'[c].state = cases[c].state
       /\ StateOf(c) # "absent" => cases'[c].state # "absent"
       /\ StateOf(c) \notin {"absent", "detected"} => cases'[c].state \notin {"absent", "detected"}
       /\ cases'[c].state = "lost" => c \in world.expired
  /\ world.expired \subseteq world'.expired

LEMMA LegalKeeps ==
  ASSUME IInv, Legal, world.expired \subseteq world'.expired
  PROVE  CasesKeep
  <1>. SUFFICES ASSUME NEW c \in Case
       PROVE  /\ Ended(c) => cases'[c].state = cases[c].state
              /\ StateOf(c) # "absent" => cases'[c].state # "absent"
              /\ StateOf(c) \notin {"absent", "detected"}
                   => cases'[c].state \notin {"absent", "detected"}
              /\ cases'[c].state = "lost" => c \in world.expired
    BY DEF CasesKeep
  <1>1. CASE cases'[c].state = cases[c].state
    BY <1>1 DEF IInv, LostIsLate, StateOf
  <1>2. CASE Opens(c)
    BY <1>2, MachineFacts DEF Opens, Ended, isTerminal
  <1>3. CASE Moves(c)
    BY <1>3, MachineFacts DEF Moves, Ended, isTerminal, StateOf
  <1>. QED BY <1>1, <1>2, <1>3 DEF Legal, Opens, Moves

\* A row whose state alone was written, along the table.
LEMMA MoveLegal ==
  ASSUME IInv, NEW c \in Case, NEW to, canTransition(StateOf(c), to),
         to = "lost" => c \in world.expired,
         cases' = [cases EXCEPT ![c].state = to]
  PROVE  Legal /\ cases' \in [Case -> [state : CaseState \cup {"absent"}, resumes : 0..MaxResumes]]
  <1>1. to \in CaseState
    BY MachineFacts
  <1>2. Moves(c)
    BY DEF Moves, IInv, TypeOK
  <1>. QED BY <1>1, <1>2 DEF Legal, IInv, TypeOK

LEMMA SameCasesLegal ==
  ASSUME IInv, cases' = cases
  PROVE  Legal /\ cases' \in [Case -> [state : CaseState \cup {"absent"}, resumes : 0..MaxResumes]]
  BY DEF Legal, IInv, TypeOK

\* transitionCase in one step.
LEMMA TransitionLegal ==
  ASSUME IInv, NEW c \in Case, NEW to, NEW reason, Transition(c, to, reason),
         to = "lost" => c \in world.expired
  PROVE  Legal /\ cases' \in [Case -> [state : CaseState \cup {"absent"}, resumes : 0..MaxResumes]]
  <1>1. CASE transition(StateOf(c), to, reason)
    <2>1. canTransition(StateOf(c), to) /\ cases' = [cases EXCEPT ![c].state = to]
      BY <1>1 DEF transition, Transition, IInv, TypeOK, StateOf
    <2>. QED BY <2>1, MoveLegal
  <1>2. CASE ~transition(StateOf(c), to, reason)
    <2>1. cases' = cases
      BY <1>2 DEF Transition, IInv, TypeOK, StateOf
    <2>. QED BY <2>1, SameCasesLegal
  <1>. QED BY <1>1, <1>2

----------------------------------------------------------------------------
(* What a step that leaves a part alone preserves of it.                       *)

LEMMA FrameHooks ==
  ASSUME IInv, CasesKeep, hooks' = hooks
  PROVE  HookSound'
  BY DEF IInv, HookSound, CasesKeep, StateOf, Goal

LEMMA FrameWakers ==
  ASSUME IInv, CasesKeep, wakers' = wakers
  PROVE  WakerSound'
  BY DEF IInv, WakerSound, CasesKeep

\* A run that only starts, ends or is told to stop stays at its rung.
SameRung(r) == /\ runs'[r].rung = runs[r].rung /\ runs'[r].left = runs[r].left
               /\ runs'[r].to = runs[r].to /\ runs'[r].from = runs[r].from
               /\ \/ runs'[r].pc \in {runs[r].pc, "done"}
                  \/ runs[r].pc = "none" /\ runs'[r].pc = "queued"

LEMMA FrameRuns ==
  ASSUME IInv, CasesKeep, UNCHANGED <<actions, touched, late>>, \A r \in RunKey : SameRung(r)
  PROVE  RunSound' /\ RungOwned' /\ Silenced'
  <1>1. RunSound'
    <2>. SUFFICES ASSUME NEW r \in RunKey
         PROVE  /\ runs'[r].pc \in {"none", "queued"} => runs'[r].rung = 1
                /\ runs'[r].pc \in {"gate", "act", "send"} => runs'[r].rung \in Rung
                /\ runs'[r].pc = "send" /\ runs'[r].rung \notin Fanout
                     => \E ch : runs'[r].left \subseteq {ch}
                /\ runs'[r].pc \in {"closing", "closeUpdate"} /\ runs'[r].to = "lost"
                     => r[1] \in world'.expired
                /\ runs'[r].pc = "closeUpdate" => canTransition(runs'[r].from, runs'[r].to)
      BY DEF RunSound
    <2>. QED BY DEF IInv, RunSound, CasesKeep, SameRung
  <1>2. RungOwned'
    <2>1. \A r \in RunKey : /\ Slot(r)' = Slot(r) /\ (runs'[r].pc = "send" => runs[r].pc = "send")
                            /\ \A ch : Message(r, ch)' = Message(r, ch)
      BY DEF SameRung, Slot, Message
    <2>. QED BY <2>1 DEF IInv, RungOwned, SameRung
  <1>3. Silenced'
    <2>. SUFFICES ASSUME NEW r \in RunKey, late[r] # {}
         PROVE  /\ Ended(r[1])'
                /\ StateOf(r[1])' \in {"recovered", "lost"} => Silent(r)'
      BY DEF Silenced
    <2>1. r[1] \in Case
      BY DEF RunKey
    <2>2. Silent(r) => Silent(r)'
      BY DEF Silent, SameRung, RestOfOneRung
    <2>. QED BY <2>1, <2>2 DEF IInv, Silenced, CasesKeep, StateOf, Ended
  <1>. QED BY <1>1, <1>2, <1>3

\* The sweep's list, left alone while time only goes on.
LEMMA FrameSweep ==
  ASSUME IInv, CasesKeep, UNCHANGED <<sweep, orphans>>
  PROVE  SweepSound' /\ sweep' \in SweepPass /\ orphans' \subseteq RunKey
  BY DEF IInv, TypeOK, SweepSound, CasesKeep

----------------------------------------------------------------------------
(* The webhook handlers.                                                       *)

HookStep(h) == HookClaim(h) \/ Handle(h) \/ Redrive(h) \/ HookThrow(h) \/ HookDie(h)

LEMMA GoalFacts ==
  ASSUME NEW h \in Hook, NEW s, transition(s, Goal(h)[1], Goal(h)[2])
  PROVE  /\ canTransition(s, Goal(h)[1]) /\ Goal(h)[1] \in {"diagnosed", "aborted", "recovered"}
         /\ h \in Failed => s = "detected" /\ Goal(h)[1] = "diagnosed"
  BY DEF Goal, transition, canTransition, TRANSITIONS

LEMMA FreshIsDiagnosed ==
  ASSUME NEW h \in Failed
  PROVE  transition("detected", Goal(h)[1], Goal(h)[2])
  BY DEF Goal, transition, isTerminal, TerminalState, canTransition, TRANSITIONS, REASONS_FOR

LEMMA HookCases ==
  ASSUME IInv, NEW h \in Hook, HookStep(h)
  PROVE  Legal /\ cases' \in [Case -> [state : CaseState \cup {"absent"}, resumes : 0..MaxResumes]]
  <1>1. CASE HookCreate(h)
    <2>1. PICK c \in Case :
            \/ cases' = cases
            \/ /\ StateOf(c) = "absent" /\ \A d \in Case : ~Live(d)
               /\ cases' = [cases EXCEPT ![c].state = "detected"]
      BY <1>1 DEF HookCreate
    <2>2. CASE StateOf(c) = "absent" /\ (\A d \in Case : ~Live(d))
               /\ cases' = [cases EXCEPT ![c].state = "detected"]
      <3>1. Opens(c)
        BY <2>2 DEF Opens, IInv, TypeOK
      <3>. QED BY <2>2, <3>1 DEF Legal, IInv, TypeOK, CaseState
    <2>. QED BY <2>1, <2>2, SameCasesLegal
  <1>2. CASE HookUpdate(h)
    <2>. DEFINE c == hooks[h].case  to == Goal(h)[1]
    <2>1. c \in Case /\ transition(hooks[h].from, Goal(h)[1], Goal(h)[2])
      BY <1>2 DEF HookUpdate, IInv, HookSound
    <2>2. CASE StateOf(c) = hooks[h].from
      <3>1. canTransition(StateOf(c), to) /\ to # "lost"
        BY <2>1, <2>2, GoalFacts
      <3>2. cases' = [cases EXCEPT ![c].state = to]
        BY <1>2, <2>2 DEF HookUpdate
      <3>. QED BY <2>1, <3>1, <3>2, MoveLegal
    <2>3. CASE StateOf(c) # hooks[h].from
      <3>1. cases' = cases
        BY <1>2, <2>3, <2>1 DEF HookUpdate, IInv, TypeOK
      <3>. QED BY <3>1, SameCasesLegal
    <2>. QED BY <2>2, <2>3
  <1>3. CASE HookStep(h) /\ ~HookCreate(h) /\ ~HookUpdate(h)
    <2>1. cases' = cases
      BY <1>3 DEF HookStep, HookClaim, Handle, Redrive, HookThrow, HookDie, HookFind, HookRead,
                  HookPublish, HookResolve, HookMark
    <2>. QED BY <2>1, SameCasesLegal
  <1>. QED BY <1>1, <1>2, <1>3

RunPc == {"none", "queued", "gate", "act", "send", "pausing", "paused",
          "closing", "closeUpdate", "done"}

LEMMA RunEdits ==
  ASSUME NEW run \in Run
  PROVE  /\ \A pc \in RunPc : [run EXCEPT !.pc = pc] \in Run
         /\ \A stop \in BOOLEAN : [run EXCEPT !.stop = stop] \in Run
  BY DEF Run, RunPc

LEMMA QueuedRun ==
  ASSUME NEW run \in Run
  PROVE  [run EXCEPT !.pc = IF @ = "none" THEN "queued" ELSE @] \in Run
  <1>1. run.pc \in RunPc
    BY DEF Run, RunPc
  <1>2. (IF run.pc = "none" THEN "queued" ELSE run.pc) \in RunPc
    BY <1>1 DEF RunPc
  <1>. QED BY <1>2, RunEdits

LEMMA HookOthers ==
  ASSUME IInv, NEW h \in Hook, HookStep(h)
  PROVE  /\ UNCHANGED <<wakers, sweep, actions, touched, late, orphans, world>>
         /\ \A g \in Hook : g # h => hooks'[g] = hooks[g]
         /\ \A r \in RunKey : SameRung(r)
         /\ faults' \in Nat
         /\ runs' \in [RunKey -> Run]
  <1>1. UNCHANGED <<wakers, sweep, actions, touched, late, orphans, world>>
    BY DEF HookStep, HookClaim, Handle, Redrive, HookThrow, HookDie, HookCreate, HookFind,
           HookRead, HookUpdate, HookPublish, HookResolve, HookMark
  <1>2. \A g \in Hook : g # h => hooks'[g] = hooks[g]
    BY DEF HookStep, HookClaim, Handle, Redrive, HookThrow, HookDie, HookCreate, HookFind,
           HookRead, HookUpdate, HookPublish, HookResolve, HookMark, HookAt, IInv, TypeOK
  <1>3. faults' \in Nat
    <2>1. faults' = faults \/ faults' = faults + 1
      BY DEF HookStep, HookClaim, Handle, Redrive, HookThrow, HookDie, HookCreate, HookFind,
             HookRead, HookUpdate, HookPublish, HookResolve, HookMark, Fault
    <2>. QED BY <2>1 DEF IInv, TypeOK
  <1>4. (\A r \in RunKey : SameRung(r)) /\ runs' \in [RunKey -> Run]
    <2>1. CASE HookPublish(h)
      <3>. DEFINE k == <<hooks[h].case, 0>>
      <3>1. runs' = [runs EXCEPT ![k].pc = IF @ = "none" THEN "queued" ELSE @]
        BY <2>1 DEF HookPublish, Publish
      <3>2. [runs[k] EXCEPT !.pc = IF @ = "none" THEN "queued" ELSE @] \in Run \/ k \notin RunKey
        BY QueuedRun DEF IInv, TypeOK
      <3>3. runs' \in [RunKey -> Run]
        BY <3>1, <3>2 DEF IInv, TypeOK
      <3>4. ASSUME NEW r \in RunKey PROVE SameRung(r)
        <4>1. CASE r = k
          BY <3>1, <4>1 DEF SameRung, IInv, TypeOK, Run
        <4>2. CASE r # k
          BY <3>1, <4>2 DEF SameRung, IInv, TypeOK
        <4>. QED BY <4>1, <4>2
      <3>. QED BY <3>3, <3>4
    <2>2. CASE HookResolve(h)
      <3>1. \A r \in RunKey : [runs[r] EXCEPT !.stop = @ \/ (r[1] = hooks[h].case /\ Started(r))] \in Run
        <4>. SUFFICES ASSUME NEW r \in RunKey
             PROVE  [runs[r] EXCEPT !.stop = @ \/ (r[1] = hooks[h].case /\ Started(r))] \in Run
          OBVIOUS
        <4>. DEFINE stop == runs[r].stop \/ (r[1] = hooks[h].case /\ Started(r))
        <4>1. runs[r] \in Run /\ stop \in BOOLEAN
          BY DEF IInv, TypeOK
        <4>. QED BY <4>1, RunEdits
      <3>. QED BY <2>2, <3>1 DEF HookResolve, SameRung, IInv, TypeOK, Run
    <2>3. CASE HookStep(h) /\ ~HookPublish(h) /\ ~HookResolve(h)
      <3>1. runs' = runs
        BY <2>3 DEF HookStep, HookClaim, Handle, Redrive, HookThrow, HookDie, HookCreate,
                    HookFind, HookRead, HookUpdate, HookMark
      <3>. QED BY <3>1 DEF SameRung, IInv, TypeOK
    <2>. QED BY <2>1, <2>2, <2>3
  <1>. QED BY <1>1, <1>2, <1>3, <1>4

\* The handler's own row afterwards.
LEMMA HookRowKeeps ==
  ASSUME IInv, CasesKeep, NEW h \in Hook, HookStep(h)
  PROVE  /\ hooks'[h] \in HookRow
         /\ hooks'[h].pc \in {"found", "update", "publish", "resolve"}
              => hooks'[h].case \in Case /\ cases'[hooks'[h].case].state # "absent"
         /\ hooks'[h].pc = "update" => transition(hooks'[h].from, Goal(h)[1], Goal(h)[2])
         /\ hooks'[h].pc = "publish" => cases'[hooks'[h].case].state # "detected"
  <1>. USE DEF IInv
  <1>1. hooks[h] \in HookRow /\ hooks \in [Hook -> HookRow]
    BY DEF TypeOK
  <1>2. CASE HookCreate(h)
    <2>1. PICK c \in Case :
            \/ Live(c) /\ cases' = cases /\ hooks' = [hooks EXCEPT ![h].pc = "found", ![h].case = c]
            \/ /\ cases' = [cases EXCEPT ![c].state = "detected"]
               /\ hooks' = [hooks EXCEPT ![h].pc = "found", ![h].case = c, ![h].opened = @ \cup {c}]
      BY <1>2 DEF HookCreate
    <2>2. cases'[c].state # "absent"
      BY <2>1 DEF Live, LiveState, TypeOK, StateOf
    <2>. QED BY <1>1, <2>1, <2>2 DEF HookRow
  <1>3. CASE HookFind(h)
    <2>1. CASE hooks' = [hooks EXCEPT ![h].pc = "finish"]
      BY <1>1, <2>1 DEF HookRow, TypeOK
    <2>2. CASE \E c \in Case : Live(c) /\ hooks' = [hooks EXCEPT ![h].pc = "found", ![h].case = c]
      <3>1. PICK c \in Case : Live(c) /\ hooks' = [hooks EXCEPT ![h].pc = "found", ![h].case = c]
        BY <2>2
      <3>2. cases'[c].state # "absent"
        BY <3>1 DEF CasesKeep, Live, LiveState, StateOf
      <3>. QED BY <1>1, <3>1, <3>2 DEF HookRow, TypeOK
    <2>. QED BY <1>3, <2>1, <2>2 DEF HookFind
  <1>4. CASE HookRead(h)
    <2>. DEFINE c == hooks[h].case
                ok == transition(StateOf(c), Goal(h)[1], Goal(h)[2])
    <2>1. c \in Case /\ StateOf(c) # "absent" /\ StateOf(c) \in CaseState
      BY <1>4 DEF HookRead, HookSound, TypeOK, StateOf
    <2>2. /\ hooks'[h].case = c /\ hooks'[h].from = StateOf(c)
          /\ hooks'[h].pc = IF ok THEN "update" ELSE AfterTransition(h, FALSE)
          /\ hooks'[h] \in HookRow
          /\ cases' = cases
      BY <1>1, <1>4, <2>1 DEF HookRead, HookRow, TypeOK, AfterTransition
    <2>3. ~ok /\ h \in Failed => StateOf(c) # "detected"
      BY FreshIsDiagnosed
    <2>. QED BY <2>1, <2>2, <2>3 DEF AfterTransition, StateOf
  <1>5. CASE HookUpdate(h)
    <2>. DEFINE c == hooks[h].case
    <2>1. /\ c \in Case /\ StateOf(c) # "absent"
          /\ transition(hooks[h].from, Goal(h)[1], Goal(h)[2])
      BY <1>5 DEF HookUpdate, HookSound
    <2>2. /\ hooks'[h].case = c
          /\ hooks'[h].pc = AfterTransition(h, StateOf(c) = hooks[h].from)
          /\ hooks'[h] \in HookRow
          /\ cases'[c].state = IF StateOf(c) = hooks[h].from THEN Goal(h)[1] ELSE StateOf(c)
      BY <1>1, <1>5, <2>1 DEF HookUpdate, HookRow, TypeOK, AfterTransition, StateOf
    <2>3. /\ h \in Failed => hooks[h].from = "detected"
          /\ Goal(h)[1] # "absent" /\ Goal(h)[1] # "detected"
      BY <2>1, GoalFacts
    <2>. QED BY <2>1, <2>2, <2>3 DEF AfterTransition
  <1>6. CASE HookPublish(h) \/ HookResolve(h) \/ HookMark(h) \/ HookClaim(h) \/ Redrive(h)
             \/ HookThrow(h) \/ HookDie(h)
    <2>1. /\ hooks'[h] \in HookRow
          /\ hooks'[h].pc \in {"finish", "processed", "claimed", "unprocessed"}
      BY <1>1, <1>6 DEF HookPublish, HookResolve, HookMark, HookClaim, Redrive, HookThrow,
                        HookDie, HookAt, HookRow
    <2>. QED BY <2>1
  <1>. QED BY <1>2, <1>3, <1>4, <1>5, <1>6 DEF HookStep, Handle

LEMMA HookKeeps ==
  ASSUME IInv, NEW h \in Hook, HookStep(h)
  PROVE  IInv' /\ Legal
  <1>1. Legal /\ CasesKeep
    BY HookCases, HookOthers, LegalKeeps
  <1>2. HookSound'
    BY <1>1, HookRowKeeps, HookOthers DEF IInv, HookSound, CasesKeep, StateOf, Goal
  <1>3. hooks' \in [Hook -> HookRow]
    <2>1. hooks' = [hooks EXCEPT ![h] = hooks'[h]]
      BY DEF HookStep, HookClaim, Handle, Redrive, HookThrow, HookDie, HookCreate, HookFind,
             HookRead, HookUpdate, HookPublish, HookResolve, HookMark, HookAt, IInv, TypeOK
    <2>. QED BY <1>1, <2>1, HookRowKeeps DEF IInv, TypeOK
  <1>4. TypeOK'
    BY <1>3, HookCases, HookOthers DEF IInv, TypeOK
  <1>5. LostIsLate'
    BY <1>1 DEF CasesKeep, LostIsLate, StateOf
  <1>. QED BY <1>1, <1>2, <1>4, <1>5, HookOthers, FrameRuns, FrameWakers, FrameSweep DEF IInv

----------------------------------------------------------------------------
(* run-ladder.                                                                 *)

RunStep(r) == \/ Ladder(r) \/ RunDefer(r) \/ RunGiveUpRung(r)
              \/ RunRetryAttempt(r) \/ RunRetryPause(r)

LEMMA RunCases ==
  ASSUME IInv, NEW r \in RunKey, RunStep(r)
  PROVE  Legal /\ cases' \in [Case -> [state : CaseState \cup {"absent"}, resumes : 0..MaxResumes]]
  <1>0. r[1] \in Case
    BY DEF RunKey
  <1>1. CASE RunStart(r)
    BY <1>0, <1>1, TransitionLegal DEF RunStart
  <1>2. CASE RunPause(r)
    BY <1>0, <1>2, TransitionLegal DEF RunPause
  <1>3. CASE RunCloseUpdate(r)
    <2>1. /\ canTransition(runs[r].from, runs[r].to)
          /\ runs[r].to = "lost" => r[1] \in world.expired
      BY <1>3 DEF RunCloseUpdate, IInv, RunSound
    <2>2. CASE StateOf(r[1]) = runs[r].from
      <3>1. cases' = [cases EXCEPT ![r[1]].state = runs[r].to]
        BY <1>3, <2>2, <1>0 DEF RunCloseUpdate, StateOf
      <3>. QED BY <1>0, <2>1, <2>2, <3>1, MoveLegal
    <2>3. CASE StateOf(r[1]) # runs[r].from
      <3>1. cases' = cases
        BY <1>3, <2>3, <1>0 DEF RunCloseUpdate, StateOf, IInv, TypeOK
      <3>. QED BY <3>1, SameCasesLegal
    <2>. QED BY <2>2, <2>3
  <1>4. CASE RunStep(r) /\ ~RunStart(r) /\ ~RunPause(r) /\ ~RunCloseUpdate(r)
    <2>1. cases' = cases
      BY <1>4 DEF RunStep, Ladder, RunDefer, RunGiveUpRung, RunRetryAttempt, RunRetryPause,
                  RunGather, RunAct, RunSend, RunRecordRung, RunEndPaused, RunCloseRead, RunCancel
    <2>. QED BY <2>1, SameCasesLegal
  <1>. QED BY <1>1, <1>2, <1>3, <1>4

\* What any step of a run leaves alone, and where it can leave the run.
LEMMA RunOthers ==
  ASSUME IInv, NEW r \in RunKey, RunStep(r)
  PROVE  /\ UNCHANGED <<hooks, wakers, sweep, orphans, world>>
         /\ runs' = [runs EXCEPT ![r] = runs'[r]]
         /\ faults' \in Nat
  <1>1. UNCHANGED <<hooks, wakers, sweep, orphans, world>>
    BY DEF RunStep, Ladder, RunDefer, RunGiveUpRung, RunRetryAttempt, RunRetryPause, RunStart,
           RunGather, RunAct, RunSend, RunRecordRung, RunPause, RunEndPaused, RunCloseRead,
           RunCloseUpdate, RunCancel
  <1>2. runs' = [runs EXCEPT ![r] = runs'[r]]
    <2>0. CASE RunAct(r)
      <3>1. NextRung(r) \/ StartSending(r)
        BY <2>0 DEF RunAct
      <3>. QED BY <3>1 DEF NextRung, StartSending, IInv, TypeOK
    <2>1. CASE RunStart(r) \/ RunGather(r) \/ RunDefer(r) \/ RunGiveUpRung(r)
      BY <2>1 DEF RunStart, RunGather, RunDefer, RunGiveUpRung, Goto, NextRung, IInv, TypeOK
    <2>2. CASE RunSend(r) \/ RunRecordRung(r) \/ RunRetryAttempt(r) \/ RunRetryPause(r)
      BY <2>2 DEF RunSend, RunRecordRung, RunRetryAttempt, RunRetryPause, Goto, NextRung, IInv, TypeOK
    <2>3. CASE RunPause(r) \/ RunEndPaused(r) \/ RunCloseRead(r) \/ RunCloseUpdate(r) \/ RunCancel(r)
      BY <2>3 DEF RunPause, RunEndPaused, RunCloseRead, RunCloseUpdate, RunCancel, Goto, IInv, TypeOK
    <2>. QED BY <2>0, <2>1, <2>2, <2>3 DEF RunStep, Ladder
  <1>3. faults' \in Nat
    <2>1. faults' = faults \/ faults' = faults + 1
      BY DEF RunStep, Ladder, RunDefer, RunGiveUpRung, RunRetryAttempt, RunRetryPause, RunStart,
             RunGather, RunAct, RunSend, RunRecordRung, RunPause, RunEndPaused, RunCloseRead,
             RunCloseUpdate, RunCancel, Fault
    <2>. QED BY <2>1 DEF IInv, TypeOK
  <1>. QED BY <1>1, <1>2, <1>3

\* The records run-ladder's steps write.
Moved(run, pc) == [run EXCEPT !.pc = pc]
Advanced(run, pc, n) == [run EXCEPT !.pc = pc, !.rung = n, !.tries = 0, !.deferred = FALSE,
                                    !.left = {}]
Retried(run, pc, n) == [run EXCEPT !.pc = pc, !.tries = n, !.left = {}]
ToClose(run, to) == [run EXCEPT !.pc = "closing", !.to = to]
HasRead(run, s, pc) == [run EXCEPT !.from = s, !.pc = pc]
Sending(run, channels) == [run EXCEPT !.pc = "send", !.left = channels]

LEMMA RunFields ==
  ASSUME NEW run \in Run, NEW pc \in RunPc
  PROVE  /\ LET b == Moved(run, pc)
            IN b \in Run /\ b.pc = pc /\ b.rung = run.rung /\ b.to = run.to /\ b.from = run.from
         /\ \A n \in 1..(Rungs + 1) :
              LET b == Advanced(run, pc, n) IN b \in Run /\ b.pc = pc /\ b.rung = n
         /\ \A n \in Nat : LET b == Retried(run, pc, n)
                           IN b \in Run /\ b.pc = pc /\ b.rung = run.rung
         /\ \A s \in CaseState \cup {"absent"} :
              LET b == HasRead(run, s, pc)
              IN b \in Run /\ b.pc = pc /\ b.from = s /\ b.to = run.to
         /\ \A channels \in SUBSET Channel :
              LET b == Sending(run, channels)
              IN b \in Run /\ b.pc = "send" /\ b.rung = run.rung /\ b.left = channels
  <1>1. LET b == Moved(run, pc)
        IN b \in Run /\ b.pc = pc /\ b.rung = run.rung /\ b.to = run.to /\ b.from = run.from
    BY DEF Run, RunPc, Moved
  <1>2. ASSUME NEW n \in 1..(Rungs + 1)
        PROVE  LET b == Advanced(run, pc, n) IN b \in Run /\ b.pc = pc /\ b.rung = n
    BY DEF Run, RunPc, Advanced
  <1>3. ASSUME NEW n \in Nat
        PROVE  LET b == Retried(run, pc, n) IN b \in Run /\ b.pc = pc /\ b.rung = run.rung
    BY DEF Run, RunPc, Retried
  <1>4. ASSUME NEW s \in CaseState \cup {"absent"}
        PROVE  LET b == HasRead(run, s, pc)
               IN b \in Run /\ b.pc = pc /\ b.from = s /\ b.to = run.to
    BY DEF Run, RunPc, HasRead
  <1>5. ASSUME NEW channels \in SUBSET Channel
        PROVE  LET b == Sending(run, channels)
               IN b \in Run /\ b.pc = "send" /\ b.rung = run.rung /\ b.left = channels
    BY DEF Run, Sending
  <1>. QED BY <1>1, <1>2, <1>3, <1>4, <1>5

LEMMA CloseFields ==
  ASSUME NEW run \in Run, NEW to \in {"lost", "aborted"}
  PROVE  LET b == ToClose(run, to) IN b \in Run /\ b.pc = "closing" /\ b.to = to
  BY DEF Run, ToClose

\* Two ways a step leaves its run: elsewhere in the same rung, or past it.
LEMMA GotoFacts ==
  ASSUME IInv, NEW r \in RunKey, NEW pc \in RunPc, Goto(r, pc)
  PROVE  /\ runs'[r] \in Run
         /\ runs'[r].pc = pc /\ runs'[r].rung = runs[r].rung
         /\ runs'[r].to = runs[r].to /\ runs'[r].from = runs[r].from
  <1>1. runs[r] \in Run /\ runs'[r] = Moved(runs[r], pc)
    BY DEF IInv, TypeOK, Goto, Moved
  <1>. QED BY <1>1, RunFields

LEMMA StartSendingFacts ==
  ASSUME IInv, NEW r \in RunKey, StartSending(r)
  PROVE  /\ runs'[r] \in Run
         /\ runs'[r].pc = "send" /\ runs'[r].rung = runs[r].rung
         /\ runs[r].rung \notin Fanout => \E ch : runs'[r].left \subseteq {ch}
  <1>1. PICK channels \in Targets(runs[r].rung) :
          runs' = [runs EXCEPT ![r].pc = "send", ![r].left = channels]
    BY DEF StartSending
  <1>2. runs[r] \in Run /\ runs'[r] = Sending(runs[r], channels)
    BY <1>1 DEF IInv, TypeOK, Sending
  <1>3. /\ channels \in SUBSET Channel
        /\ runs[r].rung \notin Fanout => \E ch : channels \subseteq {ch}
    BY DEF Targets
  <1>4. "send" \in RunPc
    BY DEF RunPc
  <1>5. /\ runs'[r] \in Run /\ runs'[r].pc = "send" /\ runs'[r].rung = runs[r].rung
        /\ runs'[r].left = channels
    BY <1>2, <1>3, <1>4, RunFields
  <1>. QED BY <1>3, <1>5

\* One turn of the loop over the channels.
LEMMA SendFacts ==
  ASSUME IInv, NEW r \in RunKey, RunSend(r)
  PROVE  /\ runs[r].pc = "send" /\ runs'[r] \in Run
         /\ runs'[r].pc = "send" /\ runs'[r].rung = runs[r].rung
         /\ \E ch \in runs[r].left : /\ ch \in Channel /\ runs'[r].left = runs[r].left \ {ch}
              /\ \/ /\ touched' = [touched EXCEPT ![Message(r, ch)] = @ + 1]
                    /\ late' = [late EXCEPT ![r] =
                                  IF Ended(r[1]) THEN @ \cup {<<runs[r].rung, ch>>} ELSE @]
                 \/ UNCHANGED <<touched, late>>
  <1>0. runs[r].pc = "send" /\ runs[r] \in Run
    BY DEF RunSend, IInv, TypeOK
  <1>1. PICK ch \in runs[r].left :
          /\ runs' = [runs EXCEPT ![r].left = @ \ {ch}]
          /\ \/ /\ touched' = [touched EXCEPT ![Message(r, ch)] = @ + 1]
                /\ late' = [late EXCEPT ![r] =
                              IF Ended(r[1]) THEN @ \cup {<<runs[r].rung, ch>>} ELSE @]
             \/ UNCHANGED <<touched, late>>
    BY DEF RunSend, Message
  <1>2. runs'[r] = [runs[r] EXCEPT !.left = runs[r].left \ {ch}]
    BY <1>1 DEF IInv, TypeOK
  <1>3. /\ ch \in Channel /\ runs'[r] \in Run /\ runs'[r].left = runs[r].left \ {ch}
        /\ runs'[r].pc = runs[r].pc /\ runs'[r].rung = runs[r].rung
    BY <1>0, <1>2 DEF Run
  <1>. QED BY <1>0, <1>1, <1>3

LEMMA NextRungSound ==
  ASSUME IInv, NEW r \in RunKey, runs[r].pc \in {"gate", "act", "send"}, NextRung(r)
  PROVE  /\ runs'[r] \in Run /\ runs'[r].pc \in {"gate", "done"}
         /\ runs'[r].pc = "gate" => runs'[r].rung \in Rung
  <1>. DEFINE pc == IF runs[r].rung = Rungs THEN "done" ELSE "gate"
              n == runs[r].rung + 1
  <1>0. runs[r] \in Run
    BY DEF IInv, TypeOK
  <1>1. runs[r].rung \in 1..Rungs /\ Rungs \in Nat
    BY BoundAssumption DEF IInv, RunSound, Rung
  <1>2. runs'[r] = Advanced(runs[r], pc, n)
    BY DEF NextRung, IInv, TypeOK, Advanced
  <1>3. n \in 1..(Rungs + 1)
    BY <1>1
  <1>4. (pc = "gate" => n \in 1..Rungs) /\ pc \in {"gate", "done"} /\ pc \in RunPc
    BY <1>1 DEF RunPc
  <1>. HIDE DEF n, pc
  <1>5. Advanced(runs[r], pc, n) \in Run /\ runs'[r].pc = pc /\ runs'[r].rung = n
    BY <1>0, <1>2, <1>3, <1>4, RunFields
  <1>. QED BY <1>2, <1>4, <1>5 DEF Rung

\* The run's own record afterwards.
RowFits(r) ==
  /\ runs'[r] \in Run
  /\ runs'[r].pc \notin {"none", "queued"}
  /\ runs'[r].pc \in {"gate", "act", "send"} => runs'[r].rung \in Rung
  /\ runs'[r].pc = "send" /\ runs'[r].rung \notin Fanout => \E ch : runs'[r].left \subseteq {ch}
  /\ runs'[r].pc \in {"closing", "closeUpdate"} /\ runs'[r].to = "lost" => r[1] \in world.expired
  /\ runs'[r].pc = "closeUpdate" => canTransition(runs'[r].from, runs'[r].to)

LEMMA RunRowKeeps ==
  ASSUME IInv, NEW r \in RunKey, RunStep(r)
  PROVE  RowFits(r)
  <1>. USE DEF IInv, RowFits
  <1>1. runs[r] \in Run /\ Rungs \in Nat /\ r[1] \in Case
    BY BoundAssumption DEF TypeOK, RunKey
  <1>2. CASE NextRung(r) /\ runs[r].pc \in {"gate", "act", "send"}
    BY <1>2, NextRungSound
  <1>3. ASSUME NEW pc \in RunPc \ {"none", "queued", "send", "closing", "closeUpdate"}, Goto(r, pc),
               pc \in {"gate", "act"} => runs[r].rung \in Rung
        PROVE  RowFits(r)
    BY <1>3, GotoFacts
  <1>4. CASE RunStart(r)
    <2>. DEFINE pc == IF Rungs = 0 THEN "done" ELSE "gate"
    <2>1. runs[r].rung = 1
      BY <1>4 DEF RunStart, RunSound
    <2>2. pc = "gate" => runs[r].rung \in Rung
      BY <1>1, <2>1 DEF Rung
    <2>3. pc \in RunPc \ {"none", "queued", "send", "closing", "closeUpdate"} /\ pc \in {"done", "gate"}
      BY DEF RunPc
    <2>4. Goto(r, pc)
      BY <1>4 DEF RunStart
    <2>. HIDE DEF pc
    <2>. QED BY <1>3, <2>2, <2>3, <2>4
  <1>5. CASE RunGather(r) /\ ~NextRung(r)
    <2>1. runs[r].pc = "gate" /\ runs[r].rung \in Rung
      BY <1>5 DEF RunGather, RunSound
    <2>2. \/ \E pc \in {"pausing", "done", "act"} : runs' = [runs EXCEPT ![r] = [@ EXCEPT !.pc = pc]]
          \/ r[1] \in world.expired /\ runs' = [runs EXCEPT ![r] = [@ EXCEPT !.pc = "closing", !.to = "lost"]]
          \/ runs' = [runs EXCEPT ![r] = [@ EXCEPT !.pc = "closing", !.to = "aborted"]]
      BY <1>5 DEF RunGather
    <2>3. ASSUME NEW pc \in {"pausing", "done", "act"}, runs' = [runs EXCEPT ![r] = [@ EXCEPT !.pc = pc]]
          PROVE  RowFits(r)
      <3>1. Goto(r, pc) /\ pc \in RunPc \ {"none", "queued", "send", "closing", "closeUpdate"}
        BY <2>3 DEF Goto, RunPc, TypeOK
      <3>. QED BY <3>1, <2>1, <1>3
    <2>4. ASSUME NEW to \in {"lost", "aborted"}, to = "lost" => r[1] \in world.expired,
                 runs' = [runs EXCEPT ![r] = [@ EXCEPT !.pc = "closing", !.to = to]]
          PROVE  RowFits(r)
      <3>1. runs'[r] = ToClose(runs[r], to)
        BY <2>4 DEF TypeOK, ToClose
      <3>. QED BY <1>1, <2>4, <3>1, CloseFields
    <2>. QED BY <2>2, <2>3, <2>4
  <1>6. CASE RunDefer(r)
    <2>1. runs[r].pc = "gate" /\ runs[r].rung \in Rung
      BY <1>6 DEF RunDefer, RunSound
    <2>2. runs'[r] = [runs[r] EXCEPT !.deferred = TRUE]
      BY <1>6 DEF RunDefer, TypeOK
    <2>. QED BY <1>1, <2>1, <2>2 DEF Run
  <1>7. CASE RunAct(r) /\ ~NextRung(r)
    <2>1. runs[r].rung \in Rung /\ StartSending(r)
      BY <1>7 DEF RunAct, RunSound
    <2>. QED BY <2>1, StartSendingFacts
  <1>71. CASE RunSend(r)
    <2>1. runs[r].rung \in Rung /\ (runs[r].rung \notin Fanout => \E ch : runs[r].left \subseteq {ch})
      BY <1>71, SendFacts DEF RunSound
    <2>. QED BY <1>71, <2>1, SendFacts
  <1>8. CASE RunRetryAttempt(r)
    <2>. DEFINE pc == IF runs[r].tries = Retries THEN "done" ELSE "gate"
    <2>1. runs[r].rung \in Rung
      BY <1>8 DEF RunRetryAttempt, RunSound
    <2>2. runs'[r] = Retried(runs[r], pc, runs[r].tries + 1) /\ runs[r].tries + 1 \in Nat
      BY <1>8, <1>1 DEF RunRetryAttempt, TypeOK, Retried, Run
    <2>3. pc \in {"done", "gate"} /\ pc \in RunPc
      BY DEF RunPc
    <2>. HIDE DEF pc
    <2>4. LET b == Retried(runs[r], pc, runs[r].tries + 1)
          IN b \in Run /\ b.pc = pc /\ b.rung = runs[r].rung
      BY <1>1, <2>2, <2>3, RunFields, SMTT(30)
    <2>. QED BY <2>1, <2>2, <2>3, <2>4
  <1>9. CASE RunPause(r) \/ RunEndPaused(r) \/ RunRetryPause(r) \/ RunCloseUpdate(r) \/ RunCancel(r)
    <2>1. \E pc \in {"paused", "done", "pausing"} : Goto(r, pc)
      BY <1>9 DEF RunPause, RunEndPaused, RunRetryPause, RunCloseUpdate, RunCancel
    <2>. QED BY <2>1, <1>3 DEF RunPc
  <1>10. CASE RunCloseRead(r)
    <2>. DEFINE s == StateOf(r[1])
                goes == canTransition(s, runs[r].to)
                pc == IF goes THEN "closeUpdate" ELSE "done"
    <2>1. runs[r].pc = "closing"
      BY <1>10 DEF RunCloseRead
    <2>2. runs'[r] = HasRead(runs[r], s, pc)
      BY <1>10 DEF RunCloseRead, TypeOK, HasRead
    <2>3. /\ s \in CaseState \cup {"absent"}
          /\ pc \in {"closeUpdate", "done"} /\ (pc = "closeUpdate" => canTransition(s, runs[r].to))
      BY <1>1 DEF TypeOK, StateOf
    <2>4. pc \in RunPc
      BY DEF RunPc
    <2>. HIDE DEF s, pc
    <2>5. /\ runs'[r] \in Run /\ runs'[r].to = runs[r].to
          /\ runs'[r].from = s /\ runs'[r].pc = pc
      BY <1>1, <2>2, <2>3, <2>4, RunFields
    <2>. QED BY <2>1, <2>3, <2>5 DEF RunSound
  <1>. QED BY <1>2, <1>4, <1>5, <1>6, <1>7, <1>71, <1>8, <1>9, <1>10
       DEF RunStep, Ladder, RunGather, RunGiveUpRung, RunAct, RunSend, RunRecordRung

\* Where a message comes from: an action row of the run's own, behind an open gate.
LEMMA RunPcAfter ==
  ASSUME IInv, NEW r \in RunKey, RunStep(r)
  PROVE  /\ runs'[r].pc = "send" =>
              RunSend(r) \/ (RunAct(r) /\ StartSending(r) /\ Slot(r) \notin actions)
         /\ runs'[r].pc = "act" => /\ StateOf(r[1]) \notin {"recovered", "lost"}
                                   /\ cases' = cases /\ late' = late
  <1>. USE DEF IInv
  <1>1. CASE NextRung(r) /\ runs[r].pc \in {"gate", "act", "send"}
    BY <1>1, NextRungSound
  <1>2. ASSUME NEW pc \in RunPc \ {"send", "act"}, Goto(r, pc)
        PROVE  runs'[r].pc \notin {"send", "act"}
    BY <1>2, GotoFacts
  <1>3. CASE RunStart(r) \/ RunPause(r) \/ RunEndPaused(r) \/ RunRetryPause(r) \/ RunCloseUpdate(r)
             \/ RunCancel(r)
    <2>1. \E pc \in {"gate", "paused", "done", "pausing"} : Goto(r, pc)
      BY <1>3 DEF RunStart, RunPause, RunEndPaused, RunRetryPause, RunCloseUpdate, RunCancel
    <2>. QED BY <2>1, <1>2 DEF RunPc
  <1>4. CASE RunGather(r) /\ ~NextRung(r)
    <2>0. runs[r] \in Run
      BY DEF TypeOK
    <2>. DEFINE open == StateOf(r[1]) # "recovered" /\ r[1] \notin world.expired
    <2>1. /\ cases' = cases /\ late' = late
          /\ \/ open /\ runs'[r] = Moved(runs[r], "act")
             \/ \E pc \in {"pausing", "done"} : runs'[r] = Moved(runs[r], pc)
             \/ \E to \in {"lost", "aborted"} : runs'[r] = ToClose(runs[r], to)
      BY <1>4 DEF RunGather, Moved, ToClose, TypeOK
    <2>2. runs'[r].pc \in {"pausing", "done", "closing"} \/ (runs'[r].pc = "act" /\ open)
      <3>1. {"act", "pausing", "done"} \subseteq RunPc
        BY DEF RunPc
      <3>. HIDE DEF open
      <3>2. \A pc \in {"act", "pausing", "done"} : Moved(runs[r], pc).pc = pc
        BY <2>0, <3>1, RunFields
      <3>3. \A to \in {"lost", "aborted"} : ToClose(runs[r], to).pc = "closing"
        BY <2>0, CloseFields
      <3>. QED BY <2>1, <3>2, <3>3
    <2>3. r[1] \in Case
      BY DEF RunKey
    <2>. QED BY <2>1, <2>2, <2>3 DEF LostIsLate
  <1>5. CASE RunDefer(r)
    <2>1. runs[r].pc = "gate" /\ runs'[r] = [runs[r] EXCEPT !.deferred = TRUE]
      BY <1>5 DEF RunDefer, TypeOK
    <2>. QED BY <2>1 DEF TypeOK, Run
  <1>6. CASE RunAct(r) /\ ~NextRung(r)
    <2>1. Slot(r) \notin actions /\ StartSending(r)
      BY <1>6 DEF RunAct, Slot
    <2>2. runs'[r].pc = "send"
      BY <2>1, StartSendingFacts
    <2>. QED BY <1>6, <2>1, <2>2
  <1>7. CASE RunSend(r)
    BY <1>7, SendFacts
  <1>8. CASE RunRetryAttempt(r)
    <2>1. runs'[r].pc \in {"done", "gate"}
      BY <1>8 DEF RunRetryAttempt, TypeOK, Run
    <2>. QED BY <2>1
  <1>9. CASE RunCloseRead(r)
    <2>1. runs'[r].pc \in {"done", "closeUpdate"}
      BY <1>9 DEF RunCloseRead, TypeOK, Run
    <2>. QED BY <2>1
  <1>. QED BY <1>1, <1>3, <1>4, <1>5, <1>6, <1>7, <1>8, <1>9
       DEF RunStep, Ladder, RunGather, RunGiveUpRung, RunAct, RunSend, RunRecordRung

LEMMA RunSlotsKeep ==
  ASSUME IInv, NEW r \in RunKey, RunStep(r)
  PROVE  /\ actions' \subseteq Case \X Rung
         /\ touched' \in [Case \X Rung \X Channel -> Nat]
         /\ RungOwned'
  <1>. USE DEF IInv
  <1>0. /\ r[1] \in Case
        /\ \A q \in RunKey : q # r => /\ runs'[q] = runs[q] /\ Slot(q)' = Slot(q)
                                     /\ \A ch : Message(q, ch)' = Message(q, ch)
    <2>1. \A q \in RunKey : q # r => runs'[q] = runs[q]
      BY RunOthers DEF TypeOK
    <2>. QED BY <2>1 DEF Slot, Message, RunKey
  <1>1. CASE RunAct(r)
    <2>1. Slot(r) \in Case \X Rung
      BY <1>0, <1>1 DEF RunAct, RunSound, Slot
    <2>2. actions' = actions \cup {Slot(r)} /\ touched' = touched
      BY <1>1 DEF RunAct, Slot
    <2>3. runs'[r].pc = "send" => /\ Slot(r) \notin actions /\ Slot(r)' = Slot(r)
                                  /\ \A ch : Message(r, ch)' = Message(r, ch)
                                  /\ runs'[r].left \subseteq Channel
      <3>1. runs'[r].pc = "send" => Slot(r) \notin actions /\ StartSending(r)
        BY <1>1, RunPcAfter DEF RunAct, RunSend
      <3>2. StartSending(r) => runs'[r] \in Run /\ runs'[r].rung = runs[r].rung
        BY StartSendingFacts
      <3>. QED BY <3>1, <3>2 DEF Slot, Message, Run
    <2>4. \A x \in Case \X Rung \X Channel :
            touched'[x] <= 1 /\ (touched'[x] # 0 => <<x[1], x[2]>> \in actions')
      BY <2>2 DEF RungOwned
    <2>5. \A q \in RunKey : q # r /\ runs'[q].pc = "send"
            => /\ Slot(q)' = Slot(q) /\ Slot(q) \in actions
               /\ \A ch \in runs'[q].left : touched'[Message(q, ch)'] = 0
      BY <1>0, <2>2 DEF RungOwned
    <2>6. runs'[r].pc = "send" => /\ Slot(r)' \in actions'
                                  /\ \A ch \in runs'[r].left : touched'[Message(r, ch)'] = 0
      <3>. SUFFICES ASSUME runs'[r].pc = "send"
           PROVE  Slot(r)' \in actions' /\ \A ch \in runs'[r].left : touched'[Message(r, ch)'] = 0
        OBVIOUS
      <3>1. ASSUME NEW ch \in runs'[r].left PROVE touched[Message(r, ch)] = 0
        <4>1. Message(r, ch) \in Case \X Rung \X Channel
          BY <2>1, <2>3 DEF Slot, Message
        <4>2. <<Message(r, ch)[1], Message(r, ch)[2]>> = Slot(r)
          BY DEF Slot, Message
        <4>. QED BY <2>3, <4>1, <4>2 DEF RungOwned
      <3>. QED BY <2>2, <2>3, <3>1
    <2>7. \A p, q \in RunKey : runs'[p].pc = "send" /\ runs'[q].pc = "send" /\ Slot(p)' = Slot(q)'
            => p = q
      <3>1. \A q \in RunKey : q # r /\ runs'[q].pc = "send" /\ runs'[r].pc = "send"
              => Slot(q)' # Slot(r)'
        BY <2>3, <2>5
      <3>. QED BY <1>0, <2>5, <3>1 DEF RungOwned
    <2>8. RungOwned'
      BY <2>2, <2>4, <2>5, <2>6, <2>7 DEF RungOwned
    <2>. QED BY <2>1, <2>2, <2>8 DEF TypeOK
  <1>2. CASE RunSend(r)
    <2>. DEFINE m(ch) == Message(r, ch)
    <2>1. /\ Slot(r) \in Case \X Rung /\ Slot(r) \in actions /\ actions' = actions
          /\ Slot(r)' = Slot(r) /\ \A ch : Message(r, ch)' = m(ch)
          /\ runs[r].pc = "send"
      <3>1. runs[r].pc = "send" /\ runs'[r].rung = runs[r].rung
        BY <1>2, SendFacts
      <3>2. actions' = actions
        BY <1>2 DEF RunSend
      <3>. QED BY <1>0, <3>1, <3>2 DEF RunSound, RungOwned, Slot, Message
    <2>2. PICK ch \in runs[r].left :
            /\ ch \in Channel /\ runs'[r].left = runs[r].left \ {ch}
            /\ touched' = [touched EXCEPT ![m(ch)] = @ + 1] \/ touched' = touched
      BY <1>2, SendFacts
    <2>3. m(ch) \in Case \X Rung \X Channel /\ touched[m(ch)] = 0
      BY <2>1, <2>2 DEF RungOwned, Slot, Message
    <2>4. touched' \in [Case \X Rung \X Channel -> Nat]
      BY <2>2, <2>3 DEF TypeOK
    <2>5. \A x \in Case \X Rung \X Channel :
            touched'[x] = touched[x] \/ (x = m(ch) /\ touched'[x] = 1)
      BY <2>2, <2>3 DEF TypeOK
    <2>6. ASSUME NEW q \in RunKey, runs'[q].pc = "send", NEW g \in runs'[q].left
          PROVE  touched'[Message(q, g)'] = 0
      <3>1. /\ runs[q].pc = "send" /\ g \in runs[q].left /\ Message(q, g)' = Message(q, g)
            /\ q = r => g # ch
        BY <1>0, <2>1, <2>2, <2>6
      <3>2. Message(q, g) # m(ch)
        <4>1. CASE q = r
          BY <3>1, <4>1 DEF Message
        <4>2. CASE q # r
          BY <2>1, <3>1, <4>2 DEF RungOwned, Slot, Message
        <4>. QED BY <4>1, <4>2
      <3>3. Message(q, g) \in Case \X Rung \X Channel /\ touched[Message(q, g)] = 0
        BY <3>1 DEF RungOwned, RunSound, TypeOK, Run, RunKey, Message
      <3>. QED BY <2>5, <3>1, <3>2, <3>3
    <2>7. \A x \in Case \X Rung \X Channel :
            touched'[x] <= 1 /\ (touched'[x] # 0 => <<x[1], x[2]>> \in actions')
      <3>1. <<m(ch)[1], m(ch)[2]>> = Slot(r)
        BY DEF Message, Slot
      <3>. QED BY <2>1, <2>5, <3>1 DEF RungOwned
    <2>8. \A q \in RunKey : runs'[q].pc = "send" => runs[q].pc = "send" /\ Slot(q)' = Slot(q)
      BY <1>0, <2>1
    <2>9. RungOwned'
      BY <2>1, <2>6, <2>7, <2>8 DEF RungOwned
    <2>. QED BY <2>1, <2>4, <2>9 DEF TypeOK
  <1>3. CASE RunStep(r) /\ ~RunAct(r) /\ ~RunSend(r)
    <2>1. UNCHANGED <<actions, touched>>
      BY <1>3 DEF RunStep, Ladder, RunDefer, RunGiveUpRung, RunRetryAttempt, RunRetryPause, RunStart,
                  RunGather, RunRecordRung, RunPause, RunEndPaused, RunCloseRead, RunCloseUpdate, RunCancel
    <2>2. runs'[r].pc # "send"
      BY <1>3, RunPcAfter
    <2>. QED BY <1>0, <2>1, <2>2 DEF RungOwned, TypeOK
  <1>. QED BY <1>1, <1>2, <1>3

\* What goes out behind the end of a case, and from which rung.
LEMMA SendStaysSilent ==
  ASSUME IInv, NEW r \in RunKey, RunSend(r), late'[r] # {},
         StateOf(r[1]) \in {"recovered", "lost"}
  PROVE  Silent(r)'
  <1>. USE DEF IInv
  <1>1. /\ runs[r].pc = "send" /\ runs'[r].pc = "send" /\ runs'[r].rung = runs[r].rung
    BY SendFacts
  <1>2. PICK ch \in runs[r].left :
          /\ runs'[r].left = runs[r].left \ {ch}
          /\ late'[r] = late[r] \/ late'[r] = late[r] \cup {<<runs[r].rung, ch>>}
    <2>1. PICK ch \in runs[r].left :
            /\ runs'[r].left = runs[r].left \ {ch}
            /\ \/ late' = [late EXCEPT ![r] =
                             IF Ended(r[1]) THEN @ \cup {<<runs[r].rung, ch>>} ELSE @]
               \/ late' = late
      BY SendFacts
    <2>. QED BY <2>1 DEF TypeOK
  <1>3. late[r] # {} => Silent(r)
    BY DEF Silenced
  <1>4. \A x \in late'[r] : x[1] = runs[r].rung
    BY <1>1, <1>2, <1>3 DEF Silent
  <1>5. runs[r].rung \notin Fanout => runs'[r].left = {} /\ late[r] = {}
    BY <1>1, <1>2, <1>3 DEF Silent, RunSound
  <1>6. RestOfOneRung(r)'
    <2>1. CASE runs[r].rung \in Fanout
      BY <1>4, <2>1 DEF RestOfOneRung
    <2>2. CASE runs[r].rung \notin Fanout
      <3>1. \A x, y \in late'[r] : x = y
        BY <1>2, <1>5, <2>2
      <3>. QED BY <3>1 DEF RestOfOneRung
    <2>. QED BY <2>1, <2>2
  <1>. QED BY <1>1, <1>4, <1>5, <1>6 DEF Silent

LEMMA RunSilenceKeeps ==
  ASSUME IInv, CasesKeep, NEW r \in RunKey, RunStep(r)
  PROVE  late' \in [RunKey -> SUBSET (Rung \X Channel)] /\ Silenced'
  <1>. USE DEF IInv
  <1>0. /\ \A q \in RunKey : q # r => runs'[q] = runs[q]
        /\ \A q \in RunKey : q[1] \in Case
    BY RunOthers DEF TypeOK, RunKey
  <1>1. CASE RunSend(r)
    <2>1. cases' = cases
      BY <1>1 DEF RunSend
    <2>2. PICK ch \in Channel :
            \/ late' = late
            \/ late' = [late EXCEPT ![r] = IF Ended(r[1]) THEN @ \cup {<<runs[r].rung, ch>>} ELSE @]
      BY <1>1, SendFacts
    <2>3. late' \in [RunKey -> SUBSET (Rung \X Channel)]
      <3>1. runs[r].rung \in Rung
        BY <1>1, SendFacts DEF RunSound
      <3>. QED BY <2>2, <3>1 DEF TypeOK
    <2>4. \A q \in RunKey : late'[q] = late[q] \/ (q = r /\ Ended(r[1]))
      BY <2>2 DEF TypeOK
    <2>5. ASSUME NEW q \in RunKey, late'[q] # {}
          PROVE  /\ Ended(q[1])
                 /\ StateOf(q[1]) \in {"recovered", "lost"} => Silent(q)'
      <3>1. CASE q = r
        BY <1>1, <2>4, <2>5, <3>1, SendStaysSilent DEF Silenced
      <3>2. CASE q # r
        <4>1. late'[q] = late[q] /\ runs'[q] = runs[q]
          BY <1>0, <2>4, <3>2
        <4>. QED BY <2>5, <4>1 DEF Silenced, Silent, RestOfOneRung
      <3>. QED BY <3>1, <3>2
    <2>. QED BY <2>1, <2>3, <2>5 DEF Silenced, Ended, StateOf
  <1>2. CASE RunStep(r) /\ ~RunSend(r)
    <2>1. late' = late
      BY <1>2 DEF RunStep, Ladder, RunDefer, RunGiveUpRung, RunRetryAttempt, RunRetryPause, RunStart,
                  RunGather, RunAct, RunRecordRung, RunPause, RunEndPaused, RunCloseRead, RunCloseUpdate,
                  RunCancel
    <2>2. ASSUME NEW q \in RunKey, late[q] # {}
          PROVE  /\ Ended(q[1]) /\ cases'[q[1]].state = cases[q[1]].state
                 /\ StateOf(q[1]) \in {"recovered", "lost"} => Silent(q)'
      <3>1. Ended(q[1]) /\ cases'[q[1]].state = cases[q[1]].state
        BY <1>0, <2>2 DEF Silenced, CasesKeep
      <3>2. CASE q # r
        BY <1>0, <2>1, <2>2, <3>2, <3>1 DEF Silenced, Silent, RestOfOneRung
      <3>3. CASE q = r /\ StateOf(r[1]) \in {"recovered", "lost"}
        <4>1. Silent(r)
          BY <2>2, <3>3 DEF Silenced
        <4>2. runs'[r].pc # "send"
          BY <1>2, <4>1, RunPcAfter DEF RunAct, Silent
        <4>3. runs'[r].pc # "act"
          BY <3>3, RunPcAfter
        <4>4. Silent(r)'
          BY <2>1, <4>1, <4>2, <4>3 DEF Silent, RestOfOneRung
        <4>. QED BY <3>1, <3>3, <4>4
      <3>. QED BY <3>1, <3>2, <3>3
    <2>. QED BY <2>1, <2>2 DEF Silenced, Ended, StateOf, TypeOK
  <1>. QED BY <1>1, <1>2

LEMMA RunKeeps ==
  ASSUME IInv, NEW r \in RunKey, RunStep(r)
  PROVE  IInv' /\ Legal
  <1>1. Legal /\ CasesKeep
    BY RunCases, RunOthers, LegalKeeps
  <1>2. runs' \in [RunKey -> Run] /\ RunSound'
    <2>1. runs' \in [RunKey -> Run]
      BY RunOthers, RunRowKeeps DEF IInv, TypeOK, RowFits
    <2>2. \A q \in RunKey : q # r => runs'[q] = runs[q]
      BY RunOthers DEF IInv, TypeOK
    <2>. QED BY <2>1, <2>2, RunRowKeeps, RunOthers DEF RowFits, RunSound, IInv
  <1>3. TypeOK'
    BY <1>2, RunCases, RunOthers, RunSlotsKeep, RunSilenceKeeps, <1>1 DEF IInv, TypeOK
  <1>4. LostIsLate'
    BY <1>1 DEF CasesKeep, LostIsLate, StateOf
  <1>. QED BY <1>1, <1>2, <1>3, <1>4, RunOthers, RunSlotsKeep, RunSilenceKeeps,
               FrameHooks, FrameWakers, FrameSweep DEF IInv

----------------------------------------------------------------------------
(* The resume passes, the sweep and the world.                                 *)

WakerStep(w) == Wake(w) \/ WakePublishThrows(w) \/ WakeDie(w)

\* A published run key: a run that was not there yet starts.
LEMMA PublishFacts ==
  ASSUME IInv, NEW k, runs' = Publish(k)
  PROVE  /\ runs' \in [RunKey -> Run]
         /\ \A r \in RunKey : SameRung(r) /\ (r # k \/ runs[r].pc # "none" => runs'[r] = runs[r])
         /\ k \in RunKey /\ runs[k].pc = "none" => runs'[k].pc = "queued"
  <1>1. [runs[k] EXCEPT !.pc = IF @ = "none" THEN "queued" ELSE @] \in Run \/ k \notin RunKey
    BY QueuedRun DEF IInv, TypeOK
  <1>2. runs' = [runs EXCEPT ![k].pc = IF @ = "none" THEN "queued" ELSE @]
    BY DEF Publish
  <1>3. runs' \in [RunKey -> Run]
    BY <1>1, <1>2 DEF IInv, TypeOK
  <1>4. ASSUME NEW r \in RunKey
        PROVE  SameRung(r) /\ (r # k \/ runs[r].pc # "none" => runs'[r] = runs[r])
    <2>1. CASE r = k
      <3>1. runs'[r] = [runs[r] EXCEPT !.pc = IF @ = "none" THEN "queued" ELSE @] /\ runs[r] \in Run
        BY <1>2, <2>1 DEF IInv, TypeOK
      <3>. QED BY <2>1, <3>1 DEF SameRung, Run
    <2>2. CASE r # k
      BY <1>2, <2>2 DEF SameRung, IInv, TypeOK
    <2>. QED BY <2>1, <2>2
  <1>5. k \in RunKey /\ runs[k].pc = "none" => runs'[k].pc = "queued"
    BY <1>2 DEF IInv, TypeOK, Run
  <1>. QED BY <1>3, <1>4, <1>5

LEMMA WakerCases ==
  ASSUME IInv, NEW w \in Waker, WakerStep(w)
  PROVE  Legal /\ cases' \in [Case -> [state : CaseState \cup {"absent"}, resumes : 0..MaxResumes]]
  <1>0. wakers[w].pc # "idle" => wakers[w].case \in Case
    BY DEF IInv, WakerSound
  <1>1. CASE WakeClaim(w)
    <2>. DEFINE c == wakers[w].case
    <2>1. c \in Case /\ (cases[c].resumes < MaxResumes => cases[c].resumes + 1 \in 0..MaxResumes)
      BY <1>0, <1>1, BoundAssumption DEF WakeClaim, IInv, TypeOK
    <2>2. CASE cases' = cases
      BY <2>2, SameCasesLegal
    <2>3. CASE StateOf(c) = "paused" /\ cases[c].resumes < MaxResumes
               /\ cases' = [cases EXCEPT ![c] = [state |-> "executing", resumes |-> @.resumes + 1]]
      <3>1. canTransition("paused", "executing") /\ "executing" \in CaseState
        BY DEF canTransition, TRANSITIONS, CaseState
      <3>2. Moves(c)
        BY <2>1, <2>3, <3>1 DEF Moves, IInv, TypeOK
      <3>. QED BY <2>1, <2>3, <3>1, <3>2 DEF Legal, IInv, TypeOK
    <2>. QED BY <1>1, <2>2, <2>3 DEF WakeClaim
  <1>2. CASE WakeRepause(w) \/ WakeClose(w)
    <2>. DEFINE c == wakers[w].case
                to == IF WakeRepause(w) THEN "paused" ELSE wakers[w].to
                from == IF WakeRepause(w) THEN "executing" ELSE "paused"
    <2>1. c \in Case
      BY <1>0, <1>2 DEF WakeRepause, WakeClose, WakerAt
    <2>2. /\ canTransition(from, to)
          /\ to = "lost" => c \in world.expired
      <3>1. CASE WakeRepause(w)
        BY <3>1 DEF canTransition, TRANSITIONS
      <3>2. CASE ~WakeRepause(w)
        <4>1. wakers[w].to \in {"lost", "aborted"} /\ wakers[w].pc = "listed"
          BY <1>2, <3>2 DEF WakeClose, WakerAt, IInv, TypeOK, WakerRow
        <4>. QED BY <3>2, <4>1 DEF canTransition, TRANSITIONS, IInv, WakerSound
      <3>. QED BY <3>1, <3>2
    <2>3. cases' = [cases EXCEPT ![c].state = IF @ = from THEN to ELSE @]
      BY <1>2 DEF WakeRepause, WakeClose
    <2>. HIDE DEF to, from
    <2>4. CASE StateOf(c) = from
      <3>1. cases' = [cases EXCEPT ![c].state = to]
        BY <2>1, <2>3, <2>4 DEF StateOf, IInv, TypeOK
      <3>. QED BY <2>1, <2>2, <2>4, <3>1, MoveLegal
    <2>5. CASE StateOf(c) # from
      <3>1. cases' = cases
        BY <2>1, <2>3, <2>5 DEF StateOf, IInv, TypeOK
      <3>. QED BY <3>1, SameCasesLegal
    <2>. QED BY <2>4, <2>5
  <1>3. CASE WakerStep(w) /\ ~WakeClaim(w) /\ ~WakeRepause(w) /\ ~WakeClose(w)
    <2>1. cases' = cases
      BY <1>3 DEF WakerStep, Wake, WakeList, WakePublish, WakePublishThrows, WakeDie
    <2>. QED BY <2>1, SameCasesLegal
  <1>. QED BY <1>1, <1>2, <1>3

LEMMA WakerOthers ==
  ASSUME IInv, NEW w \in Waker, WakerStep(w)
  PROVE  /\ UNCHANGED <<hooks, sweep, actions, touched, late, world>>
         /\ orphans' \subseteq RunKey
         /\ \A v \in Waker : v # w => wakers'[v] = wakers[v]
         /\ faults' \in Nat
         /\ runs' \in [RunKey -> Run] /\ \A r \in RunKey : SameRung(r)
  <1>1. UNCHANGED <<hooks, sweep, actions, touched, late, world>>
    BY DEF WakerStep, Wake, WakeList, WakeClaim, WakePublish, WakeRepause, WakeClose,
           WakePublishThrows, WakeDie
  <1>0. orphans' \subseteq RunKey
    <2>1. CASE WakeDie(w)
      <3>1. <<wakers[w].case, wakers[w].n>> \in RunKey
        BY <2>1 DEF WakeDie, IInv, TypeOK, WakerSound, WakerRow, RunKey
      <3>. QED BY <2>1, <3>1 DEF WakeDie, IInv, TypeOK
    <2>2. CASE ~WakeDie(w)
      <3>1. orphans' = orphans
        BY <2>2 DEF WakerStep, Wake, WakeList, WakeClaim, WakePublish, WakeRepause, WakeClose,
                    WakePublishThrows
      <3>. QED BY <3>1 DEF IInv, TypeOK
    <2>. QED BY <2>1, <2>2
  <1>2. \A v \in Waker : v # w => wakers'[v] = wakers[v]
    BY DEF WakerStep, Wake, WakeList, WakeClaim, WakePublish, WakeRepause, WakeClose,
           WakePublishThrows, WakeDie, WakerAt, IInv, TypeOK
  <1>3. faults' \in Nat
    <2>1. faults' = faults \/ faults' = faults + 1
      BY DEF WakerStep, Wake, WakeList, WakeClaim, WakePublish, WakeRepause, WakeClose,
             WakePublishThrows, WakeDie, Fault
    <2>. QED BY <2>1 DEF IInv, TypeOK
  <1>4. runs' \in [RunKey -> Run] /\ \A r \in RunKey : SameRung(r)
    <2>1. runs' = runs \/ runs' = Publish(<<wakers[w].case, wakers[w].n>>)
      BY DEF WakerStep, Wake, WakeList, WakeClaim, WakePublish, WakeRepause, WakeClose,
             WakePublishThrows, WakeDie
    <2>2. CASE runs' = runs
      BY <2>2 DEF SameRung, IInv, TypeOK
    <2>. QED BY <2>1, <2>2, PublishFacts
  <1>. QED BY <1>0, <1>1, <1>2, <1>3, <1>4

LEMMA WakerRowKeeps ==
  ASSUME IInv, CasesKeep, NEW w \in Waker, WakerStep(w), cases' \in [Case -> [state : CaseState \cup {"absent"}, resumes : 0..MaxResumes]]
  PROVE  /\ wakers'[w] \in WakerRow
         /\ wakers'[w].pc # "idle" => wakers'[w].case \in Case
         /\ wakers'[w].pc = "listed" /\ wakers'[w].to = "lost" => wakers'[w].case \in world.expired
  <1>. USE DEF IInv
  <1>1. wakers[w] \in WakerRow /\ MaxResumes \in Nat
    BY BoundAssumption DEF TypeOK
  <1>2. CASE WakeList(w)
    BY <1>1, <1>2 DEF WakeList, TypeOK, WakerRow
  <1>3. CASE WakeClaim(w)
    <2>. DEFINE pc == IF StateOf(wakers[w].case) = "paused" /\ cases[wakers[w].case].resumes < MaxResumes
                      THEN "publish" ELSE "idle"
                n == cases'[wakers[w].case].resumes
    <2>1. wakers[w].case \in Case
      BY <1>3 DEF WakeClaim, WakerSound
    <2>2. n \in 0..MaxResumes /\ pc \in {"publish", "idle"}
      BY <2>1
    <2>3. wakers'[w] = [wakers[w] EXCEPT !.pc = pc, !.n = n]
      BY <1>3 DEF WakeClaim, TypeOK
    <2>. HIDE DEF pc, n
    <2>. QED BY <1>1, <2>1, <2>2, <2>3 DEF WakerRow
  <1>4. CASE WakerStep(w) /\ ~WakeList(w) /\ ~WakeClaim(w)
    <2>1. \E pc \in {"idle", "repause"} : /\ wakers' = [wakers EXCEPT ![w].pc = pc]
                                          /\ wakers[w].pc # "idle"
      BY <1>4 DEF WakerStep, Wake, WakePublish, WakeRepause, WakeClose, WakePublishThrows, WakeDie, WakerAt
    <2>2. PICK pc \in {"idle", "repause"} : wakers'[w] = [wakers[w] EXCEPT !.pc = pc]
      BY <2>1 DEF TypeOK
    <2>3. /\ wakers'[w] \in WakerRow /\ wakers'[w].pc \in {"idle", "repause"}
          /\ wakers'[w].case = wakers[w].case
      BY <1>1, <2>2 DEF WakerRow
    <2>. QED BY <2>1, <2>3 DEF WakerSound
  <1>. QED BY <1>2, <1>3, <1>4

LEMMA WakerKeeps ==
  ASSUME IInv, NEW w \in Waker, WakerStep(w)
  PROVE  IInv' /\ Legal
  <1>1. Legal /\ CasesKeep
    BY WakerCases, WakerOthers, LegalKeeps
  <1>2. wakers' \in [Waker -> WakerRow] /\ WakerSound'
    <2>1. wakers' = [wakers EXCEPT ![w] = wakers'[w]]
      BY DEF WakerStep, Wake, WakeList, WakeClaim, WakePublish, WakeRepause, WakeClose,
             WakePublishThrows, WakeDie, WakerAt, IInv, TypeOK
    <2>2. wakers' \in [Waker -> WakerRow]
      BY <1>1, <2>1, WakerRowKeeps, WakerCases DEF IInv, TypeOK
    <2>3. WakerSound'
      BY <1>1, WakerRowKeeps, WakerCases, WakerOthers DEF WakerSound, IInv
    <2>. QED BY <2>2, <2>3
  <1>3. TypeOK'
    BY <1>2, WakerCases, WakerOthers DEF IInv, TypeOK
  <1>4. LostIsLate'
    BY <1>1 DEF CasesKeep, LostIsLate, StateOf
  <1>5. SweepSound'
    BY <1>1, WakerOthers DEF IInv, SweepSound, CasesKeep
  <1>. QED BY <1>1, <1>2, <1>3, <1>4, <1>5, WakerOthers, FrameHooks, FrameRuns DEF IInv

SweepStep == Sweep \/ SweepDie
WorldStep == (\E c \in Case : DeadlinePasses(c)) \/ Toggle \/ OptOut \/ Crowd

LEMMA SweepRows ==
  ASSUME IInv, SweepStep
  PROVE  /\ sweep' \in SweepPass /\ sweep'.rows \subseteq world.expired
         /\ faults' \in Nat
         /\ UNCHANGED <<hooks, runs, wakers, actions, touched, late, orphans, world>>
         /\ cases' = cases \/ \E c \in Case : c \in world.expired /\ Transition(c, "lost", "deadline_passed")
  <1>. USE DEF IInv, SweepPass
  <1>0. sweep \in SweepPass /\ faults \in Nat
    BY DEF TypeOK
  <1>1. CASE SweepList
    BY <1>0, <1>1 DEF SweepList, Overdue
  <1>2. ASSUME NEW c \in Case, SweepExpire(c)
        PROVE  /\ sweep' \in SweepPass /\ sweep'.rows \subseteq world.expired
               /\ c \in world.expired
    BY <1>0, <1>2 DEF SweepExpire, Without, SweepSound
  <1>3. CASE SweepEnd
    <2>1. sweep' = [pc |-> "idle", rows |-> {}]
      BY <1>3 DEF SweepEnd
    <2>. QED BY <1>0, <1>3, <2>1 DEF SweepEnd
  <1>4. CASE SweepDie
    BY <1>0, <1>4 DEF SweepDie, Fault
  <1>. QED BY <1>0, <1>1, <1>2, <1>3, <1>4 DEF SweepStep, Sweep, SweepList, SweepExpire, SweepEnd, SweepDie

\* The sweep closes what is past its deadline.
LEMMA SweepKeeps ==
  ASSUME IInv, SweepStep
  PROVE  IInv' /\ Legal
  <1>1. UNCHANGED <<hooks, runs, wakers, actions, touched, late, orphans, world>>
    BY SweepRows
  <1>2. Legal /\ cases' \in [Case -> [state : CaseState \cup {"absent"}, resumes : 0..MaxResumes]]
    BY SweepRows, TransitionLegal, SameCasesLegal
  <1>3. CasesKeep
    BY <1>1, <1>2, LegalKeeps
  <1>4. TypeOK'
    BY <1>1, <1>2, SweepRows DEF IInv, TypeOK
  <1>5. LostIsLate' /\ SweepSound'
    BY <1>1, <1>3, SweepRows DEF CasesKeep, LostIsLate, StateOf, SweepSound
  <1>6. \A r \in RunKey : SameRung(r)
    BY <1>1 DEF SameRung
  <1>. QED BY <1>1, <1>2, <1>3, <1>4, <1>5, <1>6, FrameHooks, FrameRuns, FrameWakers DEF IInv

\* The world changes no row.
LEMMA WorldKeeps ==
  ASSUME IInv, WorldStep
  PROVE  IInv' /\ Legal
  <1>1. UNCHANGED <<cases, hooks, runs, wakers, sweep, actions, touched, late, orphans, faults>>
    BY DEF WorldStep, DeadlinePasses, Toggle, OptOut, Crowd
  <1>2. Legal
    BY <1>1, SameCasesLegal
  <1>3. world' \in World /\ world.expired \subseteq world'.expired
    <2>1. world \in World
      BY DEF IInv, TypeOK
    <2>2. ASSUME NEW c \in Case, DeadlinePasses(c)
          PROVE  world' \in World /\ world.expired \subseteq world'.expired
      <3>1. world' = [world EXCEPT !.expired = world.expired \cup {c}]
        BY <2>2 DEF DeadlinePasses
      <3>. QED BY <2>1, <3>1 DEF World
    <2>3. CASE Toggle
      <3>1. (~world.enabled) \in BOOLEAN /\ world.toggles + 1 \in Nat
        BY <2>1 DEF World
      <3>2. PICK on \in BOOLEAN, n \in Nat : world' = [world EXCEPT !.enabled = on, !.toggles = n]
        BY <2>3, <3>1, Zenon DEF Toggle
      <3>. QED BY <2>1, <3>2 DEF World
    <2>4. CASE OptOut
      BY <2>1, <2>4 DEF OptOut, World
    <2>5. CASE Crowd
      BY <2>1, <2>5 DEF Crowd, World
    <2>. QED BY <2>2, <2>3, <2>4, <2>5 DEF WorldStep
  <1>4. CasesKeep
    BY <1>2, <1>3, LegalKeeps
  <1>5. TypeOK'
    BY <1>1, <1>3 DEF IInv, TypeOK
  <1>6. LostIsLate' /\ SweepSound'
    BY <1>1, <1>4 DEF CasesKeep, LostIsLate, StateOf, SweepSound, IInv
  <1>7. \A r \in RunKey : SameRung(r)
    BY <1>1 DEF SameRung
  <1>. QED BY <1>1, <1>2, <1>4, <1>5, <1>6, <1>7, FrameHooks, FrameRuns, FrameWakers DEF IInv

----------------------------------------------------------------------------
(* The theorems.                                                               *)

LEMMA InitIInv == Init => IInv
  <1>. SUFFICES ASSUME Init PROVE IInv
    OBVIOUS
  <1>1. TypeOK
    <2>1. cases \in [Case -> [state : CaseState \cup {"absent"}, resumes : 0..MaxResumes]]
      BY BoundAssumption DEF Init
    <2>2. hooks \in [Hook -> HookRow]
      BY DEF Init, HookRow
    <2>3. runs \in [RunKey -> Run]
      BY BoundAssumption DEF Init, Run, CaseState
    <2>4. wakers \in [Waker -> WakerRow]
      BY BoundAssumption DEF Init, WakerRow
    <2>5. world \in World
      BY BoundAssumption DEF Init, World
    <2>6. sweep \in SweepPass
      BY DEF Init, SweepPass
    <2>. QED BY <2>1, <2>2, <2>3, <2>4, <2>5, <2>6 DEF Init, TypeOK
  <1>2. HookSound /\ RunSound /\ WakerSound /\ SweepSound
    BY DEF Init, HookSound, RunSound, WakerSound, SweepSound
  <1>3. LostIsLate /\ RungOwned /\ Silenced
    BY DEF Init, LostIsLate, RungOwned, Silenced, StateOf
  <1>. QED BY <1>1, <1>2, <1>3 DEF IInv

LEMMA StepIInv ==
  ASSUME IInv, Next
  PROVE  IInv' /\ Legal
  <1>1. \/ \E h \in Hook : HookStep(h)
        \/ \E r \in RunKey : RunStep(r)
        \/ \E w \in Waker : WakerStep(w)
        \/ SweepStep \/ WorldStep
    BY DEF Next, Faulty, HookStep, RunStep, WakerStep, SweepStep, WorldStep
  <1>. QED BY <1>1, HookKeeps, RunKeeps, WakerKeeps, SweepKeeps, WorldKeeps

LEMMA Stutter == IInv /\ UNCHANGED vars => IInv'
  <1>. SUFFICES ASSUME IInv, UNCHANGED vars PROVE IInv'
    OBVIOUS
  <1>1. TypeOK'
    BY DEF vars, IInv, TypeOK
  <1>2. HookSound' /\ RunSound' /\ WakerSound' /\ SweepSound'
    BY DEF vars, IInv, HookSound, RunSound, WakerSound, SweepSound, StateOf, Goal
  <1>3. LostIsLate' /\ RungOwned' /\ Silenced'
    BY DEF vars, IInv, LostIsLate, RungOwned, Silenced, Silent, RestOfOneRung, StateOf, Ended,
           Slot, Message
  <1>. QED BY <1>1, <1>2, <1>3 DEF IInv

LEMMA Inductive == Spec => []IInv
  <1>1. IInv /\ [Next]_vars => IInv'
    BY StepIInv, Stutter
  <1>. QED BY InitIInv, <1>1, PTL DEF Spec

(* However often Inngest retries a step, however many ladders a case has had and
   wherever they died, no rung of a case reaches its customer twice on one channel
   (executor.ts inserts the action row before it sends). *)
THEOREM NoRungTwice == Spec => []RungFiresOnce
  <1>1. IInv => RungFiresOnce
    BY DEF IInv, RungOwned, RungFiresOnce
  <1>. QED BY Inductive, <1>1, PTL

(* A case that is recovered or lost gets from each of its ladders at most the rest of
   the rung that was past the gate already: one message, or one per channel when the
   rung goes out on several (run-ladder.ts asks again before every rung, executor.ts
   does not ask between the channels of one). *)
THEOREM SilentOnceEnded == Spec => []EndedIsSilent
  <1>1. IInv => EndedIsSilent
    <2>. SUFFICES ASSUME IInv, NEW r \in RunKey, StateOf(r[1]) \in {"recovered", "lost"}
         PROVE  RestOfOneRung(r)
      BY DEF EndedIsSilent
    <2>1. CASE late[r] = {}
      BY <2>1 DEF RestOfOneRung
    <2>2. CASE late[r] # {}
      BY <2>2 DEF IInv, Silenced, Silent
    <2>. QED BY <2>1, <2>2
  <1>. QED BY Inductive, <1>1, PTL

----------------------------------------------------------------------------
(* The refinement.                                                             *)

LEMMA StepRefines ==
  ASSUME Legal, IInv, IInv'
  PROVE  [Lifecycle!Next]_(Lifecycle!vars)
  <1>. DEFINE K(c) == [order |-> IF StateOf(c) = "absent" THEN None ELSE "order", invoice |-> None]
              fresh == [order |-> "order", invoice |-> None]
  <1>1. CASE \A c \in Case : cases'[c].state = cases[c].state
    BY <1>1 DEF Lifecycle!vars, StateOf
  <1>2. ASSUME NEW c \in Case, Opens(c) PROVE Lifecycle!Open(c, fresh)
    <2>1. \A d \in Case : d # c => StateOf(d)' = StateOf(d) /\ K(d)' = K(d)
      BY <1>2 DEF Opens, StateOf
    <2>2. StateOf(c)' = "detected" /\ K(c)' = fresh
      BY <1>2 DEF Opens, StateOf
    <2>3. \A d \in Case : StateOf(d) \notin LiveState
      BY <1>2 DEF Opens, Live
    <2>4. StateOf(c) = "absent"
      BY <1>2 DEF Opens
    <2>. HIDE DEF K, fresh
    <2>5. [d \in Case |-> StateOf(d)]' = [[d \in Case |-> StateOf(d)] EXCEPT ![c] = "detected"]
      BY <2>1, <2>2
    <2>6. [d \in Case |-> K(d)]' = [[d \in Case |-> K(d)] EXCEPT ![c] = fresh]
      BY <2>1, <2>2
    <2>. USE DEF K
    <2>. QED BY <2>3, <2>4, <2>5, <2>6 DEF Lifecycle!Open, Lifecycle!LiveState, LiveState
  <1>3. ASSUME NEW c \in Case, Moves(c) PROVE Lifecycle!Move(c, cases'[c].state)
    <2>1. \A d \in Case : d # c => StateOf(d)' = StateOf(d) /\ K(d)' = K(d)
      BY <1>3 DEF Moves, StateOf
    <2>2. /\ StateOf(c) # "absent" /\ cases'[c].state # "absent"
          /\ canTransition(StateOf(c), cases'[c].state)
      BY <1>3, MachineFacts DEF Moves
    <2>3. StateOf(c)' = cases'[c].state /\ K(c)' = K(c)
      BY <2>2 DEF StateOf
    <2>4. [d \in Case |-> StateOf(d)]' = [[d \in Case |-> StateOf(d)] EXCEPT ![c] = cases'[c].state]
      BY <2>1, <2>3
    <2>5. [d \in Case |-> K(d)]' = [d \in Case |-> K(d)]
      BY <2>1, <2>3
    <2>. QED BY <2>2, <2>4, <2>5
         DEF Lifecycle!Move, Lifecycle!canTransition, Lifecycle!TRANSITIONS, canTransition, TRANSITIONS
  <1>4. ASSUME NEW c \in Case, Opens(c) PROVE Lifecycle!Next
    <2>1. fresh \in Lifecycle!Key
      BY DEF Lifecycle!Key
    <2>. QED BY <1>2, <1>4, <2>1 DEF Lifecycle!Next
  <1>5. ASSUME NEW c \in Case, Moves(c) PROVE Lifecycle!Next
    <2>1. cases'[c].state \in Lifecycle!CaseState
      BY <1>5, MachineFacts DEF Moves, Lifecycle!CaseState, CaseState
    <2>. QED BY <1>3, <1>5, <2>1 DEF Lifecycle!Next
  <1>. QED BY <1>1, <1>4, <1>5 DEF Legal

(* Handlers, ladders, resume passes and the sweep together implement the abstract case
   table: they open a case only when the order has no live one, and move cases only
   along TRANSITIONS (machine.ts), whatever fails. *)
THEOREM ImplementsLifecycle == Spec => RefinesLifecycle
  <1>1. Init => Lifecycle!Init
    BY DEF Init, Lifecycle!Init, Lifecycle!NoKey, StateOf
  <1>2. IInv /\ IInv' /\ [Next]_vars => [Lifecycle!Next]_(Lifecycle!vars)
    <2>1. CASE IInv /\ IInv' /\ Next
      BY <2>1, StepIInv, StepRefines
    <2>2. CASE UNCHANGED vars
      BY <2>2 DEF vars, Lifecycle!vars, StateOf
    <2>. QED BY <2>1, <2>2
  <1>. QED BY Inductive, <1>1, <1>2, PTL DEF Spec, RefinesLifecycle, Lifecycle!Spec

----------------------------------------------------------------------------
(* Claims and ladders, while no answer is lost after its call took effect.     *)

Alive(r) == runs[r].pc \notin {"none", "paused", "done"}
Pending(w) == wakers[w].pc \in {"publish", "repause"}
First(c) == <<c, 0>>
OfCount(c) == <<c, cases[c].resumes>>

\* At most one run of a case is alive, and none while the case is parked.
RunsApart ==
  /\ \A q, r \in RunKey : q[1] = r[1] /\ Alive(q) /\ Alive(r) => q = r
  /\ \A r \in RunKey : Alive(r) => StateOf(r[1]) # "paused"

\* Runs are numbered by the claims: none ahead of the count, and the first before any.
RunsCounted ==
  /\ \A r \in RunKey : runs[r].pc # "none" =>
       r[2] <= cases[r[1]].resumes /\ StateOf(r[1]) \notin {"absent", "detected"}
  /\ \A c \in Case : runs[First(c)].pc = "none" =>
       cases[c].resumes = 0 /\ StateOf(c) \notin {"executing", "paused"}
  /\ \A c \in Case : StateOf(c) \in {"absent", "detected", "diagnosed"} => cases[c].resumes = 0

\* A resume pass that owes a claimed case its run is the only one, and nothing else
\* works on the case.
ClaimsHeld ==
  /\ \A w \in Waker : Pending(w) =>
       /\ wakers[w].n = cases[wakers[w].case].resumes /\ wakers[w].n # 0
       /\ StateOf(wakers[w].case) \in {"executing"} \cup TerminalState
       /\ runs[OfCount(wakers[w].case)].pc = "none"
       /\ \A r \in RunKey : r[1] = wakers[w].case => ~Alive(r)
  /\ \A v, w \in Waker : Pending(v) /\ Pending(w) /\ wakers[v].case = wakers[w].case => v = w

PInv == RunsApart /\ RunsCounted /\ ClaimsHeld /\ ClaimedHasRun

\* A step that neither wakes nor parks a case, starts no run and settles no claim.
QuietCase(c) ==
  /\ cases'[c].resumes = cases[c].resumes
  /\ \/ cases'[c].state \in {cases[c].state} \cup TerminalState
     \/ StateOf(c) = "absent" /\ cases'[c].state = "detected"
     \/ StateOf(c) = "detected" /\ cases'[c].state = "diagnosed"
QuietRun(r) == /\ runs[r].pc = "none" <=> runs'[r].pc = "none"
               /\ Alive(r)' => Alive(r)
QuietWaker(w) == /\ Pending(w)' <=> Pending(w)
                 /\ Pending(w) => wakers'[w].case = wakers[w].case /\ wakers'[w].n = wakers[w].n

LEMMA QuietKeeps ==
  ASSUME IInv, PInv, \A c \in Case : QuietCase(c), orphans \subseteq orphans',
         \A r \in RunKey : QuietRun(r), \A w \in Waker : QuietWaker(w)
  PROVE  PInv'
  <1>. USE DEF PInv
  <1>0. /\ \A r \in RunKey : r[1] \in Case
        /\ \A c \in Case : First(c) \in RunKey /\ OfCount(c) \in RunKey
        /\ \A w \in Waker : Pending(w) => wakers[w].case \in Case
    BY BoundAssumption DEF RunKey, First, OfCount, IInv, TypeOK, WakerSound, Pending
  <1>1. \A c \in Case : OfCount(c)' = OfCount(c) /\ First(c)' = First(c)
    BY DEF QuietCase, OfCount, First
  <1>2. \A c \in Case :
          /\ StateOf(c)' = "paused" => StateOf(c) = "paused"
          /\ StateOf(c)' = "executing" => StateOf(c) = "executing"
          /\ StateOf(c)' \in {"absent", "detected", "diagnosed"}
               => StateOf(c) \in {"absent", "detected", "diagnosed"}
          /\ StateOf(c)' \in {"absent", "detected"} => StateOf(c) \in {"absent", "detected"}
          /\ StateOf(c) \in {"executing"} \cup TerminalState
               => StateOf(c)' \in {"executing"} \cup TerminalState
    BY DEF QuietCase, StateOf, TerminalState
  <1>3. RunsApart'
    BY <1>0, <1>2 DEF RunsApart, QuietRun
  <1>4. RunsCounted'
    BY <1>0, <1>1, <1>2 DEF RunsCounted, QuietRun, QuietCase
  <1>5. ClaimsHeld'
    BY <1>0, <1>1, <1>2 DEF ClaimsHeld, QuietRun, QuietCase, QuietWaker
  <1>6. ClaimedHasRun'
    <2>. SUFFICES ASSUME NEW c \in Case, StateOf(c)' = "executing", cases'[c].resumes > 0,
                         runs'[OfCount(c)].pc = "none", OfCount(c) \notin orphans
         PROVE  \E w \in Waker : wakers'[w].case = c /\ Pending(w)'
      BY <1>1 DEF ClaimedHasRun, OfCount, Pending
    <2>1. \E w \in Waker : wakers[w].case = c /\ Pending(w)
      BY <1>0, <1>2 DEF ClaimedHasRun, OfCount, Pending, QuietCase, QuietRun
    <2>. QED BY <2>1 DEF QuietWaker
  <1>. QED BY <1>3, <1>4, <1>5, <1>6

NoLostAnswer == "lost" \notin FaultKind

LEMMA PTypes ==
  ASSUME IInv
  PROVE  /\ \A r \in RunKey : r[1] \in Case /\ r[2] \in 0..MaxResumes /\ r = <<r[1], r[2]>>
         /\ \A c \in Case : /\ First(c) \in RunKey /\ OfCount(c) \in RunKey
                            /\ First(c)[1] = c /\ OfCount(c)[1] = c
                            /\ cases[c].resumes \in 0..MaxResumes
         /\ \A w \in Waker : Pending(w) => wakers[w].case \in Case
         /\ MaxResumes \in Nat
  BY BoundAssumption DEF RunKey, First, OfCount, IInv, TypeOK, WakerSound, Pending

\* A handler's publish starts the case's first run, if it has none.
LEMMA HookPublishPairs ==
  ASSUME IInv, PInv, NEW h \in Hook, HookPublish(h)
  PROVE  PInv'
  <1>. DEFINE c == hooks[h].case
              k == First(c)
  <1>. USE DEF PInv
  <1>1. c \in Case /\ StateOf(c) \notin {"absent", "detected"}
    BY DEF HookPublish, HookAt, IInv, HookSound
  <1>2. UNCHANGED <<cases, wakers, orphans>>
    BY DEF HookPublish
  <1>3. runs' = [runs EXCEPT ![k].pc = IF @ = "none" THEN "queued" ELSE @] /\ k \in RunKey
    BY <1>1, PTypes DEF HookPublish, Publish, First
  <1>4. (\A r \in RunKey : r # k => runs'[r] = runs[r]) /\ (runs[k].pc # "none" => runs'[k].pc = runs[k].pc)
        /\ (runs[k].pc = "none" => runs'[k].pc = "queued")
    BY <1>3 DEF IInv, TypeOK, Run
  <1>5. CASE runs[k].pc # "none"
    <2>1. (\A d \in Case : QuietCase(d)) /\ (\A w \in Waker : QuietWaker(w))
      BY <1>2 DEF QuietCase, QuietWaker, Pending
    <2>2. \A r \in RunKey : QuietRun(r)
      BY <1>4, <1>5 DEF QuietRun, Alive
    <2>. QED BY <1>2, <2>1, <2>2, QuietKeeps
  <1>6. CASE runs[k].pc = "none"
    <2>1. cases[c].resumes = 0 /\ StateOf(c) \notin {"executing", "paused"}
      BY <1>1, <1>6 DEF RunsCounted
    <2>2. \A r \in RunKey : r[1] = c /\ r # k => runs[r].pc = "none"
      <3>. SUFFICES ASSUME NEW r \in RunKey, r[1] = c, runs[r].pc # "none" PROVE r = k
        OBVIOUS
      <3>1. r[2] <= 0 /\ r[2] \in Nat
        BY <2>1, PTypes DEF RunsCounted
      <3>2. r[2] = 0
        BY <3>1
      <3>. QED BY <3>2, PTypes DEF First
    <2>3. \A w \in Waker : Pending(w) => wakers[w].case # c
      BY <2>1 DEF ClaimsHeld
    <2>4. RunsApart'
      <3>1. k[1] = c
        BY <1>1, PTypes
      <3>2. \A r \in RunKey : Alive(r)' => Alive(r) \/ r = k
        BY <1>4 DEF Alive
      <3>3. \A r \in RunKey : r[1] = c /\ Alive(r)' => r = k
        BY <2>2, <3>2 DEF Alive
      <3>. HIDE DEF c, k
      <3>. QED BY <1>2, <2>1, <3>1, <3>2, <3>3 DEF RunsApart, StateOf
    <2>5. RunsCounted'
      BY <1>1, <1>2, <1>4, <1>6, <2>1, PTypes DEF RunsCounted, StateOf, First
    <2>6. ClaimsHeld'
      <3>1. \A r \in RunKey : r[1] # c => runs'[r] = runs[r]
        BY <1>1, <1>4, PTypes
      <3>. QED BY <1>2, <2>3, <3>1, PTypes DEF ClaimsHeld, Pending, StateOf, OfCount, Alive
    <2>7. ClaimedHasRun'
      BY <1>1, <1>2, <1>4, <1>6, PTypes DEF ClaimedHasRun, StateOf, OfCount
    <2>. QED BY <2>4, <2>5, <2>6, <2>7
  <1>. QED BY <1>5, <1>6

\* run-ladder's first step, of the only run its case has had.
LEMMA RunStartPairs ==
  ASSUME IInv, PInv, NEW r \in RunKey, RunStart(r)
  PROVE  PInv'
  <1>. DEFINE c == r[1]
  <1>. USE DEF PInv
  <1>1. c \in Case /\ runs[r].pc = "queued" /\ UNCHANGED <<wakers, orphans>>
    BY PTypes DEF RunStart
  <1>2. /\ StateOf(c) # "paused"
        /\ \A w \in Waker : Pending(w) => wakers[w].case # c
    BY <1>1 DEF RunsApart, ClaimsHeld, Alive
  <1>3. runs' = [runs EXCEPT ![r] = runs'[r]] /\ runs'[r].pc \notin {"none", "queued"}
    BY RunOthers, RunRowKeeps DEF RunStep, Ladder, RowFits
  <1>4. (\A q \in RunKey : QuietRun(q)) /\ (\A q \in RunKey : q # r => runs'[q] = runs[q])
    BY <1>1, <1>3 DEF QuietRun, Alive, IInv, TypeOK
  <1>5. \A w \in Waker : QuietWaker(w)
    BY <1>1 DEF QuietWaker, Pending
  <1>6. CASE cases' = cases
    BY <1>1, <1>4, <1>5, <1>6, QuietKeeps DEF QuietCase
  <1>7. CASE StateOf(c) = "diagnosed" /\ cases' = [cases EXCEPT ![c].state = "executing"]
    <2>1. /\ cases'[c].state = "executing" /\ cases'[c].resumes = cases[c].resumes
          /\ \A d \in Case : d # c => cases'[d] = cases[d]
          /\ \A d \in Case : cases'[d].resumes = cases[d].resumes
      BY <1>1, <1>7 DEF IInv, TypeOK
    <2>2. cases[c].resumes = 0 /\ r[2] = 0
      <3>1. cases[c].resumes = 0 /\ r[2] <= cases[c].resumes
        BY <1>1, <1>7 DEF RunsCounted
      <3>. QED BY <3>1, PTypes
    <2>3. First(c) = r
      BY <2>2, PTypes DEF First
    <2>. HIDE DEF c
    <2>4. RunsApart'
      BY <1>1, <1>2, <1>4, <2>1, PTypes DEF RunsApart, QuietRun, StateOf
    <2>5. RunsCounted'
      BY <1>1, <1>4, <2>1, <2>3, PTypes DEF RunsCounted, QuietRun, StateOf, First
    <2>6. ClaimsHeld'
      BY <1>1, <1>2, <1>4, <2>1, PTypes DEF ClaimsHeld, QuietRun, StateOf, OfCount, Pending
    <2>7. ClaimedHasRun'
      BY <1>1, <1>4, <2>1, <2>2, PTypes DEF ClaimedHasRun, QuietRun, StateOf, OfCount
    <2>. QED BY <2>4, <2>5, <2>6, <2>7
  <1>8. cases' = cases \/ (StateOf(c) = "diagnosed" /\ cases' = [cases EXCEPT ![c].state = "executing"])
    <2>1. transition(StateOf(c), "executing", "ladder_started") => StateOf(c) = "diagnosed"
      BY <1>2 DEF transition, canTransition, TRANSITIONS
    <2>2. CASE transition(StateOf(c), "executing", "ladder_started")
      BY <2>1, <2>2 DEF RunStart, Transition, StateOf
    <2>3. CASE ~transition(StateOf(c), "executing", "ladder_started")
      BY <2>3 DEF RunStart, Transition, StateOf, IInv, TypeOK
    <2>. QED BY <2>2, <2>3
  <1>. QED BY <1>6, <1>7, <1>8

\* The pause parks a case its run has stopped working on.
LEMMA RunPausePairs ==
  ASSUME IInv, PInv, NEW r \in RunKey, RunPause(r)
  PROVE  PInv'
  <1>. DEFINE c == r[1]
  <1>. USE DEF PInv
  <1>1. c \in Case /\ runs[r].pc = "pausing" /\ UNCHANGED <<wakers, orphans>>
    BY PTypes DEF RunPause
  <1>2. \A w \in Waker : Pending(w) => wakers[w].case # c
    BY <1>1 DEF ClaimsHeld, Alive
  <1>3. runs' = [runs EXCEPT ![r] = runs'[r]] /\ runs'[r].pc = "paused"
    BY RunOthers, GotoFacts DEF RunStep, Ladder, RunPause, RunPc
  <1>4. (\A q \in RunKey : QuietRun(q)) /\ (\A q \in RunKey : q # r => runs'[q] = runs[q])
    BY <1>1, <1>3 DEF QuietRun, Alive, IInv, TypeOK
  <1>5. \A w \in Waker : QuietWaker(w)
    BY <1>1 DEF QuietWaker, Pending
  <1>6. CASE cases' = cases
    BY <1>1, <1>4, <1>5, <1>6, QuietKeeps DEF QuietCase
  <1>7. CASE cases' = [cases EXCEPT ![c].state = "paused"]
    <2>1. /\ cases'[c].state = "paused"
          /\ \A d \in Case : d # c => cases'[d] = cases[d]
          /\ \A d \in Case : cases'[d].resumes = cases[d].resumes
      BY <1>1, <1>7 DEF IInv, TypeOK
    <2>2. runs[First(c)].pc # "none"
      <3>1. CASE runs[First(c)].pc = "none"
        <4>1. cases[c].resumes = 0 /\ r[2] <= cases[c].resumes
          BY <1>1, <3>1 DEF RunsCounted
        <4>2. r = First(c)
          BY <4>1, PTypes DEF First
        <4>. QED BY <1>1, <3>1, <4>2
      <3>. QED BY <3>1
    <2>3. \A q \in RunKey : q[1] = c => ~Alive(q)'
      <3>1. ~Alive(r)'
        BY <1>3 DEF Alive
      <3>2. \A q \in RunKey : q[1] = c /\ Alive(q) => q = r
        BY <1>1 DEF RunsApart, Alive
      <3>. QED BY <1>4, <3>1, <3>2 DEF QuietRun
    <2>4. StateOf(c) \notin {"absent", "detected"}
      BY <1>1 DEF RunsCounted
    <2>. HIDE DEF c
    <2>5. RunsApart'
      BY <1>1, <1>4, <2>1, <2>3, PTypes DEF RunsApart, QuietRun, StateOf
    <2>6. RunsCounted'
      BY <1>1, <1>4, <2>1, <2>2, PTypes DEF RunsCounted, QuietRun, StateOf, First
    <2>7. ClaimsHeld'
      BY <1>1, <1>2, <1>4, <2>1, PTypes DEF ClaimsHeld, QuietRun, StateOf, OfCount, Pending
    <2>8. ClaimedHasRun'
      BY <1>1, <1>4, <2>1, PTypes DEF ClaimedHasRun, QuietRun, StateOf, OfCount
    <2>. QED BY <2>5, <2>6, <2>7, <2>8
  <1>8. cases' = cases \/ cases' = [cases EXCEPT ![c].state = "paused"]
    <2>1. CASE transition(StateOf(c), "paused", "paused_by_merchant")
      BY <2>1 DEF RunPause, Transition, StateOf
    <2>2. CASE ~transition(StateOf(c), "paused", "paused_by_merchant")
      BY <2>2 DEF RunPause, Transition, StateOf, IInv, TypeOK
    <2>. QED BY <2>1, <2>2
  <1>. QED BY <1>6, <1>7, <1>8

LEMMA HookPairs ==
  ASSUME IInv, PInv, NEW h \in Hook, HookStep(h)
  PROVE  PInv'
  <1>1. CASE HookPublish(h)
    BY <1>1, HookPublishPairs
  <1>2. CASE ~HookPublish(h)
    <2>1. \A w \in Waker : QuietWaker(w)
      BY HookOthers DEF QuietWaker, Pending
    <2>2. \A r \in RunKey : QuietRun(r)
      <3>1. CASE HookResolve(h)
        <4>1. \A r \in RunKey : runs'[r].pc = runs[r].pc
          BY <3>1 DEF HookResolve, IInv, TypeOK, Run
        <4>. QED BY <4>1 DEF QuietRun, Alive
      <3>2. CASE ~HookResolve(h)
        <4>1. runs' = runs
          BY <1>2, <3>2 DEF HookStep, HookClaim, Handle, Redrive, HookThrow, HookDie, HookCreate,
                            HookFind, HookRead, HookUpdate, HookMark
        <4>. QED BY <4>1 DEF QuietRun, Alive
      <3>. QED BY <3>1, <3>2
    <2>3. \A d \in Case : QuietCase(d)
      <3>1. CASE HookCreate(h)
        <4>1. PICK c \in Case : \/ cases' = cases
                                \/ /\ StateOf(c) = "absent"
                                   /\ cases' = [cases EXCEPT ![c].state = "detected"]
          BY <3>1 DEF HookCreate
        <4>. QED BY <4>1 DEF QuietCase, IInv, TypeOK
      <3>2. CASE HookUpdate(h)
        <4>. DEFINE c == hooks[h].case
                    won == StateOf(c) = hooks[h].from
        <4>1. c \in Case /\ transition(hooks[h].from, Goal(h)[1], Goal(h)[2])
          BY <3>2 DEF HookUpdate, IInv, HookSound
        <4>2. CASE ~won
          BY <3>2, <4>1, <4>2 DEF HookUpdate, QuietCase, IInv, TypeOK
        <4>3. CASE won
          <5>1. cases' = [cases EXCEPT ![c].state = Goal(h)[1]]
            BY <3>2, <4>3 DEF HookUpdate
          <5>2. Goal(h)[1] \in TerminalState \/ (Goal(h)[1] = "diagnosed" /\ StateOf(c) = "detected")
            BY <4>1, <4>3, GoalFacts DEF Goal, TerminalState
          <5>. HIDE DEF c
          <5>. QED BY <4>1, <5>1, <5>2 DEF QuietCase, IInv, TypeOK
        <4>. QED BY <4>2, <4>3
      <3>3. CASE ~HookCreate(h) /\ ~HookUpdate(h)
        <4>1. cases' = cases
          BY <3>3 DEF HookStep, HookClaim, Handle, Redrive, HookThrow, HookDie, HookFind, HookRead,
                      HookPublish, HookResolve, HookMark
        <4>. QED BY <4>1 DEF QuietCase
      <3>. QED BY <3>1, <3>2, <3>3
    <2>. QED BY <2>1, <2>2, <2>3, HookOthers, QuietKeeps
  <1>. QED BY <1>1, <1>2

LEMMA RunPairs ==
  ASSUME NoLostAnswer, IInv, PInv, NEW r \in RunKey, RunStep(r)
  PROVE  PInv'
  <1>1. CASE RunStart(r)
    BY <1>1, RunStartPairs
  <1>2. CASE RunPause(r)
    BY <1>2, RunPausePairs
  <1>3. ~RunRetryPause(r)
    BY DEF NoLostAnswer, RunRetryPause, Fault
  <1>4. CASE ~RunStart(r) /\ ~RunPause(r)
    <2>1. \A w \in Waker : QuietWaker(w)
      BY RunOthers DEF QuietWaker, Pending
    <2>2. \A q \in RunKey : QuietRun(q)
      <3>1. runs' = [runs EXCEPT ![r] = runs'[r]] /\ runs'[r].pc # "none"
        BY RunOthers, RunRowKeeps DEF RowFits
      <3>2. Alive(r) \/ RunEndPaused(r)
        BY <1>3, <1>4 DEF RunStep, Ladder, RunDefer, RunGiveUpRung, RunGather, RunAct, RunSend,
                          RunRecordRung, RunRetryAttempt, RunCloseRead, RunCloseUpdate, RunCancel, Alive
      <3>3. RunEndPaused(r) => runs[r].pc = "paused" /\ runs'[r].pc = "done"
        BY GotoFacts DEF RunEndPaused, RunPc
      <3>4. \A q \in RunKey : q # r => runs'[q] = runs[q]
        BY <3>1 DEF IInv, TypeOK
      <3>. QED BY <3>1, <3>2, <3>3, <3>4 DEF QuietRun, Alive
    <2>3. \A d \in Case : QuietCase(d)
      <3>1. CASE RunCloseUpdate(r)
        <4>1. r[1] \in Case /\ runs[r].to \in {"lost", "aborted"}
          BY PTypes DEF IInv, TypeOK, Run
        <4>2. PICK s : /\ cases' = [cases EXCEPT ![r[1]].state = s]
                       /\ s \in {StateOf(r[1])} \cup TerminalState
          BY <3>1, <4>1 DEF RunCloseUpdate, StateOf, TerminalState
        <4>. QED BY <4>1, <4>2 DEF QuietCase, IInv, TypeOK, StateOf
      <3>2. CASE ~RunCloseUpdate(r)
        <4>1. cases' = cases
          BY <1>4, <3>2 DEF RunStep, Ladder, RunDefer, RunGiveUpRung, RunRetryAttempt, RunRetryPause,
                            RunGather, RunAct, RunSend, RunRecordRung, RunEndPaused, RunCloseRead,
                            RunCancel
        <4>. QED BY <4>1 DEF QuietCase
      <3>. QED BY <3>1, <3>2
    <2>. QED BY <2>1, <2>2, <2>3, RunOthers, QuietKeeps
  <1>. QED BY <1>1, <1>2, <1>4

\* The claim of a parked case owes it the run of its new count.
LEMMA WakeClaimPairs ==
  ASSUME IInv, PInv, NEW w \in Waker, WakeClaim(w)
  PROVE  PInv'
  <1>. DEFINE c == wakers[w].case
              won == StateOf(c) = "paused" /\ cases[c].resumes < MaxResumes
  <1>. USE DEF PInv
  <1>1. c \in Case /\ wakers[w].pc = "listed" /\ UNCHANGED <<runs, orphans>>
    BY DEF WakeClaim, IInv, WakerSound
  <1>2. \A v \in Waker : v # w => wakers'[v] = wakers[v]
    BY DEF WakeClaim, IInv, TypeOK
  <1>3. /\ wakers'[w].pc = IF won THEN "publish" ELSE "idle"
        /\ wakers'[w].case = c /\ wakers'[w].n = cases'[c].resumes
    BY DEF WakeClaim, IInv, TypeOK, WakerRow
  <1>4. \A q \in RunKey : QuietRun(q)
    BY <1>1 DEF QuietRun, Alive
  <1>5. CASE ~won
    <2>1. cases' = cases
      BY <1>5 DEF WakeClaim
    <2>2. \A v \in Waker : QuietWaker(v)
      BY <1>1, <1>2, <1>3, <1>5 DEF QuietWaker, Pending
    <2>. QED BY <1>1, <2>1, <2>2, <1>4, QuietKeeps DEF QuietCase
  <1>6. CASE won
    <2>. DEFINE n == cases[c].resumes
    <2>1. /\ cases'[c].state = "executing" /\ cases'[c].resumes = n + 1
          /\ \A d \in Case : d # c => cases'[d] = cases[d]
      BY <1>1, <1>6 DEF WakeClaim, IInv, TypeOK
    <2>2. n \in Nat /\ StateOf(c) = "paused"
      BY <1>1, <1>6, PTypes
    <2>3. /\ \A r \in RunKey : r[1] = c => ~Alive(r)
          /\ \A v \in Waker : Pending(v) => wakers[v].case # c
          /\ runs[First(c)].pc # "none"
      BY <1>1, <2>2 DEF RunsApart, RunsCounted, ClaimsHeld, TerminalState
    <2>4. <<c, n + 1>> \in RunKey
      <3>1. n + 1 \in 0..MaxResumes
        BY <1>6, <2>2, PTypes
      <3>. QED BY <1>1, <3>1 DEF RunKey
    <2>5. runs[<<c, n + 1>>].pc = "none"
      <3>1. ~(n + 1 <= n)
        BY <2>2
      <3>. QED BY <2>4, <3>1 DEF RunsCounted
    <2>6. \A r \in RunKey : r[1] = c /\ runs[r].pc # "none" => r[2] <= n + 1
      <3>. SUFFICES ASSUME NEW r \in RunKey, r[1] = c, runs[r].pc # "none" PROVE r[2] <= n + 1
        OBVIOUS
      <3>1. r[2] <= n /\ r[2] \in 0..MaxResumes
        BY PTypes DEF RunsCounted
      <3>. QED BY <2>2, <3>1
    <2>. HIDE DEF c, n
    <2>7. RunsApart'
      BY <1>1, <2>1, <2>3, PTypes DEF RunsApart, Alive, StateOf
    <2>8. RunsCounted'
      <3>1. \A r \in RunKey : r[1] # c => cases'[r[1]] = cases[r[1]]
        BY <2>1, PTypes
      <3>. QED BY <1>1, <2>1, <2>3, <2>6, <3>1, PTypes DEF RunsCounted, StateOf, First
    <2>9. ClaimsHeld'
      <3>1. \A v \in Waker : Pending(v)' => v = w \/ (Pending(v) /\ wakers'[v] = wakers[v])
        BY <1>2 DEF Pending
      <3>2. n + 1 # 0
        BY <2>2
      <3>. QED BY <1>1, <1>3, <2>1, <2>3, <2>4, <2>5, <3>1, <3>2, PTypes
           DEF ClaimsHeld, StateOf, OfCount, Alive
    <2>10. ClaimedHasRun'
      <3>. SUFFICES ASSUME NEW d \in Case, StateOf(d)' = "executing", cases'[d].resumes > 0,
                           runs'[OfCount(d)'].pc = "none", OfCount(d)' \notin orphans
           PROVE  \E v \in Waker : wakers'[v].case = d /\ wakers'[v].pc \in {"publish", "repause"}
        BY <1>1 DEF ClaimedHasRun, OfCount
      <3>1. CASE d = c
        BY <1>3, <1>6, <3>1
      <3>2. CASE d # c
        <4>1. PICK v \in Waker : wakers[v].case = d /\ wakers[v].pc \in {"publish", "repause"}
          BY <1>1, <2>1, <3>2 DEF ClaimedHasRun, StateOf, OfCount
        <4>2. v # w
          BY <1>1, <4>1
        <4>. QED BY <1>2, <4>1, <4>2
      <3>. QED BY <3>1, <3>2
    <2>. QED BY <2>7, <2>8, <2>9, <2>10
  <1>. QED BY <1>5, <1>6

\* What a pass that still owes a claimed case something may count on.
LEMMA OwedFacts ==
  ASSUME IInv, PInv, NEW w \in Waker, Pending(w)
  PROVE  LET c == wakers[w].case
         IN /\ c \in Case /\ StateOf(c) \in {"executing"} \cup TerminalState
            /\ OfCount(c) = <<c, wakers[w].n>> /\ runs[OfCount(c)].pc = "none"
            /\ cases[c].resumes \in Nat /\ cases[c].resumes # 0
            /\ \A r \in RunKey : r[1] = c => ~Alive(r)
            /\ \A v \in Waker : Pending(v) /\ wakers[v].case = c => v = w
            /\ runs[First(c)].pc # "none"
  <1>. DEFINE c == wakers[w].case
  <1>1. c \in Case /\ cases[c].resumes \in Nat
    BY PTypes
  <1>2. /\ StateOf(c) \in {"executing"} \cup TerminalState
        /\ OfCount(c) = <<c, wakers[w].n>> /\ runs[OfCount(c)].pc = "none"
        /\ cases[c].resumes # 0
        /\ \A r \in RunKey : r[1] = c => ~Alive(r)
        /\ \A v \in Waker : Pending(v) /\ wakers[v].case = c => v = w
    BY DEF PInv, ClaimsHeld, OfCount
  <1>3. runs[First(c)].pc # "none"
    BY <1>1, <1>2 DEF PInv, RunsCounted
  <1>. QED BY <1>1, <1>2, <1>3

\* Its publish starts that run.
LEMMA WakePublishPairs ==
  ASSUME IInv, PInv, NEW w \in Waker, WakePublish(w)
  PROVE  PInv'
  <1>. DEFINE c == wakers[w].case
              k == <<c, wakers[w].n>>
  <1>. USE DEF PInv
  <1>1. Pending(w) /\ UNCHANGED <<cases, orphans>>
    BY DEF WakePublish, WakerAt, Pending
  <1>2. /\ wakers'[w].pc = "idle" /\ \A v \in Waker : v # w => wakers'[v] = wakers[v]
        /\ ~Pending(w)'
    BY DEF WakePublish, WakerAt, IInv, TypeOK, WakerRow, Pending
  <1>3. /\ c \in Case /\ k = OfCount(c) /\ k \in RunKey /\ k[1] = c /\ k[2] = cases[c].resumes
        /\ runs[k].pc = "none"
    <2>1. c \in Case /\ k = OfCount(c) /\ runs[OfCount(c)].pc = "none"
      BY <1>1, OwedFacts
    <2>2. OfCount(c) \in RunKey
      BY <2>1, PTypes
    <2>. QED BY <2>1, <2>2 DEF OfCount
  <1>4. runs'[k].pc = "queued" /\ \A r \in RunKey : r # k => runs'[r] = runs[r]
    BY <1>3, PublishFacts DEF WakePublish
  <1>5. /\ \A r \in RunKey : Alive(r)' => Alive(r) \/ r = k
        /\ \A r \in RunKey : r[1] = c => ~Alive(r)
        /\ \A v \in Waker : Pending(v) /\ wakers[v].case = c => v = w
        /\ StateOf(c) \in {"executing"} \cup TerminalState
        /\ runs[First(c)].pc # "none" /\ cases[c].resumes \in Nat
    BY <1>1, <1>4, OwedFacts DEF Alive
  <1>. HIDE DEF c, k
  <1>6. RunsApart'
    BY <1>1, <1>3, <1>5 DEF RunsApart, StateOf, TerminalState
  <1>7. RunsCounted'
    <2>1. \A r \in RunKey : runs'[r].pc # "none" => r = k \/ runs[r].pc # "none"
      BY <1>4
    <2>2. \A d \in Case : runs'[First(d)].pc = "none" => runs[First(d)].pc = "none"
      BY <1>3, <1>4, PTypes
    <2>3. k[2] <= cases[k[1]].resumes
      BY <1>3, <1>5
    <2>. QED BY <1>1, <1>3, <1>5, <2>1, <2>2, <2>3 DEF RunsCounted, StateOf, TerminalState, First
  <1>8. ClaimsHeld'
    <2>1. \A v \in Waker : Pending(v)' => v # w /\ Pending(v) /\ wakers'[v] = wakers[v]
      BY <1>2 DEF Pending
    <2>2. \A v \in Waker : Pending(v)' => wakers[v].case # c
      BY <2>1, <1>5
    <2>3. \A r \in RunKey : r[1] # c => runs'[r] = runs[r]
      BY <1>3, <1>4
    <2>. QED BY <1>1, <2>1, <2>2, <2>3, PTypes DEF ClaimsHeld, StateOf, OfCount, Alive
  <1>9. ClaimedHasRun'
    <2>. SUFFICES ASSUME NEW d \in Case, StateOf(d) = "executing", cases[d].resumes > 0,
                         runs'[OfCount(d)].pc = "none", OfCount(d) \notin orphans
         PROVE  \E v \in Waker : wakers'[v].case = d /\ wakers'[v].pc \in {"publish", "repause"}
      BY <1>1 DEF ClaimedHasRun, OfCount, StateOf
    <2>1. d # c /\ runs[OfCount(d)].pc = "none"
      BY <1>3, <1>4, PTypes
    <2>2. PICK v \in Waker : wakers[v].case = d /\ wakers[v].pc \in {"publish", "repause"}
      BY <2>1 DEF ClaimedHasRun, OfCount
    <2>3. v # w
      BY <2>1, <2>2 DEF c
    <2>. QED BY <1>2, <2>2, <2>3
  <1>. QED BY <1>6, <1>7, <1>8, <1>9

\* The way back: the claimed case is parked again.
LEMMA WakeRepausePairs ==
  ASSUME IInv, PInv, NEW w \in Waker, WakeRepause(w)
  PROVE  PInv'
  <1>. DEFINE c == wakers[w].case
  <1>. USE DEF PInv
  <1>1. Pending(w) /\ UNCHANGED <<runs, orphans>>
    BY DEF WakeRepause, WakerAt, Pending
  <1>2. /\ \A v \in Waker : v # w => wakers'[v] = wakers[v]
        /\ ~Pending(w)'
    BY DEF WakeRepause, WakerAt, IInv, TypeOK, WakerRow, Pending
  <1>3. /\ c \in Case /\ StateOf(c) \in {"executing"} \cup TerminalState
        /\ \A r \in RunKey : r[1] = c => ~Alive(r)
        /\ \A v \in Waker : Pending(v) /\ wakers[v].case = c => v = w
        /\ runs[First(c)].pc # "none"
    BY <1>1, OwedFacts
  <1>4. /\ \A d \in Case : d # c => cases'[d] = cases[d]
        /\ \A d \in Case : cases'[d].resumes = cases[d].resumes
        /\ cases'[c].state # "executing"
        /\ cases'[c].state = StateOf(c) \/ cases'[c].state = "paused"
    <2>1. cases' = [cases EXCEPT ![c].state = IF @ = "executing" THEN "paused" ELSE @]
      BY DEF WakeRepause
    <2>. QED BY <1>3, <2>1 DEF IInv, TypeOK, StateOf
  <1>5. \A v \in Waker : Pending(v)' => v # w /\ Pending(v) /\ wakers'[v] = wakers[v]
                                          /\ wakers[v].case # c
    BY <1>2, <1>3 DEF Pending
  <1>. HIDE DEF c
  <1>6. RunsApart'
    BY <1>1, <1>3, <1>4, PTypes DEF RunsApart, Alive, StateOf
  <1>7. RunsCounted'
    BY <1>1, <1>3, <1>4, PTypes DEF RunsCounted, StateOf, First, TerminalState
  <1>8. ClaimsHeld'
    BY <1>1, <1>4, <1>5, PTypes DEF ClaimsHeld, StateOf, OfCount, Alive
  <1>9. ClaimedHasRun'
    <2>. SUFFICES ASSUME NEW d \in Case, StateOf(d)' = "executing", cases'[d].resumes > 0,
                         runs[OfCount(d)'].pc = "none", OfCount(d)' \notin orphans
         PROVE  \E v \in Waker : wakers'[v].case = d /\ wakers'[v].pc \in {"publish", "repause"}
      BY <1>1 DEF ClaimedHasRun, OfCount
    <2>1. d # c /\ OfCount(d)' = OfCount(d) /\ StateOf(d) = "executing"
      BY <1>4 DEF StateOf, OfCount
    <2>2. PICK v \in Waker : wakers[v].case = d /\ wakers[v].pc \in {"publish", "repause"}
      BY <1>4, <2>1 DEF ClaimedHasRun, OfCount
    <2>3. v # w
      BY <2>1, <2>2 DEF c
    <2>. QED BY <1>2, <2>2, <2>3
  <1>. QED BY <1>6, <1>7, <1>8, <1>9

\* A pass dies: if it owed a claimed case its run, the claim is left alone from then on.
LEMMA WakeDiePairs ==
  ASSUME IInv, PInv, NEW w \in Waker, WakeDie(w)
  PROVE  PInv'
  <1>1. UNCHANGED <<cases, runs>> /\ orphans \subseteq orphans'
    BY DEF WakeDie
  <1>2. ~Pending(w)' /\ \A v \in Waker : v # w => wakers'[v] = wakers[v]
    BY DEF WakeDie, IInv, TypeOK, WakerRow, Pending
  <1>3. CASE ~Pending(w)
    <2>1. \A v \in Waker : QuietWaker(v)
      BY <1>2, <1>3 DEF QuietWaker, Pending
    <2>. QED BY <1>1, <2>1, QuietKeeps DEF QuietCase, QuietRun, Alive
  <1>4. CASE Pending(w)
    <2>. DEFINE c == wakers[w].case
    <2>1. OfCount(c) \in orphans'
      BY <1>4, OwedFacts DEF WakeDie, Pending
    <2>2. \A v \in Waker : Pending(v)' => Pending(v) /\ wakers'[v] = wakers[v]
      BY <1>2 DEF Pending
    <2>3. RunsApart' /\ RunsCounted'
      BY <1>1 DEF PInv, RunsApart, RunsCounted, Alive, StateOf, First
    <2>4. ClaimsHeld'
      BY <1>1, <2>2 DEF PInv, ClaimsHeld, Alive, StateOf, OfCount
    <2>5. ClaimedHasRun'
      <3>. SUFFICES ASSUME NEW d \in Case, StateOf(d) = "executing", cases[d].resumes > 0,
                           runs[OfCount(d)].pc = "none", OfCount(d) \notin orphans'
           PROVE  \E v \in Waker : wakers'[v].case = d /\ wakers'[v].pc \in {"publish", "repause"}
        BY <1>1 DEF ClaimedHasRun, OfCount, StateOf
      <3>1. d # c /\ OfCount(d) \notin orphans
        BY <1>1, <2>1
      <3>2. PICK v \in Waker : wakers[v].case = d /\ wakers[v].pc \in {"publish", "repause"}
        BY <3>1 DEF PInv, ClaimedHasRun, OfCount
      <3>. QED BY <1>2, <3>1, <3>2
    <2>. QED BY <2>3, <2>4, <2>5 DEF PInv
  <1>. QED BY <1>3, <1>4

LEMMA WakerPairs ==
  ASSUME NoLostAnswer, IInv, PInv, NEW w \in Waker, WakerStep(w)
  PROVE  PInv'
  <1>1. CASE WakeClaim(w) \/ WakePublish(w) \/ WakeRepause(w) \/ WakeDie(w)
    BY <1>1, WakeClaimPairs, WakePublishPairs, WakeRepausePairs, WakeDiePairs
  <1>3. CASE WakePublishThrows(w)
    <2>1. UNCHANGED <<runs, cases, orphans>>
      BY <1>3 DEF WakePublishThrows, NoLostAnswer, Fault
    <2>2. wakers[w].pc = "publish" /\ wakers' = [wakers EXCEPT ![w].pc = "repause"]
      BY <1>3 DEF WakePublishThrows, WakerAt
    <2>3. \A v \in Waker : QuietWaker(v)
      BY <2>2 DEF QuietWaker, Pending, IInv, TypeOK, WakerRow
    <2>. QED BY <2>1, <2>3, QuietKeeps DEF QuietCase, QuietRun, Alive
  <1>4. CASE WakeList(w)
    <2>1. UNCHANGED <<cases, runs, orphans>> /\ wakers[w].pc = "idle" /\ wakers'[w].pc = "listed"
          /\ \A v \in Waker : v # w => wakers'[v] = wakers[v]
      BY <1>4 DEF WakeList, IInv, TypeOK
    <2>2. \A v \in Waker : QuietWaker(v)
      BY <2>1 DEF QuietWaker, Pending
    <2>. QED BY <2>1, <2>2, QuietKeeps DEF QuietCase, QuietRun, Alive
  <1>5. CASE WakeClose(w)
    <2>. DEFINE c == wakers[w].case
    <2>1. /\ UNCHANGED <<runs, orphans>> /\ wakers[w].pc = "listed"
          /\ wakers' = [wakers EXCEPT ![w].pc = "idle"]
          /\ wakers[w].to \in {"lost", "aborted"} /\ c \in Case
      BY <1>5 DEF WakeClose, WakerAt, IInv, TypeOK, WakerRow, WakerSound
    <2>2. \A v \in Waker : QuietWaker(v)
      BY <2>1 DEF QuietWaker, Pending, IInv, TypeOK, WakerRow
    <2>3. \A d \in Case : QuietCase(d)
      <3>1. cases' = [cases EXCEPT ![c].state = IF @ = "paused" THEN wakers[w].to ELSE @]
        BY <1>5 DEF WakeClose
      <3>. QED BY <2>1, <3>1 DEF QuietCase, IInv, TypeOK, TerminalState
    <2>. QED BY <2>1, <2>2, <2>3, QuietKeeps DEF QuietRun, Alive
  <1>. QED BY <1>1, <1>3, <1>4, <1>5 DEF WakerStep, Wake

LEMMA SweepPairs ==
  ASSUME IInv, PInv, SweepStep
  PROVE  PInv'
  <1>1. UNCHANGED <<runs, wakers, orphans>>
    BY SweepRows
  <1>2. \A d \in Case : QuietCase(d)
    <2>1. ASSUME NEW c \in Case, Transition(c, "lost", "deadline_passed")
          PROVE  \A d \in Case : QuietCase(d)
      <3>1. PICK s : /\ cases' = [cases EXCEPT ![c].state = s]
                     /\ s \in {cases[c].state, "lost"}
        BY <2>1 DEF Transition
      <3>. QED BY <3>1 DEF QuietCase, IInv, TypeOK, TerminalState
    <2>2. CASE cases' = cases
      BY <2>2 DEF QuietCase
    <2>. QED BY <2>1, <2>2, SweepRows
  <1>. QED BY <1>1, <1>2, QuietKeeps DEF QuietRun, QuietWaker, Alive, Pending

LEMMA WorldPairs ==
  ASSUME IInv, PInv, WorldStep
  PROVE  PInv'
  <1>1. UNCHANGED <<cases, runs, wakers, orphans>>
    BY DEF WorldStep, DeadlinePasses, Toggle, OptOut, Crowd
  <1>. QED BY <1>1, QuietKeeps DEF QuietCase, QuietRun, QuietWaker, Alive, Pending

LEMMA StepPairs ==
  ASSUME NoLostAnswer, IInv, PInv, [Next]_vars
  PROVE  PInv'
  <1>1. CASE Next
    <2>1. \/ \E h \in Hook : HookStep(h)
          \/ \E r \in RunKey : RunStep(r)
          \/ \E w \in Waker : WakerStep(w)
          \/ SweepStep \/ WorldStep
      BY <1>1 DEF Next, Faulty, HookStep, RunStep, WakerStep, SweepStep, WorldStep
    <2>. QED BY <2>1, HookPairs, RunPairs, WakerPairs, SweepPairs, WorldPairs
  <1>2. CASE UNCHANGED vars
    BY <1>2, QuietKeeps DEF vars, QuietCase, QuietRun, QuietWaker, Alive, Pending
  <1>. QED BY <1>1, <1>2

LEMMA InitPairs == Init => PInv
  <1>. SUFFICES ASSUME Init PROVE PInv
    OBVIOUS
  <1>1. /\ \A c \in Case : StateOf(c) = "absent" /\ cases[c].resumes = 0
        /\ \A r \in RunKey : runs[r].pc = "none"
        /\ \A w \in Waker : wakers[w].pc = "idle"
    BY DEF Init, StateOf
  <1>. QED BY <1>1 DEF PInv, RunsApart, RunsCounted, ClaimsHeld, ClaimedHasRun, Alive, Pending

(* While no answer is lost after its call took effect, a case never has two ladders at
   work, and a claimed case goes without one only if the pass that claimed it died before
   it published (the guarded claim of resume.ts, the run key of its count, the re-park
   after a failed publish), for any number of resume passes and wherever processes die. *)
THEOREM LadderAndClaimPair ==
  ASSUME NoLostAnswer
  PROVE  Spec => []OneLadderPerClaim
  <1>1. IInv /\ PInv => OneLadderPerClaim
    <2>1. \A r : Active(r) => Alive(r)
      BY DEF Active, Alive
    <2>. QED BY <2>1 DEF IInv, PInv, RunsApart, OneLadderPerClaim, NoDoubleLadder
  <1>2. IInv /\ PInv /\ [Next]_vars => PInv'
    BY StepPairs
  <1>. QED BY Inductive, InitPairs, <1>1, <1>2, PTL DEF Spec
=============================================================================
