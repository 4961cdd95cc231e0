-------------------------------- MODULE Desk --------------------------------
(***************************************************************************)
(* The console of one case, where people work beside its ladder: they      *)
(* start a recovery by hand and start it again once told it was sent, the  *)
(* page they leave open fires the follow-ups that have come due, and the   *)
(* discount page places the calls of Calls.  Job, poll and ladder share    *)
(* the send path: claim a key of the message ledger, hand the message to   *)
(* the provider, mark it.                                                  *)
(***************************************************************************)
EXTENDS Calls, Integers, Sequences

CONSTANTS Job,        \* requests to start the recovery
          Poll,       \* pages that poll
          Ladder,     \* the case's ladder
          Stamp,      \* milliseconds a forced start may fall on
          Unforced,   \* the stamp of a start that is not forced
          Shifts,     \* who may be at work together
          MaxToggles  \* flips of the send switch

ASSUME DeskAssumption == /\ Job \cap Poll = {} /\ Ladder \notin Job \cup Poll
                         /\ Unforced \notin Stamp
                         /\ Shifts \subseteq SUBSET (Job \cup Poll \cup Press \cup Sync \cup {Ladder})
                         /\ MaxToggles \in Nat

VARIABLES
  shift,      \* who is at work
  fans,       \* the ladder's first rung goes out on every channel at once
  onFile,     \* channels the customer has an address on and consented to
  cool,       \* somebody messaged the customer less than the gap ago
  night,      \* the merchant's quiet hours
  bar,        \* of a live case: the customer opted out, the deadline passed, or there is
              \* no mandate or no channel
  ledger,     \* message_log: the status of each key's row
  handed,     \* history: the channels each key's message was taken on
  actions,    \* case_actions: the row of each rung and stamp
  agent,      \* what each job, poll and the ladder have got to
  answer,     \* what each job told the person who pressed
  owed,       \* history: messages past their gate when the case ended, less
              \* those taken since
  orphans,    \* history: follow-ups whose poll died holding them
  toggles     \* flips so far

staff == <<shift, fans, onFile>>
deskVars == <<staff, cool, night, bar, ledger, handed, actions, agent, answer, owed, orphans, toggles>>
allVars == <<sharedVars, callVars, deskVars>>

Proc == Job \cup Poll \cup {Ladder}
Attempt == Stamp \cup {Unforced}

\* A key names a rung, a channel when the rung has a message for each, and a
\* forced attempt.
MessageKey == {0, 1} \X {"any", "whatsapp", "email"} \X Attempt
Action == {0, 1} \X Attempt

Message(key, channel) == [key |-> key, channel |-> channel]
NoAction == [status |-> "none", claimed |-> FALSE, due |-> FALSE]
Quiet == [pc |-> "idle", attempt |-> Unforced, rung |-> 0, todo |-> <<>>, rows |-> {},
          gate |-> "go", landed |-> FALSE, repeated |-> FALSE]

\* People who place calls know nothing of the customer's addresses.
DeskInit ==
  /\ CallsInit
  /\ live = TRUE /\ enabled = TRUE /\ faults = 0
  /\ shift \in Shifts
  /\ fans \in BOOLEAN /\ night \in BOOLEAN
  /\ onFile \in SUBSET {"whatsapp", "email"} \ {{}}
  /\ shift \subseteq Press \cup Sync => ~fans /\ ~night /\ onFile = {"email"}
  /\ cool = FALSE /\ bar = "none"
  /\ ledger = [k \in MessageKey |-> "none"]
  /\ handed = [k \in MessageKey |-> {}]
  /\ actions = [a \in Action |-> NoAction]
  /\ agent = [p \in Proc |-> Quiet]
  /\ answer = [j \in Job |-> "none"]
  /\ owed = 0 /\ orphans = {} /\ toggles = 0

\* ---- the gate ----
\* The first touch is read off the ledger.  Gate holds the checks; here are
\* the answers that differ for a console.
FirstTouch == \A k \in MessageKey : ledger[k] = "none"

GateAnswer ==
  IF ~enabled THEN "paused"
  ELSE IF ~live \/ bar = "up" THEN "abort"
  ELSE IF cool THEN "defer"
  ELSE IF ~night THEN "go"
  ELSE IF FirstTouch /\ "email" \in onFile THEN "email" ELSE "defer"

Proceeds(gate) == gate \in {"go", "email"}

\* ---- one message ----
\* A message on a channel that is not open is not tried.
Over(channels, key, channel) ==
  IF channel \in channels THEN <<Message(key, channel)>> ELSE <<>>

AfterMessage(p) ==
  [agent[p] EXCEPT !.todo = Tail(@),
                   !.pc = IF Len(agent[p].todo) = 1 THEN "wrap" ELSE "claim"]

\* The ledger takes a key once; it may refuse a message for the customer's
\* other cases, or an opt-out, before it looks.
Claim(p) ==
  /\ agent[p].pc = "claim"
  /\ LET key == Head(agent[p].todo).key
     IN \/ /\ ledger[key] = "none"
           /\ ledger' = [ledger EXCEPT ![key] = "queued"]
           /\ agent' = [agent EXCEPT ![p].pc = "hand"]
        \/ /\ ledger[key] # "none"
           /\ agent' = [agent EXCEPT ![p] = [AfterMessage(p) EXCEPT
                          !.repeated = @ \/ Head(agent[p].todo).channel = "whatsapp"]]
           /\ UNCHANGED ledger
        \/ agent' = [agent EXCEPT ![p] = AfterMessage(p)] /\ UNCHANGED ledger
  /\ UNCHANGED <<sharedVars, callVars, staff, cool, night, bar, handed, actions, answer, owed, orphans, toggles>>

\* What the provider has once it takes the message.
Delivers(message) ==
  /\ handed' = [handed EXCEPT ![message.key] = @ \cup {message.channel}]
  /\ owed' = IF live THEN owed ELSE owed - 1

\* The provider takes the message, and its row is marked, or it refuses.
Hand(p) ==
  /\ agent[p].pc = "hand"
  /\ LET message == Head(agent[p].todo)
     IN \/ /\ Delivers(message)
           /\ ledger' = [ledger EXCEPT ![message.key] = "sent"]
           /\ agent' = [agent EXCEPT ![p] = [AfterMessage(p) EXCEPT !.landed = TRUE]]
           /\ cool' \in {TRUE, cool}              \* the gap may be zero
        \/ /\ ledger' = [ledger EXCEPT ![message.key] = "failed"]
           /\ agent' = [agent EXCEPT ![p] = AfterMessage(p)]
           /\ UNCHANGED <<handed, owed, cool>>
  /\ UNCHANGED <<sharedVars, callVars, staff, night, bar, actions, answer, orphans, toggles>>

Sends(p, messages) ==
  agent' = [agent EXCEPT ![p].todo = messages,
                         ![p].pc = IF messages = <<>> THEN "wrap" ELSE "claim"]

\* ---- starting by hand ----
Answers(j, what) == answer' = [answer EXCEPT ![j] = IF @ = "none" THEN what ELSE @]

Ends(j, what) == agent' = [agent EXCEPT ![j].pc = "done"] /\ Answers(j, what)

\* Force comes from a confirmation, and that from having been told the case
\* was sent already.
Stamped == {t \in Attempt : t # Unforced => \E k \in Job : answer[k] = "already"}

\* The route reads the switch, the run its facts; the gate has the last word.
Start(j) ==
  /\ j \in shift /\ agent[j].pc = "idle"
  /\ IF Proceeds(GateAnswer)
     THEN /\ \E t \in Stamped : agent' = [agent EXCEPT ![j].pc = "link", ![j].attempt = t]
          /\ UNCHANGED answer
     ELSE Ends(j, "no")
  /\ UNCHANGED <<sharedVars, callVars, staff, cool, night, bar, ledger, handed, actions, owed, orphans, toggles>>

\* Once there is a link: WhatsApp under the rung's key, and beside it the
\* email of a rung that fans out.  Whatever channels the gate let through,
\* WhatsApp is tried.
StartLink(j) ==
  /\ agent[j].pc = "link"
  /\ \/ Ends(j, "no")                          \* no credentials, or no link
     \/ /\ LET attempt == agent[j].attempt
           IN Sends(j, Over(onFile, <<0, "any", attempt>>, "whatsapp")
                       \o Over(IF fans THEN onFile ELSE {}, <<0, "email", attempt>>, "email"))
        /\ UNCHANGED answer
  /\ UNCHANGED <<sharedVars, callVars, staff, cool, night, bar, ledger, handed, actions,
                 owed, orphans, toggles>>

\* A rung that does not fan out leaves its email as a row to fire later, one
\* per rung and stamp; then the person is told what happened.
StartWrap(j) ==
  /\ agent[j].pc = "wrap" /\ j \in Job
  /\ LET row == <<1, agent[j].attempt>>
         schedules == ~fans /\ "email" \in onFile /\ actions[row] = NoAction
     IN /\ actions' = IF schedules THEN [actions EXCEPT ![row].status = "planned"] ELSE actions
        /\ Ends(j, IF agent[j].landed \/ schedules THEN "ok"
                   ELSE IF agent[j].repeated THEN "already" ELSE "no")
  /\ UNCHANGED <<sharedVars, callVars, staff, cool, night, bar, ledger, handed,
                 owed, orphans, toggles>>

\* The route answers after its budget; what it started goes on.
GiveUp(j) ==
  /\ agent[j].pc \notin {"idle", "done"} /\ answer[j] = "none"
  /\ Answers(j, "timeout")
  /\ UNCHANGED <<sharedVars, callVars, staff, cool, night, bar, ledger, handed, actions,
                 agent, owed, orphans, toggles>>

\* ---- firing the follow-ups ----
Fires(p, to) == agent' = [agent EXCEPT ![p] = to]

\* The poll is the scheduler: it takes the rows that have come due.
PollRead(p) ==
  /\ p \in shift /\ enabled /\ agent[p].pc = "idle"
  /\ LET due == {a \in Action : actions[a].status = "planned" /\ ~actions[a].claimed /\ actions[a].due}
     IN due # {} /\ Fires(p, [Quiet EXCEPT !.pc = "pick", !.rows = due])
  /\ UNCHANGED <<sharedVars, callVars, staff, cool, night, bar, ledger, handed,
                 actions, answer, owed, orphans, toggles>>

\* The facts of a row are gathered before it is claimed.
PollGather(p) ==
  /\ agent[p].pc = "pick" /\ agent[p].rows # {}
  /\ \E a \in agent[p].rows :
       Fires(p, [agent[p] EXCEPT !.pc = "take", !.rung = a[1], !.attempt = a[2],
                                 !.rows = @ \ {a}, !.gate = GateAnswer])
  /\ UNCHANGED <<sharedVars, callVars, staff, cool, night, bar, ledger, handed,
                 actions, answer, owed, orphans, toggles>>

PollDone(p) ==
  /\ agent[p].pc = "pick" /\ agent[p].rows = {}
  /\ Fires(p, Quiet)
  /\ UNCHANGED <<sharedVars, callVars, staff, cool, night, bar, ledger, handed,
                 actions, answer, owed, orphans, toggles>>

RowAt(p) == <<agent[p].rung, agent[p].attempt>>

\* Faulty variant: the row is taken whoever holds it.
PollClaimBlind(p) ==
  /\ agent[p].pc = "take"
  /\ actions' = [actions EXCEPT ![RowAt(p)].claimed = TRUE]
  /\ Fires(p, [agent[p] EXCEPT !.pc = "gate"])
  /\ UNCHANGED <<sharedVars, callVars, staff, cool, night, bar, ledger, handed,
                 answer, owed, orphans, toggles>>

\* Whoever claims it first has it, due or not by then.
PollClaim(p) ==
  /\ agent[p].pc = "take"
  /\ IF actions[RowAt(p)].claimed
     THEN Fires(p, [agent[p] EXCEPT !.pc = "pick"]) /\ UNCHANGED actions
     ELSE /\ actions' = [actions EXCEPT ![RowAt(p)].claimed = TRUE]
          /\ Fires(p, [agent[p] EXCEPT !.pc = "gate"])
  /\ UNCHANGED <<sharedVars, callVars, staff, cool, night, bar, ledger, handed,
                 answer, owed, orphans, toggles>>

\* Faulty variant: a deferred row is moved but not let go.
PollGateKeeps(p) ==
  /\ agent[p].pc = "gate"
  /\ IF Proceeds(agent[p].gate)
     THEN Sends(p, Over(onFile, <<1, "any", agent[p].attempt>>, "email")) /\ UNCHANGED actions
     ELSE /\ actions' = [actions EXCEPT ![RowAt(p)] =
                           IF agent[p].gate = "defer" THEN [@ EXCEPT !.due = FALSE]
                           ELSE [@ EXCEPT !.status = "skipped"]]
          /\ Fires(p, [agent[p] EXCEPT !.pc = "pick"])
  /\ UNCHANGED <<sharedVars, callVars, staff, cool, night, bar, ledger, handed,
                 answer, owed, orphans, toggles>>

\* Not yet lets the row go, to come due again; never is for good.
PollGate(p) ==
  /\ agent[p].pc = "gate"
  /\ IF Proceeds(agent[p].gate)
     THEN Sends(p, Over(onFile, <<1, "any", agent[p].attempt>>, "email")) /\ UNCHANGED actions
     ELSE /\ actions' = [actions EXCEPT ![RowAt(p)] =
                           IF agent[p].gate = "defer" THEN [@ EXCEPT !.claimed = FALSE, !.due = FALSE]
                           ELSE [@ EXCEPT !.status = "skipped"]]
          /\ Fires(p, [agent[p] EXCEPT !.pc = "pick"])
  /\ UNCHANGED <<sharedVars, callVars, staff, cool, night, bar, ledger, handed,
                 answer, owed, orphans, toggles>>

PollSettle(p) ==
  /\ agent[p].pc = "wrap" /\ p \in Poll
  /\ actions' = [actions EXCEPT ![RowAt(p)].status = IF agent[p].landed THEN "executed" ELSE "failed"]
  /\ Fires(p, [agent[p] EXCEPT !.pc = "pick", !.landed = FALSE])
  /\ UNCHANGED <<sharedVars, callVars, staff, cool, night, bar, ledger, handed,
                 answer, owed, orphans, toggles>>

\* ---- the ladder ----
\* What the executor does of a rung: one row per rung, then the rung's
\* messages, each under a key of its own when it fans out.
LadderMessages(rung) ==
  LET open == onFile \cap (IF GateAnswer = "email" THEN {"email"} ELSE {"whatsapp", "email"})
  IN IF fans /\ rung = 0
     THEN {Over(open, <<0, "whatsapp", Unforced>>, "whatsapp")
           \o Over(open, <<0, "email", Unforced>>, "email")}
     ELSE {<<Message(<<rung, "any", Unforced>>, channel)>> : channel \in open}

NextRung == Fires(Ladder, [Quiet EXCEPT !.rung = agent[Ladder].rung + 1])

LadderRung ==
  /\ Ladder \in shift /\ agent[Ladder].pc = "idle" /\ agent[Ladder].rung \in {0, 1}
  /\ Proceeds(GateAnswer)
  /\ LET row == <<agent[Ladder].rung, Unforced>>
     IN IF actions[row] = NoAction
        THEN /\ actions' = [actions EXCEPT ![row] = [status |-> "executed", claimed |-> TRUE, due |-> TRUE]]
             /\ \E messages \in LadderMessages(agent[Ladder].rung) : Sends(Ladder, messages)
        ELSE NextRung /\ UNCHANGED actions
  /\ UNCHANGED <<sharedVars, callVars, staff, cool, night, bar, ledger, handed,
                 answer, owed, orphans, toggles>>

LadderWrap ==
  /\ agent[Ladder].pc = "wrap"
  /\ NextRung
  /\ UNCHANGED <<sharedVars, callVars, staff, cool, night, bar, ledger, handed,
                 actions, answer, owed, orphans, toggles>>

\* ---- the world ----
\* The gap passes, the night ends, a row comes due at the time it was given.
GapPasses ==
  /\ cool /\ cool' = FALSE
  /\ UNCHANGED <<sharedVars, callVars, staff, night, bar, ledger, handed, actions,
                 agent, answer, owed, orphans, toggles>>

DayBreaks ==
  /\ night /\ night' = FALSE
  /\ UNCHANGED <<sharedVars, callVars, staff, cool, bar, ledger, handed, actions,
                 agent, answer, owed, orphans, toggles>>

\* A channel may come back; an opt-out and the deadline stay.
Bar ==
  /\ live /\ \E p \in Proc \cap shift : agent[p].pc # "done"
  /\ \/ bar = "none" /\ bar' = "up"
     \/ bar = "up" /\ bar' = "lifted"
  /\ UNCHANGED <<sharedVars, callVars, staff, cool, night, ledger, handed, actions,
                 agent, answer, owed, orphans, toggles>>

ComesDue(a) ==
  /\ actions[a].status = "planned" /\ ~actions[a].due
  /\ actions' = [actions EXCEPT ![a].due = TRUE]
  /\ UNCHANGED <<sharedVars, callVars, staff, cool, night, bar, ledger, handed,
                 agent, answer, owed, orphans, toggles>>

\* Messages an agent may still send on the word the gate gave it.
InFlight(p) ==
  IF p \in Job /\ agent[p].pc = "link" THEN IF fans THEN 2 ELSE 1
  ELSE IF p \in Poll /\ agent[p].pc \in {"take", "gate"} /\ Proceeds(agent[p].gate) THEN 1
  ELSE Len(agent[p].todo)

Flight == {f \in Proc \X (1..2) : f[2] <= InFlight(f[1])}

\* The case and the switch matter while somebody is still to read them.
Watched == \/ \E p \in Press \cap shift : press[p].pc = "idle"
           \/ \E p \in Proc \cap shift : agent[p].pc # "done"

CaseEnds ==
  /\ Watched /\ live /\ live' = FALSE
  /\ owed' = Cardinality(Flight) /\ bar' = "none"
  /\ UNCHANGED <<enabled, faults, callVars, staff, cool, night, ledger, handed,
                 actions, agent, answer, orphans, toggles>>

Toggle ==
  /\ Watched /\ toggles < MaxToggles /\ toggles' = toggles + 1
  /\ enabled' = ~enabled
  /\ UNCHANGED <<live, faults, callVars, staff, cool, night, bar, ledger, handed,
                 actions, agent, answer, owed, orphans>>

\* A request dies with its process, maybe once the provider has its message;
\* the ladder's step is run again.
Die(p) ==
  /\ faults < MaxFaults /\ faults' = faults + 1
  /\ agent[p].pc \notin {"idle", "done"}
  /\ agent' = [agent EXCEPT ![p] =
                 IF p \in Job THEN [@ EXCEPT !.pc = "done", !.todo = <<>>]
                 ELSE [Quiet EXCEPT !.rung = IF p = Ladder THEN agent[p].rung ELSE 0]]
  /\ orphans' = IF p \in Poll /\ agent[p].pc \notin {"pick", "take"}
                THEN orphans \cup {RowAt(p)} ELSE orphans
  /\ \/ agent[p].pc = "hand" /\ Delivers(Head(agent[p].todo))
     \/ UNCHANGED <<handed, owed>>
  /\ UNCHANGED <<live, enabled, callVars, staff, cool, night, bar, ledger, actions, answer, toggles>>

JobStep(j) == Start(j) \/ StartLink(j) \/ StartWrap(j) \/ GiveUp(j)
PollStep(p) == \/ PollRead(p) \/ PollGather(p) \/ PollDone(p) \/ PollClaim(p) \/ PollGate(p)
               \/ PollSettle(p)
SendStep(p) == Claim(p) \/ Hand(p)

DeskNext == \/ \E j \in Job : JobStep(j)
            \/ \E p \in Poll : PollStep(p)
            \/ \E p \in Proc : SendStep(p) \/ Die(p)
            \/ LadderRung \/ LadderWrap
            \/ GapPasses \/ DayBreaks \/ Bar \/ (\E a \in Action : ComesDue(a))
            \/ CaseEnds \/ Toggle
            \/ CallsNext(shift) /\ UNCHANGED deskVars

DeskSpec == DeskInit /\ [][DeskNext]_allVars

-----------------------------------------------------------------------------
DeskTypeOK ==
  /\ agent \in [Proc -> [pc : {"idle", "link", "claim", "hand", "wrap", "done",
                               "pick", "take", "gate"},
                         attempt : Attempt, rung : 0..2,
                         todo : UNION {[1..n -> [key : MessageKey, channel : {"whatsapp", "email"}]] : n \in 0..2},
                         rows : SUBSET Action, gate : {"go", "email", "defer", "paused", "abort"},
                         landed : BOOLEAN, repeated : BOOLEAN]]
  /\ ledger \in [MessageKey -> {"none", "queued", "sent", "failed"}]
  /\ actions \in [Action -> [status : {"none", "planned", "executed", "failed", "skipped"},
                             claimed : BOOLEAN, due : BOOLEAN]]
  /\ answer \in [Job -> {"none", "ok", "already", "no", "timeout"}]
  /\ calls \in [Ring -> Pending \cup {"none", "ended"}]
  /\ owed \in Int /\ faults \in 0..MaxFaults

\* Messages of a rung that nobody forced and a provider took.
Taken(rung) == {m \in MessageKey \X {"whatsapp", "email"} :
                  m[1][1] = rung /\ m[1][3] = Unforced /\ m[2] \in handed[m[1]]}

\* A person, the page's polls and the ladder share one key space: a rung
\* reaches the customer once unless somebody asks for it again, whichever of
\* them gets there first and wherever one dies.  When the first rung fans out
\* that is true of its emails only.
RungOnce ==
  \A rung \in {0, 1} :
    IF fans /\ rung = 0
    THEN Cardinality({m \in Taken(rung) : m[2] = "email"}) <= 1
    ELSE Cardinality(Taken(rung)) <= 1

\* Overlapping polls read the same row, and a deferred row goes round again:
\* one poll at most is past the claim.
OnePollPerRow ==
  \A p, q \in Poll :
    /\ p # q
    /\ agent[p].pc \in {"gate", "claim", "hand", "wrap"}
    /\ agent[q].pc \in {"gate", "claim", "hand", "wrap"}
    => RowAt(p) # RowAt(q)

\* "Not yet" never becomes "never": a follow-up is skipped only on a case that
\* is over or barred, or for a merchant who paused, then or before.
SkippedForCause ==
  (\E a \in Action : actions[a].status = "skipped") => ~live \/ toggles > 0 \/ bar # "none"

\* An answer given in time is true: a success put a message or a row there, a
\* refusal put nothing.
AnswerHonest ==
  \A j \in Job :
    LET attempt == agent[j].attempt
        mine == \/ agent[j].landed
                \/ ~fans /\ actions[<<1, attempt>>] # NoAction
    IN /\ answer[j] = "ok" => mine
       /\ answer[j] \in {"no", "already"} => ~agent[j].landed
       /\ answer[j] = "already" => ledger[<<0, "any", attempt>>] # "none"

\* Once a case is over only the messages already past their gate go out.
EndedIsSilent == owed >= 0

\* A follow-up is never stranded: whoever claims it settles it or lets it go,
\* and one that stays claimed with nobody on it was held by a poll that died.
HeldOrFree ==
  \A a \in Action :
    actions[a].status = "planned" /\ actions[a].claimed =>
      \/ a \in orphans
      \/ \E p \in Poll : RowAt(p) = a /\ agent[p].pc \in {"gate", "claim", "hand", "wrap"}

\* However a start, the ladder and overlapping polls of the console interleave and
\* wherever one of them dies, each message asked for is handed over once, one poll at
\* most works on a follow-up, and an ended case falls silent.
OncePerAsk == RungOnce /\ OnePollPerRow /\ EndedIsSilent

\* What the console tells is what happened: an answer in time is true, a follow-up is
\* skipped for a cause, and none is held by nobody.
AnswersHonest == DeskTypeOK /\ AnswerHonest /\ SkippedForCause /\ HeldOrFree

\* The rows tell of the calls what Vapi would: every ring is counted, a call that goes
\* on is not over, and the limit is passed only by presses that overlap.
CallsCounted == OverLimitIsOverlap /\ OverIsOver /\ EveryRingIsCounted
=============================================================================
