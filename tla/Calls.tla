------------------------------- MODULE Calls -------------------------------
(***************************************************************************)
(* The calls of one case: placed by the server over the phone or by the    *)
(* browser over its microphone, counted against a limit a person may pass, *)
(* and followed through Vapi's webhooks, which come in any order or not at *)
(* all, and through the page's own syncs.  What is said on a call, the     *)
(* discount and its link, is PaymentLinks'.                                *)
(***************************************************************************)
EXTENDS Naturals, FiniteSets, FiniteSetsExt

CONSTANTS Press,      \* presses of a call button
          Rings,      \* calls Vapi may come to place
          Sync,       \* pages that ask Vapi for the status of pending calls
          Earlier,    \* calls of this case that are over, at the start
          Attempts,   \* times the client posts one call to Vapi
          MaxFaults   \* deaths, lost answers and lost messages in all

\* A press may get through to as many calls as it posts.
ASSUME CallsAssumption == /\ Earlier \subseteq Nat
                          /\ Rings \in Nat
                          /\ Attempts \in Nat \ {0}
                          /\ MaxFaults \in Nat

VARIABLES
  live,       \* the case is open
  enabled,    \* the merchant lets its agents act
  earlier,    \* rows of this case from before
  press,      \* what each press has got to
  vapi,       \* each call, as Vapi knows it
  calls,      \* voice_calls: the row of each call
  hooks,      \* webhooks Vapi has sent and nobody has handled
  sync,       \* what each page's sync has got to
  crowd,      \* history: most presses between their permission and their row
  unlisted,   \* history: calls whose row the placing press failed to write
  unsaid,     \* history: calls whose report was lost
  faults      \* faults so far

sharedVars == <<live, enabled, faults>>
callVars == <<earlier, press, vapi, calls, hooks, sync, crowd, unlisted, unsaid>>

Ring == 1..Rings        \* in the order they were placed

MAX_CALLS_PER_CASE == 2

\* What a row says: "ended" and "failed" are both over.
Pending == {"queued", "in_progress"}
NoPress == [pc |-> "idle", web |-> FALSE, override |-> FALSE, tries |-> 0, ring |-> {}]
PressDone == [NoPress EXCEPT !.pc = "done"]
NoCall == [state |-> "none", asked |-> FALSE, tagged |-> FALSE]
Asleep == [ring |-> {}, seen |-> "none"]

CallsInit ==
  /\ earlier \in Earlier
  /\ press = [p \in Press |-> NoPress]
  /\ vapi = [r \in Ring |-> NoCall]
  /\ calls = [r \in Ring |-> "none"]
  /\ hooks = {}
  /\ sync = [s \in Sync |-> Asleep]
  /\ crowd = 0
  /\ unlisted = 0
  /\ unsaid = {}

Listed == {r \in Ring : calls[r] # "none"}

\* Every row counts, whatever became of the call.
CountCallsForCase == earlier + Cardinality(Listed)

AuthorizeCall(placed, override) == placed < MAX_CALLS_PER_CASE \/ override

\* ---- placing ----
Crowd(presses) == Cardinality({p \in Press : presses[p].web /\ presses[p].pc \in {"dial", "row"}})

Goes(p, to) ==
  LET presses == [press EXCEPT ![p] = to]
  IN /\ press' = presses
     /\ crowd' = Max({crowd, Crowd(presses)})

\* The route of a phone call asks nothing of the limit.
PressPhone(p) ==
  /\ press[p].pc = "idle"
  /\ Goes(p, IF enabled /\ live THEN [NoPress EXCEPT !.pc = "dial", !.tries = 1] ELSE PressDone)
  /\ UNCHANGED <<sharedVars, earlier, vapi, calls, hooks, sync, unlisted, unsaid>>

\* The browser asks before it dials: again with an override, once a person
\* has confirmed the warning.
PressWeb(p) ==
  /\ press[p].pc \in {"idle", "confirmed"}
  /\ LET override == press[p].pc = "confirmed"
         allowed == AuthorizeCall(CountCallsForCase, override)
     IN Goes(p, [NoPress EXCEPT !.pc = IF allowed THEN "dial" ELSE "warned",
                                !.web = TRUE, !.override = override])
  /\ UNCHANGED <<sharedVars, earlier, vapi, calls, hooks, sync, unlisted, unsaid>>

Confirm(p) ==
  /\ press[p].pc = "warned"
  /\ Goes(p, [NoPress EXCEPT !.pc = "confirmed"]) \/ Goes(p, PressDone)
  /\ UNCHANGED <<sharedVars, earlier, vapi, calls, hooks, sync, unlisted, unsaid>>

\* Vapi takes the call; the metadata of a phone call always comes back, that
\* of a browser's may not.  A phone call, and an override, is a person's word.
RingsOut(p, r) ==
  /\ vapi[r].state = "none" /\ \A q \in 1..(r - 1) : vapi[q].state # "none"
  /\ \E tagged \in BOOLEAN :
       /\ press[p].web \/ tagged
       /\ vapi' = [vapi EXCEPT ![r] = [state |-> "queued", tagged |-> tagged,
                                      asked |-> ~press[p].web \/ press[p].override]]

Dial(p) ==
  /\ press[p].pc = "dial"
  /\ \/ \E r \in Ring : RingsOut(p, r) /\ Goes(p, [press[p] EXCEPT !.pc = "row", !.ring = {r}])
     \/ Goes(p, PressDone) /\ UNCHANGED vapi           \* refused: no call
  /\ UNCHANGED <<sharedVars, earlier, calls, hooks, sync, unlisted, unsaid>>

\* The client posts a call again when the answer is a timeout or a 5xx, and
\* the first post may have rung.
DialUnanswered(p) ==
  /\ press[p].pc = "dial" /\ ~press[p].web
  /\ faults < MaxFaults /\ faults' = faults + 1
  /\ \E r \in Ring : RingsOut(p, r)
  /\ Goes(p, IF press[p].tries < Attempts THEN [press[p] EXCEPT !.tries = @ + 1] ELSE PressDone)
  /\ UNCHANGED <<live, enabled, earlier, calls, hooks, sync, unlisted, unsaid>>

\* One row per call, whoever writes it first.
CreateVoiceCall(r) == IF calls[r] = "none" THEN "queued" ELSE calls[r]

WriteRow(p) ==
  /\ press[p].pc = "row"
  /\ Goes(p, PressDone)
  /\ \E r \in press[p].ring : calls' = [calls EXCEPT ![r] = CreateVoiceCall(r)]
  /\ UNCHANGED <<sharedVars, earlier, vapi, hooks, sync, unlisted, unsaid>>

\* The server dies after Vapi's answer, or the browser's registration is lost.
RowLost(p) ==
  /\ press[p].pc = "row"
  /\ faults < MaxFaults /\ faults' = faults + 1
  /\ Goes(p, PressDone)
  /\ unlisted' = unlisted + 1
  /\ UNCHANGED <<live, enabled, earlier, vapi, calls, hooks, sync, unsaid>>

\* ---- the call, at Vapi ----
Answered(r) ==
  /\ vapi[r].state = "queued"
  /\ vapi' = [vapi EXCEPT ![r].state = "in_progress"]
  /\ hooks' = hooks \cup {<<r, "in_progress">>}
  /\ UNCHANGED <<sharedVars, earlier, press, calls, sync, crowd, unlisted, unsaid>>

HangsUp(r) ==
  /\ vapi[r].state \in Pending
  /\ vapi' = [vapi EXCEPT ![r].state = "ended"]
  /\ hooks' = hooks \cup {<<r, "ended">>, <<r, "report">>}
  /\ UNCHANGED <<sharedVars, earlier, press, calls, sync, crowd, unlisted, unsaid>>

HookLost ==
  /\ faults < MaxFaults /\ faults' = faults + 1
  /\ \E h \in hooks : 
       /\ hooks' = hooks \ {h}
       /\ unsaid' = unsaid \cup IF h[2] = "report" THEN {h[1]} ELSE {}
  /\ UNCHANGED <<live, enabled, earlier, press, vapi, calls, sync, crowd, unlisted>>

\* ---- what the webhooks do ----
\* A status is written over whatever the row says, if there is a row.
StatusUpdate(r, status) ==
  /\ <<r, status>> \in hooks /\ status # "report"
  /\ hooks' = hooks \ {<<r, status>>}
  /\ calls' = IF r \in Listed THEN [calls EXCEPT ![r] = status] ELSE calls
  /\ UNCHANGED <<sharedVars, earlier, press, vapi, sync, crowd, unlisted, unsaid>>

\* The report finds its row, or makes it from the call's metadata, before it
\* is recorded.
EndOfCall(r) ==
  /\ <<r, "report">> \in hooks
  /\ hooks' = hooks \ {<<r, "report">>}
  /\ calls' = IF r \in Listed \/ vapi[r].tagged THEN [calls EXCEPT ![r] = "ended"] ELSE calls
  /\ UNCHANGED <<sharedVars, earlier, press, vapi, sync, crowd, unlisted, unsaid>>

\* ---- what a sync does ----
\* The page syncs for as long as it shows a call in flight: it asks Vapi for
\* each call a row has as pending.
SyncFetch(s) ==
  /\ sync[s].ring = {}
  /\ \E r \in Ring : /\ calls[r] \in Pending
                     /\ sync' = [sync EXCEPT ![s] = [ring |-> {r}, seen |-> vapi[r].state]]
  /\ UNCHANGED <<sharedVars, earlier, press, vapi, calls, hooks, crowd, unlisted, unsaid>>

\* Faulty variant: whatever is not in progress is over.
SyncWriteHasty(s) ==
  /\ sync[s].ring # {}
  /\ \E r \in sync[s].ring :
       calls' = [calls EXCEPT ![r] = IF sync[s].seen = "in_progress" THEN "in_progress" ELSE "ended"]
  /\ sync' = [sync EXCEPT ![s] = Asleep]
  /\ UNCHANGED <<sharedVars, earlier, press, vapi, hooks, crowd, unlisted, unsaid>>

\* The snapshot replaces whatever the row has come to say.
SyncWrite(s) ==
  /\ sync[s].ring # {}
  /\ \E r \in sync[s].ring : calls' = [calls EXCEPT ![r] = sync[s].seen]
  /\ sync' = [sync EXCEPT ![s] = Asleep]
  /\ UNCHANGED <<sharedVars, earlier, press, vapi, hooks, crowd, unlisted, unsaid>>

PressStep(p) == \/ PressPhone(p) \/ PressWeb(p) \/ Confirm(p) \/ Dial(p)
                \/ DialUnanswered(p) \/ WriteRow(p) \/ RowLost(p)
RingStep(r) == Answered(r) \/ HangsUp(r) \/ EndOfCall(r)
               \/ \E status \in {"in_progress", "ended"} : StatusUpdate(r, status)
SyncStep(s) == SyncFetch(s) \/ SyncWrite(s)

CallsNext(present) ==
             \/ \E p \in Press \cap present : PressStep(p)
             \/ \E r \in Ring : RingStep(r)
             \/ \E s \in Sync \cap present : SyncStep(s)
             \/ HookLost

-----------------------------------------------------------------------------
Placed == {r \in Ring : vapi[r].state # "none"}

\* Browser calls nobody was asked to authorise.
Unasked == {r \in Placed : ~vapi[r].asked}

\* The limit is asked of the rows, and a call's row comes after its ring: a
\* case is called past the limit without a person's word only by presses that
\* overlap, or after a call whose row was lost.
OverLimitIsOverlap ==
  Unasked # {} => earlier + Cardinality(Unasked) <= MAX_CALLS_PER_CASE + crowd - 1 + unlisted

\* A row says a call is over only when it is, in whatever order the answers of
\* Vapi's API and its webhooks are applied.
OverIsOver == \A r \in Ring : calls[r] = "ended" => vapi[r].state = "ended"

\* Every call that rang is counted against its case once its webhooks are in,
\* unless the one that names the case was lost: a post sent twice rings twice,
\* and the first of them is known by its report alone.
EveryRingIsCounted ==
  \A r \in Ring :
    /\ vapi[r].state = "ended" /\ vapi[r].tagged
    /\ \A h \in hooks : h[1] # r
    => r \in Listed \/ r \in unsaid
=============================================================================
