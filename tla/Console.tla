------------------------------ MODULE Console ------------------------------
(* The console's page at /recovery, over the queue of Escalations: it polls  *)
(* the status route, each poll started when the one before has settled; the  *)
(* refresh button polls too, and so does acting on an escalation. Answers    *)
(* come in any order, or not at all.                                         *)
EXTENDS Escalations

CONSTANTS Viewer,     \* the person at the page
          Polls,      \* bound: polls the page can have in flight
          MaxClicks,  \* bound: times refresh is pressed
          MaxDrops    \* bound: polls that fail

ASSUME PageAssumption ==
  /\ Viewer \in Person
  /\ IsFiniteSet(Polls)
  /\ MaxClicks \in Nat

VARIABLES page,     \* mounted, pending timers, whether timer.current is one, misses
          polls,    \* the polls in flight: what started each, and what it read
          shown,    \* the open escalations the page shows
          clicks, drops

pvars == <<page, polls, shown, clicks, drops>>

STALE_AFTER_POLLS == 3

NoPoll == [by |-> "none", saw |-> {}]

PageInit(mounted) ==
  /\ page = [on |-> mounted, timers |-> IF mounted THEN 1 ELSE 0, current |-> mounted, misses |-> 0]
  /\ polls = [i \in Polls |-> NoPoll]
  /\ shown = {}
  /\ clicks = 0 /\ drops = 0

\* getOpenEscalations, getEscalatedCaseIds.
OpenEscalations == {k \in Key : Open(k)}

Stalled == page.misses >= STALE_AFTER_POLLS

Free == {i \in Polls : polls[i] = NoPoll}

\* fetch('/api/recovery/status'): the answer is the queue as the route read it.
StartPoll(by) ==
  /\ Free # {}
  /\ polls' = [polls EXCEPT ![CHOOSE i \in Free : TRUE] = [by |-> by, saw |-> OpenEscalations]]

\* A pending timer fires: the one timer.current names, or one it no longer does.
TimerFires ==
  /\ page.timers > 0
  /\ \E current \in BOOLEAN :
       /\ IF current THEN page.current ELSE page.timers > (IF page.current THEN 1 ELSE 0)
       /\ page' = [page EXCEPT !.timers = @ - 1, !.current = IF current THEN FALSE ELSE @]
  /\ StartPoll("loop")
  /\ UNCHANGED <<shown, clicks, drops>>

Cleared(p) == IF p.current THEN [p EXCEPT !.timers = @ - 1, !.current = FALSE] ELSE p
Armed(p) == [p EXCEPT !.timers = @ + 1, !.current = TRUE]

\* The refresh button, the activity panel: the timer is cleared, and the page polls.
Refresh ==
  /\ page.on /\ clicks < MaxClicks
  /\ clicks' = clicks + 1
  /\ page' = Cleared(page)
  /\ StartPoll("refresh")
  /\ UNCHANGED <<shown, drops>>

\* Faulty variant: only an answer sets the timer again.
RearmedOnAnswer(p, by, answered) == IF answered /\ by # "act" THEN Armed(p) ELSE p
\* A poll never throws: whatever came of it, a loop's or a refresh's sets the timer.
Rearmed(p, by, answered) == IF by \in {"loop", "refresh"} THEN Armed(p) ELSE p

PollAnswered(i) ==
  /\ polls[i] # NoPoll
  /\ shown' = polls[i].saw
  /\ page' = Rearmed([page EXCEPT !.misses = 0], polls[i].by, TRUE)
  /\ polls' = [polls EXCEPT ![i] = NoPoll]
  /\ UNCHANGED <<clicks, drops>>

\* A 503, an unreachable server: one more miss.
PollMissed(i) ==
  /\ polls[i] # NoPoll /\ drops < MaxDrops
  /\ drops' = drops + 1
  /\ page' = Rearmed([page EXCEPT !.misses = Min({@ + 1, STALE_AFTER_POLLS})], polls[i].by, FALSE)
  /\ polls' = [polls EXCEPT ![i] = NoPoll]
  /\ UNCHANGED <<shown, clicks>>

\* The person navigates away. Only the timer that timer.current names is cleared.
Unmount ==
  /\ page.on
  /\ page' = [Cleared(page) EXCEPT !.on = FALSE]
  /\ UNCHANGED <<polls, shown, clicks, drops>>

PageStep ==
  \/ TimerFires
  \/ Refresh
  \/ Unmount
  \/ \E i \in Polls : PollAnswered(i) \/ PollMissed(i)

\* actOnEscalation: a row the page shows, the route's two statements, then a poll.
ViewerActs ==
  /\ page.on
  /\ \E k \in shown, act \in {"acknowledge", "resolve", "dismiss"} : RouteChecks(Viewer, k, act)
  /\ UNCHANGED pvars

ViewerPolls ==
  /\ people[Viewer].at = "answered"
  /\ people' = [people EXCEPT ![Viewer].at = "idle"]
  /\ StartPoll("act")
  /\ UNCHANGED <<page, shown, clicks, drops>>
  /\ UNCHANGED <<cases, ladder, actions, queue, trail, fired, alerted, deferred, alerts,
                 hands, said, faults>>

ConsoleTypes ==
  /\ page.timers \in 0 .. (MaxClicks + 1) /\ page.misses \in 0 .. STALE_AFTER_POLLS
  /\ page.current => page.timers > 0
  /\ shown \subseteq Key

\* A page left open never stops by itself: some timer is pending, or some poll of its
\* is on the way that will set one (loop, refresh).
PageStaysAlive ==
  page.on => page.timers > 0 \/ \E i \in Polls : polls[i].by \in {"loop", "refresh"}

\* An open page does not stop polling, and once nobody works the queue any more it comes to
\* show exactly the rows that are open and stops saying that it has stalled: answers out
\* of order, lost polls and impatient clicks are outlived by the next poll (loop).
PageCatchesUp == <>[](PageStaysAlive /\ (page.on => shown = OpenEscalations /\ ~Stalled))

=============================================================================
