------------------------ MODULE FailureLadder_proofs ------------------------
(***************************************************************************)
(* That the row a case resolves to keeps the promises of the case's class  *)
(* and says what works for it, for every table that compiles and whatever  *)
(* may arrive; that the gate's answers are what they say and its times the *)
(* first that help, for every minute and every pair of quiet hours; and    *)
(* that a ladder on the clock keeps to its ceiling, its deadline, the gap, *)
(* the cap and the night, for every merchant and every history.            *)
(*                                                                         *)
(* The ladder's invariants come in layers: what the variables hold, what   *)
(* its messages stand for and what held when each was sent, that a night   *)
(* is slept through, that a day never holds more than the cap, and that a  *)
(* deferral helps.                                                         *)
(***************************************************************************)
EXTENDS FailureLadder, WellFoundedInduction, FunctionTheorems, FiniteSetTheorems, TLAPS

\* A nonempty set of natural numbers has a least element.
LEMMA LeastNatural ==
  ASSUME NEW T, T \subseteq Nat, T # {} PROVE \E x \in T : \A y \in T : x <= y
<1>1. IsWellFoundedOn(OpToRel(<, Nat), Nat)
  BY NatLessThanWellFounded
<1>2. PICK x \in T : \A y \in T : ~(<<y, x>> \in OpToRel(<, Nat))
  BY <1>1, WFMin
<1>3. \A y \in T : ~(y < x)
  BY <1>2 DEF OpToRel
<1> QED BY <1>3

LEMMA MinIs ==
  ASSUME NEW T, T \subseteq Nat, T # {}
  PROVE  Min(T) \in T /\ \A y \in T : Min(T) <= y
<1>1. \E x \in T : \A y \in T : x <= y
  BY LeastNatural
<1> QED BY <1>1 DEF Min

LEMMA MaxIs ==
  ASSUME NEW n \in Nat, NEW T, T \subseteq 0..n, T # {}
  PROVE  Max(T) \in T /\ \A y \in T : y <= Max(T)
<1>1. {n - x : x \in T} \subseteq Nat /\ {n - x : x \in T} # {}
  OBVIOUS
<1>2. PICK m \in {n - x : x \in T} : \A y \in {n - x : x \in T} : m <= y
  BY <1>1, LeastNatural
<1>3. PICK x \in T : m = n - x
  BY <1>2
<1>4. \A y \in T : y <= x
  <2> SUFFICES ASSUME NEW y \in T PROVE y <= x
    OBVIOUS
  <2>1. m <= n - y
    BY <1>2
  <2> QED BY <1>3, <2>1
<1>5. \E z \in T : \A y \in T : y <= z
  BY <1>4
<1> QED BY <1>5 DEF Max

LEMMA MinOfTwo ==
  ASSUME NEW a \in Int, NEW b \in Int
  PROVE  Min({a, b}) \in {a, b} /\ Min({a, b}) <= a /\ Min({a, b}) <= b
<1>1. \E x \in {a, b} : \A y \in {a, b} : x <= y
  OBVIOUS
<1> QED BY <1>1 DEF Min

LEMMA MaxOfTwo ==
  ASSUME NEW a \in Int, NEW b \in Int
  PROVE  Max({a, b}) \in {a, b} /\ a <= Max({a, b}) /\ b <= Max({a, b})
<1>1. \E x \in {a, b} : \A y \in {a, b} : y <= x
  OBVIOUS
<1> QED BY <1>1 DEF Max

\* The latest of a set of times that has at most one.
LEMMA MaxOfOne ==
  ASSUME NEW T, T \subseteq Nat, \A s, t \in T : s = t, NEW s \in T
  PROVE  Max(T \cup {0}) = s
<1>1. T \cup {0} = {s, 0}
  OBVIOUS
<1> QED BY <1>1, MaxOfTwo

-----------------------------------------------------------------------------
\* ---- quiet hours ----

\* Windows are pairs of hours of the day.
Window(w) == w.start \in 0..23 /\ w.end \in 0..23

LEMMA HourIs == ASSUME NEW n \in Nat PROVE LocalHour(n) = (n \div 60) % 24 /\ n \div 60 \in Nat
  BY DEF LocalHour, MinutesPerDay, MinutesPerHour

LEMMA HourLater == ASSUME NEW n \in Nat, NEW i \in Nat PROVE (n + i * 60) \div 60 = n \div 60 + i
  OBVIOUS

\* Whether a minute is quiet depends on its hour alone.
LEMMA QuietByHour ==
  ASSUME NEW m \in Nat, NEW n \in Nat, NEW w, m \div 60 = n \div 60
  PROVE  IsQuietHour(m, w) <=> IsQuietHour(n, w)
<1>1. LocalHour(m) = LocalHour(n)
  BY HourIs
<1> QED BY <1>1 DEF IsQuietHour

\* The hour a window ends at is not quiet.
LEMMA EndIsOpen ==
  ASSUME NEW n \in Nat, NEW w, Window(w), LocalHour(n) = w.end
  PROVE  ~IsQuietHour(n, w)
  BY DEF IsQuietHour, Window

LEMMA SomeHourOpen ==
  ASSUME NEW instant \in Nat, NEW w, Window(w)
  PROVE  \E i \in 1..24 : ~IsQuietHour(instant + i * 60, w)
<1> DEFINE h == instant \div 60
           c == h % 24
           q == h \div 24
           i == IF w.end > c THEN w.end - c ELSE w.end + 24 - c
<1>1. h \in Nat /\ c \in 0..23 /\ q \in Nat /\ h = 24 * q + c
  BY HourIs
<1>2. i \in 1..24
  BY <1>1 DEF Window
<1>3. (h + i) % 24 = w.end
  <2> HIDE DEF h, c, q
  <2>1. w.end \in 0..23
    BY DEF Window
  <2>2. CASE w.end > c
    <3>1. h + i = 24 * q + w.end
      BY <1>1, <2>1, <2>2
    <3> HIDE DEF i
    <3> QED BY <1>1, <2>1, <3>1
  <2>3. CASE ~(w.end > c)
    <3>1. h + i = 24 * (q + 1) + w.end
      BY <1>1, <2>1, <2>3
    <3> HIDE DEF i
    <3> QED BY <1>1, <2>1, <3>1
  <2> QED BY <2>2, <2>3
<1>4. LocalHour(instant + i * 60) = w.end
  <2> HIDE DEF i
  <2>1. instant + i * 60 \in Nat
    BY <1>2
  <2>2. LocalHour(instant + i * 60) = ((instant + i * 60) \div 60) % 24
    BY <2>1, HourIs
  <2>3. (instant + i * 60) \div 60 = h + i
    BY <1>2, HourLater
  <2> QED BY <1>3, <2>2, <2>3
<1>5. instant + i * 60 \in Nat
  BY <1>2
<1> HIDE DEF i, h
<1> QED BY <1>2, <1>4, <1>5, EndIsOpen

\* The next allowed minute is the first that is not quiet, from whatever minute of a
\* window that may wrap midnight.
THEOREM NightEndsOnTime ==
  ASSUME NEW instant \in Nat, NEW w, Window(w)
  PROVE  /\ NextAllowedTime(instant, w) \in Nat /\ NextAllowedTime(instant, w) >= instant
         /\ ~IsQuietHour(NextAllowedTime(instant, w), w)
         /\ \A m \in instant..(NextAllowedTime(instant, w) - 1) : IsQuietHour(m, w)
<1>1. CASE ~IsQuietHour(instant, w)
  <2>1. NextAllowedTime(instant, w) = instant
    BY <1>1 DEF NextAllowedTime
  <2> QED BY <1>1, <2>1
<1>2. CASE IsQuietHour(instant, w)
  <2> DEFINE open == {i \in 1..25 : ~IsQuietHour(instant + i * MinutesPerHour, w)}
             k == Min(open)
             h == instant \div 60
             candidate == instant + k * 60
             t == candidate - (candidate % 60)
  <2>1. k \in open /\ \A i \in open : k <= i
    <3>1. open \subseteq Nat
      OBVIOUS
    <3>2. open # {}
      <4>1. PICK i \in 1..24 : ~IsQuietHour(instant + i * 60, w)
        BY SomeHourOpen
      <4>2. i \in open
        BY <4>1 DEF MinutesPerHour
      <4> QED BY <4>2
    <3> HIDE DEF open
    <3> QED BY <3>1, <3>2, MinIs
  <2>2. k \in 1..25 /\ ~IsQuietHour(candidate, w)
    BY <2>1 DEF MinutesPerHour
  <2>3. \A i \in 1..(k - 1) : IsQuietHour(instant + i * 60, w)
    <3> SUFFICES ASSUME NEW i \in 1..(k - 1) PROVE IsQuietHour(instant + i * 60, w)
      OBVIOUS
    <3>1. i \in 1..25 /\ ~(k <= i)
      BY <2>2
    <3>2. i \notin open
      BY <2>1, <3>1
    <3> QED BY <3>1, <3>2 DEF MinutesPerHour
  <2> HIDE DEF k, open
  <2>4. candidate \in Nat /\ candidate \div 60 = h + k /\ h \in Nat
    BY <2>2, HourLater, HourIs
  <2>5. t = 60 * (h + k) /\ t \in Nat
    <3> HIDE DEF candidate, h
    <3> QED BY <2>2, <2>4
  <2>6. t > instant
    <3>1. instant < 60 * (h + 1)
      OBVIOUS
    <3> HIDE DEF t, h
    <3> QED BY <2>2, <2>4, <2>5, <3>1
  <2>7. NextAllowedTime(instant, w) = t
    BY <1>2, <2>6 DEF NextAllowedTime, MinutesPerHour, k, open
  <2>8. ~IsQuietHour(t, w)
    <3>1. t \div 60 = h + k
      <4> HIDE DEF t, h
      <4> QED BY <2>2, <2>4, <2>5
    <3> HIDE DEF t, candidate, h
    <3> QED BY <2>2, <2>4, <2>5, <3>1, QuietByHour
  <2>9. ASSUME NEW m \in instant..(t - 1) PROVE IsQuietHour(m, w)
    <3> DEFINE i == m \div 60 - h
    <3>1. m \in Nat /\ h <= m \div 60 /\ m \div 60 < h + k
      <4>1. m \in Nat /\ instant <= m /\ m < 60 * (h + k)
        BY <2>5
      <4>2. m \div 60 < h + k
        <5> HIDE DEF h
        <5> QED BY <2>2, <2>4, <4>1
      <4>3. h <= m \div 60
        BY <4>1
      <4> QED BY <4>1, <4>2, <4>3
    <3>2. i \in 0..(k - 1) /\ m \div 60 = h + i
      <4> HIDE DEF h
      <4>1. m \div 60 \in Int
        BY <3>1
      <4> QED BY <2>2, <2>4, <3>1, <4>1
    <3> HIDE DEF t, i
    <3>3. instant + i * 60 \in Nat /\ (instant + i * 60) \div 60 = h + i
      BY <2>2, <3>2, HourLater
    <3>4. IsQuietHour(instant + i * 60, w)
      BY <1>2, <2>2, <2>3, <3>2
    <3> QED BY <3>1, <3>2, <3>3, <3>4, QuietByHour
  <2> QED BY <2>5, <2>6, <2>7, <2>8, <2>9
<1> QED BY <1>1, <1>2

-----------------------------------------------------------------------------
\* ---- the gate ----


\* The first check that is on answers, and none may.
LEMMA FirstOnIs ==
  ASSUME NEW checks, DOMAIN checks \subseteq Nat, NEW otherwise
  PROVE  \/ /\ \A i \in DOMAIN checks : ~checks[i].on
            /\ FirstOn(checks, otherwise) = otherwise
         \/ \E i \in DOMAIN checks : checks[i].on /\ FirstOn(checks, otherwise) = checks[i].answer
<1> DEFINE on == {i \in DOMAIN checks : checks[i].on}
<1>1. CASE on = {}
  BY <1>1 DEF FirstOn
<1>2. CASE on # {}
  <2>1. on \subseteq Nat
    OBVIOUS
  <2>2. Min(on) \in on
    <3> HIDE DEF on
    <3> QED BY <1>2, <2>1, MinIs
  <2>3. FirstOn(checks, otherwise) = checks[Min(on)].answer
    BY <1>2 DEF FirstOn
  <2> HIDE DEF on
  <2>4. Min(on) \in DOMAIN checks /\ checks[Min(on)].on
    BY <2>2 DEF on
  <2> QED BY <2>3, <2>4
<1> QED BY <1>1, <1>2

LEMMA AnswersAre ==
  /\ Go.do = "go" /\ Paused.do = "paused"
  /\ \A only : GoOn(only).do = "go"
  /\ \A why : Abort(why).do = "abort"
  /\ \A why, at : Defer(why, at).do = "defer" /\ Defer(why, at).why = why /\ Defer(why, at).at = at
  BY DEF Go, Paused, GoOn, Abort, Defer, Answer

LEMMA Aborting ==
  ASSUME NEW pre, NEW f, NEW otherwise
  PROVE  LET answer == FirstOn(Aborts(pre, f), otherwise)
         IN \/ answer = otherwise /\ f.enabled /\ ~f.deadlinePassed /\ ~f.optedOut
            \/ answer.do \in {"paused", "abort"}
<1> DEFINE c == Aborts(pre, f)
<1>1. DOMAIN c = 1..7
  BY DEF Aborts
<1>2. \A i \in 1..7 : c[i].answer.do \in {"paused", "abort"}
  BY AnswersAre DEF Aborts, Check
<1>3. /\ c[1].on = ~f.enabled /\ c[4].on = f.deadlinePassed /\ c[5].on = f.optedOut
  BY DEF Aborts, Check
<1>4. DOMAIN c \subseteq Nat
  BY <1>1
<1> HIDE DEF c
<1>5. \/ /\ \A i \in DOMAIN c : ~c[i].on
         /\ FirstOn(c, otherwise) = otherwise
      \/ \E i \in DOMAIN c : c[i].on /\ FirstOn(c, otherwise) = c[i].answer
  BY <1>4, FirstOnIs
<1>6. CASE (\A i \in DOMAIN c : ~c[i].on) /\ FirstOn(c, otherwise) = otherwise
  <2>1. 1 \in DOMAIN c /\ 4 \in DOMAIN c /\ 5 \in DOMAIN c
    BY <1>1
  <2>2. ~c[1].on /\ ~c[4].on /\ ~c[5].on
    BY <1>6, <2>1, Zenon
  <2>3. f.enabled /\ ~f.deadlinePassed /\ ~f.optedOut
    BY <1>3, <2>2, Zenon
  <2> QED BY <1>6, <2>3, Zenon DEF c
<1>7. CASE \E i \in DOMAIN c : c[i].on /\ FirstOn(c, otherwise) = c[i].answer
  BY <1>1, <1>2, <1>7 DEF c
<1> QED BY <1>5, <1>6, <1>7

\* What each limit answers when it is the one that holds a rung back.
LimitAnswers(pre, f, answer) ==
  \/ /\ answer = Defer("no_live_attempt", Max(f.lastAttempt \cup {0}) + f.dials.lock + 1)
     /\ \E at \in f.lastAttempt : f.now - at < f.dials.lock
  \/ /\ answer = Defer("cool_off", f.now + f.dials.gap - Max(f.sinceTouch \cup {0}))
     /\ f.dials.gap > 0 /\ \E since \in f.sinceTouch : since < f.dials.gap
  \/ /\ answer = Defer("within_frequency_cap", IF f.recent = {} THEN f.now + MinutesPerHour ELSE CapClears(f))
     /\ f.count >= f.dials.cap
  \/ /\ answer = Defer("merchant_budget_available", f.now + 6 * MinutesPerHour)
     /\ "merchant_budget_available" \in pre

Close(f) == f.sinceTouch # {} /\ f.dials.gap > 0 /\ \E since \in f.sinceTouch : since < f.dials.gap
Full(pre, f) == "within_frequency_cap" \in pre /\ f.count >= f.dials.cap /\ ~CustomerIsLive(f)
Night(pre, f) == "not_quiet_hours" \in pre /\ ~CustomerIsLive(f) /\ ~(NextAllowedTime(f.now, f.quiet) <= f.now)

\* The limits let a message go on only when the gap is kept and the cap leaves
\* room for one.
LEMMA Limiting ==
  ASSUME NEW pre, NEW f, NEW otherwise
  PROVE  LET answer == FirstOn(LimitDefers(pre, f), otherwise)
         IN \/ answer = otherwise /\ ~Close(f) /\ ~Full(pre, f)
            \/ LimitAnswers(pre, f, answer)
<1> DEFINE c == LimitDefers(pre, f)
<1>1. DOMAIN c = 1..4
  BY DEF LimitDefers
<1>2. \A i \in 1..4 : c[i].on => LimitAnswers(pre, f, c[i].answer)
  <2>1. c[1].on => LimitAnswers(pre, f, c[1].answer)
    BY DEF LimitDefers, Check, LimitAnswers
  <2>2. c[2].on => LimitAnswers(pre, f, c[2].answer)
    BY DEF LimitDefers, Check, LimitAnswers
  <2>3. c[3].on => LimitAnswers(pre, f, c[3].answer)
    BY DEF LimitDefers, Check, LimitAnswers
  <2>4. c[4].on => LimitAnswers(pre, f, c[4].answer)
    BY DEF LimitDefers, Check, LimitAnswers
  <2> HIDE DEF c
  <2> QED BY <2>1, <2>2, <2>3, <2>4
<1>3. c[2].on = Close(f) /\ c[3].on = Full(pre, f)
  BY DEF LimitDefers, Check, Close, Full
<1>4. DOMAIN c \subseteq Nat
  BY <1>1
<1> HIDE DEF c
<1>5. \/ /\ \A i \in DOMAIN c : ~c[i].on
         /\ FirstOn(c, otherwise) = otherwise
      \/ \E i \in DOMAIN c : c[i].on /\ FirstOn(c, otherwise) = c[i].answer
  BY <1>4, FirstOnIs
<1>6. CASE (\A i \in DOMAIN c : ~c[i].on) /\ FirstOn(c, otherwise) = otherwise
  <2>1. 2 \in DOMAIN c /\ 3 \in DOMAIN c
    BY <1>1
  <2>2. ~c[2].on /\ ~c[3].on
    BY <1>6, <2>1, Zenon
  <2>3. ~Close(f) /\ ~Full(pre, f)
    BY <1>3, <2>2, Zenon
  <2> QED BY <1>6, <2>3, Zenon DEF c
<1>7. CASE \E i \in DOMAIN c : c[i].on /\ FirstOn(c, otherwise) = c[i].answer
  <2>1. PICK i \in DOMAIN c : c[i].on /\ FirstOn(c, otherwise) = c[i].answer
    BY <1>7
  <2>2. LimitAnswers(pre, f, c[i].answer)
    BY <1>1, <1>2, <2>1
  <2> QED BY <2>1, <2>2, Zenon DEF c
<1> QED BY <1>5, <1>6, <1>7

\* At night a first message goes by email alone, or waits for the window to end.
LEMMA Nightly ==
  ASSUME NEW pre, NEW f
  PROVE  \/ ~Night(pre, f) /\ AtNight(pre, f) = Go
         \/ Night(pre, f) /\ f.first /\ AtNight(pre, f) = GoOn({"email"})
         \/ Night(pre, f) /\ AtNight(pre, f) = Defer("not_quiet_hours", NextAllowedTime(f.now, f.quiet))
  BY Zenon DEF AtNight, Night

LEMMA LimitsDefer ==
  ASSUME NEW pre, NEW f, NEW answer, LimitAnswers(pre, f, answer)
  PROVE  answer.do = "defer" /\ answer.why # "not_quiet_hours"
  BY AnswersAre DEF LimitAnswers

\* An answer to send, whatever the facts and whatever check came first: the
\* merchant is running, the deadline is ahead, the customer has not opted out,
\* the gap since the last touch is kept, the cap has room, and at night only
\* a first message goes, by email.
THEOREM GoIsPermitted ==
  ASSUME NEW pre, NEW f, EvaluatePreconditions(pre, f).do = "go"
  PROVE  /\ f.enabled /\ ~f.deadlinePassed /\ ~f.optedOut
         /\ ~Close(f) /\ ~Full(pre, f)
         /\ \/ ~Night(pre, f) /\ EvaluatePreconditions(pre, f) = Go
            \/ Night(pre, f) /\ f.first /\ EvaluatePreconditions(pre, f) = GoOn({"email"})
<1> DEFINE atNight == AtNight(pre, f)
           limited == FirstOn(LimitDefers(pre, f), atNight)
           answer == FirstOn(Aborts(pre, f), limited)
<1>1. answer.do = "go" /\ EvaluatePreconditions(pre, f) = answer
  BY DEF EvaluatePreconditions
<1>2. \/ answer = limited /\ f.enabled /\ ~f.deadlinePassed /\ ~f.optedOut
      \/ answer.do \in {"paused", "abort"}
  BY Aborting
<1>3. \/ limited = atNight /\ ~Close(f) /\ ~Full(pre, f)
      \/ limited.do = "defer"
  BY Limiting, LimitsDefer
<1>4. \/ ~Night(pre, f) /\ atNight = Go
      \/ Night(pre, f) /\ f.first /\ atNight = GoOn({"email"})
      \/ atNight.do = "defer"
  BY Nightly, AnswersAre
<1> HIDE DEF atNight, limited, answer
<1>5. answer = limited /\ f.enabled /\ ~f.deadlinePassed /\ ~f.optedOut
  BY <1>1, <1>2
<1>6. limited = atNight /\ ~Close(f) /\ ~Full(pre, f)
  BY <1>1, <1>3, <1>5
<1>7. \/ ~Night(pre, f) /\ EvaluatePreconditions(pre, f) = Go
      \/ Night(pre, f) /\ f.first /\ EvaluatePreconditions(pre, f) = GoOn({"email"})
  BY <1>1, <1>4, <1>5, <1>6
<1> QED BY <1>5, <1>6, <1>7

\* An answer to wait names the limit that holds, or the night.
LEMMA DeferIsFor ==
  ASSUME NEW pre, NEW f, EvaluatePreconditions(pre, f).do = "defer"
  PROVE  \/ LimitAnswers(pre, f, EvaluatePreconditions(pre, f))
         \/ /\ Night(pre, f)
            /\ EvaluatePreconditions(pre, f) = Defer("not_quiet_hours", NextAllowedTime(f.now, f.quiet))
<1> DEFINE atNight == AtNight(pre, f)
           limited == FirstOn(LimitDefers(pre, f), atNight)
           answer == FirstOn(Aborts(pre, f), limited)
<1>1. answer.do = "defer" /\ EvaluatePreconditions(pre, f) = answer
  BY DEF EvaluatePreconditions
<1>2. answer = limited \/ answer.do \in {"paused", "abort"}
  BY Aborting
<1>3. limited = atNight \/ LimitAnswers(pre, f, limited)
  BY Limiting
<1>4. \/ atNight = Go \/ atNight = GoOn({"email"})
      \/ Night(pre, f) /\ atNight = Defer("not_quiet_hours", NextAllowedTime(f.now, f.quiet))
  BY Nightly
<1> HIDE DEF atNight, limited, answer
<1> QED BY <1>1, <1>2, <1>3, <1>4, AnswersAre

\* It is night exactly when the next allowed minute is a later one.
LEMMA NightIs ==
  ASSUME NEW n \in Nat, NEW w, Window(w)
  PROVE  IsQuietHour(n, w) <=> ~(NextAllowedTime(n, w) <= n)
<1>1. /\ NextAllowedTime(n, w) \in Nat /\ NextAllowedTime(n, w) >= n
      /\ ~IsQuietHour(NextAllowedTime(n, w), w)
      /\ \A m \in n..(NextAllowedTime(n, w) - 1) : IsQuietHour(m, w)
  BY NightEndsOnTime
<1>2. CASE NextAllowedTime(n, w) <= n
  <2>1. NextAllowedTime(n, w) = n
    BY <1>1, <1>2
  <2> QED BY <1>1, <1>2, <2>1
<1>3. CASE ~(NextAllowedTime(n, w) <= n)
  BY <1>1, <1>3
<1> QED BY <1>2, <1>3

\* A rung put off for the night wakes outside the window, later than now, and
\* no minute before that was open.
THEOREM NightWakeIsOpen ==
  ASSUME NEW pre, NEW f, f.now \in Nat, Window(f.quiet),
         EvaluatePreconditions(pre, f).why = "not_quiet_hours",
         EvaluatePreconditions(pre, f).do = "defer"
  PROVE  LET at == EvaluatePreconditions(pre, f).at
         IN /\ at > f.now /\ ~IsQuietHour(at, f.quiet)
            /\ \A m \in f.now..(at - 1) : IsQuietHour(m, f.quiet)
<1> DEFINE free == NextAllowedTime(f.now, f.quiet)
<1>1. Night(pre, f) /\ EvaluatePreconditions(pre, f) = Defer("not_quiet_hours", free)
  BY DeferIsFor, LimitsDefer
<1>2. EvaluatePreconditions(pre, f).at = free /\ ~(free <= f.now)
  BY <1>1, AnswersAre DEF Night
<1>3. free \in Nat /\ ~IsQuietHour(free, f.quiet) /\ \A m \in f.now..(free - 1) : IsQuietHour(m, f.quiet)
  BY NightEndsOnTime
<1> HIDE DEF free
<1> QED BY <1>2, <1>3

-----------------------------------------------------------------------------
\* ---- the row of a case ----

\* The specificity of a row is an integer below 1000, negative for the
\* catch-all alone (specificity.ts).
LEMMA SpecificityBound ==
  ASSUME NEW row
  PROVE /\ RowSpecificity(row) \in Int /\ RowSpecificity(row) < 1000
        /\ row.catchAll => RowSpecificity(row) = -1
        /\ ~row.catchAll => RowSpecificity(row) >= 0
<1>1. \A d \in Dims : MATCH_WEIGHTS[d] \in 1..100
  BY DEF Dims, MATCH_WEIGHTS
<1>2. \A d \in Dims : Weight(row.match, d) \in 0..100
  BY <1>1 DEF Weight
<1> DEFINE a == Weight(row.match, "errorReason")
           b == Weight(row.match, "bank")
           c == Weight(row.match, "errorSource")
           d == Weight(row.match, "errorStep")
           e == Weight(row.match, "method")
           f == Weight(row.match, "causeClass")
           g == Weight(row.match, "amountBand")
           h == Weight(row.match, "caseType")
           i == Weight(row.match, "attended")
<1>3. /\ a \in 0..100 /\ b \in 0..100 /\ c \in 0..100 /\ d \in 0..100 /\ e \in 0..100
      /\ f \in 0..100 /\ g \in 0..100 /\ h \in 0..100 /\ i \in 0..100
  BY <1>2 DEF Dims
<1>4. SpecificityOf(row.match) = a + b + c + d + e + f + g + h + i
  BY DEF SpecificityOf
<1> HIDE DEF a, b, c, d, e, f, g, h, i
<1>5. a + b + c + d + e + f + g + h + i \in 0..900
  BY <1>3
<1> QED BY <1>4, <1>5 DEF RowSpecificity

\* In a table that compiles every case finds a row, one of the table's, which
\* is the catch-all or matches the case (resolvePolicy).
LEMMA ResolvedRow ==
  ASSUME NEW rows, Compiles(rows), NEW input
  PROVE LET row == ResolvePolicy(rows, input)
        IN row \in rows /\ (row.catchAll \/ MatchesPolicy(row.match, input))
<1> DEFINE C == Candidates(rows, input)
           T == {1000 - RowSpecificity(row) : row \in C}
<1>1. C # {}
  BY DEF Compiles, CheckTable, Candidates
<1>2. T \subseteq Nat /\ T # {}
  BY <1>1, SpecificityBound
<1>3. PICK n \in T : \A y \in T : n <= y
  BY <1>2, LeastNatural
<1>4. PICK row \in C : n = 1000 - RowSpecificity(row)
  BY <1>3
<1>5. \A other \in C : RowSpecificity(other) <= RowSpecificity(row)
  <2> SUFFICES ASSUME NEW other \in C PROVE RowSpecificity(other) <= RowSpecificity(row)
    OBVIOUS
  <2>1. n <= 1000 - RowSpecificity(other)
    BY <1>3
  <2> QED BY <2>1, <1>4, SpecificityBound
<1>6. BestRows(rows, input) # {}
  BY <1>5 DEF BestRows
<1>7. ResolvePolicy(rows, input) \in BestRows(rows, input)
  BY <1>6 DEF ResolvePolicy
<1> QED BY <1>7 DEF BestRows, Candidates

\* Rows that are equally the best for a case do the same: a table that compiles
\* never leaves it to the order of the ids what the customer is sent.
THEOREM TiesAreHarmless ==
  ASSUME NEW rows, Compiles(rows), NEW input,
         NEW a \in BestRows(rows, input), NEW b \in BestRows(rows, input)
  PROVE SameBehaviour(a, b)
<1>1. /\ a \in rows /\ (a.catchAll \/ MatchesPolicy(a.match, input))
      /\ b \in rows /\ (b.catchAll \/ MatchesPolicy(b.match, input))
      /\ RowSpecificity(a) <= RowSpecificity(b) /\ RowSpecificity(b) <= RowSpecificity(a)
  BY DEF BestRows, Candidates
<1>2. RowSpecificity(a) = RowSpecificity(b)
  BY <1>1, SpecificityBound
<1>3. a.catchAll <=> b.catchAll
  BY <1>2, SpecificityBound
<1>4. CASE a.catchAll
  <2>1. a = b
    BY <1>1, <1>3, <1>4 DEF Compiles, CheckTable
  <2> QED BY <2>1 DEF SameBehaviour
<1>5. CASE ~a.catchAll
  <2>1. CanOverlap(a.match, b.match)
    BY <1>1, <1>3, <1>5 DEF MatchesPolicy, CanOverlap
  <2> QED BY <1>1, <1>2, <1>3, <1>5, <2>1 DEF Compiles, CheckTable, Unambiguous, SameBehaviour
<1> QED BY <1>4, <1>5

-----------------------------------------------------------------------------
\* ---- the class of a case is one of the classes ----

LEMMA BaseClassType ==
  ASSUME NEW reason \in Reasons PROVE BaseClass(reason) \in CauseClasses
<1>1. CauseClasses = {"transient_infra", "instrument_dead", "customer_input", "auth_friction",
                      "funds_limits", "risk", "merchant_config", "terminal_noop", "intent_exit"}
  BY DEF CauseClasses, CAUSE_CLASS_TRAITS
<1> QED BY <1>1 DEF Reasons, BaseClass

LEMMA RuleClassType == ASSUME NEW r \in RULES PROVE r.class \in CauseClasses
<1>1. CauseClasses = {"transient_infra", "instrument_dead", "customer_input", "auth_friction",
                      "funds_limits", "risk", "merchant_config", "terminal_noop", "intent_exit"}
  BY DEF CauseClasses, CAUSE_CLASS_TRAITS
<1>2. CASE r \in InstrumentRules
  BY <1>1, <1>2 DEF InstrumentRules, Rule
<1>3. CASE r \in DeclineRules
  BY <1>1, <1>3 DEF DeclineRules, Rule
<1> QED BY <1>2, <1>3 DEF RULES

LEMMA ResolvedClassType ==
  ASSUME NEW t, t.reason \in Reasons PROVE ResolveClass(t) \in CauseClasses
<1>1. CASE BestRules(t) = {}
  BY <1>1, BaseClassType DEF ResolveClass
<1>2. CASE BestRules(t) # {}
  <2>1. (CHOOSE r \in BestRules(t) : TRUE) \in RULES
    BY <1>2 DEF BestRules, MatchingRules
  <2> QED BY <1>2, <2>1, RuleClassType DEF ResolveClass
<1> QED BY <1>1, <1>2

LEMMA DiagnosedClass ==
  ASSUME NEW t, t.reason \in Reasons, NEW ctx PROVE Diagnose(t, ctx).class \in CauseClasses
<1>1. "transient_infra" \in CauseClasses
  BY DEF CauseClasses, CAUSE_CLASS_TRAITS
<1> QED BY <1>1, ResolvedClassType DEF Diagnose

\* Whatever reason arrives, the tuple that is diagnosed has a known one.
LEMMA NormalizedReason ==
  ASSUME NEW f \in Failures PROVE NormalizeErrorTuple(f.raw).reason \in Reasons
<1>1. "unknown_reason" \in Reasons
  BY DEF Reasons, TailReasons
<1>2. "reason" \in DOMAIN f.raw
  BY FailureAssumption
<1>3. NormalizeErrorTuple(f.raw).reason = Known(f.raw.reason, Reasons, "unknown_reason")
  BY <1>2 DEF NormalizeErrorTuple
<1> QED BY <1>1, <1>3 DEF Known

-----------------------------------------------------------------------------
\* ---- the resolved row fits ----

\* Diagnosis, resolution and compiler agree: the row taken for a diagnosis keeps
\* the ceilings, the floor and the prohibitions of the diagnosis's class.
LEMMA ResolvedRowFits ==
  ASSUME NEW t, t.reason \in Reasons, NEW ctx
  PROVE LET d == Diagnose(t, ctx) IN Fits(ResolvePolicy(Table, MatchInput(t, d, ctx)), d)
<1> DEFINE d == Diagnose(t, ctx)
           input == MatchInput(t, d, ctx)
           row == ResolvePolicy(Table, input)
           traits == CAUSE_CLASS_TRAITS[d.class]
<1>1. row \in Table /\ (row.catchAll \/ MatchesPolicy(row.match, input))
  BY ResolvedRow, TableAssumption
<1>2. CheckRow(row)
  BY <1>1, TableAssumption DEF Compiles
<1>3. CASE row.catchAll
  BY <1>2, <1>3 DEF CheckRow, Fits
<1>4. CASE ~row.catchAll
  <2>1. d.class \in ApplicableClasses(row.match)
    <3>1. input["causeClass"] = d.class /\ "causeClass" \in Dims
      BY DEF MatchInput, Dims
    <3>2. row.match["causeClass"] = {} \/ d.class \in row.match["causeClass"]
      BY <1>1, <1>4, <3>1 DEF MatchesPolicy
    <3> QED BY <3>2, DiagnosedClass DEF ApplicableClasses
  <2>2. /\ row.max <= traits.touches
        /\ ~traits.contact => Touches(row) = {}
        /\ \A i \in DOMAIN row.ladder : FirstNudge(row, i) => row.ladder[i].at >= traits.floor
        /\ ~traits.retry => \A g \in Rungs(row) :
             g.do # "retry_debit" /\ (g.do = "nudge" => "retry_same" \notin g.suggest)
    BY <1>2, <1>4, <2>1 DEF CheckRow, UnderTraits
  <2>3. CustomerMessageCount(row) <= row.max
    BY <1>2 DEF CheckRow
  <2>4. ASSUME NEW g \in Rungs(row), g.do = "retry_debit"
        PROVE ~d.attended /\ "mandate_active" \in row.pre
    <3>1. row.match["attended"] = {"no"} /\ "mandate_active" \in row.pre
      BY <1>2, <2>4 DEF CheckRow, MandateRules
    <3>2. input["attended"] = "no"
      <4>1. "attended" \in Dims
        BY DEF Dims
      <4> QED BY <1>1, <1>4, <3>1, <4>1 DEF MatchesPolicy
    <3>3. input["attended"] = IF d.attended THEN "yes" ELSE "no"
      BY DEF MatchInput
    <3> QED BY <3>1, <3>2, <3>3
  <2> QED BY <1>4, <2>2, <2>3, <2>4 DEF Fits
<1> QED BY <1>3, <1>4

\* Ingest is the only step that chooses a row.
LEMMA OnlyIngest ==
  ASSUME phase # "new", [Next]_vars PROVE UNCHANGED case
<1> USE DEF Next, vars
<1>1. CASE HandlePaymentFailed
  BY <1>1 DEF HandlePaymentFailed
<1>2. ASSUME NEW m \in Merchants, NEW reach \in Reaches, StartLadder(m, reach)
      PROVE UNCHANGED case
  BY <1>2 DEF StartLadder
<1>3. CASE Step
  BY <1>3 DEF Step, Gather, Evaluate, Pause, CloseFromGate, DeferRung, Defers, NoChannel, Act,
                 Send, Sent
<1>4. CASE Tick \/ OtherMessage \/ AnotherAttempt \/ OptOut \/ SwitchOff
  BY <1>4 DEF Tick, OtherMessage, AnotherAttempt, OptOut, SwitchOff, Around
<1> QED BY <1>1, <1>2, <1>3, <1>4

\* Before ingest nothing but ingest happens.
LEMMA FirstIngest ==
  ASSUME phase = "new", [Next]_vars
  PROVE HandlePaymentFailed \/ phase' = "new"
<1> USE DEF Next, vars
<1>1. ASSUME NEW m \in Merchants, NEW reach \in Reaches, StartLadder(m, reach)
      PROVE FALSE
  BY <1>1 DEF StartLadder
<1>2. CASE Step
  BY <1>2 DEF Step, Gather, Evaluate, Pause, CloseFromGate, DeferRung, NoChannel, Act, Send, Sent
<1>3. CASE Tick \/ OtherMessage \/ AnotherAttempt \/ OptOut \/ SwitchOff
  BY <1>3 DEF Tick, OtherMessage, AnotherAttempt, OptOut, SwitchOff, Around
<1> QED BY <1>1, <1>2, <1>3

\* For every table that compiles and every failure, the ladder a case is given
\* is one its class allows.
THEOREM LadderFitsAlways == Spec => []LadderFits
<1>1. Init => LadderFits
  BY DEF Init, LadderFits
<1>2. LadderFits /\ [Next]_vars => LadderFits'
  <2> SUFFICES ASSUME LadderFits, [Next]_vars, phase' # "new" PROVE Fits(case.row, case.diagnosis)'
    BY DEF LadderFits
  <2>1. CASE phase # "new"
    <3>1. UNCHANGED case
      BY <2>1, OnlyIngest
    <3>2. Fits(case.row, case.diagnosis)
      BY <2>1 DEF LadderFits
    <3> QED BY <3>1, <3>2 DEF Fits
  <2>2. CASE phase = "new"
    <3>1. HandlePaymentFailed
      BY <2>2, FirstIngest
    <3>2. PICK f \in Failures :
            LET t == NormalizeErrorTuple(f.raw)
                d == Diagnose(t, f.ctx)
            IN /\ case'.diagnosis = d
               /\ case'.row = ResolvePolicy(Table, MatchInput(t, d, f.ctx))
      BY <3>1 DEF HandlePaymentFailed
    <3>3. Fits(case'.row, case'.diagnosis)
      BY <3>2, NormalizedReason, ResolvedRowFits
    <3> QED BY <3>3 DEF Fits
  <2> QED BY <2>1, <2>2
<1> QED BY <1>1, <1>2, PTL DEF Spec

-----------------------------------------------------------------------------
\* ---- the inductive invariant, in layers ----

Attempting == phase \in {"gathered", "gated", "sending"}
Climbing == phase = "waiting" \/ Attempting

\* What ingest made of the failure, once and for all; only a case that is not
\* aborted goes further.
CaseInv ==
  phase # "new" =>
    /\ case.failure \in Failures /\ case.born = case.failure.at
    /\ case.tuple = NormalizeErrorTuple(case.failure.raw)
    /\ case.diagnosis = Diagnose(case.tuple, case.failure.ctx)
    /\ case.row = ResolvePolicy(Table, MatchInput(case.tuple, case.diagnosis, case.failure.ctx))
    /\ case.cohort \in {"treatment", "holdout"}
    /\ phase # "done" => ~case.diagnosis.abort

Whys == {"none", "no_live_attempt", "cool_off", "within_frequency_cap", "not_quiet_hours"}
Entries == [at : Nat, rung : Nat, place : Nat, channel : Channels, sent : BOOLEAN, seen : Nat]

RunTypes ==
  /\ phase \in {"new", "diagnosed", "waiting", "gathered", "gated", "sending", "parked", "done"}
  /\ merchant \in Merchants
  /\ run \in [rung : Nat, deferrals : 0..MAX_DEFERRALS_PER_RUNG, why : Whys, wake : Nat]
  /\ Climbing => run.rung \in 1..Len(Ladder)
  /\ phase \in {"new", "diagnosed"} => run.deferrals = 0 /\ run.why = "none"
  /\ now \in Nat /\ events \in 0..MaxEvents /\ {enabled, news} \subseteq BOOLEAN
  /\ queue \subseteq Nat /\ (phase = "sending" => queue \subseteq DOMAIN CurrentRung.channels)
  /\ outcome \in {"none", "already_paid", "lost", "customer_opted_out", "manual_abort",
                  "ceiling_reached", "ladder_exhausted"}

\* The customer, and what was written: nothing in the future, and nothing before
\* the ladder starts.
PersonTypes ==
  /\ person \in [reach : SUBSET Channels, optedOut : BOOLEAN, attempts : SUBSET (0..now)]
  /\ \A s, t \in person.attempts : s = t
  /\ log \in Seq(Entries) /\ \A i \in DOMAIN log : log[i].at <= now
  /\ phase \in {"new", "diagnosed"} => log = <<>> /\ person.attempts = {}

\* What the attempt read still says of now, and of the log as it was.
FactsInv ==
  Attempting =>
    /\ facts.now = now /\ facts.deadlinePassed = PastDeadline(now)
    /\ facts.dials = EffectiveDials(merchant.dials) /\ facts.quiet = merchant.quiet
    /\ facts.sinceFailure = now - case.born
    /\ facts.lastAttempt \subseteq 0..now /\ \A s, t \in facts.lastAttempt : s = t
    /\ facts.sinceTouch \subseteq Nat /\ \A s, t \in facts.sinceTouch : s = t
    /\ facts.recent \subseteq Nat /\ \A t \in facts.recent : t > now - MinutesPerDay
    /\ facts.count \in Nat
    /\ facts.seen \in 0..Len(log)
    /\ \A i \in 1..facts.seen : Real(i) => \E s \in facts.sinceTouch : s <= now - log[i].at

DecisionInv ==
  phase \in {"gated", "sending"} => decision = EvaluatePreconditions(case.row.pre, facts)

Types == CaseInv /\ RunTypes /\ PersonTypes /\ FactsInv /\ DecisionInv

\* A message stands for a rung and a place of its ladder, no two for the same, in
\* the order of the rungs.
LedgerInv ==
  /\ \A i \in DOMAIN log :
       Own(i) => LET g == Ladder[log[i].rung]
                 IN /\ log[i].rung \in DOMAIN Ladder /\ log[i].rung <= run.rung /\ IsTouch(g)
                    /\ log[i].place \in DOMAIN g.channels /\ log[i].channel = g.channels[log[i].place]
  /\ \A i, j \in DOMAIN log :
       i < j => /\ log[i].at <= log[j].at
                /\ Own(i) /\ Own(j) => log[i].rung <= log[j].rung
                /\ Own(i) /\ Own(j) /\ log[i].rung = log[j].rung =>
                     Ladder[log[i].rung].fanout /\ log[i].place # log[j].place

\* Until a rung sends, it has written nothing.
FreshRung ==
  phase \in {"waiting", "gathered", "gated"} => \A i \in DOMAIN log : Own(i) => log[i].rung < run.rung

\* A rung that sends has written only what its queue has lost.
SendingRung ==
  phase = "sending" =>
    /\ decision.do = "go" /\ IsTouch(CurrentRung)
    /\ \A n \in queue : CurrentRung.channels[n] \in decision.only
    /\ ~CurrentRung.fanout => \A m, n \in queue : m = n
    /\ \A i \in DOMAIN log : Own(i) /\ log[i].rung = run.rung =>
         log[i].place \notin queue /\ (queue = {} \/ CurrentRung.fanout)

\* To a first rung nothing came before.
FirstRung == Attempting /\ facts.first => \A i \in OwnSent : log[i].rung = run.rung

RungInv == FreshRung /\ SendingRung /\ FirstRung

\* What held when each message was sent.
SentInv ==
  \A j \in OwnSent :
    /\ log[j].seen < j /\ log[j].at < Deadline
    /\ \A i \in 1..log[j].seen : Real(i) => log[j].at - log[i].at >= EffectiveDials(merchant.dials).gap
    /\ IsQuietHour(log[j].at, merchant.quiet) =>
         /\ \A i \in OwnSent : i < j => log[i].rung = log[j].rung
         /\ log[j].channel = "whatsapp" => log[j].at - case.born <= EffectiveDials(merchant.dials).live

\* A rung held back for the night sleeps through it.
NightInv ==
  phase = "waiting" /\ run.why = "not_quiet_hours" =>
    /\ now < run.wake /\ ~IsQuietHour(run.wake, merchant.quiet)
    /\ \A t \in now..(run.wake - 1) : IsQuietHour(t, merchant.quiet)

\* The rolling day never holds more than the cap.
CapInv == Cardinality(Recent(now)) <= EffectiveDials(merchant.dials).cap

\* The fact behind each reason to defer.
Blocked(why, f) ==
  CASE why = "no_live_attempt" -> \E t \in f.lastAttempt : f.now - t < f.dials.lock
    [] why = "cool_off" -> \E s \in f.sinceTouch : s < f.dials.gap
    [] why = "within_frequency_cap" -> f.count >= f.dials.cap
    [] why = "not_quiet_hours" -> IsQuietHour(f.now, f.quiet)
    [] OTHER -> TRUE

\* What the customer's own record says the reason will be at t.
Gone(why, t) ==
  CASE why = "no_live_attempt" -> \A s \in person.attempts : t - s >= EffectiveDials(merchant.dials).lock
    [] why = "cool_off" -> \A i \in DOMAIN log : Real(i) => t - log[i].at >= EffectiveDials(merchant.dials).gap
    [] why = "within_frequency_cap" -> Cardinality(Recent(t)) < EffectiveDials(merchant.dials).cap
    [] why = "not_quiet_hours" -> \A late \in Late : ~IsQuietHour(t + late, merchant.quiet)
    [] OTHER -> FALSE

IdleInv ==
  /\ phase \in {"gathered", "gated"} /\ ~news =>
       /\ facts.lastAttempt = person.attempts /\ facts.seen = Len(log)
       /\ facts.count = Cardinality(Recent(now))
       /\ facts.recent = {log[i].at : i \in Recent(now)}
  /\ phase = "waiting" /\ run.deferrals > 0 => now < run.wake
  /\ phase = "waiting" /\ run.deferrals > 0 /\ ~news => Gone(run.why, run.wake)
  /\ phase \in {"gathered", "gated"} /\ run.deferrals > 0 /\ facts.idle => ~Blocked(run.why, facts)
-----------------------------------------------------------------------------
\* ---- constants ----

\* Whatever numbers a merchant has set, the dials in force are within bounds.
LEMMA DialsAre ==
  ASSUME NEW m \in Merchants
  PROVE  /\ EffectiveDials(m.dials).cap \in 1..10 /\ EffectiveDials(m.dials).gap \in 0..720
         /\ EffectiveDials(m.dials).lock \in 0..120 /\ EffectiveDials(m.dials).live \in 0..240
         /\ Window(m.quiet)
<1> DEFINE Low(name) == DIAL_BOUNDS[name].min
           High(name) == DIAL_BOUNDS[name].max
<1>1. ASSUME NEW name \in DOMAIN DIAL_BOUNDS
      PROVE  ClampDial(name, m.dials[name]) \in Low(name)..High(name)
  <2> DEFINE v == m.dials[name]
             low == Max({Low(name), v})
  <2>1. v \in Int
    BY MerchantAssumption
  <2>2. Low(name) \in Int /\ High(name) \in Int /\ Low(name) <= High(name)
    BY DEF DIAL_BOUNDS
  <2>3. ClampDial(name, v) = Min({High(name), low})
    BY DEF ClampDial
  <2> HIDE DEF v, Low, High
  <2>4. low \in Int /\ Low(name) <= low
    BY <2>1, <2>2, MaxOfTwo
  <2> HIDE DEF low
  <2>5. Min({High(name), low}) \in {High(name), low} /\ Min({High(name), low}) <= High(name)
    BY <2>2, <2>4, MinOfTwo
  <2>6. Min({High(name), low}) \in Low(name)..High(name)
    BY <2>2, <2>4, <2>5
  <2> QED BY <2>3, <2>6 DEF v
<1>2. DOMAIN DIAL_BOUNDS = {"cap", "gap", "budget", "lock", "live"}
  BY DEF DIAL_BOUNDS
<1>3. /\ Low("cap") = 1 /\ High("cap") = 10 /\ Low("gap") = 0 /\ High("gap") = 720
      /\ Low("lock") = 0 /\ High("lock") = 120 /\ Low("live") = 0 /\ High("live") = 240
  BY DEF DIAL_BOUNDS
<1> HIDE DEF Low, High
<1>4. /\ ClampDial("cap", m.dials["cap"]) \in 1..10 /\ ClampDial("gap", m.dials["gap"]) \in 0..720
      /\ ClampDial("lock", m.dials["lock"]) \in 0..120 /\ ClampDial("live", m.dials["live"]) \in 0..240
  <2>1. ClampDial("cap", m.dials["cap"]) \in 1..10
    BY <1>1, <1>2, <1>3
  <2>2. ClampDial("gap", m.dials["gap"]) \in 0..720
    BY <1>1, <1>2, <1>3
  <2>3. ClampDial("lock", m.dials["lock"]) \in 0..120
    BY <1>1, <1>2, <1>3
  <2>4. ClampDial("live", m.dials["live"]) \in 0..240
    BY <1>1, <1>2, <1>3
  <2> QED BY <2>1, <2>2, <2>3, <2>4
<1>5. Window(m.quiet)
  BY MerchantAssumption DEF Window
<1> QED BY <1>2, <1>4, <1>5 DEF EffectiveDials

LEMMA DeadlineIs ==
  ASSUME NEW type \in DOMAIN BaseWindow, NEW band PROVE ComputeDeadline(type, band) \in Nat
<1>1. BaseWindow[type] \in {4320, 2880, 20160, 43200}
  BY DEF BaseWindow, Days, Hours
<1> QED BY <1>1 DEF ComputeDeadline, Hours

\* What ingest makes of a failure: a row of the table that is used for it, and a
\* ladder to climb unless the case is aborted.
LEMMA Ingested ==
  ASSUME NEW f \in Failures
  PROVE  LET t == NormalizeErrorTuple(f.raw)
             d == Diagnose(t, f.ctx)
             input == MatchInput(t, d, f.ctx)
             row == ResolvePolicy(Table, input)
         IN /\ row \in Table /\ (row.catchAll \/ MatchesPolicy(row.match, input)) /\ CheckRow(row)
            /\ d.class \in CauseClasses /\ d.deadline \in Nat /\ f.at \in Nat
            /\ ~d.abort => row.ladder # <<>>
<1> DEFINE t == NormalizeErrorTuple(f.raw)
           d == Diagnose(t, f.ctx)
           input == MatchInput(t, d, f.ctx)
           row == ResolvePolicy(Table, input)
<1>1. row \in Table /\ (row.catchAll \/ MatchesPolicy(row.match, input))
  BY ResolvedRow, TableAssumption
<1>2. CheckRow(row)
  BY <1>1, TableAssumption DEF Compiles
<1>3. d.class \in CauseClasses
  BY NormalizedReason, DiagnosedClass
<1>4. d.deadline \in Nat
  <2>1. d.type \in DOMAIN BaseWindow
    BY FailureAssumption DEF Diagnose, BaseWindow
  <2>2. d.deadline = ComputeDeadline(d.type, AmountBand(f.ctx.amount))
    BY DEF Diagnose
  <2> HIDE DEF d
  <2> QED BY <2>1, <2>2, DeadlineIs
<1>5. f.at \in Nat
  BY FailureAssumption
<1>6. ASSUME ~d.abort PROVE row.ladder # <<>>
  <2>1. d.abort <=> d.class = "terminal_noop"
    BY DEF Diagnose
  <2>2. input["causeClass"] = d.class /\ "causeClass" \in Dims
    BY DEF MatchInput, Dims
  <2> HIDE DEF d, input, row
  <2>3. SUFFICES ASSUME row.ladder = <<>> PROVE FALSE
    OBVIOUS
  <2>4. ~row.catchAll /\ row.match["causeClass"] = {"terminal_noop"}
    BY <1>1, <2>3, ShippedAssumption
  <2>5. d.class \in {"terminal_noop"}
    BY <1>1, <2>2, <2>4 DEF MatchesPolicy
  <2> QED BY <1>6, <2>1, <2>5
<1> QED BY <1>1, <1>2, <1>3, <1>4, <1>5, <1>6

LEMMA OfCase ==
  ASSUME CaseInv, phase # "new"
  PROVE  /\ case.row \in Table /\ CheckRow(case.row)
         /\ case.diagnosis.class \in CauseClasses
         /\ case.born \in Nat /\ case.diagnosis.deadline \in Nat /\ Deadline \in Nat
         /\ Ladder \in Seq(Rungs(case.row)) /\ (phase # "done" => Ladder # <<>>)
         /\ \A i \in DOMAIN Ladder : /\ Ladder[i] \in Rungs(case.row) /\ Ladder[i].at \in Nat
                                    /\ Ladder[i].fanout \in BOOLEAN /\ Ladder[i].channels \in Seq(Channels)
<1>1. /\ case.row \in Table /\ CheckRow(case.row) /\ case.diagnosis.class \in CauseClasses
      /\ case.diagnosis.deadline \in Nat /\ case.born \in Nat
      /\ (~case.diagnosis.abort => case.row.ladder # <<>>)
  BY Ingested DEF CaseInv
<1>2. /\ Ladder \in Seq(Rungs(case.row))
      /\ \A g \in Rungs(case.row) : g.at \in Nat /\ g.fanout \in BOOLEAN /\ g.channels \in Seq(Channels)
  BY <1>1, RowAssumption DEF Ladder
<1>3. \A i \in DOMAIN Ladder : Ladder[i] \in Rungs(case.row)
  BY DEF Ladder, Rungs
<1>4. Deadline \in Nat
  BY <1>1 DEF Deadline
<1>5. phase # "done" => Ladder # <<>>
  BY <1>1 DEF CaseInv, Ladder
<1> QED BY <1>1, <1>2, <1>3, <1>4, <1>5

-----------------------------------------------------------------------------
\* ---- what a step does ----

Outcomes == {"none", "already_paid", "lost", "customer_opted_out", "manual_abort",
             "ceiling_reached", "ladder_exhausted"}

Steady == UNCHANGED <<case, merchant, now, facts, decision, log, person, enabled, news, events>>

\* The ladder goes on to its next rung, ends, or is parked.
RungEnds ==
  /\ phase \in {"gated", "sending"} /\ (phase = "sending" => queue = {})
  /\ Steady /\ queue' = queue
  /\ \/ /\ run.rung < Len(Ladder) /\ phase' = "waiting" /\ outcome' = outcome
        /\ run' = [rung |-> run.rung + 1, deferrals |-> 0, why |-> "none",
                   wake |-> case.born + Ladder[run.rung + 1].at]
     \/ phase' \in {"parked", "done"} /\ run' = run /\ outcome' \in Outcomes \cup {outcome}

\* The rung waits, for the reason and the time the gate gave, or for the morning.
RungWaits ==
  /\ phase = "gated" /\ Steady /\ UNCHANGED <<queue, outcome>> /\ phase' = "waiting"
  /\ run.deferrals < MAX_DEFERRALS_PER_RUNG
  /\ \E why, at :
       /\ run' = [run EXCEPT !.deferrals = @ + 1, !.why = why, !.wake = at]
       /\ \/ decision.do = "defer" /\ why = decision.why /\ at = decision.at
          \/ /\ decision.do = "go" /\ decision.why = "night"
             /\ why = "not_quiet_hours" /\ at = NextAllowedTime(now, merchant.quiet)

RungSends ==
  /\ phase = "gated" /\ decision.do = "go" /\ IsTouch(CurrentRung)
  /\ phase' = "sending" /\ queue' = BuildChannels(CurrentRung)
  /\ Steady /\ UNCHANGED <<run, outcome>>

Bystander == OtherMessage \/ AnotherAttempt \/ OptOut \/ SwitchOff

LEMMA NextRungEnds ==
  ASSUME NextRung, Steady, queue' = queue, phase \in {"gated", "sending"}, phase = "sending" => queue = {}
  PROVE  RungEnds
  BY DEF NextRung, RungEnds, Outcomes

LEMMA DefersIs ==
  ASSUME NEW why, NEW at, Defers(why, at), phase = "gated", run.deferrals \in Nat, queue' = queue,
         \/ decision.do = "defer" /\ why = decision.why /\ at = decision.at
         \/ /\ decision.do = "go" /\ decision.why = "night"
            /\ why = "not_quiet_hours" /\ at = NextAllowedTime(now, merchant.quiet)
  PROVE  RungEnds \/ RungWaits
<1>1. Steady
  BY DEF Defers, Steady
<1>2. CASE NextRung
  BY <1>1, <1>2, NextRungEnds
<1>3. CASE ~NextRung
  <2>1. /\ run' = [run EXCEPT !.deferrals = @ + 1, !.why = why, !.wake = at]
        /\ phase' = "waiting" /\ outcome' = outcome /\ run.deferrals < MAX_DEFERRALS_PER_RUNG
    BY <1>3, BoundsAssumption DEF Defers
  <2> QED BY <1>1, <2>1, Zenon DEF RungWaits
<1> QED BY <1>2, <1>3

\* Every step is one of these.
LEMMA EachStep ==
  ASSUME RunTypes, [Next]_vars
  PROVE  \/ HandlePaymentFailed
         \/ \E m \in Merchants, reach \in Reaches : StartLadder(m, reach)
         \/ Gather \/ Evaluate \/ RungEnds \/ RungWaits \/ RungSends \/ Send
         \/ Tick \/ Bystander \/ UNCHANGED vars
<1>1. CASE Pause
  <2>1. Steady /\ queue' = queue
    BY <1>1 DEF Pause, Steady
  <2>2. CASE NextRung
    BY <1>1, <2>1, <2>2, NextRungEnds DEF Pause
  <2>3. CASE ~NextRung
    BY <1>1, <2>1, <2>3 DEF Pause, RungEnds
  <2> QED BY <2>2, <2>3
<1>2. CASE CloseFromGate
  BY <1>2 DEF CloseFromGate, RungEnds, Steady, Outcomes
<1>3. CASE DeferRung
  <2>1. phase = "gated" /\ decision.do = "defer" /\ Defers(decision.why, decision.at) /\ queue' = queue
    BY <1>3 DEF DeferRung, Defers
  <2> QED BY <2>1, DefersIs DEF RunTypes
<1>4. CASE NoChannel
  <2>1. CASE decision.why = "night"
    <3>1. /\ phase = "gated" /\ decision.do = "go" /\ queue' = queue
          /\ Defers("not_quiet_hours", NextAllowedTime(now, merchant.quiet))
      BY <1>4, <2>1 DEF NoChannel, Defers
    <3> QED BY <2>1, <3>1, DefersIs DEF RunTypes
  <2>2. CASE decision.why # "night"
    <3>1. phase = "gated" /\ NextRung /\ Steady /\ queue' = queue
      BY <1>4, <2>2 DEF NoChannel, Steady
    <3> QED BY <3>1, NextRungEnds
  <2> QED BY <2>1, <2>2
<1>5. CASE Act
  <2>1. phase = "gated" /\ decision.do = "go" /\ Steady
    BY <1>5 DEF Act, Steady
  <2>2. \/ NextRung /\ UNCHANGED queue
        \/ /\ IsTouch(CurrentRung)
           /\ queue' = BuildChannels(CurrentRung) /\ phase' = "sending" /\ UNCHANGED <<run, outcome>>
    BY <1>5 DEF Act
  <2>3. CASE NextRung /\ UNCHANGED queue
    BY <2>1, <2>3, NextRungEnds
  <2> QED BY <2>1, <2>2, <2>3 DEF RungSends
<1>6. CASE Sent
  <2>1. phase = "sending" /\ queue = {} /\ NextRung /\ Steady /\ queue' = queue
    BY <1>6 DEF Sent, Steady
  <2> QED BY <2>1, NextRungEnds
<1> QED BY <1>1, <1>2, <1>3, <1>4, <1>5, <1>6 DEF Next, Step, Bystander

-----------------------------------------------------------------------------
\* ---- the types, and what the gate was told ----

LEMMA CaseStays ==
  ASSUME CaseInv, RunTypes, [Next]_vars PROVE CaseInv'
<1>1. CASE phase = "new"
  <2>1. CASE HandlePaymentFailed
    BY <2>1 DEF HandlePaymentFailed, CaseInv, Cohorts
  <2> QED BY <1>1, <2>1, FirstIngest DEF CaseInv
<1>2. CASE phase # "new"
  <2>1. UNCHANGED case
    BY <1>2, OnlyIngest
  <2>2. phase = "done" => phase' = "done"
    BY EachStep DEF HandlePaymentFailed, StartLadder, Gather, Evaluate, RungEnds, RungWaits, RungSends,
                 Send, Tick, Bystander, OtherMessage, AnotherAttempt, OptOut, SwitchOff, Around, vars
  <2> QED BY <1>2, <2>1, <2>2 DEF CaseInv
<1> QED BY <1>1, <1>2

\* A deferral is for a known reason and to a later time.
LEMMA DeferralIsLater ==
  ASSUME Types, phase = "gated", decision.do = "defer"
  PROVE  decision.why \in Whys \ {"none"} /\ decision.at \in Nat /\ decision.at > now
<1> DEFINE pre == case.row.pre
<1>1. decision = EvaluatePreconditions(pre, facts)
  BY DEF Types, DecisionInv
<1>2. /\ facts.now = now /\ now \in Nat /\ facts.dials = EffectiveDials(merchant.dials)
      /\ facts.quiet = merchant.quiet /\ merchant \in Merchants
      /\ facts.lastAttempt \subseteq 0..now /\ (\A s, t \in facts.lastAttempt : s = t)
      /\ facts.sinceTouch \subseteq Nat /\ (\A s, t \in facts.sinceTouch : s = t)
      /\ facts.recent \subseteq Nat /\ (\A t \in facts.recent : t > now - MinutesPerDay)
  BY DEF Types, FactsInv, RunTypes, Attempting
<1>3. /\ facts.dials.gap \in 0..720 /\ facts.dials.lock \in 0..120 /\ Window(facts.quiet)
  BY <1>2, DialsAre
<1>4. "merchant_budget_available" \notin pre
  BY OfCase, ShippedAssumption DEF Types
<1>5. \/ LimitAnswers(pre, facts, decision)
      \/ Night(pre, facts) /\ decision = Defer("not_quiet_hours", NextAllowedTime(now, facts.quiet))
  BY <1>1, <1>2, DeferIsFor
<1> HIDE DEF pre
<1>6. ASSUME NEW t \in facts.lastAttempt, facts.now - t < facts.dials.lock,
             decision = Defer("no_live_attempt", Max(facts.lastAttempt \cup {0}) + facts.dials.lock + 1)
      PROVE  decision.why = "no_live_attempt" /\ decision.at \in Nat /\ decision.at > now
  <2>1. Max(facts.lastAttempt \cup {0}) = t
    BY <1>2, MaxOfOne
  <2>2. decision.at = t + facts.dials.lock + 1 /\ decision.why = "no_live_attempt"
    BY <1>6, <2>1, AnswersAre
  <2> QED BY <1>2, <1>3, <1>6, <2>2
<1>7. ASSUME NEW s \in facts.sinceTouch, s < facts.dials.gap,
             decision = Defer("cool_off", facts.now + facts.dials.gap - Max(facts.sinceTouch \cup {0}))
      PROVE  decision.why = "cool_off" /\ decision.at \in Nat /\ decision.at > now
  <2>1. Max(facts.sinceTouch \cup {0}) = s
    BY <1>2, MaxOfOne
  <2>2. decision.at = now + facts.dials.gap - s /\ decision.why = "cool_off"
    BY <1>2, <1>7, <2>1, AnswersAre
  <2>3. s \in Nat /\ facts.dials.gap \in Nat /\ now \in Nat
    BY <1>2, <1>3, SMTT(30)
  <2> QED BY <1>7, <2>2, <2>3
<1>8. ASSUME decision = Defer("within_frequency_cap",
                              IF facts.recent = {} THEN facts.now + MinutesPerHour ELSE CapClears(facts))
      PROVE  decision.why = "within_frequency_cap" /\ decision.at \in Nat /\ decision.at > now
  <2>1. decision.why = "within_frequency_cap"
    BY <1>8, AnswersAre
  <2>2. CASE facts.recent = {}
    <3>1. decision.at = now + 60
      BY <1>2, <1>8, <2>2, AnswersAre DEF MinutesPerHour
    <3> QED BY <1>2, <2>1, <3>1
  <2>3. CASE facts.recent # {}
    <3>1. Min(facts.recent) \in facts.recent
      BY <1>2, <2>3, MinIs
    <3>2. decision.at = Min(facts.recent) + 1440 + 1
      BY <1>8, <2>3, AnswersAre DEF CapClears, MinutesPerDay, MinutesPerHour
    <3>3. Min(facts.recent) \in Nat /\ Min(facts.recent) > now - 1440
      BY <1>2, <3>1 DEF MinutesPerDay, MinutesPerHour
    <3> QED BY <1>2, <2>1, <3>2, <3>3
  <2> QED BY <2>2, <2>3
<1>9. ASSUME Night(pre, facts), decision = Defer("not_quiet_hours", NextAllowedTime(now, facts.quiet))
      PROVE  decision.why = "not_quiet_hours" /\ decision.at \in Nat /\ decision.at > now
  <2>1. decision.at = NextAllowedTime(now, facts.quiet) /\ decision.why = "not_quiet_hours"
    BY <1>9, AnswersAre
  <2>2. NextAllowedTime(now, facts.quiet) \in Nat
    BY <1>2, <1>3, NightEndsOnTime
  <2> QED BY <1>2, <1>9, <2>1, <2>2 DEF Night
<1>10. CASE LimitAnswers(pre, facts, decision)
  BY <1>4, <1>6, <1>7, <1>8, <1>10 DEF LimitAnswers, Whys
<1> QED BY <1>5, <1>9, <1>10 DEF Whys

\* The channels a rung is sent on are some of its own, usable by the gate's
\* answer, and one unless it fans out.
LEMMA BuildIs ==
  ASSUME Types, phase = "gated"
  PROVE  LET built == BuildChannels(CurrentRung)
         IN /\ built \subseteq DOMAIN CurrentRung.channels /\ built \subseteq Nat
            /\ \A n \in built : CurrentRung.channels[n] \in decision.only
            /\ ~CurrentRung.fanout => \A m, n \in built : m = n
<1> DEFINE g == CurrentRung
           usable == {n \in DOMAIN g.channels : g.channels[n] \in facts.eligible \cap decision.only}
<1>1. g.channels \in Seq(Channels)
  BY OfCase DEF Types, RunTypes, Climbing, Attempting, CurrentRung
<1>2. usable \subseteq DOMAIN g.channels /\ usable \subseteq Nat
      /\ \A n \in usable : g.channels[n] \in decision.only
  BY <1>1
<1>3. BuildChannels(g) = IF g.fanout \/ usable = {} THEN usable ELSE {Min(usable)}
  BY DEF BuildChannels
<1> HIDE DEF g, usable
<1>4. usable # {} => Min(usable) \in usable
  BY <1>2, MinIs
<1>5. BuildChannels(g) \subseteq usable /\ (~g.fanout => \A m, n \in BuildChannels(g) : m = n)
  BY <1>3, <1>4
<1> QED BY <1>2, <1>5 DEF g

LEMMA RunTypesStay ==
  ASSUME Types, [Next]_vars PROVE RunTypes'
<1> USE DEF Types, RunTypes, Climbing, Attempting
<1>1. CASE HandlePaymentFailed
  <2>1. now' \in Nat
    BY <1>1, FailureAssumption DEF HandlePaymentFailed
  <2>2. phase = "new" /\ phase' \in {"done", "diagnosed"} /\ outcome' \in {"already_paid", "none"}
    BY <1>1 DEF HandlePaymentFailed
  <2>3. UNCHANGED <<merchant, run, queue, enabled, news, events>>
    BY <1>1 DEF HandlePaymentFailed
  <2> QED BY <2>1, <2>2, <2>3
<1>2. ASSUME NEW m \in Merchants, NEW reach \in Reaches, StartLadder(m, reach)
      PROVE RunTypes'
  <2>1. 1 \in DOMAIN Ladder /\ Ladder[1].at \in Nat /\ case.born \in Nat /\ Ladder \in Seq(Rungs(case.row))
    BY <1>2, OfCase DEF StartLadder
  <2>2. 1 \in 1..Len(Ladder)
    BY <2>1
  <2>3. Ladder' = Ladder
    BY <1>2 DEF StartLadder, Ladder
  <2>4. case.born + Ladder[1].at \in Nat
    BY <2>1
  <2>5. run' \in [rung : Nat, deferrals : 0..MAX_DEFERRALS_PER_RUNG, why : Whys, wake : Nat] /\ run'.rung = 1
    BY <1>2, <2>4 DEF StartLadder
  <2>6. phase' = "waiting" /\ merchant' = m /\ UNCHANGED <<now, queue, events, enabled, news, outcome>>
    BY <1>2 DEF StartLadder
  <2> QED BY <2>2, <2>3, <2>5, <2>6
<1>3. CASE Gather
  <2>1. PICK late \in Late : now' = Max({now, run.wake}) + late
    BY <1>3 DEF Gather
  <2>2. now' \in Nat
    <3>1. now \in Int /\ run.wake \in Int
      OBVIOUS
    <3>2. Max({now, run.wake}) \in {now, run.wake}
      BY <3>1, MaxOfTwo
    <3>3. late \in Nat
      BY LateAssumption
    <3> QED BY <2>1, <3>2, <3>3
  <2>3. Ladder' = Ladder
    BY <1>3 DEF Gather, Ladder
  <2> QED BY <1>3, <2>2, <2>3 DEF Gather
<1>4. CASE Evaluate
  <2>1. Ladder' = Ladder
    BY <1>4 DEF Evaluate, Ladder
  <2> QED BY <1>4, <2>1 DEF Evaluate
<1>5. CASE RungEnds
  <2>1. Ladder' = Ladder
    BY <1>5 DEF RungEnds, Steady, Ladder
  <2>2. CASE phase' = "waiting"
    <3>1. run.rung < Len(Ladder) /\ run' = [rung |-> run.rung + 1, deferrals |-> 0, why |-> "none",
                   wake |-> case.born + Ladder[run.rung + 1].at] /\ outcome' = outcome
      BY <1>5, <2>2 DEF RungEnds
    <3>2. Ladder \in Seq(Rungs(case.row)) /\ case.born \in Nat /\ run.rung \in 1..Len(Ladder)
          /\ \A i \in DOMAIN Ladder : Ladder[i].at \in Nat
      BY <1>5, OfCase DEF RungEnds
    <3>3. run.rung + 1 \in 1..Len(Ladder) /\ run.rung + 1 \in DOMAIN Ladder
      BY <3>1, <3>2
    <3>4. case.born + Ladder[run.rung + 1].at \in Nat
      BY <3>2, <3>3
    <3>5. run' \in [rung : Nat, deferrals : 0..MAX_DEFERRALS_PER_RUNG, why : Whys, wake : Nat]
          /\ run'.rung \in 1..Len(Ladder)
      BY <3>1, <3>3, <3>4, BoundsAssumption DEF Whys
    <3> QED BY <1>5, <2>1, <2>2, <3>1, <3>5 DEF RungEnds, Steady
  <2>3. CASE phase' # "waiting"
    BY <1>5, <2>1, <2>3 DEF RungEnds, Steady, Outcomes
  <2> QED BY <2>2, <2>3
<1>6. CASE RungWaits
  <2>1. Ladder' = Ladder
    BY <1>6 DEF RungWaits, Steady, Ladder
  <2>2. PICK why, at :
       /\ run' = [run EXCEPT !.deferrals = @ + 1, !.why = why, !.wake = at]
       /\ \/ decision.do = "defer" /\ why = decision.why /\ at = decision.at
          \/ /\ decision.do = "go" /\ decision.why = "night"
             /\ why = "not_quiet_hours" /\ at = NextAllowedTime(now, merchant.quiet)
    BY <1>6 DEF RungWaits
  <2>3. Window(merchant.quiet)
    BY DialsAre
  <2>4. why \in Whys /\ at \in Nat
    <3>1. CASE decision.do = "defer" /\ why = decision.why /\ at = decision.at
      BY <1>6, <3>1, DeferralIsLater DEF RungWaits
    <3>2. CASE why = "not_quiet_hours" /\ at = NextAllowedTime(now, merchant.quiet)
      BY <2>3, <3>2, NightEndsOnTime DEF Whys
    <3> QED BY <2>2, <3>1, <3>2
  <2>5. run.deferrals + 1 \in 0..MAX_DEFERRALS_PER_RUNG
    BY <1>6, BoundsAssumption DEF RungWaits
  <2>6. run' \in [rung : Nat, deferrals : 0..MAX_DEFERRALS_PER_RUNG, why : Whys, wake : Nat]
        /\ run'.rung = run.rung
    BY <2>2, <2>4, <2>5
  <2> QED BY <1>6, <2>1, <2>6 DEF RungWaits, Steady
<1>7. CASE RungSends
  <2>1. Ladder' = Ladder /\ CurrentRung' = CurrentRung
    BY <1>7 DEF RungSends, Steady, Ladder, CurrentRung
  <2>2. queue' \subseteq Nat /\ queue' \subseteq DOMAIN CurrentRung.channels
    BY <1>7, BuildIs DEF RungSends
  <2> QED BY <1>7, <2>1, <2>2 DEF RungSends, Steady
<1>8. CASE Send
  <2>1. Ladder' = Ladder /\ CurrentRung' = CurrentRung
    BY <1>8 DEF Send, Ladder, CurrentRung
  <2>2. queue' \subseteq queue
    BY <1>8 DEF Send
  <2> QED BY <1>8, <2>1, <2>2 DEF Send
<1>9. CASE Tick
  <2>1. Ladder' = Ladder
    BY <1>9 DEF Tick, Ladder
  <2>2. now' \in Nat
    BY <1>9 DEF Tick
  <2> QED BY <1>9, <2>1, <2>2 DEF Tick
<1>10. CASE Bystander
  <2>1. /\ UNCHANGED <<phase, case, merchant, run, now, facts, decision, queue, outcome>>
        /\ events' \in 0..MaxEvents /\ {enabled, news}' \subseteq BOOLEAN
    <3>1. Around /\ enabled' \in {enabled, FALSE}
      BY <1>10 DEF Bystander, OtherMessage, AnotherAttempt, OptOut, SwitchOff
    <3>2. events' \in 0..MaxEvents
      BY <3>1, BoundsAssumption DEF Around
    <3>3. enabled' \in BOOLEAN /\ news' \in BOOLEAN
      BY <3>1, Zenon DEF Around
    <3>4. UNCHANGED <<phase, case, merchant, run, now, facts, decision, queue, outcome>>
      BY <3>1, Zenon DEF Around
    <3> QED BY <3>2, <3>3, <3>4
  <2>2. Ladder' = Ladder /\ CurrentRung' = CurrentRung
    BY <2>1 DEF Ladder, CurrentRung
  <2> QED BY <2>1, <2>2
<1>11. CASE UNCHANGED vars
  <2>1. Ladder' = Ladder /\ CurrentRung' = CurrentRung
    BY <1>11 DEF vars, Ladder, CurrentRung
  <2> QED BY <1>11, <2>1 DEF vars
<1> QED BY EachStep, <1>1, <1>2, <1>3, <1>4, <1>5, <1>6, <1>7, <1>8, <1>9, <1>10, <1>11

LEMMA ElementIs == ASSUME NEW S, NEW q \in Seq(S), NEW i \in DOMAIN q PROVE q[i] \in S
  OBVIOUS

LEMMA AppendIs ==
  ASSUME NEW S, NEW q \in Seq(S), NEW e \in S
  PROVE  /\ Append(q, e) \in Seq(S) /\ Len(Append(q, e)) = Len(q) + 1 /\ Len(q) \in Nat
         /\ DOMAIN q = 1..Len(q) /\ DOMAIN Append(q, e) = 1..(Len(q) + 1)
         /\ \A i \in 1..Len(q) : Append(q, e)[i] = q[i]
         /\ Append(q, e)[Len(q) + 1] = e
  OBVIOUS

LEMMA EntriesOf ==
  ASSUME NEW q \in Seq(Entries)
  PROVE  /\ DOMAIN q = 1..Len(q) /\ Len(q) \in Nat
         /\ \A i \in DOMAIN q : /\ q[i].at \in Nat /\ q[i].rung \in Nat /\ q[i].place \in Nat
                               /\ q[i].channel \in Channels /\ q[i].sent \in BOOLEAN /\ q[i].seen \in Nat
<1>1. \A i \in DOMAIN q : q[i] \in Entries
  BY ElementIs
<1>2. DOMAIN q = 1..Len(q) /\ Len(q) \in Nat
  OBVIOUS
<1> QED BY <1>1, <1>2 DEF Entries

\* The two ways a message is written: the rung's next, or another case's.
OwnWritten == /\ Send /\ ~Refused /\ queue # {} /\ Min(queue) \in queue /\ queue' = queue \ {Min(queue)}
              /\ Message(Min(queue)) \in Entries /\ log' = Append(log, Message(Min(queue)))
Other == [at |-> now, rung |-> 0, place |-> 0, channel |-> "email", sent |-> TRUE, seen |-> Len(log)]
OtherWritten == OtherMessage /\ Other \in Entries /\ log' = Append(log, Other)

LEMMA LogStep ==
  ASSUME Types, [Next]_vars
  PROVE  log' = log \/ OwnWritten \/ OtherWritten
<1>1. CASE Send /\ log' # log
  <2>1. /\ ~Refused /\ queue # {} /\ queue' = queue \ {Min(queue)} /\ log' = Append(log, Message(Min(queue)))
        /\ phase = "sending"
    BY <1>1 DEF Send
  <2>2. queue \subseteq Nat /\ queue \subseteq DOMAIN CurrentRung.channels
    BY <2>1 DEF Types, RunTypes
  <2>3. Min(queue) \in queue
    BY <2>1, <2>2, MinIs
  <2>4. CurrentRung.channels \in Seq(Channels)
    BY <2>1, OfCase DEF Types, RunTypes, Climbing, Attempting, CurrentRung
  <2>5. CurrentRung.channels[Min(queue)] \in Channels /\ Min(queue) \in Nat
    BY <2>2, <2>3, <2>4, ElementIs
  <2>6. now \in Nat /\ run.rung \in Nat /\ facts.seen \in Nat
    BY <2>1 DEF Types, RunTypes, FactsInv, Attempting
  <2>7. Message(Min(queue)) \in Entries
    BY <2>5, <2>6 DEF Message, Entries
  <2> QED BY <1>1, <2>1, <2>3, <2>7 DEF OwnWritten
<1>2. CASE OtherMessage
  <2>1. Len(log) \in Nat /\ now \in Nat
    BY DEF Types, RunTypes, PersonTypes
  <2>2. Other \in Entries
    BY <2>1 DEF Other, Entries, Channels
  <2> QED BY <1>2, <2>2 DEF OtherWritten, OtherMessage, Other
<1>3. CASE log' # log /\ ~Send /\ ~OtherMessage
  BY <1>3, EachStep DEF Types, HandlePaymentFailed, StartLadder, Gather, Evaluate, RungEnds, RungWaits,
       RungSends, Steady, Tick, Bystander, AnotherAttempt, OptOut, SwitchOff, vars
<1> QED BY <1>1, <1>2, <1>3

\* Time stands still but for ingest, the look at the facts and the wait; it never
\* goes back once the ladder is there.
LEMMA TimeStep ==
  ASSUME Types, [Next]_vars
  PROVE  \/ now' = now
         \/ phase = "new" /\ now' \in Nat
         \/ phase = "waiting" /\ now' \in Nat /\ now < now'
<1> USE DEF Types, RunTypes
<1>1. CASE HandlePaymentFailed
  BY <1>1, FailureAssumption DEF HandlePaymentFailed
<1>2. CASE Gather
  <2>1. PICK late \in Late : now' = Max({now, run.wake}) + late
    BY <1>2 DEF Gather
  <2>2. now \in Int /\ run.wake \in Int /\ late \in Nat
    BY LateAssumption
  <2>3. Max({now, run.wake}) \in {now, run.wake} /\ now <= Max({now, run.wake})
    BY <2>2, MaxOfTwo
  <2> QED BY <1>2, <2>1, <2>2, <2>3 DEF Gather
<1>3. CASE Tick
  BY <1>3 DEF Tick
<1>4. CASE ~HandlePaymentFailed /\ ~Gather /\ ~Tick
  BY <1>4, EachStep DEF StartLadder, Evaluate, RungEnds, RungWaits, RungSends, Steady, Send,
       Bystander, OtherMessage, AnotherAttempt, OptOut, SwitchOff, Around, vars
<1> QED BY <1>1, <1>2, <1>3, <1>4

LEMMA PersonTypesStay ==
  ASSUME Types, [Next]_vars PROVE PersonTypes'
<1>1. /\ person \in [reach : SUBSET Channels, optedOut : BOOLEAN, attempts : SUBSET (0..now)]
      /\ (\A s, t \in person.attempts : s = t) /\ now \in Nat
      /\ log \in Seq(Entries) /\ \A i \in DOMAIN log : log[i].at <= now
      /\ phase \in {"new", "diagnosed"} => log = <<>> /\ person.attempts = {}
  BY DEF Types, PersonTypes, RunTypes
<1>2. /\ person' \in [reach : SUBSET Channels, optedOut : BOOLEAN, attempts : SUBSET (0..now')]
      /\ \A s, t \in person'.attempts : s = t
  <2>1. CASE person' = person
    <3>1. person.attempts \subseteq 0..now'
      BY <1>1, TimeStep
    <3> QED BY <1>1, <2>1, <3>1
  <2>2. CASE \E r \in SUBSET Channels : person' = [person EXCEPT !.reach = r]
    <3>1. person.attempts \subseteq 0..now'
      BY <1>1, TimeStep
    <3> QED BY <1>1, <2>2, <3>1
  <2>3. CASE person' = [person EXCEPT !.attempts = {now}] /\ now' = now
    BY <1>1, <2>3
  <2>4. CASE person' = [person EXCEPT !.optedOut = TRUE] /\ now' = now
    BY <1>1, <2>4
  <2>5. \/ person' = person
        \/ \E r \in SUBSET Channels : person' = [person EXCEPT !.reach = r]
        \/ person' = [person EXCEPT !.attempts = {now}] /\ now' = now
        \/ person' = [person EXCEPT !.optedOut = TRUE] /\ now' = now
    <3>1. ASSUME NEW m \in Merchants, NEW reach \in Reaches, StartLadder(m, reach)
          PROVE  \E r \in SUBSET Channels : person' = [person EXCEPT !.reach = r]
      BY <3>1, BoundsAssumption DEF StartLadder
    <3>2. CASE Send
      <4>1. person' = person \/ person' = [person EXCEPT !.reach = @ \ {CurrentRung.channels[Min(queue)]}]
        BY <3>2 DEF Send
      <4>2. person.reach \ {CurrentRung.channels[Min(queue)]} \in SUBSET Channels
        BY <1>1
      <4> QED BY <4>1, <4>2
    <3>3. CASE Bystander
      BY <3>3, Zenon DEF Bystander, OtherMessage, AnotherAttempt, OptOut, SwitchOff, Around
    <3>4. CASE HandlePaymentFailed \/ Gather \/ Evaluate \/ RungEnds \/ RungWaits \/ RungSends \/ Tick
               \/ UNCHANGED vars
      BY <3>4 DEF HandlePaymentFailed, Gather, Evaluate, RungEnds, RungWaits, RungSends, Steady, Tick, vars
    <3> QED BY <3>1, <3>2, <3>3, <3>4, EachStep DEF Types
  <2> QED BY <2>1, <2>2, <2>3, <2>4, <2>5
<1>3. log' \in Seq(Entries) /\ \A i \in DOMAIN log' : log'[i].at <= now'
  <2>1. CASE log' = log
    <3>1. \A i \in DOMAIN log : log[i].at \in Nat
      BY <1>1, EntriesOf
    <3> QED BY <1>1, <2>1, <3>1, TimeStep
  <2>2. ASSUME NEW e \in Entries, e.at = now, now' = now, log' = Append(log, e)
        PROVE  log' \in Seq(Entries) /\ \A i \in DOMAIN log' : log'[i].at <= now'
    <3>1. /\ log' \in Seq(Entries) /\ DOMAIN log = 1..Len(log) /\ DOMAIN log' = 1..(Len(log) + 1)
          /\ (\A i \in 1..Len(log) : log'[i] = log[i]) /\ log'[Len(log) + 1] = e /\ Len(log) \in Nat
      BY <1>1, <2>2, AppendIs
    <3>2. \A i \in DOMAIN log' : i \in 1..Len(log) \/ i = Len(log) + 1
      BY <3>1
    <3> QED BY <1>1, <2>2, <3>1, <3>2
  <2>3. CASE OwnWritten
    BY <2>2, <2>3 DEF OwnWritten, Send, Message
  <2>4. CASE OtherWritten
    BY <2>2, <2>4 DEF OtherWritten, OtherMessage, Around, Other
  <2> QED BY <2>1, <2>3, <2>4, LogStep
<1>4. phase' \in {"new", "diagnosed"} => log' = <<>> /\ person'.attempts = {}
  <2> SUFFICES ASSUME phase' \in {"new", "diagnosed"} PROVE log' = <<>> /\ person'.attempts = {}
    OBVIOUS
  <2>1. phase \in {"new", "diagnosed"} /\ UNCHANGED <<log, person>>
    BY EachStep DEF Types, HandlePaymentFailed, StartLadder, Gather, Evaluate, RungEnds, RungWaits,
       RungSends, Steady, Send, Tick, Bystander, OtherMessage, AnotherAttempt, OptOut, SwitchOff, Around, vars
  <2> QED BY <1>1, <2>1
<1> QED BY <1>2, <1>3, <1>4 DEF PersonTypes

LEMMA RecentIs ==
  ASSUME Types, NEW t \in Nat
  PROVE  /\ Recent(t) \subseteq DOMAIN log /\ IsFiniteSet(Recent(t)) /\ Cardinality(Recent(t)) \in Nat
         /\ \A i \in Recent(t) : log[i].at \in Nat /\ log[i].at > t - MinutesPerDay
<1>1. log \in Seq(Entries) /\ DOMAIN log = 1..Len(log) /\ Len(log) \in Nat
  BY DEF Types, PersonTypes
<1>2. \A i \in DOMAIN log : log[i].at \in Nat
  BY <1>1, EntriesOf
<1>3. IsFiniteSet(1..Len(log))
  BY <1>1, FS_Interval
<1>4. Recent(t) \subseteq DOMAIN log
  BY DEF Recent
<1>5. IsFiniteSet(Recent(t)) /\ Cardinality(Recent(t)) \in Nat
  BY <1>1, <1>3, <1>4, FS_Subset, FS_CardinalityType
<1> QED BY <1>2, <1>4, <1>5 DEF Recent

\* What a look at the customer's record sees.
LEMMA FactsAre ==
  ASSUME Types, NEW t \in Nat, now <= t
  PROVE  LET f == Facts(t)
         IN /\ f.lastAttempt \subseteq 0..t /\ \A r, s \in f.lastAttempt : r = s
            /\ f.sinceTouch \subseteq Nat /\ \A r, s \in f.sinceTouch : r = s
            /\ f.recent \subseteq Nat /\ \A r \in f.recent : r > t - MinutesPerDay
            /\ f.count \in Nat /\ f.seen = Len(log)
            /\ \A i \in 1..Len(log) : Real(i) => \E s \in f.sinceTouch : s <= t - log[i].at
<1> DEFINE f == Facts(t)
<1>1. /\ log \in Seq(Entries) /\ DOMAIN log = 1..Len(log) /\ (\A i \in DOMAIN log : log[i].at <= now)
      /\ person.attempts \subseteq 0..now /\ (\A r, s \in person.attempts : r = s) /\ now \in Nat
  BY DEF Types, PersonTypes, RunTypes
<1>2. \A i \in DOMAIN log : log[i].at \in 0..t
  <2>1. \A i \in DOMAIN log : log[i].at \in Nat
    BY <1>1, EntriesOf
  <2> QED BY <1>1, <2>1
<1>3. f.lastAttempt = person.attempts /\ f.seen = Len(log) /\ f.count = Cardinality(Recent(t))
      /\ f.recent = {log[i].at : i \in Recent(t)}
      /\ f.sinceTouch = IF LastTouch = {} THEN {} ELSE {t - Max(LastTouch)}
  BY DEF Facts
<1> HIDE DEF f
<1>4. f.lastAttempt \subseteq 0..t /\ \A r, s \in f.lastAttempt : r = s
  BY <1>1, <1>3
<1>5. f.recent \subseteq Nat /\ (\A r \in f.recent : r > t - MinutesPerDay) /\ f.count \in Nat
  BY <1>3, RecentIs
<1>6. LastTouch \subseteq 0..t
  BY <1>2 DEF LastTouch
<1>7. CASE LastTouch = {}
  <2>1. \A i \in 1..Len(log) : ~Real(i)
    BY <1>1, <1>7 DEF LastTouch
  <2> QED BY <1>3, <1>4, <1>5, <1>7, <2>1 DEF f
<1>8. CASE LastTouch # {}
  <2>1. Max(LastTouch) \in LastTouch /\ \A y \in LastTouch : y <= Max(LastTouch)
    BY <1>6, <1>8, MaxIs
  <2>2. Max(LastTouch) \in 0..t
    BY <1>6, <2>1
  <2>3. f.sinceTouch = {t - Max(LastTouch)} /\ t - Max(LastTouch) \in Nat
    BY <1>3, <1>8, <2>2
  <2>4. ASSUME NEW i \in 1..Len(log), Real(i) PROVE t - Max(LastTouch) <= t - log[i].at
    <3>1. log[i].at \in LastTouch
      BY <1>1, <2>4 DEF LastTouch
    <3>2. log[i].at <= Max(LastTouch) /\ log[i].at \in 0..t
      BY <1>6, <2>1, <3>1
    <3> QED BY <2>2, <3>2
  <2>5. f.sinceTouch \subseteq Nat /\ \A r, s \in f.sinceTouch : r = s
    BY <2>3
  <2>6. \A i \in 1..Len(log) : Real(i) => \E s \in f.sinceTouch : s <= t - log[i].at
    BY <2>3, <2>4
  <2> QED BY <1>3, <1>4, <1>5, <2>5, <2>6 DEF f
<1> QED BY <1>7, <1>8

LEMMA FactsStay ==
  ASSUME Types, [Next]_vars, PersonTypes' PROVE FactsInv'
<1> SUFFICES ASSUME Attempting' PROVE FactsInv'
  BY DEF FactsInv
<1>1. CASE Gather
  <2>1. PICK late \in Late : now' = Max({now, run.wake}) + late /\ facts' = Facts(now')
    BY <1>1 DEF Gather
  <2>2. now' \in Nat /\ now <= now'
    BY <1>1, TimeStep DEF Types, RunTypes, Gather
  <2>3. UNCHANGED <<case, merchant, log>>
    BY <1>1 DEF Gather
  <2>4. /\ facts'.now = now' /\ facts'.deadlinePassed = PastDeadline(now')
        /\ facts'.dials = EffectiveDials(merchant.dials) /\ facts'.quiet = merchant.quiet
        /\ facts'.sinceFailure = now' - case.born
    BY <2>1 DEF Facts
  <2>5. /\ PastDeadline(now)' = PastDeadline(now') /\ EffectiveDials(merchant.dials)' = EffectiveDials(merchant.dials)
        /\ \A i : Real(i)' <=> Real(i)
    BY <2>3 DEF PastDeadline, Deadline, EffectiveDials, Real
  <2>6. Len(log) \in Nat
    BY DEF Types, PersonTypes
  <2>7. /\ facts'.lastAttempt \subseteq 0..now' /\ (\A r, s \in facts'.lastAttempt : r = s)
        /\ facts'.sinceTouch \subseteq Nat /\ (\A r, s \in facts'.sinceTouch : r = s)
        /\ facts'.recent \subseteq Nat /\ (\A r \in facts'.recent : r > now' - MinutesPerDay)
        /\ facts'.count \in Nat /\ facts'.seen = Len(log)
        /\ \A i \in 1..Len(log) : Real(i) => \E s \in facts'.sinceTouch : s <= now' - log[i].at
    BY <2>1, <2>2, FactsAre
  <2> QED BY <2>3, <2>4, <2>5, <2>6, <2>7 DEF FactsInv
<1>2. CASE ~Gather
  <2>1. Attempting /\ UNCHANGED <<case, merchant, now, facts>>
    <3>1. CASE Bystander
      BY <3>1, Zenon DEF Bystander, OtherMessage, AnotherAttempt, OptOut, SwitchOff, Around, Attempting
    <3>2. CASE ~Bystander
      BY <1>2, <3>2, EachStep DEF Types, Attempting, HandlePaymentFailed, StartLadder, Evaluate, RungEnds, RungWaits,
         RungSends, Steady, Send, Tick, vars
    <3> QED BY <3>1, <3>2
  <2>2. FactsInv
    BY DEF Types
  <2>3. Len(log) \in Nat /\ Len(log)' \in Nat /\ Len(log) <= Len(log)' /\ \A i \in 1..Len(log) : log'[i] = log[i]
    <3>1. log \in Seq(Entries)
      BY DEF Types, PersonTypes
    <3>2. ASSUME NEW e \in Entries, log' = Append(log, e)
          PROVE  Len(log) \in Nat /\ Len(log') = Len(log) + 1 /\ \A i \in 1..Len(log) : log'[i] = log[i]
      BY <3>1, <3>2, AppendIs
    <3>3. CASE log' = log
      BY <3>1, <3>3
    <3>4. CASE OwnWritten
      BY <3>2, <3>4 DEF OwnWritten
    <3>5. CASE OtherWritten
      BY <3>2, <3>5 DEF OtherWritten
    <3> QED BY <3>3, <3>4, <3>5, LogStep
  <2>4. PastDeadline(now)' = PastDeadline(now) /\ EffectiveDials(merchant.dials)' = EffectiveDials(merchant.dials)
    BY <2>1 DEF PastDeadline, Deadline, EffectiveDials
  <2>5. facts.seen \in 0..Len(log)
    BY <2>1, <2>2 DEF FactsInv
  <2>6. facts.seen \in 0..Len(log)'
    BY <2>3, <2>5
  <2>7. \A i \in 1..facts.seen : Real(i)' => \E s \in facts.sinceTouch : s <= now - log'[i].at
    <3> SUFFICES ASSUME NEW i \in 1..facts.seen, Real(i)' PROVE \E s \in facts.sinceTouch : s <= now - log'[i].at
      OBVIOUS
    <3>1. i \in 1..Len(log)
      BY <2>3, <2>5
    <3>2. log'[i] = log[i] /\ Real(i)
      BY <2>3, <3>1 DEF Real
    <3> QED BY <2>1, <2>2, <3>2 DEF FactsInv
  <2> QED BY <2>1, <2>2, <2>4, <2>6, <2>7 DEF FactsInv
<1> QED BY <1>1, <1>2

LEMMA DecisionStays ==
  ASSUME Types, [Next]_vars PROVE DecisionInv'
<1> SUFFICES ASSUME phase' \in {"gated", "sending"}
             PROVE  decision' = EvaluatePreconditions(case'.row.pre, facts')
  BY DEF DecisionInv
<1>1. CASE Evaluate
  BY <1>1 DEF Evaluate
<1>2. CASE ~Evaluate
  <2>1. phase \in {"gated", "sending"} /\ UNCHANGED <<case, facts, decision>>
    <3>1. CASE Bystander
      BY <3>1, Zenon DEF Bystander, OtherMessage, AnotherAttempt, OptOut, SwitchOff, Around
    <3>2. CASE ~Bystander
      BY <1>2, <3>2, EachStep DEF Types, HandlePaymentFailed, StartLadder, Gather, RungEnds, RungWaits,
         RungSends, Steady, Send, Tick, vars
    <3> QED BY <3>1, <3>2
  <2> QED BY <2>1 DEF Types, DecisionInv
<1> QED BY <1>1, <1>2

LEMMA TypesInit == Init => Types
<1> SUFFICES ASSUME Init PROVE Types
  OBVIOUS
<1>1. merchant \in Merchants
  BY MerchantAssumption DEF Init
<1>2. run \in [rung : Nat, deferrals : 0..MAX_DEFERRALS_PER_RUNG, why : Whys, wake : Nat]
  BY BoundsAssumption DEF Init, Whys
<1>3. {enabled, news} \subseteq BOOLEAN
  BY Zenon DEF Init
<1>4. events \in 0..MaxEvents
  BY BoundsAssumption DEF Init
<1>5. RunTypes
  BY <1>1, <1>2, <1>3, <1>4 DEF Init, RunTypes, Climbing, Attempting
<1>6. PersonTypes
  BY DEF Init, PersonTypes
<1>7. CaseInv /\ FactsInv /\ DecisionInv
  BY DEF Init, CaseInv, FactsInv, DecisionInv, Attempting
<1> QED BY <1>5, <1>6, <1>7 DEF Types

LEMMA TypesStay == Types /\ [Next]_vars => Types'
  BY CaseStays, RunTypesStay, PersonTypesStay, FactsStay, DecisionStays DEF Types

LEMMA TypesAlways == Spec => []Types
  BY TypesInit, TypesStay, PTL DEF Spec

LEMMA TypesAreOK == Types => TypeOK
<1> SUFFICES ASSUME Types PROVE TypeOK
  OBVIOUS
<1>1. phase # "new" => case.row \in Table /\ case.diagnosis.class \in CauseClasses
                       /\ case.cohort \in {"treatment", "holdout"}
  BY OfCase DEF Types, CaseInv
<1>2. \A i \in DOMAIN log : log[i].at \in Nat /\ log[i].channel \in Channels
  BY EntriesOf DEF Types, PersonTypes
<1> QED BY <1>1, <1>2 DEF TypeOK, Types, RunTypes, PersonTypes, Climbing, Attempting

-----------------------------------------------------------------------------
\* ---- what was sent ----

\* A message that is written is the last of the log, which is otherwise as it was.
LEMMA Written ==
  ASSUME PersonTypes, NEW e \in Entries, log' = Append(log, e)
  PROVE  LET n == Len(log) + 1
         IN /\ DOMAIN log = 1..Len(log) /\ Len(log) \in Nat /\ n \notin DOMAIN log
            /\ DOMAIN log' = DOMAIN log \cup {n} /\ log'[n] = e
            /\ \A i \in DOMAIN log : log'[i] = log[i] /\ i < n /\ i \in Nat
            /\ \A i \in DOMAIN log : (Real(i)' <=> Real(i)) /\ (Own(i)' <=> Own(i))
            /\ \A m : m = n => (Real(m)' <=> e.sent) /\ (Own(m)' <=> e.rung > 0)
<1> DEFINE n == Len(log) + 1
<1>1. /\ DOMAIN log = 1..Len(log) /\ Len(log) \in Nat /\ DOMAIN log' = 1..n
      /\ (\A i \in 1..Len(log) : log'[i] = log[i]) /\ log'[n] = e
  BY AppendIs DEF PersonTypes
<1>2. n \notin DOMAIN log /\ DOMAIN log' = DOMAIN log \cup {n}
  BY <1>1
<1>3. \A i \in DOMAIN log : log'[i] = log[i] /\ i < n /\ i \in Nat
  BY <1>1
<1> HIDE DEF n
<1>4. \A i \in DOMAIN log : (Real(i)' <=> Real(i)) /\ (Own(i)' <=> Own(i))
  BY <1>3, Zenon DEF Real, Own
<1>5. \A m : m = n => (Real(m)' <=> e.sent) /\ (Own(m)' <=> e.rung > 0)
  BY <1>1, Zenon DEF Real, Own
<1> QED BY <1>1, <1>2, <1>3, <1>4, <1>5 DEF n

\* What a message of the ladder is, when it is written.
LEMMA OwnIs ==
  ASSUME Types, RungInv, OwnWritten
  PROVE  LET e == Message(Min(queue))
         IN /\ e \in Entries /\ e.at = now /\ e.rung = run.rung /\ e.place = Min(queue) /\ e.seen = facts.seen
            /\ e.channel = CurrentRung.channels[e.place] /\ (e.sent <=> case.cohort = "treatment")
            /\ run.rung \in DOMAIN Ladder /\ run.rung \in Nat /\ run.rung > 0 /\ CurrentRung = Ladder[run.rung]
            /\ e.place \in queue /\ e.place \in DOMAIN CurrentRung.channels /\ IsTouch(CurrentRung)
            /\ phase = "sending"
            /\ UNCHANGED <<phase, case, merchant, run, now, facts, decision, enabled, outcome, news, events>>
<1>1. phase = "sending" /\ UNCHANGED <<phase, case, merchant, run, now, facts, decision, enabled, outcome, news, events>>
  BY DEF OwnWritten, Send
<1>2. run.rung \in 1..Len(Ladder) /\ queue \subseteq DOMAIN CurrentRung.channels
  BY <1>1 DEF Types, RunTypes, Climbing, Attempting
<1>3. DOMAIN Ladder = 1..Len(Ladder) /\ Len(Ladder) \in Nat
  BY <1>1, OfCase DEF Types
<1>4. IsTouch(CurrentRung)
  BY <1>1 DEF RungInv, SendingRung
<1>5. Message(Min(queue)) \in Entries /\ Min(queue) \in queue
  BY DEF OwnWritten
<1> DEFINE e == Message(Min(queue))
<1>6. /\ e.at = now /\ e.rung = run.rung /\ e.place = Min(queue) /\ e.seen = facts.seen
      /\ e.channel = CurrentRung.channels[Min(queue)]
  BY DEF Message
<1>7. e.sent <=> case.cohort = "treatment"
  BY Zenon DEF Message
<1>8. run.rung \in DOMAIN Ladder /\ run.rung \in Nat /\ run.rung > 0
  BY <1>2, <1>3
<1> HIDE DEF e
<1>9. e.place \in DOMAIN CurrentRung.channels
  BY <1>2, <1>5, <1>6
<1> QED BY <1>1, <1>4, <1>5, <1>6, <1>7, <1>8, <1>9 DEF CurrentRung, e

LEMMA OtherIs ==
  ASSUME OtherWritten
  PROVE  /\ Other \in Entries /\ Other.at = now /\ Other.rung = 0 /\ Other.sent = TRUE
         /\ Climbing /\ Cardinality(Recent(now)) < EffectiveDials(merchant.dials).cap
         /\ UNCHANGED <<phase, case, merchant, run, now, facts, decision, queue, outcome, person>> /\ news' = TRUE
  BY DEF OtherWritten, OtherMessage, Other, Around, Climbing, Attempting

\* After a step that writes nothing the ledger says what it said.
LEMMA LogKept ==
  ASSUME log' = log
  PROVE  /\ \A i : (Real(i)' <=> Real(i)) /\ (Own(i)' <=> Own(i))
         /\ OwnSent' = OwnSent /\ \A t : Recent(t)' = Recent(t)
<1>1. \A i : (Real(i)' <=> Real(i)) /\ (Own(i)' <=> Own(i))
  BY Zenon DEF Real, Own
<1>2. OwnSent' = OwnSent
  BY DEF OwnSent, Real, Own
<1>3. \A t : Recent(t)' = Recent(t)
  BY DEF Recent, Real
<1> QED BY <1>1, <1>2, <1>3

\* The rung in progress only ever goes up.
LEMMA RungStep ==
  ASSUME Types, [Next]_vars, phase # "new", phase # "diagnosed"
  PROVE  /\ run.rung \in Nat /\ run'.rung \in Nat /\ run.rung <= run'.rung
         /\ (run'.rung = run.rung \/ (phase' = "waiting" /\ run'.rung = run.rung + 1))
<1>1. run \in [rung : Nat, deferrals : 0..MAX_DEFERRALS_PER_RUNG, why : Whys, wake : Nat]
  BY DEF Types, RunTypes
<1>2. CASE RungEnds
  BY <1>1, <1>2 DEF RungEnds
<1>3. CASE RungWaits
  <2>1. run'.rung = run.rung
    BY <1>1, <1>3 DEF RungWaits
  <2> QED BY <1>1, <2>1
<1>4. CASE ~RungEnds /\ ~RungWaits
  <2>1. run' = run
    BY <1>4, EachStep DEF Types, HandlePaymentFailed, StartLadder, Gather, Evaluate, RungSends, Send, Tick,
       Bystander, OtherMessage, AnotherAttempt, OptOut, SwitchOff, Around, vars
  <2> QED BY <1>1, <2>1
<1> QED BY <1>2, <1>3, <1>4

LEMMA LadderKept ==
  ASSUME phase # "new", [Next]_vars
  PROVE  /\ case' = case /\ Ladder' = Ladder /\ Deadline' = Deadline
         /\ (run'.rung = run.rung => CurrentRung' = CurrentRung)
  BY OnlyIngest DEF Ladder, Deadline, CurrentRung

LEMMA BeforeLadder ==
  ASSUME Types, [Next]_vars, phase \in {"new", "diagnosed"} PROVE log = <<>> /\ log' = <<>>
<1>1. log = <<>>
  BY DEF Types, PersonTypes
<1>2. ~OwnWritten /\ ~OtherWritten
  BY DEF OwnWritten, Send, OtherWritten, OtherMessage, Around
<1> QED BY <1>1, <1>2, LogStep

\* The merchant's settings are read once.
LEMMA MerchantKept ==
  ASSUME Types, [Next]_vars, phase \notin {"new", "diagnosed"} PROVE merchant' = merchant
<1>1. CASE Bystander
  BY <1>1 DEF Bystander, OtherMessage, AnotherAttempt, OptOut, SwitchOff, Around
<1> QED BY <1>1, EachStep DEF Types, HandlePaymentFailed, StartLadder, Gather, Evaluate, RungEnds, RungWaits,
       RungSends, Steady, Send, Tick, vars

LEMMA LedgerStays ==
  ASSUME Types, LedgerInv, RungInv, [Next]_vars PROVE LedgerInv'
<1>1. CASE phase \in {"new", "diagnosed"}
  <2>1. log' = <<>>
    BY <1>1, BeforeLadder
  <2>2. DOMAIN log' = {}
    BY <2>1
  <2> QED BY <2>2 DEF LedgerInv
<1>2. CASE phase \notin {"new", "diagnosed"} /\ log' = log
  <2>1. Ladder' = Ladder /\ run.rung \in Nat /\ run'.rung \in Nat /\ run.rung <= run'.rung
    BY <1>2, LadderKept, RungStep
  <2>2. \A i : Own(i)' <=> Own(i)
    BY <1>2, LogKept
  <2>3. \A i \in DOMAIN log : log[i].rung \in Nat
    BY EntriesOf DEF Types, PersonTypes
  <2> QED BY <1>2, <2>1, <2>2, <2>3 DEF LedgerInv
<1>3. CASE OwnWritten
  <2> DEFINE e == Message(Min(queue))
             n == Len(log) + 1
  <2>1. /\ e \in Entries /\ log' = Append(log, e) /\ e.at = now /\ e.rung = run.rung
        /\ e.place \in queue /\ e.place \in DOMAIN CurrentRung.channels /\ e.channel = CurrentRung.channels[e.place]
        /\ run.rung \in DOMAIN Ladder /\ run.rung \in Nat /\ run' = run
        /\ CurrentRung = Ladder[run.rung] /\ IsTouch(CurrentRung) /\ phase = "sending"
    BY <1>3, OwnIs DEF OwnWritten
  <2> HIDE DEF e
  <2>2. /\ DOMAIN log' = DOMAIN log \cup {n} /\ log'[n] = e
        /\ (\A i \in DOMAIN log : log'[i] = log[i] /\ i < n /\ i \in Nat) /\ n \in Nat
        /\ (\A i \in DOMAIN log : Own(i)' <=> Own(i))
    BY <2>1, Written DEF Types, PersonTypes
  <2> HIDE DEF n
  <2>3. Ladder' = Ladder
    BY <2>1, LadderKept
  <2>4. \A i \in DOMAIN log : log[i].at <= now /\ log[i].at \in Nat /\ log[i].rung \in Nat
    BY EntriesOf DEF Types, PersonTypes
  <2>5. ASSUME NEW i \in DOMAIN log', Own(i)'
        PROVE  LET g == Ladder[log'[i].rung]
               IN /\ log'[i].rung \in DOMAIN Ladder /\ log'[i].rung <= run.rung /\ IsTouch(g)
                  /\ log'[i].place \in DOMAIN g.channels /\ log'[i].channel = g.channels[log'[i].place]
    <3>1. CASE i = n
      BY <2>1, <2>2, <3>1
    <3>2. CASE i \in DOMAIN log
      BY <2>2, <2>5, <3>2 DEF LedgerInv
    <3> QED BY <2>2, <3>1, <3>2
  <2>6. ASSUME NEW i \in DOMAIN log', NEW j \in DOMAIN log', i < j
        PROVE  /\ log'[i].at <= log'[j].at
               /\ Own(i)' /\ Own(j)' => log'[i].rung <= log'[j].rung
               /\ Own(i)' /\ Own(j)' /\ log'[i].rung = log'[j].rung =>
                    Ladder[log'[i].rung].fanout /\ log'[i].place # log'[j].place
    <3>1. i \in DOMAIN log
      BY <2>2, <2>6
    <3>2. CASE j \in DOMAIN log
      BY <2>2, <2>6, <3>1, <3>2 DEF LedgerInv
    <3>3. CASE j = n
      <4>1. log'[i].at <= log'[j].at
        BY <2>1, <2>2, <2>4, <3>1, <3>3
      <4>2. ASSUME Own(i)' PROVE log[i].rung <= run.rung
        BY <2>2, <3>1, <4>2 DEF LedgerInv
      <4>3. ASSUME Own(i)', log[i].rung = run.rung PROVE log[i].place \notin queue /\ CurrentRung.fanout
        BY <2>1, <2>2, <3>1, <4>3 DEF RungInv, SendingRung
      <4> QED BY <2>1, <2>2, <3>1, <3>3, <4>1, <4>2, <4>3
    <3> QED BY <2>2, <3>2, <3>3
  <2> QED BY <2>1, <2>3, <2>5, <2>6 DEF LedgerInv
<1>4. CASE OtherWritten
  <2> DEFINE n == Len(log) + 1
  <2>1. Other \in Entries /\ log' = Append(log, Other) /\ Other.at = now /\ Other.rung = 0 /\ run' = run /\ Climbing
    BY <1>4, OtherIs DEF OtherWritten
  <2>2. /\ DOMAIN log' = DOMAIN log \cup {n} /\ log'[n] = Other
        /\ (\A i \in DOMAIN log : log'[i] = log[i] /\ i < n /\ i \in Nat) /\ n \in Nat
        /\ (\A i \in DOMAIN log : Own(i)' <=> Own(i))
        /\ \A m : m = n => ~Own(m)'
    BY <2>1, Written DEF Types, PersonTypes
  <2> HIDE DEF n
  <2>3. Ladder' = Ladder
    BY <2>1, LadderKept DEF Climbing, Attempting
  <2>4. \A i \in DOMAIN log : log[i].at <= now
    BY DEF Types, PersonTypes
  <2>5. \A i \in DOMAIN log' : Own(i)' => i \in DOMAIN log
    BY <2>2
  <2>6. ASSUME NEW i \in DOMAIN log', NEW j \in DOMAIN log', i < j
        PROVE  i \in DOMAIN log /\ log'[i].at <= log'[j].at
    <3>1. i \in DOMAIN log
      BY <2>2, <2>6
    <3>2. CASE j \in DOMAIN log
      BY <2>2, <2>6, <3>1, <3>2 DEF LedgerInv
    <3>3. CASE j = n
      BY <2>1, <2>2, <2>4, <3>1, <3>3
    <3> QED BY <2>2, <3>1, <3>2, <3>3
  <2> QED BY <2>1, <2>2, <2>3, <2>5, <2>6 DEF LedgerInv
<1> QED BY <1>1, <1>2, <1>3, <1>4, LogStep

\* The own messages of the log after a message of another case.
LEMMA OtherIsNotOwn ==
  ASSUME Types, OtherWritten
  PROVE  /\ \A i \in DOMAIN log' : Own(i)' => i \in DOMAIN log /\ Own(i) /\ log'[i] = log[i]
         /\ OwnSent' = OwnSent /\ \A i \in OwnSent : log'[i] = log[i] /\ i \in DOMAIN log
         /\ \A i \in DOMAIN log : log'[i] = log[i] /\ (Real(i)' <=> Real(i))
<1> DEFINE n == Len(log) + 1
<1>1. Other \in Entries /\ log' = Append(log, Other) /\ Other.rung = 0
  BY OtherIs DEF OtherWritten
<1>2. /\ DOMAIN log' = DOMAIN log \cup {n}
      /\ (\A i \in DOMAIN log : log'[i] = log[i])
      /\ (\A i \in DOMAIN log : (Real(i)' <=> Real(i)) /\ (Own(i)' <=> Own(i)))
      /\ \A m : m = n => ~Own(m)'
  BY <1>1, Written DEF Types, PersonTypes
<1> HIDE DEF n
<1>3. \A i \in DOMAIN log' : Own(i)' => i \in DOMAIN log
  BY <1>2
<1>4. OwnSent' = OwnSent
  BY <1>2, <1>3 DEF OwnSent
<1> QED BY <1>2, <1>3, <1>4 DEF OwnSent

\* The own messages of the log after the rung's next.
LEMMA OwnIsLast ==
  ASSUME Types, RungInv, OwnWritten
  PROVE  LET n == Len(log) + 1
             e == Message(Min(queue))
         IN /\ n \in Nat /\ n \notin DOMAIN log /\ log'[n] = e
            /\ OwnSent' \subseteq OwnSent \cup {n}
            /\ \A i \in DOMAIN log : log'[i] = log[i] /\ i \in Nat /\ i < n /\ (Real(i)' <=> Real(i)) /\ (Own(i)' <=> Own(i))
            /\ \A i \in DOMAIN log' : i \in DOMAIN log \/ i = n
            /\ \A i \in OwnSent : i \in DOMAIN log
<1> DEFINE n == Len(log) + 1
           e == Message(Min(queue))
<1>1. e \in Entries /\ log' = Append(log, e)
  BY DEF OwnWritten
<1> HIDE DEF e
<1>2. /\ DOMAIN log' = DOMAIN log \cup {n} /\ log'[n] = e /\ n \notin DOMAIN log /\ n \in Nat
      /\ (\A i \in DOMAIN log : log'[i] = log[i] /\ i \in Nat /\ i < n)
      /\ (\A i \in DOMAIN log : (Real(i)' <=> Real(i)) /\ (Own(i)' <=> Own(i)))
  BY <1>1, Written DEF Types, PersonTypes
<1> HIDE DEF n
<1>3. OwnSent' \subseteq OwnSent \cup {n}
  BY <1>2 DEF OwnSent
<1> QED BY <1>2, <1>3 DEF OwnSent, n, e

LEMMA FreshStays ==
  ASSUME Types, LedgerInv, RungInv, [Next]_vars PROVE FreshRung'
<1> SUFFICES ASSUME phase' \in {"waiting", "gathered", "gated"}, NEW i \in DOMAIN log', Own(i)'
             PROVE  log'[i].rung < run'.rung
  BY DEF FreshRung
<1>1. CASE phase \in {"new", "diagnosed"}
  <2>1. log' = <<>>
    BY <1>1, BeforeLadder
  <2> QED BY <2>1
<1>2. CASE phase \notin {"new", "diagnosed"} /\ OtherWritten
  <2>1. i \in DOMAIN log /\ Own(i) /\ log'[i] = log[i]
    BY <1>2, OtherIsNotOwn
  <2>2. UNCHANGED <<phase, run>>
    BY <1>2, OtherIs
  <2> QED BY <2>1, <2>2 DEF RungInv, FreshRung
<1>3. CASE OwnWritten
  BY <1>3, OwnIs
<1>4. CASE phase \notin {"new", "diagnosed"} /\ log' = log
  <2>1. Own(i)
    BY <1>4, LogKept
  <2>2. run.rung \in Nat /\ run'.rung \in Nat /\ run.rung <= run'.rung
        /\ (run'.rung = run.rung \/ run'.rung = run.rung + 1)
    BY <1>4, RungStep
  <2>3. log[i].rung \in Nat /\ log[i].rung <= run.rung
    BY <1>4, <2>1, EntriesOf DEF Types, PersonTypes, LedgerInv
  <2>4. CASE phase \in {"waiting", "gathered", "gated"}
    <3>1. log[i].rung < run.rung
      BY <1>4, <2>1, <2>4 DEF RungInv, FreshRung
    <3> QED BY <1>4, <2>2, <2>3, <3>1
  <2>5. CASE phase \notin {"waiting", "gathered", "gated"}
    <3>1. RungEnds
      <4>1. CASE Bystander
        BY <2>5, <4>1, Zenon DEF Bystander, OtherMessage, AnotherAttempt, OptOut, SwitchOff, Around
      <4>2. CASE ~Bystander
        BY <1>4, <2>5, <4>2, EachStep DEF Types, HandlePaymentFailed, StartLadder, Gather, Evaluate, RungWaits,
           RungSends, Send, Tick, vars
      <4> QED BY <4>1, <4>2
    <3>2. run'.rung = run.rung + 1
      BY <3>1 DEF RungEnds
    <3> QED BY <1>4, <2>2, <2>3, <3>2
  <2> QED BY <2>4, <2>5
<1> QED BY <1>1, <1>2, <1>3, <1>4, LogStep

LEMMA SendingStays ==
  ASSUME Types, LedgerInv, RungInv, [Next]_vars PROVE SendingRung'
<1> SUFFICES ASSUME phase' = "sending" PROVE SendingRung'
  BY DEF SendingRung
<1>1. CASE RungSends
  <2>1. CurrentRung' = CurrentRung /\ UNCHANGED <<log, run, decision>>
    BY <1>1, LadderKept DEF RungSends, Steady
  <2>2. /\ \A n \in queue' : CurrentRung.channels[n] \in decision.only
        /\ ~CurrentRung.fanout => \A m, n \in queue' : m = n
        /\ decision.do = "go" /\ IsTouch(CurrentRung) /\ phase = "gated"
    BY <1>1, BuildIs DEF RungSends
  <2>3. \A i \in DOMAIN log : Own(i)' => Own(i) /\ log[i].rung < run.rung
    BY <2>1, <2>2, LogKept DEF RungInv, FreshRung
  <2>4. run.rung \in Nat
    BY DEF Types, RunTypes
  <2>5. \A i \in DOMAIN log' : Own(i)' => log'[i].rung # run'.rung
    BY <2>1, <2>3, <2>4
  <2> QED BY <2>1, <2>2, <2>5 DEF SendingRung
<1>2. CASE OwnWritten
  <2> DEFINE n == Len(log) + 1
             e == Message(Min(queue))
  <2>1. /\ e.rung = run.rung /\ e.place = Min(queue) /\ e.place \in queue /\ phase = "sending"
        /\ UNCHANGED <<run, decision, case>> /\ queue' = queue \ {e.place}
    BY <1>2, OwnIs DEF OwnWritten
  <2> HIDE DEF e
  <2>2. /\ log'[n] = e
        /\ (\A i \in DOMAIN log : log'[i] = log[i] /\ (Own(i)' <=> Own(i)))
        /\ \A i \in DOMAIN log' : i \in DOMAIN log \/ i = n
    BY <1>2, OwnIsLast DEF e
  <2> HIDE DEF n
  <2>3. CurrentRung' = CurrentRung
    BY <2>1, LadderKept
  <2>4. SendingRung
    BY DEF RungInv
  <2>5. queue' \subseteq queue /\ (~CurrentRung.fanout => queue' = {})
    BY <2>1, <2>4 DEF SendingRung
  <2>6. ASSUME NEW i \in DOMAIN log', Own(i)', log'[i].rung = run.rung
        PROVE  log'[i].place \notin queue'
    BY <2>1, <2>2, <2>4, <2>5, <2>6 DEF SendingRung
  <2> QED BY <2>1, <2>3, <2>4, <2>5, <2>6 DEF SendingRung
<1>3. CASE OtherWritten
  <2>1. UNCHANGED <<phase, run, decision, queue, case>>
    BY <1>3, OtherIs
  <2>2. CurrentRung' = CurrentRung
    BY <2>1, LadderKept
  <2>3. \A i \in DOMAIN log' : Own(i)' => i \in DOMAIN log /\ Own(i) /\ log'[i] = log[i]
    BY <1>3, OtherIsNotOwn
  <2>4. SendingRung
    BY DEF RungInv
  <2> QED BY <2>1, <2>2, <2>3, <2>4 DEF SendingRung
<1>4. CASE ~RungSends /\ log' = log
  <2>1. phase = "sending" /\ UNCHANGED <<run, decision, case>> /\ queue' \subseteq queue
    <3>1. CASE Bystander
      BY <3>1, Zenon DEF Bystander, OtherMessage, AnotherAttempt, OptOut, SwitchOff, Around
    <3>2. CASE ~Bystander
      BY <1>4, <3>2, EachStep DEF Types, HandlePaymentFailed, StartLadder, Gather, Evaluate, RungEnds, RungWaits,
         RungSends, Send, Tick, vars
    <3> QED BY <3>1, <3>2
  <2>2. CurrentRung' = CurrentRung
    BY <2>1, LadderKept
  <2>3. \A i : Own(i)' <=> Own(i)
    BY <1>4, LogKept
  <2>4. SendingRung
    BY DEF RungInv
  <2>5. \A i \in DOMAIN log : Own(i) /\ log[i].rung = run.rung =>
            log[i].place \notin queue' /\ (queue' = {} \/ CurrentRung.fanout)
    BY <2>1, <2>4 DEF SendingRung
  <2> QED BY <1>4, <2>1, <2>2, <2>3, <2>4, <2>5 DEF SendingRung
<1> QED BY <1>1, <1>2, <1>3, <1>4, LogStep

LEMMA FirstStays ==
  ASSUME Types, LedgerInv, RungInv, [Next]_vars PROVE FirstRung'
<1> SUFFICES ASSUME Attempting', facts'.first, NEW i \in OwnSent' PROVE log'[i].rung = run'.rung
  BY DEF FirstRung
<1>1. CASE Gather
  <2>1. log' = log /\ \E t : facts' = Facts(t)
    BY <1>1 DEF Gather
  <2>2. i \in OwnSent
    BY <2>1, LogKept
  <2>3. ~facts'.first
    <3>1. \E j \in DOMAIN log : Real(j) /\ Own(j)
      BY <2>2 DEF OwnSent
    <3>2. ASSUME NEW t PROVE Facts(t).first = ~\E j \in DOMAIN log : Real(j) /\ Own(j)
      BY DEF Facts
    <3> QED BY <2>1, <3>1, <3>2
  <2> QED BY <2>3
<1>2. CASE ~Gather
  <2>1. Attempting /\ UNCHANGED <<facts, run>>
    <3>1. CASE Bystander
      BY <3>1, Zenon DEF Bystander, OtherMessage, AnotherAttempt, OptOut, SwitchOff, Around, Attempting
    <3>2. CASE ~Bystander
      BY <1>2, <3>2, EachStep DEF Types, Attempting, HandlePaymentFailed, StartLadder, Evaluate, RungEnds, RungWaits,
         RungSends, Steady, Send, Tick, vars
    <3> QED BY <3>1, <3>2
  <2>2. \A j \in OwnSent : log[j].rung = run.rung
    BY <2>1 DEF RungInv, FirstRung
  <2>3. CASE log' = log
    BY <2>1, <2>2, <2>3, LogKept
  <2>4. CASE OwnWritten
    <3> DEFINE n == Len(log) + 1
               e == Message(Min(queue))
    <3>1. e.rung = run.rung /\ log'[n] = e /\ OwnSent' \subseteq OwnSent \cup {n}
          /\ \A j \in OwnSent : log'[j] = log[j]
      BY <2>4, OwnIs, OwnIsLast
    <3> HIDE DEF n, e
    <3> QED BY <2>1, <2>2, <3>1
  <2>5. CASE OtherWritten
    BY <2>1, <2>2, <2>5, OtherIsNotOwn
  <2> QED BY <2>3, <2>4, <2>5, LogStep
<1> QED BY <1>1, <1>2

LEMMA RungStays == Types /\ LedgerInv /\ RungInv /\ [Next]_vars => RungInv'
  BY FreshStays, SendingStays, FirstStays DEF RungInv

LEMMA IsWindow == ASSUME Types PROVE Window(merchant.quiet) /\ merchant \in Merchants /\ now \in Nat
  BY DialsAre DEF Types, RunTypes

\* While a rung sends, the gate's permission holds: the deadline is ahead, the gap
\* to all that was heard is kept, and at night a first message goes by email or
\* to somebody who is still there.
LEMMA SendIsPermitted ==
  ASSUME Types, RungInv, phase = "sending"
  PROVE  /\ now < Deadline
         /\ \A i \in 1..facts.seen : Real(i) => now - log[i].at >= EffectiveDials(merchant.dials).gap
         /\ IsQuietHour(now, merchant.quiet) =>
              /\ facts.first
              /\ \/ decision.only = {"email"}
                 \/ now - case.born <= EffectiveDials(merchant.dials).live
<1> DEFINE pre == case.row.pre
           dials == EffectiveDials(merchant.dials)
<1>1. decision = EvaluatePreconditions(pre, facts) /\ decision.do = "go" /\ IsTouch(CurrentRung)
  BY DEF Types, DecisionInv, RungInv, SendingRung
<1>2. FactsInv /\ Attempting
  BY DEF Types, Attempting
<1>3. /\ ~facts.deadlinePassed /\ ~Close(facts)
      /\ \/ ~Night(pre, facts) /\ decision = Go
         \/ Night(pre, facts) /\ facts.first /\ decision = GoOn({"email"})
  BY <1>1, GoIsPermitted
<1>4. merchant \in Merchants /\ now \in Nat /\ Window(merchant.quiet) /\ dials.gap \in 0..720
  BY IsWindow, DialsAre
<1> HIDE DEF pre, dials
<1>5. now < Deadline
  <2>1. ~PastDeadline(now)
    BY <1>2, <1>3 DEF FactsInv
  <2>2. Deadline \in Nat
    BY OfCase DEF Types
  <2> QED BY <1>4, <2>1, <2>2 DEF PastDeadline
<1>6. ASSUME NEW i \in 1..facts.seen, Real(i) PROVE now - log[i].at >= dials.gap
  <2>1. PICK s \in facts.sinceTouch : s <= now - log[i].at
    BY <1>2, <1>6 DEF FactsInv
  <2>2. s \in Nat /\ facts.dials = dials
    BY <1>2 DEF FactsInv, dials
  <2>3. log[i].at \in Nat
    <3>1. facts.seen \in 0..Len(log) /\ log \in Seq(Entries)
      BY <1>2 DEF FactsInv, Types, PersonTypes
    <3>2. i \in DOMAIN log
      BY <3>1
    <3> QED BY <3>1, <3>2, EntriesOf
  <2>4. dials.gap = 0 \/ s >= dials.gap
    BY <1>3, <1>4, <2>2, SMTT(30) DEF Close
  <2>5. now \in Nat /\ dials.gap \in Nat /\ s \in Nat
    BY <1>4, <2>2
  <2>6. CASE s >= dials.gap
    BY <2>1, <2>3, <2>5, <2>6
  <2>7. CASE dials.gap = 0
    <3>1. now - log[i].at >= s
      BY <2>1
    <3> QED BY <2>3, <2>5, <2>7, <3>1
  <2> QED BY <2>4, <2>6, <2>7
<1>7. ASSUME IsQuietHour(now, merchant.quiet)
      PROVE  facts.first /\ (decision.only = {"email"} \/ now - case.born <= dials.live)
  <2>1. "not_quiet_hours" \in pre
    <3>1. CurrentRung \in Touches(case.row)
      <4>1. run.rung \in DOMAIN Ladder
        BY OfCase DEF Types, RunTypes, Climbing, Attempting
      <4> QED BY <1>1, <4>1, OfCase DEF Types, Touches, CurrentRung
    <3> QED BY <3>1, OfCase, ShippedAssumption DEF Types, pre
  <2>2. ~(NextAllowedTime(facts.now, facts.quiet) <= facts.now)
    BY <1>2, <1>4, <1>7, NightIs DEF FactsInv
  <2>3. CASE Night(pre, facts)
    <3>1. facts.first /\ decision = GoOn({"email"})
      BY <1>3, <2>3
    <3> QED BY <3>1 DEF GoOn, Answer
  <2>4. CASE ~Night(pre, facts)
    <3>1. CustomerIsLive(facts)
      BY <2>1, <2>2, <2>4 DEF Night
    <3> QED BY <1>2, <3>1 DEF CustomerIsLive, FactsInv, dials
  <2> QED BY <2>3, <2>4
<1> QED BY <1>5, <1>6, <1>7 DEF dials

LEMMA SentStays ==
  ASSUME Types, RungInv, SentInv, [Next]_vars PROVE SentInv'
<1>1. CASE phase \in {"new", "diagnosed"}
  <2>1. log' = <<>>
    BY <1>1, BeforeLadder
  <2>2. OwnSent' = {}
    BY <2>1 DEF OwnSent
  <2> QED BY <2>2 DEF SentInv
<1>2. CASE phase \notin {"new", "diagnosed"}
  <2>1. /\ case' = case /\ Deadline' = Deadline /\ merchant' = merchant
        /\ EffectiveDials(merchant.dials)' = EffectiveDials(merchant.dials)
        /\ \A t : IsQuietHour(t, merchant.quiet)' = IsQuietHour(t, merchant.quiet)
    BY <1>2, LadderKept, MerchantKept
  <2>2. CASE log' = log
    <3>1. OwnSent' = OwnSent /\ \A i : Real(i)' <=> Real(i)
      BY <2>2, LogKept
    <3> QED BY <2>1, <2>2, <3>1 DEF SentInv
  <2>3. ASSUME NEW j \in OwnSent, \A i \in DOMAIN log : log'[i] = log[i] /\ (Real(i)' <=> Real(i)) /\ i \in Nat
        PROVE  /\ j \in DOMAIN log /\ log[j].seen < j /\ log[j].at < Deadline /\ log'[j] = log[j]
               /\ \A i \in 1..log[j].seen : Real(i)' => log[j].at - log'[i].at >= EffectiveDials(merchant.dials).gap
    <3>1. j \in DOMAIN log /\ log[j].seen \in Nat /\ DOMAIN log = 1..Len(log) /\ Len(log) \in Nat
      BY EntriesOf DEF OwnSent, Types, PersonTypes
    <3>2. /\ log[j].seen < j /\ log[j].at < Deadline
          /\ \A i \in 1..log[j].seen : Real(i) => log[j].at - log[i].at >= EffectiveDials(merchant.dials).gap
      BY DEF SentInv
    <3>3. \A i \in 1..log[j].seen : i \in DOMAIN log
      BY <3>1, <3>2
    <3> QED BY <2>3, <3>1, <3>2, <3>3
  <2>4. CASE OtherWritten
    <3>1. /\ (\A i \in DOMAIN log : log'[i] = log[i] /\ (Real(i)' <=> Real(i)) /\ i \in Nat)
          /\ OwnSent' = OwnSent /\ \A i \in OwnSent : log'[i] = log[i]
      BY <2>4, OtherIsNotOwn, EntriesOf DEF Types, PersonTypes
    <3> QED BY <2>1, <2>3, <3>1 DEF SentInv
  <2>5. CASE OwnWritten
    <3> DEFINE n == Len(log) + 1
               e == Message(Min(queue))
    <3>1. /\ e.at = now /\ e.rung = run.rung /\ e.seen = facts.seen /\ phase = "sending"
          /\ e.channel = CurrentRung.channels[e.place] /\ e.place \in queue
      BY <2>5, OwnIs
    <3> HIDE DEF e
    <3>2. /\ log'[n] = e /\ OwnSent' \subseteq OwnSent \cup {n} /\ n \in Nat
          /\ (\A i \in DOMAIN log : log'[i] = log[i] /\ i \in Nat /\ i < n /\ (Real(i)' <=> Real(i)))
          /\ \A i \in OwnSent : i \in DOMAIN log
      BY <2>5, OwnIsLast DEF e
    <3>3. facts.seen < n /\ facts.seen \in Nat /\ \A i \in 1..facts.seen : i \in DOMAIN log
      <4>1. facts.seen \in 0..Len(log) /\ DOMAIN log = 1..Len(log) /\ Len(log) \in Nat
        BY <3>1 DEF Types, FactsInv, Attempting, PersonTypes
      <4> QED BY <4>1
    <3> HIDE DEF n
    <3>4. /\ now < Deadline
          /\ (\A i \in 1..facts.seen : Real(i) => now - log[i].at >= EffectiveDials(merchant.dials).gap)
          /\ IsQuietHour(now, merchant.quiet) =>
              /\ facts.first
              /\ \/ decision.only = {"email"}
                 \/ now - case.born <= EffectiveDials(merchant.dials).live
      BY <3>1, SendIsPermitted
    <3>5. decision.only = {"email"} => e.channel = "email"
      BY <3>1 DEF RungInv, SendingRung
    <3>6. facts.first => \A i \in OwnSent : log[i].rung = run.rung
      BY <3>1 DEF RungInv, FirstRung, Attempting
    <3>7. ASSUME NEW j \in OwnSent'
          PROVE  /\ log'[j].seen < j /\ log'[j].at < Deadline
                 /\ (\A i \in 1..log'[j].seen : Real(i)' =>
                       log'[j].at - log'[i].at >= EffectiveDials(merchant.dials).gap)
                 /\ IsQuietHour(log'[j].at, merchant.quiet) =>
                      /\ \A i \in OwnSent' : i < j => log'[i].rung = log'[j].rung
                      /\ log'[j].channel = "whatsapp" => log'[j].at - case.born <= EffectiveDials(merchant.dials).live
      <4>1. CASE j = n
        <5>1. \A i \in OwnSent' : i < n => i \in OwnSent /\ log'[i] = log[i]
          BY <3>2
        <5>2. \A i \in 1..facts.seen : (Real(i)' <=> Real(i)) /\ log'[i] = log[i]
          BY <3>2, <3>3
        <5>3. IsQuietHour(now, merchant.quiet) =>
                /\ \A i \in OwnSent' : i < n => log'[i].rung = run.rung
                /\ e.channel = "whatsapp" => now - case.born <= EffectiveDials(merchant.dials).live
          BY <3>4, <3>5, <3>6, <5>1
        <5> QED BY <3>1, <3>2, <3>3, <3>4, <4>1, <5>2, <5>3
      <4>2. CASE j \in OwnSent
        <5>1. \A i \in OwnSent' : i < j => i \in OwnSent /\ log'[i] = log[i]
          BY <3>2, <4>2
        <5>2. /\ j \in DOMAIN log /\ log[j].seen < j /\ log[j].at < Deadline /\ log'[j] = log[j]
              /\ \A i \in 1..log[j].seen : Real(i)' => log[j].at - log'[i].at >= EffectiveDials(merchant.dials).gap
          BY <2>3, <3>2, <4>2
        <5>3. IsQuietHour(log[j].at, merchant.quiet) =>
                /\ \A i \in OwnSent : i < j => log[i].rung = log[j].rung
                /\ log[j].channel = "whatsapp" => log[j].at - case.born <= EffectiveDials(merchant.dials).live
          BY <4>2 DEF SentInv
        <5> QED BY <5>1, <5>2, <5>3
      <4> QED BY <3>2, <4>1, <4>2
    <3> QED BY <2>1, <3>7 DEF SentInv
  <2> QED BY <2>2, <2>4, <2>5, LogStep
<1> QED BY <1>1, <1>2

\* All that is true of the messages.
LetterInv == LedgerInv /\ RungInv /\ SentInv

LEMMA LettersAlways == Spec => []LetterInv
<1>1. Init => LetterInv
  <2>1. SUFFICES ASSUME Init PROVE LetterInv
    OBVIOUS
  <2>2. DOMAIN log = {} /\ OwnSent = {} /\ phase = "new"
    BY <2>1 DEF Init, OwnSent
  <2> QED BY <2>2 DEF LetterInv, LedgerInv, RungInv, FreshRung, SendingRung, FirstRung, SentInv
<1>2. Types /\ LetterInv /\ [Next]_vars => LetterInv'
  BY LedgerStays, RungStays, SentStays DEF LetterInv
<1> QED BY <1>1, <1>2, TypesAlways, PTL DEF Spec

\* The arc of silent hours holds the minutes whose hour is quiet.
LEMMA SilentIsQuiet ==
  ASSUME NEW t \in Nat, NEW w, Window(w)
  PROVE  Silent(t, w) <=> IsQuietHour(t, w)
<1> DEFINE m == t % 1440
           h == m \div 60
           a == w.start
           b == w.end
<1>1. m \in 0..1439 /\ h \in 0..23 /\ 60 * h <= m /\ m < 60 * h + 60 /\ a \in 0..23 /\ b \in 0..23
  BY DEF Window
<1>2. LocalHour(t) = h
  BY DEF LocalHour, MinutesPerDay, MinutesPerHour
<1>3. (t - 60 * a) % 1440 = IF m >= 60 * a THEN m - 60 * a ELSE m - 60 * a + 1440
  <2> DEFINE q == t \div 1440
  <2>1. t = 1440 * q + m /\ q \in Nat
    OBVIOUS
  <2> HIDE DEF q, m, h, a, b
  <2>2. CASE m >= 60 * a
    <3>1. t - 60 * a = 1440 * q + (m - 60 * a) /\ m - 60 * a \in 0..1439
      BY <1>1, <2>1, <2>2
    <3> QED BY <2>1, <2>2, <3>1
  <2>3. CASE ~(m >= 60 * a)
    <3>1. t - 60 * a = 1440 * (q - 1) + (m - 60 * a + 1440) /\ m - 60 * a + 1440 \in 0..1439
      BY <1>1, <2>1, <2>3
    <3> QED BY <2>1, <2>3, <3>1
  <2> QED BY <2>2, <2>3
<1>4. (60 * (b - a)) % 1440 = IF b >= a THEN 60 * (b - a) ELSE 60 * (b - a) + 1440
  <2> HIDE DEF a, b, m, h
  <2>1. CASE b >= a
    BY <1>1, <2>1
  <2>2. CASE ~(b >= a)
    <3>1. 60 * (b - a) = 1440 * (-1) + (60 * (b - a) + 1440) /\ 60 * (b - a) + 1440 \in 0..1439
      BY <1>1, <2>2
    <3> QED BY <2>2, <3>1
  <2> QED BY <2>1, <2>2
<1>5. Silent(t, w) <=> (t - 60 * a) % 1440 < (60 * (b - a)) % 1440
  BY DEF Silent, MinutesPerDay, MinutesPerHour
<1>6. IsQuietHour(t, w) <=> /\ a # b
                            /\ IF a > b THEN h >= a \/ h < b ELSE h >= a /\ h < b
  BY <1>2 DEF IsQuietHour
<1> HIDE DEF m, h, a, b
<1> QED BY <1>1, <1>3, <1>4, <1>5, <1>6

LEMMA SilentIs ==
  ASSUME NEW t \in Nat, NEW w
  PROVE  Silent(t, w) <=> (t - 60 * w.start) % 1440 < (60 * (w.end - w.start)) % 1440
  BY DEF Silent, MinutesPerDay, MinutesPerHour

\* On the day's circle, the first minute past an arc is as far from the arc's next
\* turn as the rest of the circle is long.
LEMMA ArcEnds ==
  ASSUME NEW u \in Nat, NEW late \in Nat, NEW t \in Nat, NEW n \in Nat, t = u + 1, n = t + late,
         NEW a \in 0..23, NEW b \in 0..23, a # b,
         (u - 60 * a) % 1440 < (60 * (b - a)) % 1440,
         ~((t - 60 * a) % 1440 < (60 * (b - a)) % 1440),
         late < (60 * (a - b)) % 1440
  PROVE  ~((n - 60 * a) % 1440 < (60 * (b - a)) % 1440)
<1> DEFINE x == (u - 60 * a) % 1440
           k == (u - 60 * a) \div 1440
           L == (60 * (b - a)) % 1440
           D == (60 * (a - b)) % 1440
<1>1. x \in 0..1439 /\ L \in 0..1439 /\ k \in Int /\ D \in 0..1439 /\ u - 60 * a = 1440 * k + x
  OBVIOUS
<1>2. L + D = 1440
  <2>1. CASE b > a
    <3>1. L = 60 * (b - a) /\ 60 * (a - b) = 1440 * (-1) + (60 * (a - b) + 1440) /\ 60 * (a - b) + 1440 \in 0..1439
      BY <2>1
    <3> QED BY <2>1, <3>1
  <2>2. CASE a > b
    <3>1. 60 * (b - a) = 1440 * (-1) + (60 * (b - a) + 1440) /\ 60 * (b - a) + 1440 \in 0..1439
      BY <2>2
    <3>2. D = 60 * (a - b)
      BY <2>2
    <3> QED BY <2>2, <3>1, <3>2
  <2> QED BY <2>1, <2>2
<1>3. x < L /\ ~((t - 60 * a) % 1440 < L) /\ late < D
  OBVIOUS
<1> SUFFICES ~((n - 60 * a) % 1440 < L)
  OBVIOUS
<1> HIDE DEF x, k, L, D
<1>4. t - 60 * a = 1440 * k + (x + 1) /\ n - 60 * a = 1440 * k + (x + 1 + late)
  BY <1>1
<1>5. x + 1 = L
  <2>1. x + 1 \in 0..1439
    BY <1>1, <1>3
  <2>2. (t - 60 * a) % 1440 = x + 1
    BY <1>1, <1>4, <2>1
  <2> QED BY <1>1, <1>3, <2>2
<1>6. L + late \in 0..1439
  <2>1. D = 1440 - L
    BY <1>1, <1>2, <1>3
  <2> QED BY <1>1, <1>3, <2>1
<1>7. (n - 60 * a) % 1440 = L + late
  <2> DEFINE y == L + late
  <2>1. n - 60 * a = 1440 * k + y /\ y \in 0..1439
    BY <1>4, <1>5, <1>6
  <2> HIDE DEF y
  <2>2. (n - 60 * a) % 1440 = y
    BY <1>1, <2>1
  <2> QED BY <2>2 DEF y
<1> QED BY <1>1, <1>7

\* The window's minutes are followed by at least as many open ones as a late
\* wake-up needs.
LEMMA MorningLasts ==
  ASSUME NEW u \in Nat, NEW late \in Nat, NEW t \in Nat, NEW n \in Nat, t = u + 1, n = t + late, NEW w, Window(w),
         IsQuietHour(u, w), ~IsQuietHour(t, w), late < (60 * (w.start - w.end)) % MinutesPerDay
  PROVE  ~IsQuietHour(n, w)
<1>1. Silent(u, w) /\ ~Silent(t, w) /\ (Silent(n, w) <=> IsQuietHour(n, w))
  BY SilentIsQuiet
<1>2. late < (60 * (w.start - w.end)) % 1440
  BY DEF MinutesPerDay, MinutesPerHour
<1>3. w.start \in 0..23 /\ w.end \in 0..23 /\ w.start # w.end
  BY DEF Window, IsQuietHour
<1>4. /\ (u - 60 * w.start) % 1440 < (60 * (w.end - w.start)) % 1440
      /\ ~((t - 60 * w.start) % 1440 < (60 * (w.end - w.start)) % 1440)
      /\ Silent(n, w) <=> (n - 60 * w.start) % 1440 < (60 * (w.end - w.start)) % 1440
  BY <1>1, SilentIs
<1>5. ~((n - 60 * w.start) % 1440 < (60 * (w.end - w.start)) % 1440)
  <2> DEFINE a == w.start
             b == w.end
  <2>1. /\ a \in 0..23 /\ b \in 0..23 /\ a # b /\ late < (60 * (a - b)) % 1440
        /\ (u - 60 * a) % 1440 < (60 * (b - a)) % 1440
        /\ ~((t - 60 * a) % 1440 < (60 * (b - a)) % 1440)
    BY <1>2, <1>3, <1>4
  <2> SUFFICES ~((n - 60 * a) % 1440 < (60 * (b - a)) % 1440)
    OBVIOUS
  <2> HIDE DEF a, b
  <2> QED BY <2>1, ArcEnds
<1> QED BY <1>1, <1>4, <1>5

-----------------------------------------------------------------------------
\* ---- the night ----

\* Why and until when a rung waits, and what held when it was put off.
LEMMA WaitIs ==
  ASSUME Types, RungWaits
  PROVE  /\ phase = "gated" /\ phase' = "waiting" /\ UNCHANGED <<case, merchant, now, log, person, news>>
         /\ run'.why \in Whys \ {"none"} /\ run'.wake \in Nat /\ run'.wake > now
         /\ \/ LimitAnswers(case.row.pre, facts, Defer(run'.why, run'.wake))
            \/ /\ run'.why = "not_quiet_hours" /\ run'.wake = NextAllowedTime(now, merchant.quiet)
               /\ IsQuietHour(now, merchant.quiet)
<1>1. /\ phase = "gated" /\ phase' = "waiting" /\ UNCHANGED <<case, merchant, now, log, person, news>>
      /\ run \in [rung : Nat, deferrals : 0..MAX_DEFERRALS_PER_RUNG, why : Whys, wake : Nat]
  BY DEF RungWaits, Steady, Types, RunTypes
<1>2. PICK why, at :
       /\ run' = [run EXCEPT !.deferrals = @ + 1, !.why = why, !.wake = at]
       /\ \/ decision.do = "defer" /\ why = decision.why /\ at = decision.at
          \/ /\ decision.do = "go" /\ decision.why = "night"
             /\ why = "not_quiet_hours" /\ at = NextAllowedTime(now, merchant.quiet)
  BY DEF RungWaits
<1>3. run'.why = why /\ run'.wake = at
  BY <1>1, <1>2
<1>4. decision = EvaluatePreconditions(case.row.pre, facts) /\ facts.now = now /\ facts.quiet = merchant.quiet
  BY <1>1 DEF Types, DecisionInv, FactsInv, Attempting
<1>5. now \in Nat /\ Window(merchant.quiet)
  BY IsWindow
<1>6. Night(case.row.pre, facts) =>
        /\ IsQuietHour(now, merchant.quiet)
        /\ NextAllowedTime(now, merchant.quiet) \in Nat /\ NextAllowedTime(now, merchant.quiet) > now
  <2>1. SUFFICES ASSUME Night(case.row.pre, facts)
                 PROVE  /\ IsQuietHour(now, merchant.quiet)
                        /\ NextAllowedTime(now, merchant.quiet) \in Nat /\ NextAllowedTime(now, merchant.quiet) > now
    OBVIOUS
  <2>2. ~(NextAllowedTime(now, merchant.quiet) <= now)
    BY <1>4, <2>1 DEF Night
  <2>3. NextAllowedTime(now, merchant.quiet) \in Nat
    BY <1>5, NightEndsOnTime
  <2> QED BY <1>5, <2>2, <2>3, NightIs
<1>7. CASE decision.do = "defer" /\ why = decision.why /\ at = decision.at
  <2>1. why \in Whys \ {"none"} /\ at \in Nat /\ at > now
    BY <1>1, <1>7, DeferralIsLater
  <2>2. \/ LimitAnswers(case.row.pre, facts, decision)
        \/ Night(case.row.pre, facts) /\ decision = Defer("not_quiet_hours", NextAllowedTime(now, merchant.quiet))
    BY <1>4, <1>7, DeferIsFor
  <2>3. ASSUME LimitAnswers(case.row.pre, facts, decision)
        PROVE  LimitAnswers(case.row.pre, facts, Defer(why, at))
    <3>1. \E w, t : decision = Defer(w, t)
      BY <2>3 DEF LimitAnswers
    <3>2. decision = Defer(why, at)
      BY <1>7, <3>1, AnswersAre
    <3> QED BY <2>3, <3>2
  <2>4. ASSUME Night(case.row.pre, facts), decision = Defer("not_quiet_hours", NextAllowedTime(now, merchant.quiet))
        PROVE  why = "not_quiet_hours" /\ at = NextAllowedTime(now, merchant.quiet)
    BY <1>7, <2>4, AnswersAre
  <2> QED BY <1>1, <1>3, <1>6, <2>1, <2>2, <2>3, <2>4
<1>8. CASE /\ decision.do = "go" /\ decision.why = "night"
           /\ why = "not_quiet_hours" /\ at = NextAllowedTime(now, merchant.quiet)
  <2>1. Night(case.row.pre, facts)
    <3>1. Go.why = "none"
      BY DEF Go, Answer
    <3> QED BY <1>4, <1>8, <3>1, GoIsPermitted
  <2> QED BY <1>1, <1>3, <1>6, <1>8, <2>1 DEF Whys
<1> QED BY <1>2, <1>7, <1>8

LEMMA NightStays ==
  ASSUME Types, NightInv, [Next]_vars PROVE NightInv'
<1> SUFFICES ASSUME phase' = "waiting", run'.why = "not_quiet_hours" PROVE NightInv'
  BY DEF NightInv
<1>1. CASE RungWaits
  <2>1. /\ UNCHANGED <<merchant, now>> /\ run'.wake > now /\ run'.wake \in Nat
        /\ \/ LimitAnswers(case.row.pre, facts, Defer(run'.why, run'.wake))
           \/ run'.wake = NextAllowedTime(now, merchant.quiet)
    BY <1>1, WaitIs
  <2>2. run'.wake = NextAllowedTime(now, merchant.quiet)
    BY <2>1, LimitsDefer, AnswersAre
  <2>3. now \in Nat /\ Window(merchant.quiet)
    BY IsWindow
  <2> QED BY <2>1, <2>2, <2>3, NightEndsOnTime DEF NightInv
<1>2. CASE Tick
  <2>1. now \in Nat /\ now' = run.wake - 1 /\ now < now' /\ UNCHANGED <<run, merchant>> /\ phase = "waiting"
    BY <1>2, IsWindow DEF Tick
  <2>2. run.wake \in Nat
    BY DEF Types, RunTypes
  <2> QED BY <2>1, <2>2 DEF NightInv
<1>3. CASE ~RungWaits /\ ~Tick
  <2>1. CASE phase = "waiting" /\ UNCHANGED <<run, now, merchant>>
    BY <2>1 DEF NightInv
  <2>2. phase = "waiting" /\ UNCHANGED <<run, now, merchant>>
    <3>1. CASE Bystander
      BY <3>1, Zenon DEF Bystander, OtherMessage, AnotherAttempt, OptOut, SwitchOff, Around
    <3>2. ASSUME NEW m \in Merchants, NEW reach \in Reaches, StartLadder(m, reach) PROVE run'.why = "none"
      BY <3>2 DEF StartLadder, Types, RunTypes
    <3>3. CASE ~Bystander /\ ~(\E m \in Merchants, reach \in Reaches : StartLadder(m, reach))
      BY <1>3, <3>3, EachStep DEF Types, HandlePaymentFailed, Gather, Evaluate, RungEnds,
         RungSends, Steady, Send, vars
    <3> QED BY <3>1, <3>2, <3>3
  <2> QED BY <2>1, <2>2
<1> QED BY <1>1, <1>2, <1>3

LEMMA NightAlways == Spec => []NightInv
<1>1. Init => NightInv
  BY DEF Init, NightInv
<1>2. Types /\ NightInv /\ [Next]_vars => NightInv'
  BY NightStays
<1> QED BY <1>1, <1>2, TypesAlways, PTL DEF Spec

-----------------------------------------------------------------------------
\* ---- the cap ----

\* As time passes messages leave the rolling day.
LEMMA RecentShrinks ==
  ASSUME Types, NEW s \in Nat, NEW t \in Nat, s <= t
  PROVE  Recent(t) \subseteq Recent(s) /\ Cardinality(Recent(t)) <= Cardinality(Recent(s))
<1>1. \A i \in DOMAIN log : log[i].at \in Nat
  BY EntriesOf DEF Types, PersonTypes
<1>2. Recent(t) \subseteq Recent(s)
  BY <1>1 DEF Recent, MinutesPerDay, MinutesPerHour
<1> QED BY <1>2, RecentIs, FS_Subset

\* A message that is written is one more, if it is for the customer.
LEMMA RecentGrows ==
  ASSUME Types, NEW e \in Entries, log' = Append(log, e), now' = now
  PROVE  /\ Cardinality(Recent(now)') <= Cardinality(Recent(now)) + 1
         /\ ~e.sent => Cardinality(Recent(now)') <= Cardinality(Recent(now))
<1> DEFINE n == Len(log) + 1
           old == Recent(now)
           new == Recent(now)'
<1>1. /\ DOMAIN log' = DOMAIN log \cup {n} /\ (\A i \in DOMAIN log : log'[i] = log[i])
      /\ (\A i \in DOMAIN log : Real(i)' <=> Real(i))
      /\ \A m : m = n => (Real(m)' <=> e.sent)
  BY Written DEF Types, PersonTypes
<1> HIDE DEF n
<1>2. new \subseteq old \cup {n} /\ (~e.sent => new \subseteq old)
  BY <1>1 DEF Recent
<1>3. IsFiniteSet(old) /\ Cardinality(old) \in Nat
  BY RecentIs DEF Types, RunTypes
<1> HIDE DEF old, new
<1>4. /\ IsFiniteSet(old \cup {n}) /\ Cardinality(old \cup {n}) \in Nat
      /\ Cardinality(old \cup {n}) <= Cardinality(old) + 1
  <2>1. /\ IsFiniteSet(old \cup {n})
        /\ Cardinality(old \cup {n}) = IF n \in old THEN Cardinality(old) ELSE Cardinality(old) + 1
    BY <1>3, FS_AddElement
  <2> QED BY <1>3, <2>1
<1>5. Cardinality(new) <= Cardinality(old \cup {n}) /\ Cardinality(new) \in Nat
  BY <1>2, <1>4, FS_Subset, FS_CardinalityType
<1>6. ~e.sent => Cardinality(new) <= Cardinality(old)
  BY <1>2, <1>3, FS_Subset
<1> QED BY <1>3, <1>4, <1>5, <1>6 DEF old, new

LEMMA CapStays ==
  ASSUME Types, RungInv, CapInv, [Next]_vars PROVE CapInv'
<1> DEFINE cap == EffectiveDials(merchant.dials).cap
<1>1. cap \in 1..10 /\ cap' \in 1..10 /\ now \in Nat /\ Cardinality(Recent(now)) \in Nat
  <2>1. merchant \in Merchants /\ merchant' \in Merchants /\ now \in Nat
    BY TypesStay DEF Types, RunTypes
  <2> QED BY <2>1, DialsAre, RecentIs
<1>2. CASE phase \in {"new", "diagnosed"}
  <2>1. log' = <<>>
    BY <1>2, BeforeLadder
  <2>2. Recent(now)' = {}
    BY <2>1 DEF Recent
  <2>3. Cardinality(Recent(now)') = 0
    BY <2>2, FS_EmptySet
  <2> QED BY <1>1, <2>3 DEF CapInv
<1>3. ASSUME phase \notin {"new", "diagnosed"} PROVE merchant' = merchant /\ cap' = cap
  BY <1>3, MerchantKept
<1> HIDE DEF cap
<1>4. CASE phase \notin {"new", "diagnosed"} /\ log' = log
  <2>1. now' \in Nat /\ now <= now'
    BY <1>1, <1>4, TimeStep
  <2>2. \A t : t = now' => Recent(now)' = Recent(t)
    BY <1>4 DEF Recent, Real
  <2>3. Cardinality(Recent(now)') <= Cardinality(Recent(now))
    BY <1>1, <2>1, <2>2, RecentShrinks
  <2>4. Cardinality(Recent(now)') \in Nat
    BY <2>1, <2>2, RecentIs
  <2>5. Cardinality(Recent(now)) <= cap
    BY DEF CapInv, cap
  <2>6. Cardinality(Recent(now)') <= cap'
    BY <1>1, <1>3, <1>4, <2>3, <2>4, <2>5
  <2> QED BY <2>6 DEF CapInv, cap
<1>5. ASSUME NEW e \in Entries, log' = Append(log, e), now' = now, cap' = cap,
             Cardinality(Recent(now)) < cap \/ ~e.sent
      PROVE  CapInv'
  <2>1. /\ Cardinality(Recent(now)') <= Cardinality(Recent(now)) + 1
        /\ ~e.sent => Cardinality(Recent(now)') <= Cardinality(Recent(now))
    BY <1>5, RecentGrows
  <2>2. Cardinality(Recent(now)') \in Nat
    <3>1. now' \in Nat /\ Types'
      BY <1>1, <1>5, TypesStay
    <3>2. Recent(now)' \subseteq DOMAIN log' /\ IsFiniteSet(DOMAIN log')
      <4>1. log' \in Seq(Entries)
        BY <3>1 DEF Types, PersonTypes
      <4>2. DOMAIN log' = 1..Len(log') /\ Len(log') \in Nat
        BY <4>1
      <4> QED BY <4>2, FS_Interval DEF Recent
    <3> QED BY <3>2, FS_Subset, FS_CardinalityType
  <2>3. Cardinality(Recent(now)) <= cap
    BY DEF CapInv, cap
  <2>4. Cardinality(Recent(now)') <= cap'
    BY <1>1, <1>5, <2>1, <2>2, <2>3
  <2> QED BY <2>4 DEF CapInv, cap
<1>6. CASE OwnWritten
  <2> DEFINE e == Message(Min(queue))
  <2>1. /\ e \in Entries /\ (e.sent <=> case.cohort = "treatment") /\ phase = "sending"
        /\ UNCHANGED <<now, merchant>>
    BY <1>6, OwnIs
  <2>2. log' = Append(log, e) /\ ~Refused
    BY <1>6 DEF OwnWritten
  <2> HIDE DEF e
  <2>3. Cardinality(Recent(now)) < cap \/ case.cohort # "treatment"
    BY <1>1, <2>2 DEF Refused, cap
  <2> QED BY <1>3, <1>5, <2>1, <2>2, <2>3
<1>7. CASE OtherWritten
  <2>1. /\ Other \in Entries /\ Climbing /\ Cardinality(Recent(now)) < cap
        /\ UNCHANGED <<now, merchant>>
    BY <1>7, OtherIs DEF cap
  <2>2. log' = Append(log, Other)
    BY <1>7 DEF OtherWritten
  <2> QED BY <1>3, <1>5, <2>1, <2>2 DEF Climbing, Attempting
<1> QED BY <1>2, <1>4, <1>6, <1>7, LogStep

LEMMA CapAlways == Spec => []CapInv
<1>1. Init => CapInv
  <2> SUFFICES ASSUME Init PROVE CapInv
    OBVIOUS
  <2>1. Recent(now) = {}
    BY DEF Init, Recent
  <2>2. Cardinality(Recent(now)) = 0
    BY <2>1, FS_EmptySet
  <2>3. EffectiveDials(merchant.dials).cap \in 1..10
    <3>1. merchant \in Merchants
      BY TypesInit DEF Types, RunTypes
    <3> QED BY <3>1, DialsAre
  <2> QED BY <2>2, <2>3 DEF CapInv
<1>2. Types /\ LetterInv /\ CapInv /\ [Next]_vars => CapInv'
  BY CapStays DEF LetterInv
<1> QED BY <1>1, <1>2, TypesAlways, LettersAlways, PTL DEF Spec

-----------------------------------------------------------------------------
\* ---- a deferral helps ----

\* When a rung is put off and the customer's record is as it was read, the time it
\* is put off to is one at which the reason is gone.
LEMMA WaitHelps ==
  ASSUME Types, CapInv, IdleInv, RungWaits, ~news
  PROVE  Gone(run'.why, run'.wake)
<1> DEFINE dials == EffectiveDials(merchant.dials)
           wake == run'.wake
<1>1. /\ phase = "gated" /\ wake \in Nat /\ wake > now
      /\ \/ LimitAnswers(case.row.pre, facts, Defer(run'.why, wake))
         \/ /\ run'.why = "not_quiet_hours" /\ wake = NextAllowedTime(now, merchant.quiet)
            /\ IsQuietHour(now, merchant.quiet)
  BY WaitIs
<1>2. /\ facts.lastAttempt = person.attempts /\ facts.seen = Len(log)
      /\ facts.count = Cardinality(Recent(now))
      /\ facts.recent = {log[i].at : i \in Recent(now)}
  BY <1>1, Zenon DEF IdleInv
<1>3. /\ facts.now = now /\ facts.dials = dials /\ now \in Nat /\ merchant \in Merchants
      /\ facts.lastAttempt \subseteq 0..now /\ (\A s, t \in facts.lastAttempt : s = t)
      /\ facts.sinceTouch \subseteq Nat /\ (\A s, t \in facts.sinceTouch : s = t)
      /\ facts.recent \subseteq Nat /\ (\A t \in facts.recent : t > now - MinutesPerDay)
      /\ \A i \in 1..facts.seen : Real(i) => \E s \in facts.sinceTouch : s <= now - log[i].at
  BY <1>1 DEF Types, FactsInv, RunTypes, Attempting
<1>4. dials.cap \in 1..10 /\ dials.gap \in 0..720 /\ dials.lock \in 0..120 /\ Window(merchant.quiet)
  <2>1. merchant \in Merchants
    BY <1>3
  <2> QED BY <2>1, DialsAre
<1>5. /\ DOMAIN log = 1..Len(log) /\ \A i \in DOMAIN log : log[i].at \in Nat
  BY EntriesOf DEF Types, PersonTypes
<1>6. "merchant_budget_available" \notin case.row.pre
  BY <1>1, OfCase, ShippedAssumption DEF Types
<1> HIDE DEF dials, wake
<1>7. ASSUME NEW at \in facts.lastAttempt, run'.why = "no_live_attempt",
             wake = Max(facts.lastAttempt \cup {0}) + dials.lock + 1
      PROVE  Gone(run'.why, wake)
  <2>1. Max(facts.lastAttempt \cup {0}) = at /\ at \in Nat
    BY <1>3, MaxOfOne
  <2>2. ASSUME NEW s \in person.attempts PROVE wake - s >= dials.lock
    <3>1. s = at
      BY <1>2, <1>3
    <3> QED BY <1>4, <1>7, <2>1, <3>1
  <2> QED BY <1>7, <2>2 DEF Gone, dials
<1>8. ASSUME NEW s \in facts.sinceTouch, run'.why = "cool_off",
             wake = now + dials.gap - Max(facts.sinceTouch \cup {0})
      PROVE  Gone(run'.why, wake)
  <2>1. Max(facts.sinceTouch \cup {0}) = s /\ s \in Nat
    BY <1>3, MaxOfOne
  <2>2. ASSUME NEW i \in DOMAIN log, Real(i) PROVE wake - log[i].at >= dials.gap
    <3>1. s <= now - log[i].at /\ log[i].at \in Nat
      BY <1>2, <1>3, <1>5, <2>2
    <3>2. wake = now + dials.gap - s /\ dials.gap \in Nat /\ now \in Nat /\ s \in Nat
      BY <1>3, <1>4, <1>8, <2>1, SMTT(30)
    <3> DEFINE a == log[i].at
    <3>3. s <= now - a /\ a \in Nat
      BY <3>1
    <3> HIDE DEF a
    <3>4. wake - a >= dials.gap
      BY <3>2, <3>3
    <3> QED BY <3>4 DEF a
  <2> QED BY <1>8, <2>2 DEF Gone, dials
<1>9. ASSUME facts.count >= dials.cap, run'.why = "within_frequency_cap",
             wake = IF facts.recent = {} THEN now + MinutesPerHour ELSE CapClears(facts)
      PROVE  Gone(run'.why, wake)
  <2>1. /\ Recent(now) \subseteq DOMAIN log /\ IsFiniteSet(Recent(now)) /\ Cardinality(Recent(now)) \in Nat
        /\ IsFiniteSet(Recent(wake)) /\ Cardinality(Recent(wake)) \in Nat
    BY <1>1, <1>3, RecentIs DEF wake
  <2>2. Recent(now) # {}
    <3>1. Cardinality(Recent(now)) # 0
      BY <1>2, <1>4, <1>9
    <3> QED BY <3>1, FS_EmptySet
  <2>3. facts.recent # {}
    BY <1>2, <2>2
  <2>4. Min(facts.recent) \in facts.recent
    BY <1>3, <2>3, MinIs
  <2>5. PICK first \in Recent(now) : log[first].at = Min(facts.recent)
    BY <1>2, <2>4
  <2>6. wake = log[first].at + 1440 + 1 /\ MinutesPerDay = 1440
    BY <1>9, <2>3, <2>5 DEF CapClears, MinutesPerDay, MinutesPerHour
  <2>7. Recent(wake) \subseteq Recent(now) \ {first}
    <3>1. first \notin Recent(wake)
      <4>1. log[first].at \in Nat
        BY <1>5, <2>1
      <4> QED BY <2>6, <4>1 DEF Recent
    <3>2. now <= wake
      BY <1>1, <1>3 DEF wake
    <3>3. Recent(wake) \subseteq Recent(now)
      BY <1>1, <1>3, <3>2, RecentShrinks DEF wake
    <3> QED BY <3>1, <3>3
  <2>8. IsFiniteSet(Recent(now) \ {first}) /\ Cardinality(Recent(now) \ {first}) = Cardinality(Recent(now)) - 1
    BY <2>1, FS_RemoveElement
  <2>9. Cardinality(Recent(wake)) <= Cardinality(Recent(now)) - 1
    BY <2>7, <2>8, FS_Subset
  <2>10. Cardinality(Recent(now)) <= dials.cap
    BY DEF CapInv, dials
  <2>11. Cardinality(Recent(wake)) < dials.cap
    BY <1>4, <2>1, <2>9, <2>10
  <2> QED BY <1>9, <2>11 DEF Gone, dials
<1>10. ASSUME run'.why = "not_quiet_hours", wake = NextAllowedTime(now, merchant.quiet),
              IsQuietHour(now, merchant.quiet)
       PROVE  Gone(run'.why, wake)
  <2> DEFINE w == merchant.quiet
  <2>1. wake \in Nat /\ ~IsQuietHour(wake, w) /\ \A m \in now..(wake - 1) : IsQuietHour(m, w)
    BY <1>3, <1>4, <1>10, NightEndsOnTime
  <2>2. wake - 1 \in Nat /\ wake - 1 \in now..(wake - 1) /\ wake = (wake - 1) + 1
    BY <1>1, <1>3 DEF wake
  <2>3. w.start # w.end
    BY <1>10 DEF IsQuietHour
  <2>4. ASSUME NEW late \in Late PROVE ~IsQuietHour(wake + late, w)
    <3>1. late \in Nat /\ late < (60 * (w.start - w.end)) % MinutesPerDay
      BY <1>3, <2>3, LateAssumption
    <3>2. wake + late \in Nat
      BY <2>1, <3>1
    <3>3. IsQuietHour(wake - 1, w)
      BY <2>1, <2>2
    <3> HIDE DEF w
    <3> QED BY <1>4, <2>1, <2>2, <3>1, <3>2, <3>3, MorningLasts DEF w
  <2> QED BY <1>10, <2>4 DEF Gone
<1>11. CASE LimitAnswers(case.row.pre, facts, Defer(run'.why, wake))
  <2>1. \A why, at : Defer(why, at) = Defer(run'.why, wake) => why = run'.why /\ at = wake
    BY AnswersAre
  <2>2. CASE /\ Defer(run'.why, wake) = Defer("no_live_attempt", Max(facts.lastAttempt \cup {0}) + facts.dials.lock + 1)
             /\ \E at \in facts.lastAttempt : facts.now - at < facts.dials.lock
    <3>1. run'.why = "no_live_attempt" /\ wake = Max(facts.lastAttempt \cup {0}) + dials.lock + 1
      BY <1>3, <2>1, <2>2
    <3> QED BY <1>7, <2>2, <3>1 DEF wake
  <2>3. CASE /\ Defer(run'.why, wake) = Defer("cool_off", facts.now + facts.dials.gap - Max(facts.sinceTouch \cup {0}))
             /\ \E since \in facts.sinceTouch : since < facts.dials.gap
    <3>1. run'.why = "cool_off" /\ wake = now + dials.gap - Max(facts.sinceTouch \cup {0})
      BY <1>3, <2>1, <2>3
    <3> QED BY <1>8, <2>3, <3>1 DEF wake
  <2>4. CASE /\ Defer(run'.why, wake) = Defer("within_frequency_cap",
                  IF facts.recent = {} THEN facts.now + MinutesPerHour ELSE CapClears(facts))
             /\ facts.count >= facts.dials.cap
    <3>1. run'.why = "within_frequency_cap"
          /\ wake = IF facts.recent = {} THEN now + MinutesPerHour ELSE CapClears(facts)
      BY <1>3, <2>1, <2>4
    <3>2. facts.count >= dials.cap
      BY <1>3, <2>4
    <3> QED BY <1>9, <3>1, <3>2 DEF wake
  <2> QED BY <1>6, <1>11, <2>2, <2>3, <2>4 DEF LimitAnswers
<1> QED BY <1>1, <1>10, <1>11 DEF wake

\* A wake-up after a deferral, with nothing new on the record, does not find the
\* reason again.
LEMMA WakeHelps ==
  ASSUME Types, IdleInv, phase = "waiting", run.deferrals > 0, ~news,
         NEW late \in Late, NEW t, t = Max({now, run.wake}) + late
  PROVE  ~Blocked(run.why, Facts(t))
<1> DEFINE dials == EffectiveDials(merchant.dials)
           f == Facts(t)
<1>1. now < run.wake /\ Gone(run.why, run.wake)
  BY DEF IdleInv
<1>2. /\ now \in Nat /\ run.wake \in Nat /\ late \in Nat /\ merchant \in Merchants /\ run.why \in Whys
  BY LateAssumption DEF Types, RunTypes
<1>3. t = run.wake + late /\ t \in Nat /\ run.wake <= t /\ now <= t
  <2>1. now \in Int /\ run.wake \in Int
    BY <1>2
  <2>2. Max({now, run.wake}) \in {now, run.wake} /\ run.wake <= Max({now, run.wake})
    BY <2>1, MaxOfTwo
  <2>3. Max({now, run.wake}) = run.wake
    BY <1>1, <1>2, <2>2
  <2> QED BY <1>1, <1>2, <2>3
<1>4. dials.cap \in 1..10 /\ dials.gap \in 0..720 /\ dials.lock \in 0..120
  <2>1. merchant \in Merchants
    BY <1>2
  <2> QED BY <2>1, DialsAre
<1>5. /\ f.now = t /\ f.dials = dials /\ f.quiet = merchant.quiet
      /\ f.lastAttempt = person.attempts /\ f.count = Cardinality(Recent(t))
      /\ f.sinceTouch = IF LastTouch = {} THEN {} ELSE {t - Max(LastTouch)}
  BY DEF Facts
<1>6. person.attempts \subseteq Nat /\ \A i \in DOMAIN log : log[i].at \in Nat
  BY EntriesOf DEF Types, PersonTypes
<1> HIDE DEF dials, f
<1>7. CASE run.why = "none"
  BY <1>1, <1>7 DEF Gone
<1>8. CASE run.why = "no_live_attempt"
  <2>1. \A s \in person.attempts : run.wake - s >= dials.lock
    BY <1>1, <1>8 DEF Gone, dials
  <2>2. \A s \in f.lastAttempt : ~(f.now - s < f.dials.lock)
    BY <1>2, <1>3, <1>4, <1>5, <1>6, <2>1
  <2> QED BY <1>8, <2>2 DEF Blocked, f
<1>9. CASE run.why = "cool_off"
  <2>1. \A i \in DOMAIN log : Real(i) => run.wake - log[i].at >= dials.gap
    BY <1>1, <1>9 DEF Gone, dials
  <2>2. LastTouch \subseteq Nat
    BY <1>6 DEF LastTouch
  <2>3. ASSUME LastTouch # {} PROVE t - Max(LastTouch) >= dials.gap
    <3>1. Max(LastTouch) \in LastTouch
      <4>1. LastTouch \subseteq 0..now
        BY <1>6 DEF LastTouch, Types, PersonTypes
      <4> QED BY <1>2, <2>3, <4>1, MaxIs
    <3>2. PICK i \in DOMAIN log : Real(i) /\ log[i].at = Max(LastTouch)
      BY <3>1 DEF LastTouch
    <3>3. run.wake - Max(LastTouch) >= dials.gap /\ Max(LastTouch) \in Nat
      BY <2>1, <2>2, <3>1, <3>2
    <3> QED BY <1>2, <1>3, <1>4, <3>3, SMTT(30)
  <2>4. \A s \in f.sinceTouch : ~(s < f.dials.gap)
    <3> SUFFICES ASSUME NEW s \in f.sinceTouch PROVE ~(s < f.dials.gap)
      OBVIOUS
    <3>1. LastTouch # {} /\ s = t - Max(LastTouch)
      BY <1>5
    <3>2. Max(LastTouch) \in Nat
      <4>1. LastTouch \subseteq 0..now
        BY <1>6 DEF LastTouch, Types, PersonTypes
      <4>2. Max(LastTouch) \in LastTouch
        BY <1>2, <3>1, <4>1, MaxIs
      <4> QED BY <2>2, <4>2
    <3> DEFINE last == Max(LastTouch)
    <3>3. t - last >= dials.gap /\ last \in Nat /\ s = t - last
      BY <2>3, <3>1, <3>2
    <3> HIDE DEF last
    <3>4. s >= dials.gap
      BY <3>3
    <3>5. s \in Int /\ dials.gap \in Int
      <4>1. s \in Int
        <5>1. \A n \in Nat : t - n \in Int
          BY <1>3
        <5>2. t - last \in Int
          BY <3>3, <5>1
        <5> QED BY <3>3, <5>2
      <4>2. dials.gap \in Int
        BY <1>4
      <4> QED BY <4>1, <4>2
    <3>6. ~(s < dials.gap)
      <4> DEFINE gap == dials.gap
      <4>1. s >= gap /\ s \in Int /\ gap \in Int
        BY <3>4, <3>5
      <4> HIDE DEF gap
      <4>2. ~(s < gap)
        BY <4>1
      <4> QED BY <4>2 DEF gap
    <3> QED BY <1>5, <3>6
  <2> QED BY <1>9, <2>4 DEF Blocked, f
<1>10. CASE run.why = "within_frequency_cap"
  <2>1. Cardinality(Recent(run.wake)) < dials.cap
    BY <1>1, <1>10 DEF Gone, dials
  <2>2. /\ Cardinality(Recent(t)) <= Cardinality(Recent(run.wake))
        /\ Cardinality(Recent(t)) \in Nat /\ Cardinality(Recent(run.wake)) \in Nat
    BY <1>2, <1>3, RecentShrinks, RecentIs
  <2>3. ~(f.count >= f.dials.cap)
    BY <1>4, <1>5, <2>1, <2>2
  <2> QED BY <1>10, <2>3 DEF Blocked, f
<1>11. CASE run.why = "not_quiet_hours"
  <2>1. ~IsQuietHour(run.wake + late, merchant.quiet)
    BY <1>1, <1>11 DEF Gone
  <2>2. ~IsQuietHour(f.now, f.quiet)
    BY <1>3, <1>5, <2>1
  <2> QED BY <1>11, <2>2 DEF Blocked, f
<1> QED BY <1>2, <1>7, <1>8, <1>9, <1>10, <1>11 DEF Whys, f

\* After a step that leaves the customer's record alone it says the same of every time.
LEMMA GoneKept ==
  ASSUME person' = person, log' = log, merchant' = merchant
  PROVE  \A why, t : Gone(why, t) => Gone(why, t)'
<1>1. \A i : Real(i)' <=> Real(i)
  BY LogKept
<1>2. \A t : Recent(t)' = Recent(t)
  BY LogKept
<1> QED BY <1>1, <1>2 DEF Gone

LEMMA IdleStays ==
  ASSUME Types, CapInv, IdleInv, [Next]_vars PROVE IdleInv'
<1>1. ASSUME phase' \in {"gathered", "gated"}, ~news'
      PROVE  /\ facts'.lastAttempt = person'.attempts /\ facts'.seen = Len(log')
             /\ facts'.count = Cardinality(Recent(now)')
             /\ facts'.recent = {log'[i].at : i \in Recent(now)'}
  <2>1. CASE Gather
    <3>1. facts' = Facts(now') /\ UNCHANGED <<person, log>>
      BY <2>1 DEF Gather
    <3>2. \A t : t = now' => Recent(now)' = Recent(t)
      BY <3>1 DEF Recent, Real
    <3> QED BY <3>1, <3>2 DEF Facts
  <2>2. CASE ~Gather
    <3>1. /\ phase \in {"gathered", "gated"} /\ UNCHANGED <<facts, person, log, now, news>>
      <4>1. ~Bystander
        BY <1>1, Zenon DEF Bystander, OtherMessage, AnotherAttempt, OptOut, SwitchOff, Around
      <4> QED BY <1>1, <2>2, <4>1, EachStep DEF Types, HandlePaymentFailed, StartLadder, Evaluate, RungEnds,
           RungWaits, RungSends, Steady, Send, Tick, vars
    <3>2. ~news
      BY <1>1, <3>1, Zenon
    <3>3. Recent(now)' = Recent(now)
      BY <3>1 DEF Recent, Real
    <3> QED BY <3>1, <3>2, <3>3 DEF IdleInv
  <2> QED BY <2>1, <2>2
<1>2. ASSUME phase' = "waiting", run'.deferrals > 0
      PROVE  now' < run'.wake /\ (~news' => Gone(run.why, run.wake)')
  <2>1. CASE RungWaits
    <3>1. UNCHANGED <<merchant, now, log, person, news>> /\ run'.wake > now /\ run'.wake \in Nat
      BY <2>1, WaitIs
    <3>2. now' < run'.wake
      BY <3>1, IsWindow
    <3>3. ASSUME ~news' PROVE Gone(run.why, run.wake)'
      <4>1. ~news
        BY <3>1, <3>3, Zenon
      <4>2. Gone(run'.why, run'.wake)
        BY <2>1, <4>1, WaitHelps
      <4>3. \A why, t : Gone(why, t) => Gone(why, t)'
        BY <3>1, GoneKept
      <4>4. \A why, t : why = run'.why /\ t = run'.wake /\ Gone(why, t)' => Gone(run.why, run.wake)'
        BY DEF Gone
      <4> QED BY <4>2, <4>3, <4>4
    <3> QED BY <3>2, <3>3
  <2>2. CASE Tick
    <3>1. now \in Nat /\ now' = run.wake - 1 /\ UNCHANGED <<run, merchant, log, person, news>> /\ phase = "waiting"
      BY <2>2, IsWindow DEF Tick
    <3>2. run.wake \in Nat
      BY DEF Types, RunTypes
    <3>3. now' < run'.wake
      BY <3>1, <3>2
    <3>4. ~news' => Gone(run.why, run.wake)
      BY <1>2, <3>1, Zenon DEF IdleInv
    <3>5. \A why, t : Gone(why, t) => Gone(why, t)'
      BY <3>1, GoneKept
    <3>6. \A why, t : why = run'.why /\ t = run'.wake /\ Gone(why, t)' => Gone(run.why, run.wake)'
      BY DEF Gone
    <3> QED BY <3>1, <3>3, <3>4, <3>5, <3>6
  <2>3. CASE Bystander
    <3>1. phase = "waiting" /\ UNCHANGED <<run, now>> /\ news' = TRUE
      BY <1>2, <2>3, Zenon DEF Bystander, OtherMessage, AnotherAttempt, OptOut, SwitchOff, Around
    <3>2. now' < run'.wake
      BY <1>2, <3>1 DEF IdleInv
    <3> QED BY <3>1, <3>2
  <2>4. CASE UNCHANGED vars
    <3>1. phase = "waiting" /\ run.deferrals > 0 /\ UNCHANGED <<run, now, merchant, log, person, news>>
      BY <1>2, <2>4 DEF vars
    <3>2. now' < run'.wake /\ (~news => Gone(run.why, run.wake))
      BY <3>1 DEF IdleInv
    <3>3. \A why, t : Gone(why, t) => Gone(why, t)'
      BY <3>1, GoneKept
    <3>4. \A why, t : why = run'.why /\ t = run'.wake /\ Gone(why, t)' => Gone(run.why, run.wake)'
      BY DEF Gone
    <3> QED BY <3>1, <3>2, <3>3, <3>4
  <2>5. CASE ~RungWaits /\ ~Tick /\ ~Bystander /\ ~UNCHANGED vars
    <3>1. ASSUME NEW m \in Merchants, NEW reach \in Reaches, StartLadder(m, reach) PROVE FALSE
      <4>1. run'.deferrals = 0
        BY <3>1 DEF StartLadder, Types, RunTypes
      <4> QED BY <1>2, <4>1
    <3>2. CASE RungEnds
      BY <1>2, <3>2 DEF RungEnds
    <3> QED BY <1>2, <2>5, <3>1, <3>2, EachStep DEF Types, HandlePaymentFailed, Gather, Evaluate, RungSends,
         Send
  <2> QED BY <2>1, <2>2, <2>3, <2>4, <2>5
<1>3. ASSUME phase' \in {"gathered", "gated"}, run'.deferrals > 0, facts'.idle
      PROVE  ~Blocked(run'.why, facts')
  <2>1. CASE Gather
    <3>1. PICK late \in Late : now' = Max({now, run.wake}) + late /\ facts' = Facts(now')
      BY <2>1 DEF Gather
    <3>2. phase = "waiting" /\ run' = run
      BY <2>1 DEF Gather
    <3>3. ~news
      <4>1. facts'.idle = ~news
        BY <3>1 DEF Facts
      <4> QED BY <1>3, <4>1, Zenon
    <3> QED BY <1>3, <3>1, <3>2, <3>3, WakeHelps
  <2>2. CASE ~Gather
    <3>1. phase \in {"gathered", "gated"} /\ UNCHANGED <<facts, run>>
      <4>1. CASE Bystander
        BY <1>3, <4>1, Zenon DEF Bystander, OtherMessage, AnotherAttempt, OptOut, SwitchOff, Around
      <4>2. CASE ~Bystander
        BY <1>3, <2>2, <4>2, EachStep DEF Types, HandlePaymentFailed, StartLadder, Evaluate, RungEnds,
           RungWaits, RungSends, Steady, Send, Tick, vars
      <4> QED BY <4>1, <4>2
    <3>2. facts.idle
      BY <1>3, <3>1, Zenon
    <3>3. run.deferrals > 0
      BY <1>3, <3>1
    <3> QED BY <3>1, <3>2, <3>3 DEF IdleInv
  <2> QED BY <2>1, <2>2
<1>4. (phase \in {"gathered", "gated"} /\ ~news =>
       /\ facts.lastAttempt = person.attempts /\ facts.seen = Len(log)
       /\ facts.count = Cardinality(Recent(now))
       /\ facts.recent = {log[i].at : i \in Recent(now)})'
  BY <1>1
<1>5. /\ (phase = "waiting" /\ run.deferrals > 0 => now < run.wake)'
      /\ (phase = "waiting" /\ run.deferrals > 0 /\ ~news => Gone(run.why, run.wake))'
  BY <1>2
<1>6. (phase \in {"gathered", "gated"} /\ run.deferrals > 0 /\ facts.idle => ~Blocked(run.why, facts))'
  <2> SUFFICES ASSUME phase' \in {"gathered", "gated"}, run'.deferrals > 0, facts'.idle
               PROVE  ~Blocked(run.why, facts)'
    OBVIOUS
  <2>1. ~Blocked(run'.why, facts')
    BY <1>3
  <2> QED BY <2>1 DEF Blocked
<1> QED BY <1>4, <1>5, <1>6 DEF IdleInv

LEMMA IdleAlways == Spec => []IdleInv
<1>1. Init => IdleInv
  BY DEF Init, IdleInv
<1>2. Types /\ CapInv /\ IdleInv /\ [Next]_vars => IdleInv'
  BY IdleStays
<1> QED BY <1>1, <1>2, TypesAlways, CapAlways, PTL DEF Spec

\* A deferral names a time that helps (evaluatePreconditions, run-ladder.ts): if nothing
\* happened since the rung was put off, the gate does not put it off again for the
\* same reason.
THEOREM NoIdleDeferralAlways == Spec => []NoIdleDeferral
<1>1. Types /\ IdleInv => NoIdleDeferral
  <2> SUFFICES ASSUME Types, IdleInv, phase = "gated", decision.do = "defer", run.deferrals > 0, facts.idle
               PROVE  decision.why # run.why
    BY DEF NoIdleDeferral
  <2>1. ~Blocked(run.why, facts)
    BY DEF IdleInv
  <2>2. Blocked(decision.why, facts)
    <3>1. /\ decision = EvaluatePreconditions(case.row.pre, facts)
          /\ facts.now = now /\ facts.quiet = merchant.quiet
      BY DEF Types, DecisionInv, FactsInv, Attempting
    <3>2. "merchant_budget_available" \notin case.row.pre
      BY OfCase, ShippedAssumption DEF Types
    <3>3. CASE LimitAnswers(case.row.pre, facts, decision)
      BY <3>2, <3>3, AnswersAre DEF LimitAnswers, Blocked
    <3>4. CASE /\ Night(case.row.pre, facts)
               /\ decision = Defer("not_quiet_hours", NextAllowedTime(facts.now, facts.quiet))
      <4>1. decision.why = "not_quiet_hours"
        BY <3>4, AnswersAre
      <4>2. IsQuietHour(facts.now, facts.quiet)
        <5>1. now \in Nat /\ Window(merchant.quiet)
          BY IsWindow
        <5>2. ~(NextAllowedTime(facts.now, facts.quiet) <= facts.now)
          BY <3>4 DEF Night
        <5> QED BY <3>1, <5>1, <5>2, NightIs
      <4> QED BY <4>1, <4>2 DEF Blocked
    <3> QED BY <3>1, <3>3, <3>4, DeferIsFor
  <2> QED BY <2>1, <2>2
<1> QED BY <1>1, TypesAlways, IdleAlways, PTL

-----------------------------------------------------------------------------
\* ---- what the ladder promises ----

\* A rung's messages keep the merchant's gap to everything the customer had heard,
\* from whatever case, when the rung was gated (checkCooldown, gate.ts).
THEOREM CoolOffAlways == Spec => []CoolOff
<1>1. LetterInv => CoolOff
  BY DEF LetterInv, SentInv, CoolOff
<1> QED BY <1>1, LettersAlways, PTL

\* Two messages of a case that are not of one rung are in the order of their rungs.
LEMMA RungsInOrder ==
  ASSUME Types, LetterInv, NEW i \in OwnSent, NEW j \in OwnSent, log[i].rung # log[j].rung
  PROVE  i \in Nat /\ j \in Nat /\ log[i].at \in Nat /\ log[j].at \in Nat
         /\ (log[i].rung < log[j].rung => i < j) /\ (i < j => log[i].rung < log[j].rung)
<1>1. i \in DOMAIN log /\ j \in DOMAIN log /\ Own(i) /\ Own(j)
  BY DEF OwnSent
<1>2. /\ DOMAIN log = 1..Len(log)
      /\ log[i].at \in Nat /\ log[j].at \in Nat /\ log[i].rung \in Nat /\ log[j].rung \in Nat
  BY <1>1, EntriesOf DEF Types, PersonTypes
<1>3. i \in Nat /\ j \in Nat
  BY <1>1, <1>2
<1>4. (i < j => log[i].rung <= log[j].rung) /\ (j < i => log[j].rung <= log[i].rung)
  BY <1>1 DEF LetterInv, LedgerInv
<1>5. i = j => log[i].rung = log[j].rung
  OBVIOUS
<1> QED BY <1>2, <1>3, <1>4, <1>5

\* No phone lights up at night but for the first answer to a customer who is still at
\* the checkout, and a rung held back for the night wakes at the first minute of day
\* (checkQuietHours, nextAllowedTime).
THEOREM NightKeptAlways == Spec => []NightKept
<1>1. Types /\ LetterInv /\ NightInv => NightKept
  <2> SUFFICES ASSUME Types, LetterInv, NightInv PROVE NightKept
    OBVIOUS
  <2>1. now \in Nat /\ Window(merchant.quiet)
    BY IsWindow
  <2>2. NightIsQuiet
    <3> SUFFICES ASSUME NEW i \in OwnSent, log[i].channel = "whatsapp", Silent(log[i].at, merchant.quiet)
                 PROVE  /\ \A j \in OwnSent : log[j].rung = log[i].rung \/ log[j].at > log[i].at
                        /\ log[i].at - case.born <= EffectiveDials(merchant.dials).live
      BY DEF NightIsQuiet
    <3>1. log[i].at \in Nat
      BY EntriesOf DEF OwnSent, Types, PersonTypes
    <3>2. IsQuietHour(log[i].at, merchant.quiet)
      BY <2>1, <3>1, SilentIsQuiet
    <3>3. /\ \A j \in OwnSent : j < i => log[j].rung = log[i].rung
          /\ log[i].at - case.born <= EffectiveDials(merchant.dials).live
      BY <3>2 DEF LetterInv, SentInv
    <3>4. ASSUME NEW j \in OwnSent, log[j].rung # log[i].rung PROVE log[j].at > log[i].at
      <4>1. i \in Nat /\ j \in Nat /\ log[i].at \in Nat /\ log[j].at \in Nat
        BY <3>4, RungsInOrder
      <4>2. i < j
        BY <3>3, <3>4, <4>1
      <4>3. log[i].at <= log[j].at
        BY <4>2 DEF OwnSent, LetterInv, LedgerInv
      <4>4. ~IsQuietHour(log[j].at, merchant.quiet)
        BY <3>4, <4>2 DEF LetterInv, SentInv
      <4>5. log[i].at # log[j].at
        BY <3>2, <4>4
      <4> QED BY <4>1, <4>3, <4>5
    <3> QED BY <3>3, <3>4
  <2>3. QuietEndsOnTime
    <3> SUFFICES ASSUME phase = "waiting", run.why = "not_quiet_hours"
                 PROVE  ~Silent(run.wake, merchant.quiet) /\ \A t \in now..(run.wake - 1) : Silent(t, merchant.quiet)
      BY DEF QuietEndsOnTime
    <3>1. run.wake \in Nat
      BY DEF Types, RunTypes
    <3>2. /\ ~IsQuietHour(run.wake, merchant.quiet)
          /\ \A t \in now..(run.wake - 1) : IsQuietHour(t, merchant.quiet)
      BY DEF NightInv
    <3>3. \A t \in now..(run.wake - 1) : t \in Nat
      BY <2>1, <3>1
    <3> QED BY <2>1, <3>1, <3>2, <3>3, SilentIsQuiet
  <2> QED BY <2>2, <2>3 DEF NightKept
<1> QED BY <1>1, TypesAlways, LettersAlways, NightAlways, PTL

\* The messages a row may call for are finitely many.
LEMMA MessagesAre ==
  ASSUME NEW row \in Table
  PROVE  /\ IsFiniteSet(Messages(row))
         /\ \A i, n : <<i, n>> \in Messages(row) <=> i \in DOMAIN row.ladder /\ n \in 1..MessagesOf(row.ladder[i])
<1> DEFINE S == DOMAIN row.ladder
           Of == [i \in S |-> {i} \X (1..MessagesOf(row.ladder[i]))]
           T == {Of[i] : i \in S}
<1>1. row.ladder \in Seq(Rungs(row)) /\ \A g \in Rungs(row) : g.channels \in Seq(Channels)
  BY RowAssumption
<1>2. IsFiniteSet(S)
  <2>1. S = 1..Len(row.ladder) /\ Len(row.ladder) \in Nat
    BY <1>1
  <2> QED BY <2>1, FS_Interval
<1>3. \A i \in S : MessagesOf(row.ladder[i]) \in Nat
  <2> SUFFICES ASSUME NEW i \in S PROVE MessagesOf(row.ladder[i]) \in Nat
    OBVIOUS
  <2>1. row.ladder[i].channels \in Seq(Channels)
    BY <1>1 DEF Rungs
  <2>2. Len(row.ladder[i].channels) \in Nat
    BY <2>1
  <2> QED BY <2>2 DEF MessagesOf
<1>4. \A i \in S : IsFiniteSet(Of[i])
  <2> SUFFICES ASSUME NEW i \in S PROVE IsFiniteSet({i} \X (1..MessagesOf(row.ladder[i])))
    OBVIOUS
  <2> DEFINE n == MessagesOf(row.ladder[i])
  <2>1. n \in Int /\ 1 \in Int
    BY <1>3
  <2> HIDE DEF n
  <2>2. IsFiniteSet(1..n)
    BY <2>1, FS_Interval
  <2>3. IsFiniteSet({i})
    BY FS_Singleton
  <2>4. IsFiniteSet({i} \X (1..n))
    BY <2>2, <2>3, FS_Product
  <2> QED BY <2>4 DEF n
<1>5. Of \in Surjection(S, T)
  BY Fun_IsSurj
<1>6. Messages(row) = UNION T
  BY DEF Messages
<1>7. IsFiniteSet(UNION T)
  <2> HIDE DEF S, Of
  <2>1. IsFiniteSet(T)
    BY <1>2, <1>5, FS_Surjection
  <2>2. \A X \in T : IsFiniteSet(X)
    BY <1>4
  <2> HIDE DEF T
  <2> QED BY <2>1, <2>2, FS_UNION
<1>8. \A i, n : <<i, n>> \in Messages(row) <=> i \in S /\ n \in 1..MessagesOf(row.ladder[i])
  BY DEF Messages
<1> QED BY <1>6, <1>7, <1>8

\* No two messages of a case are the same message of its row.
LEMMA CeilingKept ==
  ASSUME Types, LetterInv, phase # "new"
  PROVE  Cardinality(OwnSent) <= case.row.max
<1> DEFINE which == [i \in OwnSent |-> <<log[i].rung, IF Ladder[log[i].rung].fanout THEN log[i].place ELSE 1>>]
           row == case.row
<1>1. row \in Table /\ CheckRow(row) /\ Ladder = row.ladder
      /\ \A i \in DOMAIN Ladder : Ladder[i].channels \in Seq(Channels)
  BY OfCase DEF Types, Ladder
<1>2. CustomerMessageCount(row) <= row.max /\ row.max \in Nat
  BY <1>1, RowAssumption DEF CheckRow
<1>3. IsFiniteSet(Messages(row)) /\ Cardinality(Messages(row)) \in Nat
  BY <1>1, MessagesAre, FS_CardinalityType
<1> HIDE DEF row
<1>4. ASSUME NEW i \in OwnSent PROVE which[i] \in Messages(row)
  <2> DEFINE g == Ladder[log[i].rung]
             n == IF g.fanout THEN log[i].place ELSE 1
  <2>1. log[i].rung \in DOMAIN Ladder /\ IsTouch(g) /\ log[i].place \in DOMAIN g.channels
    BY DEF OwnSent, LetterInv, LedgerInv
  <2>2. g.channels \in Seq(Channels)
    BY <1>1, <2>1
  <2>3. DOMAIN g.channels = 1..Len(g.channels)
    BY <2>2
  <2>4. MessagesOf(g) = IF g.fanout THEN Len(g.channels) ELSE 1
    BY <2>1 DEF MessagesOf
  <2>5. n \in 1..MessagesOf(g)
    BY <2>1, <2>3, <2>4
  <2>6. <<log[i].rung, n>> \in Messages(row)
    <3> HIDE DEF n
    <3> QED BY <1>1, <2>1, <2>5, MessagesAre DEF row
  <2> QED BY <2>6
<1>5. ASSUME NEW i \in OwnSent, NEW j \in OwnSent, i # j PROVE which[i] # which[j]
  <2>1. i \in Nat /\ j \in Nat /\ i \in DOMAIN log /\ j \in DOMAIN log /\ Own(i) /\ Own(j)
    <3>1. DOMAIN log = 1..Len(log)
      BY EntriesOf DEF Types, PersonTypes
    <3> QED BY <3>1 DEF OwnSent
  <2>2. log[i].rung = log[j].rung => Ladder[log[i].rung].fanout /\ log[i].place # log[j].place
    <3>1. CASE i < j
      BY <2>1, <3>1 DEF LetterInv, LedgerInv
    <3>2. CASE j < i
      BY <2>1, <3>2 DEF LetterInv, LedgerInv
    <3> QED BY <1>5, <2>1, <3>1, <3>2
  <2> QED BY <2>2
<1>6. which \in [OwnSent -> Messages(row)]
  BY <1>4
<1> HIDE DEF which
<1>7. which \in Injection(OwnSent, Messages(row))
  BY <1>5, <1>6, Fun_IsInj
<1>8. IsFiniteSet(OwnSent) /\ Cardinality(OwnSent) <= Cardinality(Messages(row))
  BY <1>3, <1>7, FS_Injection
<1>9. Cardinality(OwnSent) \in Nat
  BY <1>8, FS_CardinalityType
<1> QED BY <1>2, <1>3, <1>8, <1>9 DEF CustomerMessageCount, row

\* What a case is sent keeps what is promised of the whole of it: no more messages than
\* the ceiling of its row, none at or after its deadline, and nothing after the words
\* of the final reminder (runLadder, sendMessage).
THEOREM PromisesKeptAlways == Spec => []PromisesKept
<1>1. Types /\ LetterInv => PromisesKept
  <2> SUFFICES ASSUME Types, LetterInv PROVE PromisesKept
    OBVIOUS
  <2>1. TypeOK
    BY TypesAreOK
  <2>2. TouchesUnderCeiling
    BY CeilingKept DEF TouchesUnderCeiling
  <2>3. SentBeforeDeadline
    BY DEF LetterInv, SentInv, SentBeforeDeadline
  <2>4. FinalIsLast
    <3> SUFFICES ASSUME NEW i \in OwnSent, NEW j \in OwnSent, log[i].rung < log[j].rung
                 PROVE  Ladder[log[i].rung].intent # "final_reminder"
      BY DEF FinalIsLast
    <3>1. /\ log[i].rung \in DOMAIN Ladder /\ IsTouch(Ladder[log[i].rung])
          /\ log[j].rung \in DOMAIN Ladder /\ IsTouch(Ladder[log[j].rung])
      BY DEF OwnSent, LetterInv, LedgerInv
    <3>2. case.row \in Table
      <4>1. phase # "new"
        <5>1. i \in DOMAIN log
          BY DEF OwnSent
        <5> QED BY <5>1 DEF Types, PersonTypes
      <4> QED BY <4>1, OfCase DEF Types
    <3> QED BY <3>1, <3>2, ShippedAssumption DEF Ladder
  <2> QED BY <2>1, <2>2, <2>3, <2>4 DEF PromisesKept
<1> QED BY <1>1, TypesAlways, LettersAlways, PTL

-----------------------------------------------------------------------------
\* ---- what a message says ----

Bodies == {<<0, 1, 0, 2, 0, 3, 0, 4, 0>>, <<0, 1, 0, 3, 0, 2, 0, 4, 0>>}
Notice == <<"customer_name", "amount", "plan_name", "debit_date">>

\* A message that can be read, and one that carries the link.
Reads(m) == m.ok /\ "placeholder" \notin {m.preview[i] : i \in DOMAIN m.preview}
Linked(m) == "payment_link" \in {m.preview[i] : i \in DOMAIN m.preview}

\* The templates of the intents that carry a link, and of the notice.
LEMMA TemplatesAre ==
  ASSUME NEW intent
  PROVE  /\ intent \in LinkIntents =>
              \E body \in Bodies : TemplateFor(intent) = {Template(body, ToPay)}
         /\ intent = "pre_debit_notice" =>
              \E body \in Bodies : TemplateFor(intent) = {Template(body, Notice)}
<1> USE DEF Bodies, Notice
<1> DEFINE order == {"switch_method", "retry_now_service_restored", "bank_action_required",
                     "reminder", "final_reminder", "cart_saved"}
           billing == {"subscription_at_risk", "pre_debit_notice", "invoice_due", "call_follow_up",
                       "cart_abandoned_discount"}
<1>1. DOMAIN OrderTemplates = order /\ DOMAIN BillingTemplates = billing
  BY DEF OrderTemplates, BillingTemplates
<1>2. CASE intent \in order
  <2>1. OrderTemplates[intent] = Template(<<0, 1, 0, 2, 0, 3, 0, 4, 0>>, ToPay) /\ intent # "pre_debit_notice"
    BY <1>2 DEF OrderTemplates
  <2>2. TemplateFor(intent) = {OrderTemplates[intent]}
    BY <1>1, <1>2 DEF TemplateFor
  <2> QED BY <2>1, <2>2
<1>3. CASE intent \in billing \ {"pre_debit_notice", "cart_abandoned_discount"}
  <2>1. BillingTemplates[intent] = Template(<<0, 1, 0, 2, 0, 3, 0, 4, 0>>, ToPay)
    BY <1>3 DEF BillingTemplates
  <2>2. TemplateFor(intent) = {BillingTemplates[intent]}
    BY <1>1, <1>3 DEF TemplateFor
  <2> QED BY <1>3, <2>1, <2>2
<1>4. CASE intent = "cart_abandoned_discount"
  <2>1. BillingTemplates[intent] = Template(<<0, 1, 0, 3, 0, 2, 0, 4, 0>>, ToPay)
    BY <1>4 DEF BillingTemplates
  <2>2. TemplateFor(intent) = {BillingTemplates[intent]}
    BY <1>1, <1>4 DEF TemplateFor
  <2> QED BY <1>4, <2>1, <2>2
<1>5. CASE intent = "pre_debit_notice"
  <2>1. BillingTemplates[intent] = Template(<<0, 1, 0, 2, 0, 3, 0, 4, 0>>,
                                            <<"customer_name", "amount", "plan_name", "debit_date">>)
    BY <1>5 DEF BillingTemplates
  <2>2. TemplateFor(intent) = {BillingTemplates[intent]}
    BY <1>1, <1>5 DEF TemplateFor
  <2> QED BY <1>5, <2>1, <2>2 DEF LinkIntents
<1>6. CASE intent \notin order \cup billing
  BY <1>1, <1>6 DEF LinkIntents
<1> QED BY <1>2, <1>3, <1>4, <1>5, <1>6

\* A message whose variables all have a value is composed, and what is read has each in
\* its place.
LEMMA ComposedIs ==
  ASSUME NEW intent, NEW ctx, NEW body \in Bodies, NEW variables \in {ToPay, Notice},
         TemplateFor(intent) = {Template(body, variables)},
         \A n \in DOMAIN variables : ResolveVariable(variables[n], ctx)
  PROVE  Reads(Compose(intent, ctx)) /\ (variables = ToPay <=> Linked(Compose(intent, ctx)))
<1> DEFINE preview == RenderPreview(body, variables)
<1>1. Compose(intent, ctx) = [ok |-> TRUE, reason |-> "none", preview |-> preview]
  <2> DEFINE template == CHOOSE x \in TemplateFor(intent) : TRUE
             missing == {n \in DOMAIN template.variables : ~ResolveVariable(template.variables[n], ctx)}
  <2>1. template = Template(body, variables)
    <3>1. \E x \in TemplateFor(intent) : TRUE
      OBVIOUS
    <3>2. template \in TemplateFor(intent)
      BY <3>1
    <3> QED BY <3>2
  <2>2. template.body = body /\ template.variables = variables /\ TemplateFor(intent) # {}
    BY <2>1 DEF Template
  <2>3. missing = {}
    BY <2>2
  <2> QED BY <2>2, <2>3 DEF Compose
<1>2. /\ DOMAIN body = 1..9 /\ body[8] = 4 /\ DOMAIN variables = 1..4
      /\ \A i \in 1..9 : body[i] = 0 \/ body[i] \in 1..4
  BY DEF ToPay, Notice, Bodies
<1>3. /\ \A n \in 1..4 : variables[n] # "placeholder"
      /\ variables = ToPay => variables[4] = "payment_link"
      /\ variables # ToPay => \A n \in 1..4 : variables[n] # "payment_link"
  BY DEF ToPay, Notice, Bodies
<1>4. /\ DOMAIN preview = 1..9
      /\ \A i \in 1..9 : preview[i] = IF body[i] = 0 THEN "words" ELSE variables[body[i]]
  BY <1>2 DEF RenderPreview
<1> HIDE DEF preview
<1>5. \A i \in 1..9 : preview[i] = "words" \/ \E n \in 1..4 : preview[i] = variables[n]
  BY <1>2, <1>4
<1>6. preview[8] = variables[4] /\ 8 \in 1..9
  BY <1>2, <1>4
<1>7. "placeholder" \notin {preview[i] : i \in DOMAIN preview}
  BY <1>3, <1>4, <1>5
<1>8. (variables = ToPay) <=> ("payment_link" \in {preview[i] : i \in DOMAIN preview})
  BY <1>3, <1>4, <1>5, <1>6
<1> QED BY <1>1, <1>7, <1>8 DEF Reads, Linked

\* Once there is a link every message of a rung that writes to the customer can be
\* composed, and only a nudge carries the link.
LEMMA TouchComposes ==
  ASSUME NEW row \in Table, NEW g \in Touches(row)
  PROVE  Reads(Composed(g, TRUE)) /\ (g.do = "nudge" <=> Linked(Composed(g, TRUE)))
<1> DEFINE ctx == [link |-> TRUE, debit |-> g.do = "send_pre_debit_notice"]
<1>1. Composed(g, TRUE) = Compose(g.intent, ctx)
  BY DEF Composed
<1>2. IF g.do = "nudge" THEN g.intent \in LinkIntents ELSE g.intent = "pre_debit_notice"
  BY ShippedAssumption
<1>3. g.do # "nudge" => g.do = "send_pre_debit_notice"
  BY DEF Touches, IsTouch
<1>4. \A role \in {"customer_name", "amount", "merchant_name", "plan_name"} : ResolveVariable(role, ctx)
  BY Zenon DEF ResolveVariable
<1>5. ResolveVariable("payment_link", ctx)
  BY Zenon DEF ResolveVariable
<1>6. g.do # "nudge" => ResolveVariable("debit_date", ctx)
  <2>1. ResolveVariable("debit_date", ctx) = ctx.debit
    BY DEF ResolveVariable
  <2> QED BY <1>3, <2>1, Zenon
<1>7. ToPay # Notice
  BY DEF ToPay, Notice
<1> HIDE DEF ctx
<1>8. CASE g.do = "nudge"
  <2>1. PICK body \in Bodies : TemplateFor(g.intent) = {Template(body, ToPay)}
    BY <1>2, <1>8, TemplatesAre
  <2>2. \A n \in DOMAIN ToPay : ToPay[n] \in {"customer_name", "amount", "merchant_name", "payment_link"}
    BY DEF ToPay
  <2>3. \A n \in DOMAIN ToPay : ResolveVariable(ToPay[n], ctx)
    BY <1>4, <1>5, <2>2
  <2>4. Reads(Compose(g.intent, ctx)) /\ Linked(Compose(g.intent, ctx))
    BY <2>1, <2>3, ComposedIs
  <2> QED BY <1>1, <1>8, <2>4
<1>9. CASE g.do # "nudge"
  <2>1. PICK body \in Bodies : TemplateFor(g.intent) = {Template(body, Notice)}
    BY <1>2, <1>9, TemplatesAre
  <2>2. \A n \in DOMAIN Notice : Notice[n] \in {"customer_name", "amount", "plan_name", "debit_date"}
    BY DEF Notice
  <2>3. \A n \in DOMAIN Notice : ResolveVariable(Notice[n], ctx)
    BY <1>4, <1>6, <1>9, <2>2
  <2>4. Reads(Compose(g.intent, ctx)) /\ ~Linked(Compose(g.intent, ctx))
    BY <1>7, <2>1, <2>3, ComposedIs
  <2> QED BY <1>1, <1>9, <2>4
<1> QED BY <1>8, <1>9

\* A retry is offered where the class allows one and the attempts are not used up, and
\* the rails are those for the class.
LEMMA DiagnosisIs ==
  ASSUME NEW t, NEW ctx
  PROVE  LET d == Diagnose(t, ctx)
         IN /\ d.retry <=> CAUSE_CLASS_TRAITS[d.class].retry /\ ctx.prior < AttemptCap(t.reason)
            /\ \E retry : d.rails = RailsFor(d.class, t.method, AmountBand(ctx.amount), retry)
<1> DEFINE class == IF Outage(t, ctx.windows) THEN "transient_infra" ELSE ResolveClass(t)
           retry == CAUSE_CLASS_TRAITS[class].retry /\ ctx.prior < AttemptCap(t.reason)
           d == Diagnose(t, ctx)
<1>1. d.class = class
  BY DEF Diagnose
<1>2. d.retry <=> retry
  BY Zenon DEF Diagnose
<1>3. d.rails = RailsFor(class, t.method, AmountBand(ctx.amount), retry)
  BY Zenon DEF Diagnose
<1>4. \E r : d.rails = RailsFor(class, t.method, AmountBand(ctx.amount), r)
  BY <1>3
<1> HIDE DEF class, d
<1>5. /\ d.retry <=> CAUSE_CLASS_TRAITS[d.class].retry /\ ctx.prior < AttemptCap(t.reason)
      /\ \E r : d.rails = RailsFor(d.class, t.method, AmountBand(ctx.amount), r)
  BY <1>1, <1>2, <1>4
<1> QED BY <1>5 DEF d

\* What a nudge of the row taken for a failure offers can work.
LEMMA OfferWorks ==
  ASSUME Types, phase # "new", NEW g \in Rungs(case.row), g.do = "nudge"
  PROVE  LET rails == EffectiveRails(g.suggest, case.diagnosis)
         IN /\ "retry_same" \in rails =>
                 /\ CAUSE_CLASS_TRAITS[case.diagnosis.class].retry
                 /\ case.failure.ctx.prior < AttemptCap(case.tuple.reason)
            /\ case.diagnosis.class = "instrument_dead" /\ case.tuple.method = "upi"
                 => "upi_intent" \notin rails
<1> DEFINE f == case.failure
           t == case.tuple
           d == case.diagnosis
           row == case.row
           input == MatchInput(t, d, f.ctx)
<1>1. /\ f \in Failures /\ t = NormalizeErrorTuple(f.raw) /\ d = Diagnose(t, f.ctx)
      /\ row = ResolvePolicy(Table, input)
  BY DEF Types, CaseInv
<1>2. row \in Table /\ (row.catchAll \/ MatchesPolicy(row.match, input)) /\ CheckRow(row)
  BY <1>1, Ingested
<1>3. ~row.catchAll
  <2>1. g \in Touches(row)
    BY DEF Touches, IsTouch
  <2> QED BY <1>2, <2>1 DEF CheckRow
<1>4. /\ d.retry <=> CAUSE_CLASS_TRAITS[d.class].retry /\ f.ctx.prior < AttemptCap(t.reason)
      /\ \E retry : d.rails = RailsFor(d.class, t.method, AmountBand(f.ctx.amount), retry)
  BY <1>1, DiagnosisIs
<1>5. ASSUME "retry_same" \in EffectiveRails(g.suggest, d)
      PROVE  CAUSE_CLASS_TRAITS[d.class].retry /\ f.ctx.prior < AttemptCap(t.reason)
  <2>1. d.retry
    BY <1>5, Zenon DEF EffectiveRails
  <2> QED BY <1>4, <2>1, Zenon
<1>6. ASSUME d.class = "instrument_dead", t.method = "upi"
      PROVE  "upi_intent" \notin EffectiveRails(g.suggest, d)
  <2>1. "upi_intent" \notin g.suggest
    BY <1>1, <1>2, <1>3, <1>6, HandleAssumption
  <2>2. "upi_intent" \notin d.rails
    <3> HIDE DEF d, t, f
    <3> QED BY <1>4, <1>6 DEF RailsFor
  <2> QED BY <2>1, <2>2 DEF EffectiveRails
<1> QED BY <1>5, <1>6

\* What a message says can be done: it can be composed, with the link in it just when it
\* asks for money, and the rails it names are ones the failure has not ruled out
\* (composeMessage, railsFor, effectiveRails).
THEOREM SaysWhatWorksAlways == Spec => []SaysWhatWorks
<1>1. Types => SaysWhatWorks
  <2> SUFFICES ASSUME Types PROVE SaysWhatWorks
    OBVIOUS
  <2>1. RungsCompose
    BY OfCase, TouchComposes DEF Types, RungsCompose, Reads, Linked
  <2>2. RailsAllowed
    BY OfferWorks DEF RailsAllowed
  <2> QED BY <2>1, <2>2 DEF SaysWhatWorks
<1> QED BY <1>1, TypesAlways, PTL
=============================================================================
