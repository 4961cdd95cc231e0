------------------------------ MODULE Accounts ------------------------------
(***************************************************************************)
(* Who is signed in, which merchant a page is about, and the switch that   *)
(* turns sending on and off.  A browser keeps two cookies for all its      *)
(* tabs: the session, a signed token that names the user and the epoch it  *)
(* was issued under, and the slug of the merchant picked.  A tab shows     *)
(* what the server rendered some time ago; a click sends the cookies of    *)
(* now, and the server resolves the merchant from them once more.  Polls   *)
(* keep the account switcher's badge current.  Meanwhile an operator       *)
(* changes passwords, access, slugs and modes by script.                   *)
(*                                                                         *)
(* Only tokens the server signed exist, and nothing in the program         *)
(* disables a user or deletes a merchant.                                  *)
(***************************************************************************)
EXTENDS Integers, Sequences, FiniteSets, Functions

CONSTANTS
  User,
  Shelf,        \* the merchants, in the order they were created
  Tab,          \* the tabs of one browser
  Access,       \* who may act for whom at first: [User -> SUBSET merchants]
  None,
  SESSION_TTL,
  MaxTime,      \* bound on the clock
  MaxActs,      \* bound: clicks, sign-ins and -outs, hours, scripts, requests that fail
  MaxPolls      \* bound: answers to a tab's polls on their way at once

Merchant == Range(Shelf)

ASSUME ShelfAssumption == Shelf \in Seq(Merchant) /\ Cardinality(Merchant) = Len(Shelf)
ASSUME AccessAssumption == Access \in [User -> SUBSET Merchant]
ASSUME BoundAssumption ==
  {SESSION_TTL, MaxTime, MaxActs, MaxPolls} \subseteq Nat /\ SESSION_TTL > 0

VARIABLES
  users,    \* epoch and memberships of each
  shops,    \* name (how often renamed: the slug) and live of each merchant
  now,
  jar,      \* the browser's cookies: session, and the slug picked
  login,    \* a sign-in on its way: the row as it was read
  page,     \* what each tab shows
  dialog,   \* the go-live dialog of a tab is open
  busy,     \* its switch waits for an answer
  call,     \* the switch's request, as the server has it
  refresh,  \* a render asked for, with the cookies it was asked with
  polls,    \* answers to its polls, on their way to it
  acts

vars == <<users, shops, now, jar, login, page, dialog, busy, call, refresh, polls, acts>>
server == <<users, shops, now, jar, login>>

Session == [user : User, epoch : Nat, proved : Nat, exp : Nat]
Slugs == Merchant \X Nat
Jar == [session : {None} \cup Session, pick : {None} \cup Slugs]
Shown == [at : {"login", "empty", "home"}, shop : {None} \cup Merchant, slug : {None} \cup Slugs,
          all : SUBSET Slugs, mode : BOOLEAN, badge : BOOLEAN, moved : BOOLEAN]
Request == [kind : {"preview", "post"}, live : BOOLEAN, cookies : Jar,
            stage : {"sent", "resolved", "written", "answered"}, target : {None} \cup Merchant,
            shown : {None} \cup Merchant, moved : BOOLEAN, fit : BOOLEAN]

TypeOK ==
  /\ users \in [User -> [epoch : Nat, member : SUBSET Merchant]]
  /\ shops \in [Merchant -> [name : Nat, live : BOOLEAN]]
  /\ now \in Nat /\ jar \in Jar
  /\ login \in {None} \cup [user : User, epoch : Nat, proved : Nat]
  /\ page \in [Tab -> Shown]
  /\ call \in [Tab -> {None} \cup Request]
  /\ refresh \in [Tab -> {None} \cup [cookies : Jar, moved : BOOLEAN]]
  /\ DOMAIN polls = Tab /\ \A t \in Tab : \A a \in polls[t] : \A s \in DOMAIN a : a[s] \in BOOLEAN

Slug(m) == <<m, shops[m].name>>

\* ---- who is asking, and for which merchant ----
VerifySession(s) == s # None /\ s.exp > now

\* The user, if there is one: the epoch must be the user's current one.
CurrentUser(s) == IF VerifySession(s) /\ s.epoch = users[s.user].epoch THEN {s.user} ELSE {}

ListMerchantsForUser(u) == Merchant \cap users[u].member

Listed(u) == {Slug(m) : m \in users[u].member}

\* The first of them, in the order they were created.
Oldest(all) ==
  {Shelf[i] : i \in {i \in DOMAIN Shelf : Shelf[i] \in all /\ \A j \in 1..(i - 1) : Shelf[j] \notin all}}

\* The merchant picked, or the user's first when the slug is none of theirs.
SelectMerchant(cookies) ==
  UNION {LET all == ListMerchantsForUser(u)
             picked == {m \in all : Slug(m) = cookies.pick}
         IN IF picked # {} THEN picked ELSE Oldest(all) : u \in CurrentUser(cookies.session)}

\* Faulty variant: the cookie is not looked at.
FirstMerchantId(cookies) ==
  UNION {Oldest(ListMerchantsForUser(u)) : u \in CurrentUser(cookies.session)}

\* What the routes act on.
CurrentMerchantId(cookies) == SelectMerchant(cookies)

\* ---- initial state: someone has signed in, and someone may be about to ----
Blank == [at |-> "login", shop |-> None, slug |-> None, all |-> {}, mode |-> FALSE,
          badge |-> FALSE, moved |-> FALSE]

Init ==
  /\ users = [u \in User |-> [epoch |-> 0, member |-> Access[u]]]
  /\ shops = [m \in Merchant |-> [name |-> 0, live |-> FALSE]]
  /\ now = 0
  /\ \E u \in User :
       jar = [session |-> [user |-> u, epoch |-> 0, proved |-> 0, exp |-> SESSION_TTL], pick |-> None]
  /\ login \in {None} \cup {[user |-> u, epoch |-> 0, proved |-> 0] : u \in User}
  /\ page = [t \in Tab |-> Blank]
  /\ dialog = [t \in Tab |-> FALSE] /\ busy = [t \in Tab |-> FALSE]
  /\ call = [t \in Tab |-> None] /\ refresh = [t \in Tab |-> None]
  /\ polls = [t \in Tab |-> {}]
  /\ acts = 0

Acts == acts < MaxActs /\ acts' = acts + 1

\* moved is history: the cookies, or who may act for whom, have changed since
\* the page was asked for.  A request has its cookies but not yet its merchant.
Marked(f) == [t \in Tab |-> IF f[t] = None THEN None ELSE [f[t] EXCEPT !.moved = TRUE]]

PagesMoved == page' = [t \in Tab |-> [page[t] EXCEPT !.moved = TRUE]]

CookiesChange == PagesMoved /\ refresh' = Marked(refresh)

AccessChanges == PagesMoved /\ call' = Marked(call)

\* ---- signing in and out ----
\* One read gives the hash and the epoch; the hash is then checked, slowly.
LoginReads(u) ==
  /\ login = None /\ Acts
  /\ login' = [user |-> u, epoch |-> users[u].epoch, proved |-> users[u].epoch]
  /\ UNCHANGED <<users, shops, now, jar, page, dialog, busy, call, refresh, polls>>

\* Faulty variant: the epoch is read again when the token is signed.
TokenOfNow == [user |-> login.user, epoch |-> users[login.user].epoch, proved |-> login.proved,
               exp |-> now + SESSION_TTL]

\* proved is history: the password that was shown, as the epoch it came with.
Token == [user |-> login.user, epoch |-> login.epoch, proved |-> login.proved,
          exp |-> now + SESSION_TTL]

LoginSigns ==
  /\ login # None
  /\ jar' = [jar EXCEPT !.session = Token]
  /\ login' = None
  /\ CookiesChange
  /\ UNCHANGED <<users, shops, now, dialog, busy, call, polls, acts>>

\* The pick outlives the session.
Logout ==
  /\ jar.session # None /\ Acts
  /\ jar' = [jar EXCEPT !.session = None]
  /\ UNCHANGED <<users, shops, now, login, page, dialog, busy, call, refresh, polls>>

\* A token and its cookie expire together; a request may still carry it.
Tick ==
  /\ now < MaxTime /\ now' = now + 1 /\ Acts
  /\ jar' = IF jar.session # None /\ jar.session.exp <= now' THEN [jar EXCEPT !.session = None] ELSE jar
  /\ UNCHANGED <<users, shops, login, page, dialog, busy, call, refresh, polls>>

\* ---- the operator's scripts ----
Script == /\ Acts
          /\ UNCHANGED <<now, jar, login, dialog, busy, refresh, polls>>

ChangePassword(u) ==
  /\ Script /\ users' = [users EXCEPT ![u].epoch = @ + 1] /\ UNCHANGED <<shops, page, call>>

Grant(u, m) ==
  /\ Script /\ AccessChanges /\ m \notin users[u].member
  /\ users' = [users EXCEPT ![u].member = @ \cup {m}] /\ UNCHANGED shops

Revoke(u, m) ==
  /\ Script /\ AccessChanges /\ m \in users[u].member
  /\ users' = [users EXCEPT ![u].member = @ \ {m}] /\ UNCHANGED shops

Rename(m) == /\ Script /\ AccessChanges
             /\ shops' = [shops EXCEPT ![m].name = @ + 1] /\ UNCHANGED users

\* The script's mode command sets the flag and wakes nobody.
SetMode(m, live) ==
  /\ Script /\ shops[m].live # live
  /\ shops' = [shops EXCEPT ![m].live = live] /\ UNCHANGED <<users, page, call>>

\* ---- rendering ----
Ask(t) == refresh' = [refresh EXCEPT ![t] = [cookies |-> jar, moved |-> FALSE]]

\* A navigation by hand.
Load(t) ==
  /\ refresh[t] = None /\ page[t].at # "home" /\ jar.session # None
  /\ Ask(t)
  /\ UNCHANGED <<server, page, dialog, busy, call, polls, acts>>

\* The layout sends whoever it does not know to the login page, and the badge
\* starts over from what was rendered.
Render(t) ==
  /\ refresh[t] # None
  /\ LET cookies == refresh[t].cookies
     IN \E at \in {IF CurrentUser(cookies.session) = {} THEN "login"
                   ELSE IF SelectMerchant(cookies) = {} THEN "empty" ELSE "home"} :
          IF at = "home"
          THEN /\ \E m \in SelectMerchant(cookies) :
                    page' = [page EXCEPT ![t] = [at |-> at, shop |-> m, slug |-> Slug(m),
                                                 all |-> UNION {Listed(u) : u \in CurrentUser(cookies.session)},
                                                 mode |-> shops[m].live, badge |-> shops[m].live,
                                                 moved |-> refresh[t].moved]]
               /\ UNCHANGED <<dialog, busy>>
          ELSE /\ page' = [page EXCEPT ![t] = [Blank EXCEPT !.at = at]]
               /\ dialog' = [dialog EXCEPT ![t] = FALSE]
               /\ busy' = [busy EXCEPT ![t] = FALSE]
  /\ refresh' = [refresh EXCEPT ![t] = None]
  /\ UNCHANGED <<server, call, polls, acts>>

\* ---- the account switcher ----
\* The switcher is disabled while its render is on its way and behind the
\* dialog; a slug the page already shows is not picked again.
Pick(t, slug) ==
  /\ page[t].at = "home" /\ refresh[t] = None /\ ~dialog[t] /\ Acts
  /\ slug \in page[t].all \ {page[t].slug}
  /\ jar' = [jar EXCEPT !.pick = slug]
  /\ PagesMoved
  /\ refresh' = [Marked(refresh) EXCEPT ![t] = [cookies |-> jar', moved |-> FALSE]]
  /\ UNCHANGED <<users, shops, now, login, dialog, busy, call, polls>>

\* The timer asks whether or not the last answer is in, so answers may overtake
\* one another.
PollAnswers(t) ==
  /\ page[t].at = "home" /\ Cardinality(polls[t]) < MaxPolls
  /\ \E u \in CurrentUser(jar.session) :
       polls' = [polls EXCEPT ![t] = @ \cup {[s \in Listed(u) |-> shops[s[1]].live]}]
  /\ UNCHANGED <<server, page, dialog, busy, call, refresh, acts>>

\* A keyed merge: an answer without the page's slug changes nothing.
Merge(t, answer) == IF page[t].slug \in DOMAIN answer THEN answer[page[t].slug] ELSE page[t].badge

PollLands(t, answer) ==
  /\ answer \in polls[t]
  /\ polls' = [polls EXCEPT ![t] = @ \ {answer}]
  /\ page' = IF page[t].at = "home" THEN [page EXCEPT ![t].badge = Merge(t, answer)] ELSE page
  /\ UNCHANGED <<server, dialog, busy, call, refresh, acts>>

\* ---- the switch ----
Send(t, kind, live) ==
  /\ call' = [call EXCEPT ![t] = [kind |-> kind, live |-> live, cookies |-> jar, stage |-> "sent",
                                  target |-> None, shown |-> page[t].shop, moved |-> page[t].moved,
                                  fit |-> jar.session # None
                                          /\ jar.session.proved = users[jar.session.user].epoch]]
  /\ busy' = [busy EXCEPT ![t] = TRUE]

\* A bound: a tab's former request has been handled before its next.
Idle(t) == page[t].at = "home" /\ ~busy[t] /\ call[t] = None

\* Pausing asks nobody; going live opens the dialog first.  The control goes by
\* the mode the page was rendered with.
OnChange(t, live) ==
  /\ Idle(t) /\ ~dialog[t] /\ live # page[t].mode /\ Acts
  /\ Send(t, IF live THEN "preview" ELSE "post", live)
  /\ UNCHANGED <<server, page, dialog, refresh, polls>>

Confirm(t) ==
  /\ Idle(t) /\ dialog[t]
  /\ Send(t, "post", TRUE)
  /\ UNCHANGED <<server, page, dialog, refresh, polls, acts>>

Cancel(t) ==
  /\ dialog[t] /\ ~busy[t]
  /\ dialog' = [dialog EXCEPT ![t] = FALSE]
  /\ UNCHANGED <<server, page, busy, call, refresh, polls, acts>>

\* The route: who is asking, and for which merchant; without one it answers
\* that and does nothing.
Resolve(t) ==
  /\ call[t] # None /\ call[t].stage = "sent"
  /\ LET found == CurrentMerchantId(call[t].cookies)
     IN \/ \E m \in found :
             call' = [call EXCEPT ![t].stage = IF call[t].kind = "preview" THEN "answered" ELSE "resolved",
                                  ![t].target = m]
        \/ found = {} /\ call' = [call EXCEPT ![t].stage = "answered"]
  /\ UNCHANGED <<server, page, dialog, busy, refresh, polls, acts>>

\* POST: the flag is written; what going live does to the parked cases is
\* Recovery's.
Write(t) ==
  /\ call[t] # None /\ call[t].stage = "resolved"
  /\ shops' = [shops EXCEPT ![call[t].target].live = call[t].live]
  /\ call' = [call EXCEPT ![t].stage = "written"]
  /\ UNCHANGED <<users, now, jar, login, page, dialog, busy, refresh, polls, acts>>

\* Faulty variant: only an answer ends the wait, not a failure.
SettleOnAnswer(t, kind, failed) ==
  /\ busy' = IF failed THEN busy ELSE [busy EXCEPT ![t] = FALSE]
  /\ dialog' = [dialog EXCEPT ![t] = kind = "preview"]
  /\ IF kind = "post" THEN Ask(t) ELSE UNCHANGED refresh

\* A preview, or the want of one, opens the dialog; a commit closes it and
\* renders the page anew.
Settle(t, kind, failed) ==
  /\ busy' = [busy EXCEPT ![t] = FALSE]
  /\ dialog' = [dialog EXCEPT ![t] = kind = "preview"]
  /\ IF kind = "post" THEN Ask(t) ELSE UNCHANGED refresh

Answer(t) ==
  /\ call[t] # None /\ call[t].stage \in {"answered", "written"}
  /\ call' = [call EXCEPT ![t] = None]
  /\ IF busy[t] THEN Settle(t, call[t].kind, FALSE) ELSE UNCHANGED <<busy, dialog, refresh>>
  /\ UNCHANGED <<server, page, polls, acts>>

\* The fetch throws; the server may have the request all the same.
FetchFails(t) ==
  /\ call[t] # None /\ busy[t] /\ Acts
  /\ Settle(t, call[t].kind, TRUE)
  /\ \/ call[t].stage = "sent" /\ call' = [call EXCEPT ![t] = None]
     \/ UNCHANGED call
  /\ UNCHANGED <<server, page, polls>>

-----------------------------------------------------------------------------
InTab(t) == \/ Load(t) \/ Cancel(t) \/ Confirm(t)
            \/ \E live \in BOOLEAN : OnChange(t, live)
            \/ \E slug \in page[t].all : Pick(t, slug)

\* What the browser and the server do by themselves.
Served(t) == Render(t) \/ Resolve(t) \/ Write(t) \/ Answer(t)

Next ==
  \/ \E t \in Tab : InTab(t) \/ Served(t) \/ FetchFails(t) \/ PollAnswers(t)
                    \/ \E answer \in polls[t] : PollLands(t, answer)
  \/ \E u \in User : LoginReads(u) \/ ChangePassword(u)
  \/ \E u \in User, m \in Merchant : Grant(u, m) \/ Revoke(u, m)
  \/ \E m \in Merchant : Rename(m) \/ \E live \in BOOLEAN : SetMode(m, live)
  \/ LoginSigns \/ Logout \/ Tick

Spec == Init /\ [][Next]_vars

\* A request is answered, the timer keeps polling, and each answer arrives.
Fairness ==
  \A t \in Tab :
    /\ WF_vars(Served(t)) /\ WF_vars(PollAnswers(t))
    /\ WF_vars(\E answer \in polls[t] : PollLands(t, answer))

FairSpec == Spec /\ Fairness

-----------------------------------------------------------------------------
\* ---- properties ----

\* The requests that have just changed a merchant.
Written == {call[t] : t \in {x \in Tab : call[x] # None /\ call[x].stage = "written"}}

\* A click changes the mode of the merchant its page shows ("a click on the
\* Sandbox page would change the live account's settings", merchant-context.ts),
\* unless another merchant was picked, somebody else signed in, or slugs or
\* memberships changed after the page had been asked for.
ClicksStayOnPage == \A r \in Written : r.target = r.shown \/ r.moved

\* After a password is changed no session that an older password opened, a
\* sign-in that was then on its way included, can change anything ("every
\* existing session is now signed out", user.ts).
OldPasswordIsOut == \A r \in Written : r.fit

\* However its answers are delayed and overtaken, the switcher's badge comes to
\* show the merchant's mode, as long as it is polled for and the merchant still
\* goes by the slug of the page.
BadgeCatchesUp ==
  \A t \in Tab : []<>(\/ page[t].at # "home"
                      \/ page[t].badge = shops[page[t].shop].live
                      \/ \A u \in CurrentUser(jar.session) : page[t].slug \notin Listed(u))

\* Whatever becomes of a request, the switch it was made with can be used again.
ClickSettles == \A t \in Tab : []<>~busy[t]

\* No tab is left behind: its badge comes to tell the mode, its switch comes free.
TabsCatchUp == BadgeCatchesUp /\ ClickSettles
=============================================================================
