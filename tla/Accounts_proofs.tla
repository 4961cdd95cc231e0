---------------------------- MODULE Accounts_proofs ----------------------------
(* Proofs about sessions, pages and the switch, for any users, merchants, tabs    *)
(* and scripts.                                                                   *)
EXTENDS Accounts, TLAPS

----------------------------------------------------------------------------
(* The inductive invariant.                                                    *)

\* A token carries the epoch of the password that was shown for it.
Honest(token) == /\ token.proved = token.epoch
                 /\ token.epoch <= users[token.user].epoch

TokensHonest == /\ jar.session # None => Honest(jar.session)
                /\ login # None => Honest(login)

\* A request that has found its merchant was sent under the password of its time;
\* one that was not has a session whose epoch is past.
RequestFit(t) == call[t] # None =>
  /\ call[t].cookies.session # None =>
       /\ call[t].cookies.session.epoch <= users[call[t].cookies.session.user].epoch
       /\ call[t].fit \/ call[t].cookies.session.epoch < users[call[t].cookies.session.user].epoch
  /\ call[t].stage \in {"resolved", "written"} => call[t].fit

\* As long as nothing moved, the cookies still select the merchant a page shows, are
\* those its render was asked with, and are those its request carries.
PageTrue(t) == page[t].at = "home" /\ ~page[t].moved => SelectMerchant(jar) \subseteq {page[t].shop}

RenderTrue(t) == refresh[t] # None /\ ~refresh[t].moved =>
  jar.session \in {None, refresh[t].cookies.session} /\ jar.pick = refresh[t].cookies.pick

RequestTrue(t) == call[t] # None /\ ~call[t].moved =>
  /\ call[t].stage = "sent" => SelectMerchant(call[t].cookies) \subseteq {call[t].shown}
  /\ call[t].stage \in {"resolved", "written"} => call[t].target = call[t].shown

IInv == TypeOK /\ TokensHonest
        /\ \A t \in Tab : RequestFit(t) /\ PageTrue(t) /\ RenderTrue(t) /\ RequestTrue(t)

----------------------------------------------------------------------------
(* Whose merchant is selected.                                                 *)

\* SelectMerchant, of given users, merchants and time.
Known(us, t, s) == IF s # None /\ s.exp > t /\ s.epoch = us[s.user].epoch THEN {s.user} ELSE {}

Chosen(us, sh, u, pick) ==
  LET all == Merchant \cap us[u].member
      picked == {m \in all : <<m, sh[m].name>> = pick}
  IN IF picked # {} THEN picked ELSE Oldest(all)

SelectOf(us, sh, t, k) == UNION {Chosen(us, sh, u, k.pick) : u \in Known(us, t, k.session)}

LEMMA SelectMerchantIs == \A k : SelectMerchant(k) = SelectOf(users, shops, now, k)
  BY DEF SelectMerchant, SelectOf, Chosen, Known, CurrentUser, VerifySession,
         ListMerchantsForUser, Slug

LEMMA JarSelects == SelectMerchant(jar)' = SelectOf(users', shops', now', jar')
  BY DEF SelectMerchant, SelectOf, Chosen, Known, CurrentUser, VerifySession,
         ListMerchantsForUser, Slug

LEMMA CallSelects ==
  ASSUME NEW t
  PROVE  SelectMerchant(call[t].cookies)' = SelectOf(users', shops', now', call'[t].cookies)
  BY DEF SelectMerchant, SelectOf, Chosen, Known, CurrentUser, VerifySession,
         ListMerchantsForUser, Slug

LEMMA ShelfFacts == Len(Shelf) \in Nat /\ DOMAIN Shelf = 1..Len(Shelf)
  BY ShelfAssumption

\* The oldest merchant of a set is one.
LEMMA OldestIsOne ==
  ASSUME NEW all, NEW a \in Oldest(all), NEW b \in Oldest(all)
  PROVE  a = b
  <1>1. PICK i \in DOMAIN Shelf : a = Shelf[i] /\ Shelf[i] \in all /\ \A j \in 1..(i - 1) : Shelf[j] \notin all
    BY DEF Oldest
  <1>2. PICK k \in DOMAIN Shelf : b = Shelf[k] /\ Shelf[k] \in all /\ \A j \in 1..(k - 1) : Shelf[j] \notin all
    BY DEF Oldest
  <1>3. i \in 1..Len(Shelf) /\ k \in 1..Len(Shelf) /\ Len(Shelf) \in Nat
    BY ShelfFacts
  <1>4. ~(i < k) /\ ~(k < i)
    BY <1>1, <1>2, <1>3
  <1>. QED BY <1>1, <1>2, <1>3, <1>4

\* Cookies select one merchant at most.
LEMMA SelectIsOne ==
  ASSUME NEW us, NEW sh, NEW t, NEW k, NEW a \in SelectOf(us, sh, t, k), NEW b \in SelectOf(us, sh, t, k)
  PROVE  a = b
  <1>1. PICK u \in Known(us, t, k.session) : a \in Chosen(us, sh, u, k.pick)
    BY DEF SelectOf
  <1>2. b \in Chosen(us, sh, u, k.pick)
    BY DEF SelectOf, Known
  <1>. DEFINE all == Merchant \cap us[u].member
              picked == {m \in all : <<m, sh[m].name>> = k.pick}
  <1>3. CASE picked # {}
    BY <1>1, <1>2, <1>3 DEF Chosen
  <1>4. CASE picked = {}
    <2>1. a \in Oldest(all) /\ b \in Oldest(all)
      BY <1>1, <1>2, <1>4 DEF Chosen
    <2>. QED BY <2>1, OldestIsOne
  <1>. QED BY <1>3, <1>4

\* A session only expires and a password only changes; all else being equal, the same
\* cookies select the same merchant or none.
LEMMA SelectKeeps ==
  ASSUME NEW us, NEW us2, NEW sh, NEW sh2, NEW t, NEW t2, NEW k,
         k.session # None =>
           /\ k.session.exp > t2 => k.session.exp > t
           /\ k.session.epoch = us2[k.session.user].epoch => k.session.epoch = us[k.session.user].epoch
           /\ us2[k.session.user].member = us[k.session.user].member,
         \A m \in Merchant : sh2[m].name = sh[m].name
  PROVE  SelectOf(us2, sh2, t2, k) \subseteq SelectOf(us, sh, t, k)
  <1>. SUFFICES ASSUME NEW m \in SelectOf(us2, sh2, t2, k) PROVE m \in SelectOf(us, sh, t, k)
    OBVIOUS
  <1>1. PICK u \in Known(us2, t2, k.session) : m \in Chosen(us2, sh2, u, k.pick)
    BY DEF SelectOf
  <1>2. u \in Known(us, t, k.session) /\ us2[u].member = us[u].member
    BY DEF Known
  <1>3. Chosen(us2, sh2, u, k.pick) = Chosen(us, sh, u, k.pick)
    <2>. DEFINE all == Merchant \cap us[u].member
    <2>1. {n \in all : <<n, sh2[n].name>> = k.pick} = {n \in all : <<n, sh[n].name>> = k.pick}
      OBVIOUS
    <2>. QED BY <1>2, <2>1 DEF Chosen
  <1>. QED BY <1>1, <1>2, <1>3 DEF SelectOf

LEMMA SelectIsMerchant == \A k : SelectMerchant(k) \subseteq Merchant
  <1>. SUFFICES ASSUME NEW k, NEW m \in SelectMerchant(k) PROVE m \in Merchant
    OBVIOUS
  <1>1. PICK u : m \in Chosen(users, shops, u, k.pick)
    BY SelectMerchantIs DEF SelectOf
  <1>. QED BY <1>1 DEF Chosen, Oldest

----------------------------------------------------------------------------
(* The types.                                                                  *)

LEMMA NatAssumption == SESSION_TTL \in Nat /\ MaxTime \in Nat
  BY BoundAssumption

LEMMA TypedRecords ==
  /\ \A k \in Jar, s \in {None} \cup Session : [k EXCEPT !.session = s] \in Jar
  /\ \A k \in Jar, s \in {None} \cup Slugs : [k EXCEPT !.pick = s] \in Jar
  /\ \A p \in Shown : [p EXCEPT !.moved = TRUE] \in Shown
  /\ \A p \in Shown, b \in BOOLEAN : [p EXCEPT !.badge = b] \in Shown
  /\ \A r \in [cookies : Jar, moved : BOOLEAN] :
       [r EXCEPT !.moved = TRUE] \in [cookies : Jar, moved : BOOLEAN]
  /\ \A r \in Request : [r EXCEPT !.moved = TRUE] \in Request
  /\ \A r \in Request, s \in {"sent", "resolved", "written", "answered"} :
       [r EXCEPT !.stage = s] \in Request
  /\ \A r \in Request, m \in Merchant, s \in {"sent", "resolved", "written", "answered"} :
       [r EXCEPT !.stage = s, !.target = m] \in Request
  <1>1. /\ \A k \in Jar, s \in {None} \cup Session : [k EXCEPT !.session = s] \in Jar
        /\ \A k \in Jar, s \in {None} \cup Slugs : [k EXCEPT !.pick = s] \in Jar
    BY DEF Jar
  <1>2. /\ \A p \in Shown : [p EXCEPT !.moved = TRUE] \in Shown
        /\ \A p \in Shown, b \in BOOLEAN : [p EXCEPT !.badge = b] \in Shown
    BY DEF Shown
  <1>3. \A r \in [cookies : Jar, moved : BOOLEAN] :
          [r EXCEPT !.moved = TRUE] \in [cookies : Jar, moved : BOOLEAN]
    OBVIOUS
  <1>4. \A r \in Request : [r EXCEPT !.moved = TRUE] \in Request
    BY DEF Request
  <1>5. \A r \in Request, s \in {"sent", "resolved", "written", "answered"} :
          [r EXCEPT !.stage = s] \in Request
    BY DEF Request
  <1>6. \A r \in Request, m \in Merchant, s \in {"sent", "resolved", "written", "answered"} :
          [r EXCEPT !.stage = s, !.target = m] \in Request
    BY DEF Request
  <1>. QED BY <1>1, <1>2, <1>3, <1>4, <1>5, <1>6

LEMMA TypeOfUsers ==
  ASSUME TypeOK, Next
  PROVE  /\ users' \in [User -> [epoch : Nat, member : SUBSET Merchant]]
         /\ shops' \in [Merchant -> [name : Nat, live : BOOLEAN]]
         /\ now' \in Nat
  <1>. USE DEF TypeOK
  <1>1. ASSUME NEW u \in User, ChangePassword(u) PROVE users' \in [User -> [epoch : Nat, member : SUBSET Merchant]]
    BY <1>1 DEF ChangePassword
  <1>2. ASSUME NEW u \in User, NEW m \in Merchant, Grant(u, m) \/ Revoke(u, m)
        PROVE users' \in [User -> [epoch : Nat, member : SUBSET Merchant]]
    <2>1. users[u].member \cup {m} \subseteq Merchant /\ users[u].member \ {m} \subseteq Merchant
      OBVIOUS
    <2>2. PICK all \in SUBSET Merchant : users' = [users EXCEPT ![u].member = all]
      BY <1>2, <2>1 DEF Grant, Revoke
    <2>. QED BY <2>2
  <1>3. ASSUME NEW m \in Merchant, Rename(m) PROVE shops' \in [Merchant -> [name : Nat, live : BOOLEAN]]
    BY <1>3 DEF Rename
  <1>4. ASSUME NEW m \in Merchant, NEW live \in BOOLEAN, SetMode(m, live)
        PROVE shops' \in [Merchant -> [name : Nat, live : BOOLEAN]]
    BY <1>4 DEF SetMode
  <1>5. ASSUME NEW t \in Tab, Write(t) PROVE shops' \in [Merchant -> [name : Nat, live : BOOLEAN]]
    <2>1. call[t].live \in BOOLEAN
      BY <1>5 DEF Write, Request
    <2>. DEFINE m == call[t].target  live == call[t].live
    <2>2. shops' = [shops EXCEPT ![m].live = live] /\ live \in BOOLEAN
      BY <1>5, <2>1 DEF Write
    <2>. HIDE DEF m, live
    <2>3. CASE m \in Merchant
      BY <2>2, <2>3
    <2>4. CASE m \notin Merchant
      BY <2>2, <2>4
    <2>. QED BY <2>3, <2>4
  <1>6. \/ UNCHANGED users
        \/ \E u \in User : ChangePassword(u)
        \/ \E u \in User, m \in Merchant : Grant(u, m) \/ Revoke(u, m)
    BY DEF Next, InTab, Served, FetchFails, PollAnswers, PollLands, LoginReads, Rename, SetMode, LoginSigns,
           Logout, Tick, Load, Cancel, Confirm, OnChange, Pick, Render, Resolve, Write, Answer, Script, server
  <1>7. \/ UNCHANGED shops
        \/ \E m \in Merchant : Rename(m) \/ \E live \in BOOLEAN : SetMode(m, live)
        \/ \E t \in Tab : Write(t)
    BY DEF Next, InTab, Served, FetchFails, PollAnswers, PollLands, LoginReads, ChangePassword, Grant, Revoke,
           LoginSigns, Logout, Tick, Load, Cancel, Confirm, OnChange, Pick, Render, Resolve, Answer, server
  <1>8. UNCHANGED now \/ now' = now + 1
    BY DEF Next, InTab, Served, FetchFails, PollAnswers, PollLands, LoginReads, ChangePassword, Grant, Revoke,
           Rename, SetMode, LoginSigns, Logout, Tick, Load, Cancel, Confirm, OnChange, Pick, Render, Resolve,
           Write, Answer, Script, server
  <1>. QED BY <1>1, <1>2, <1>3, <1>4, <1>5, <1>6, <1>7, <1>8

LEMMA TypeOfCookies ==
  ASSUME TypeOK, Next
  PROVE  /\ jar' \in Jar
         /\ login' \in {None} \cup [user : User, epoch : Nat, proved : Nat]
  <1>. USE DEF TypeOK
  <1>1. ASSUME NEW u \in User, LoginReads(u)
        PROVE login' \in {None} \cup [user : User, epoch : Nat, proved : Nat]
    BY <1>1 DEF LoginReads
  <1>2. CASE LoginSigns
    <2>1. Token \in Session
      BY <1>2, NatAssumption DEF LoginSigns, Token, Session
    <2>. QED BY <1>2, <2>1, TypedRecords DEF LoginSigns
  <1>3. CASE Logout \/ Tick
    <2>1. jar' = jar \/ jar' = [jar EXCEPT !.session = None]
      BY <1>3 DEF Logout, Tick
    <2>2. login' = login
      BY <1>3 DEF Logout, Tick
    <2>3. [jar EXCEPT !.session = None] \in Jar
      BY TypedRecords
    <2>. QED BY <2>1, <2>2, <2>3
  <1>4. ASSUME NEW t \in Tab, NEW slug \in page[t].all, Pick(t, slug) PROVE jar' \in Jar
    <2>1. slug \in Slugs
      BY <1>4 DEF Shown
    <2>. QED BY <1>4, <2>1, TypedRecords DEF Pick
  <1>5. \/ UNCHANGED jar \/ LoginSigns \/ Logout \/ Tick
        \/ \E t \in Tab : \E slug \in page[t].all : Pick(t, slug)
    BY DEF Next, InTab, Served, FetchFails, PollAnswers, PollLands, LoginReads, ChangePassword, Grant, Revoke,
           Rename, SetMode, Load, Cancel, Confirm, OnChange, Render, Resolve, Write, Answer, Script, server
  <1>6. UNCHANGED login \/ login' = None \/ \E u \in User : LoginReads(u)
    BY DEF Next, InTab, Served, FetchFails, PollAnswers, PollLands, ChangePassword, Grant, Revoke, LoginSigns,
           Logout, Tick, Pick, Rename, SetMode, Load, Cancel, Confirm, OnChange, Render, Resolve, Write,
           Answer, Script, server
  <1>. QED BY <1>1, <1>2, <1>3, <1>4, <1>5, <1>6

Refresh == [cookies : Jar, moved : BOOLEAN]

LEMMA MarkedTyped ==
  ASSUME TypeOK
  PROVE  /\ PagesMoved => page' \in [Tab -> Shown]
         /\ Marked(call) \in [Tab -> {None} \cup Request]
         /\ Marked(refresh) \in [Tab -> {None} \cup Refresh]
  <1>1. PagesMoved => page' \in [Tab -> Shown]
    <2>1. \A t \in Tab : [page[t] EXCEPT !.moved = TRUE] \in Shown
      BY TypedRecords DEF TypeOK
    <2>. QED BY <2>1 DEF PagesMoved
  <1>2. Marked(call) \in [Tab -> {None} \cup Request]
    BY TypedRecords DEF TypeOK, Marked
  <1>3. Marked(refresh) \in [Tab -> {None} \cup Refresh]
    BY TypedRecords DEF TypeOK, Marked, Refresh
  <1>. QED BY <1>1, <1>2, <1>3

LEMMA RenderTyped ==
  ASSUME TypeOK, NEW t \in Tab, Render(t)
  PROVE  page' \in [Tab -> Shown]
  <1>1. refresh[t] \in Refresh
    BY DEF Render, TypeOK, Refresh
  <1>2. Blank \in Shown
    BY DEF Blank, Shown
  <1>3. \A at \in {"login", "empty"} : [Blank EXCEPT !.at = at] \in Shown
    BY DEF Blank, Shown
  <1>. DEFINE Home(m) == [at |-> "home", shop |-> m, slug |-> Slug(m),
                          all |-> UNION {Listed(u) : u \in CurrentUser(refresh[t].cookies.session)},
                          mode |-> shops[m].live, badge |-> shops[m].live,
                          moved |-> refresh[t].moved]
  <1>4. ASSUME NEW m \in Merchant PROVE Home(m) \in Shown
    <2>1. Slug(m) \in Slugs /\ shops[m].live \in BOOLEAN
      BY DEF TypeOK, Slug, Slugs
    <2>2. \A u \in User : Listed(u) \subseteq Slugs
      BY DEF TypeOK, Listed, Slug, Slugs
    <2>3. CurrentUser(refresh[t].cookies.session) \subseteq User
      BY <1>1 DEF Refresh, Jar, Session, CurrentUser, VerifySession
    <2>4. UNION {Listed(u) : u \in CurrentUser(refresh[t].cookies.session)} \subseteq Slugs
      BY <2>2, <2>3
    <2>5. refresh[t].moved \in BOOLEAN
      BY <1>1 DEF Refresh
    <2>. QED BY <2>1, <2>4, <2>5 DEF Shown
  <1>5. \/ \E m \in SelectMerchant(refresh[t].cookies) : page' = [page EXCEPT ![t] = Home(m)]
        \/ \E at \in {"login", "empty"} : page' = [page EXCEPT ![t] = [Blank EXCEPT !.at = at]]
    BY DEF Render
  <1>. HIDE DEF Home
  <1>6. page \in [Tab -> Shown]
    BY DEF TypeOK
  <1>7. CASE \E m \in SelectMerchant(refresh[t].cookies) : page' = [page EXCEPT ![t] = Home(m)]
    <2>1. PICK m \in SelectMerchant(refresh[t].cookies) : page' = [page EXCEPT ![t] = Home(m)]
      BY <1>7
    <2>2. m \in Merchant
      BY SelectIsMerchant
    <2>. QED BY <1>4, <1>6, <2>1, <2>2
  <1>. QED BY <1>3, <1>5, <1>6, <1>7

LEMMA TypeOfPages ==
  ASSUME TypeOK, Next
  PROVE  page' \in [Tab -> Shown]
  <1>1. ASSUME NEW t \in Tab, NEW answer \in polls[t], PollLands(t, answer) PROVE page' \in [Tab -> Shown]
    <2>1. page[t] \in Shown /\ Merge(t, answer) \in BOOLEAN
      <3>1. page[t] \in Shown /\ page[t].badge \in BOOLEAN
        BY DEF TypeOK, Shown
      <3>2. page[t].slug \in DOMAIN answer => answer[page[t].slug] \in BOOLEAN
        BY DEF TypeOK
      <3>. QED BY <3>1, <3>2 DEF Merge
    <2>2. [page[t] EXCEPT !.badge = Merge(t, answer)] \in Shown
      BY <2>1, TypedRecords
    <2>. QED BY <1>1, <2>2 DEF PollLands, TypeOK
  <1>2. \/ UNCHANGED page \/ PagesMoved
        \/ \E t \in Tab : Render(t) \/ \E answer \in polls[t] : PollLands(t, answer)
    BY DEF Next, InTab, Served, FetchFails, PollAnswers, LoginReads, ChangePassword, Grant, Revoke, Pick,
           Rename, SetMode, LoginSigns, Logout, Tick, Load, Cancel, Confirm, OnChange, Resolve, Write,
           Answer, Script, server, AccessChanges, CookiesChange
  <1>. QED BY <1>1, <1>2, RenderTyped, MarkedTyped DEF TypeOK

LEMMA SendTyped ==
  ASSUME TypeOK, NEW t \in Tab, NEW kind \in {"preview", "post"}, NEW live \in BOOLEAN, Send(t, kind, live)
  PROVE  call' \in [Tab -> {None} \cup Request]
  <1>. DEFINE fit == jar.session # None /\ jar.session.proved = users[jar.session.user].epoch
  <1>1. page[t].shop \in {None} \cup Merchant /\ page[t].moved \in BOOLEAN /\ jar \in Jar
    BY DEF TypeOK, Shown
  <1>2. fit \in BOOLEAN
    OBVIOUS
  <1>3. call' = [call EXCEPT ![t] = [kind |-> kind, live |-> live, cookies |-> jar, stage |-> "sent",
                                     target |-> None, shown |-> page[t].shop, moved |-> page[t].moved,
                                     fit |-> fit]]
    BY DEF Send
  <1>. HIDE DEF fit
  <1>4. [kind |-> kind, live |-> live, cookies |-> jar, stage |-> "sent", target |-> None,
         shown |-> page[t].shop, moved |-> page[t].moved, fit |-> fit] \in Request
    BY <1>1, <1>2 DEF Request
  <1>. QED BY <1>3, <1>4 DEF TypeOK

LEMMA ResolveTyped ==
  ASSUME TypeOK, NEW t \in Tab, Resolve(t)
  PROVE  call' \in [Tab -> {None} \cup Request]
  <1>1. call[t] \in Request
    BY DEF Resolve, TypeOK
  <1>2. PICK r : /\ call' = [call EXCEPT ![t] = r]
                 /\ \/ \E m \in Merchant, s \in {"answered", "resolved"} :
                         r = [call[t] EXCEPT !.stage = s, !.target = m]
                    \/ r = [call[t] EXCEPT !.stage = "answered"]
    <2>1. CASE \E m \in CurrentMerchantId(call[t].cookies) :
                 call' = [call EXCEPT ![t].stage = IF call[t].kind = "preview" THEN "answered" ELSE "resolved",
                                      ![t].target = m]
      <3>1. PICK m \in CurrentMerchantId(call[t].cookies) :
              call' = [call EXCEPT ![t].stage = IF call[t].kind = "preview" THEN "answered" ELSE "resolved",
                                   ![t].target = m]
        BY <2>1
      <3>2. m \in Merchant
        BY SelectIsMerchant DEF CurrentMerchantId
      <3>. DEFINE s == IF call[t].kind = "preview" THEN "answered" ELSE "resolved"
      <3>3. s \in {"answered", "resolved"}
        OBVIOUS
      <3>4. call' = [call EXCEPT ![t] = [call[t] EXCEPT !.stage = s, !.target = m]]
        BY <3>1 DEF TypeOK
      <3>. QED BY <3>2, <3>3, <3>4
    <2>2. CASE call' = [call EXCEPT ![t].stage = "answered"]
      BY <2>2
    <2>. QED BY <2>1, <2>2 DEF Resolve
  <1>3. r \in Request
    <2>1. ASSUME NEW m \in Merchant, NEW s \in {"answered", "resolved"},
                 r = [call[t] EXCEPT !.stage = s, !.target = m]
          PROVE  r \in Request
      BY <1>1, <2>1, TypedRecords
    <2>2. [call[t] EXCEPT !.stage = "answered"] \in Request
      BY <1>1, TypedRecords
    <2>. QED BY <1>2, <2>1, <2>2
  <1>. QED BY <1>2, <1>3 DEF TypeOK

LEMMA TypeOfRequests ==
  ASSUME TypeOK, Next
  PROVE  call' \in [Tab -> {None} \cup Request]
  <1>1. ASSUME NEW t \in Tab, NEW live \in BOOLEAN, OnChange(t, live)
        PROVE call' \in [Tab -> {None} \cup Request]
    BY <1>1, SendTyped DEF OnChange
  <1>2. ASSUME NEW t \in Tab, Confirm(t) PROVE call' \in [Tab -> {None} \cup Request]
    BY <1>2, SendTyped DEF Confirm
  <1>3. ASSUME NEW t \in Tab, Write(t) PROVE call' \in [Tab -> {None} \cup Request]
    <2>1. call[t] \in Request
      BY <1>3 DEF Write, TypeOK
    <2>2. [call[t] EXCEPT !.stage = "written"] \in Request
      BY <2>1, TypedRecords
    <2>. QED BY <1>3, <2>2 DEF Write, TypeOK
  <1>4. ASSUME NEW t \in Tab, Answer(t) \/ FetchFails(t) PROVE call' \in [Tab -> {None} \cup Request]
    BY <1>4 DEF Answer, FetchFails, TypeOK
  <1>5. \/ UNCHANGED call \/ call' = Marked(call)
        \/ \E t \in Tab : \/ Confirm(t) \/ Write(t) \/ Answer(t) \/ FetchFails(t) \/ Resolve(t)
                          \/ \E live \in BOOLEAN : OnChange(t, live)
    BY DEF Next, InTab, Served, PollAnswers, PollLands, LoginReads, ChangePassword, Grant, Revoke, Pick,
           Rename, SetMode, LoginSigns, Logout, Tick, Load, Cancel, Render, Script, server, AccessChanges
  <1>. QED BY <1>1, <1>2, <1>3, <1>4, <1>5, ResolveTyped, MarkedTyped DEF TypeOK

LEMMA AskTyped ==
  ASSUME TypeOK, NEW t \in Tab, Ask(t)
  PROVE  refresh' \in [Tab -> {None} \cup Refresh]
  <1>1. [cookies |-> jar, moved |-> FALSE] \in Refresh
    BY DEF TypeOK, Refresh
  <1>. QED BY <1>1 DEF Ask, TypeOK, Refresh

LEMMA TypeOfRenders ==
  ASSUME TypeOK, Next
  PROVE  refresh' \in [Tab -> {None} \cup Refresh]
  <1>1. ASSUME NEW t \in Tab, NEW slug \in page[t].all, Pick(t, slug)
        PROVE  refresh' \in [Tab -> {None} \cup Refresh]
    <2>1. [cookies |-> jar', moved |-> FALSE] \in Refresh
      BY TypeOfCookies DEF Refresh
    <2>. QED BY <1>1, <2>1, MarkedTyped DEF Pick
  <1>2. ASSUME NEW t \in Tab, Render(t) PROVE refresh' \in [Tab -> {None} \cup Refresh]
    BY <1>2 DEF Render, TypeOK, Refresh
  <1>3. \/ UNCHANGED refresh \/ refresh' = Marked(refresh)
        \/ \E t \in Tab : Ask(t) \/ Render(t) \/ \E slug \in page[t].all : Pick(t, slug)
    BY DEF Next, InTab, Served, PollAnswers, PollLands, LoginReads, ChangePassword, Grant, Revoke, Confirm,
           Rename, SetMode, LoginSigns, Logout, Tick, Load, Cancel, Script, server, CookiesChange,
           OnChange, Resolve, Write, Answer, FetchFails, Settle
  <1>. QED BY <1>1, <1>2, <1>3, AskTyped, MarkedTyped DEF TypeOK, Refresh

LEMMA TypeOfPolls ==
  ASSUME TypeOK, Next
  PROVE  /\ DOMAIN polls' = Tab
         /\ \A t \in Tab : \A a \in polls'[t] : \A s \in DOMAIN a : a[s] \in BOOLEAN
  <1>1. ASSUME NEW t \in Tab, PollAnswers(t)
        PROVE  /\ DOMAIN polls' = Tab
               /\ \A x \in Tab : \A a \in polls'[x] : \A s \in DOMAIN a : a[s] \in BOOLEAN
    <2>1. PICK u \in CurrentUser(jar.session) :
            polls' = [polls EXCEPT ![t] = @ \cup {[s \in Listed(u) |-> shops[s[1]].live]}]
      BY <1>1 DEF PollAnswers
    <2>2. u \in User
      BY DEF TypeOK, Jar, Session, CurrentUser, VerifySession
    <2>. DEFINE answer == [s \in Listed(u) |-> shops[s[1]].live]
    <2>3. \A s \in Listed(u) : shops[s[1]].live \in BOOLEAN
      BY <2>2 DEF TypeOK, Listed, Slug
    <2>4. \A s \in DOMAIN answer : answer[s] \in BOOLEAN
      BY <2>3
    <2>5. polls' = [polls EXCEPT ![t] = polls[t] \cup {answer}]
      BY <2>1
    <2>. HIDE DEF answer
    <2>. QED BY <2>4, <2>5 DEF TypeOK
  <1>2. ASSUME NEW t \in Tab, NEW answer \in polls[t], PollLands(t, answer)
        PROVE  /\ DOMAIN polls' = Tab
               /\ \A x \in Tab : \A a \in polls'[x] : \A s \in DOMAIN a : a[s] \in BOOLEAN
    <2>1. DOMAIN polls' = Tab /\ \A x \in Tab : polls'[x] \subseteq polls[x]
      BY <1>2 DEF PollLands, TypeOK
    <2>. QED BY <2>1 DEF TypeOK
  <1>3. \/ UNCHANGED polls
        \/ \E t \in Tab : PollAnswers(t) \/ \E answer \in polls[t] : PollLands(t, answer)
    BY DEF Next, InTab, Served, LoginReads, ChangePassword, Grant, Revoke, Confirm, Pick, Render,
           Rename, SetMode, LoginSigns, Logout, Tick, Load, Cancel, Script, server,
           OnChange, Resolve, Write, Answer, FetchFails
  <1>. QED BY <1>1, <1>2, <1>3 DEF TypeOK

LEMMA TypeKeeps == TypeOK /\ Next => TypeOK'
  BY TypeOfUsers, TypeOfCookies, TypeOfPages, TypeOfRequests, TypeOfRenders, TypeOfPolls
  DEF TypeOK, Refresh

----------------------------------------------------------------------------
(* Passwords: a token is never worth more than the password shown for it.      *)

LEMMA EpochsGrow ==
  ASSUME TypeOK, Next
  PROVE  \A u \in User : users[u].epoch <= users'[u].epoch /\ users[u].epoch \in Nat /\ users'[u].epoch \in Nat
  <1>0. \A u \in User : users[u].epoch \in Nat /\ users'[u].epoch \in Nat
    BY TypeOfUsers DEF TypeOK
  <1>1. ASSUME NEW v \in User, ChangePassword(v) PROVE \A u \in User : users[u].epoch <= users'[u].epoch
    BY <1>0, <1>1 DEF ChangePassword, TypeOK
  <1>2. ASSUME NEW v \in User, NEW m \in Merchant, Grant(v, m) \/ Revoke(v, m)
        PROVE \A u \in User : users[u].epoch <= users'[u].epoch
    <2>1. \A u \in User : users'[u].epoch = users[u].epoch
      BY <1>2 DEF Grant, Revoke, TypeOK
    <2>. QED BY <1>0, <2>1
  <1>3. \/ UNCHANGED users
        \/ \E u \in User : ChangePassword(u)
        \/ \E u \in User, m \in Merchant : Grant(u, m) \/ Revoke(u, m)
    BY DEF Next, InTab, Served, FetchFails, PollAnswers, PollLands, LoginReads, Rename, SetMode, LoginSigns,
           Logout, Tick, Load, Cancel, Confirm, OnChange, Pick, Render, Resolve, Write, Answer, Script, server
  <1>. QED BY <1>0, <1>1, <1>2, <1>3

LEMMA TokensKeep ==
  ASSUME TypeOK, TokensHonest, Next
  PROVE  TokensHonest'
  <1>. DEFINE Good(token, us) == token.proved = token.epoch /\ token.epoch <= us[token.user].epoch
  <1>1. /\ jar.session # None => jar.session.user \in User /\ jar.session.epoch \in Nat
        /\ login # None => login.user \in User /\ login.epoch \in Nat
    BY DEF TypeOK, Jar, Session
  <1>2. /\ jar.session # None => Good(jar.session, users')
        /\ login # None => Good(login, users')
    <2>1. CASE jar.session # None
      BY <1>1, <2>1, EpochsGrow DEF TokensHonest, Honest
    <2>2. CASE login # None
      BY <1>1, <2>2, EpochsGrow DEF TokensHonest, Honest
    <2>. QED BY <2>1, <2>2
  <1>3. CASE LoginSigns
    <2>1. /\ login # None /\ login' = None
          /\ jar'.session.epoch = login.epoch /\ jar'.session.proved = login.proved
          /\ jar'.session.user = login.user
      BY <1>3 DEF LoginSigns, Token, TypeOK, Jar
    <2>. QED BY <1>2, <2>1 DEF TokensHonest, Honest
  <1>4. ASSUME NEW u \in User, LoginReads(u) PROVE TokensHonest'
    <2>1. /\ jar' = jar /\ users' = users
          /\ login'.epoch = users[u].epoch /\ login'.proved = users[u].epoch /\ login'.user = u
      BY <1>4 DEF LoginReads
    <2>. QED BY <1>2, <2>1, EpochsGrow DEF TokensHonest, Honest
  <1>5. CASE jar'.session \in {None, jar.session} /\ login' = login
    BY <1>2, <1>5 DEF TokensHonest, Honest
  <1>6. \/ LoginSigns \/ \E u \in User : LoginReads(u)
        \/ jar'.session \in {None, jar.session} /\ login' = login
    <2>1. CASE Logout \/ Tick
      BY <2>1 DEF Logout, Tick, TypeOK, Jar
    <2>2. ASSUME NEW t \in Tab, NEW slug \in page[t].all, Pick(t, slug)
          PROVE  jar'.session = jar.session /\ login' = login
      BY <2>2 DEF Pick, TypeOK, Jar
    <2>3. \/ jar' = jar /\ login' = login
          \/ LoginSigns \/ Logout \/ Tick \/ \E u \in User : LoginReads(u)
          \/ \E t \in Tab : \E slug \in page[t].all : Pick(t, slug)
      BY ZenonT(30) DEF Next, InTab, Served, FetchFails, PollAnswers, PollLands, ChangePassword, Grant, Revoke,
             Rename, SetMode, Load, Cancel, Confirm, OnChange, Render, Resolve, Write, Answer, Script, server
    <2>. QED BY <2>1, <2>2, <2>3
  <1>. QED BY <1>3, <1>4, <1>5, <1>6

----------------------------------------------------------------------------
(* What a step leaves of the requests.                                         *)

CallKept(t) ==
  /\ call[t] # None
  /\ call'[t].cookies = call[t].cookies /\ call'[t].fit = call[t].fit
  /\ call'[t].target = call[t].target /\ call'[t].shown = call[t].shown
  /\ call[t].moved => call'[t].moved
  /\ \/ call'[t].stage = call[t].stage
     \/ call[t].stage = "resolved" /\ call'[t].stage = "written"

CallSent(t) ==
  /\ Idle(t) /\ UNCHANGED server
  /\ \E kind \in {"preview", "post"}, live \in BOOLEAN : Send(t, kind, live)

LEMMA MarkedKept ==
  ASSUME TypeOK, NEW t \in Tab, call' = Marked(call)
  PROVE  call'[t] = None \/ (CallKept(t) /\ call'[t].moved)
  <1>1. CASE call[t] = None
    BY <1>1 DEF Marked
  <1>2. CASE call[t] # None
    <2>1. call[t] \in Request /\ call'[t] = [call[t] EXCEPT !.moved = TRUE]
      BY <1>2 DEF Marked, TypeOK
    <2>. QED BY <1>2, <2>1 DEF CallKept, Request
  <1>. QED BY <1>1, <1>2

LEMMA CallSteps ==
  ASSUME TypeOK, Next, NEW t \in Tab
  PROVE  call'[t] = None \/ CallKept(t) \/ CallSent(t) \/ Resolve(t)
  <1>1. CASE call'[t] = call[t]
    BY <1>1 DEF CallKept
  <1>2. CASE call' = Marked(call)
    BY <1>2, MarkedKept
  <1>3. ASSUME NEW x \in Tab, NEW live \in BOOLEAN, OnChange(x, live)
        PROVE  call'[t] = call[t] \/ CallSent(t)
    <2>1. CASE x = t
      BY <1>3, <2>1 DEF OnChange, CallSent
    <2>2. CASE x # t
      BY <1>3, <2>2 DEF OnChange, Send, TypeOK
    <2>. QED BY <2>1, <2>2
  <1>4. ASSUME NEW x \in Tab, Confirm(x) PROVE call'[t] = call[t] \/ CallSent(t)
    <2>1. CASE x = t
      BY <1>4, <2>1 DEF Confirm, CallSent
    <2>2. CASE x # t
      BY <1>4, <2>2 DEF Confirm, Send, TypeOK
    <2>. QED BY <2>1, <2>2
  <1>5. ASSUME NEW x \in Tab, Resolve(x) PROVE call'[t] = call[t] \/ Resolve(t)
    <2>1. CASE x # t
      BY <1>5, <2>1 DEF Resolve, TypeOK
    <2>. QED BY <1>5, <2>1
  <1>6. ASSUME NEW x \in Tab, Write(x) PROVE call'[t] = call[t] \/ CallKept(t)
    <2>1. CASE x # t
      BY <1>6, <2>1 DEF Write, TypeOK
    <2>2. CASE x = t
      <3>1. call[t] # None /\ call[t] \in Request /\ call[t].stage = "resolved"
            /\ call'[t] = [call[t] EXCEPT !.stage = "written"]
        BY <1>6, <2>2 DEF Write, TypeOK
      <3>. QED BY <3>1 DEF CallKept, Request
    <2>. QED BY <2>1, <2>2
  <1>7. ASSUME NEW x \in Tab, Answer(x) \/ FetchFails(x) PROVE call'[t] \in {None, call[t]}
    BY <1>7 DEF Answer, FetchFails, TypeOK
  <1>8. \/ UNCHANGED call \/ call' = Marked(call)
        \/ \E x \in Tab : \/ Confirm(x) \/ Write(x) \/ Answer(x) \/ FetchFails(x) \/ Resolve(x)
                          \/ \E live \in BOOLEAN : OnChange(x, live)
    BY DEF Next, InTab, Served, PollAnswers, PollLands, LoginReads, ChangePassword, Grant, Revoke, Pick,
           Rename, SetMode, LoginSigns, Logout, Tick, Load, Cancel, Render, Script, server, AccessChanges
  <1>. QED BY <1>1, <1>2, <1>3, <1>4, <1>5, <1>6, <1>7, <1>8

\* The route finds the merchant its cookies select, or answers that there is none.
LEMMA ResolveGives ==
  ASSUME TypeOK, NEW t \in Tab, Resolve(t)
  PROVE  /\ call[t] # None /\ call[t] \in Request /\ call[t].stage = "sent" /\ UNCHANGED server
         /\ call'[t].cookies = call[t].cookies /\ call'[t].fit = call[t].fit
         /\ call'[t].shown = call[t].shown /\ call'[t].moved = call[t].moved
         /\ \/ call'[t].stage = "answered"
            \/ call'[t].stage = "resolved" /\ call'[t].target \in SelectMerchant(call[t].cookies)
  <1>1. call[t] # None /\ call[t] \in Request /\ call[t].stage = "sent" /\ UNCHANGED server
    BY DEF Resolve, TypeOK
  <1>2. CASE call' = [call EXCEPT ![t].stage = "answered"]
    <2>1. call'[t] = [call[t] EXCEPT !.stage = "answered"]
      BY <1>2 DEF TypeOK
    <2>. QED BY <1>1, <2>1 DEF Request
  <1>3. CASE \E m \in CurrentMerchantId(call[t].cookies) :
               call' = [call EXCEPT ![t].stage = IF call[t].kind = "preview" THEN "answered" ELSE "resolved",
                                    ![t].target = m]
    <2>1. PICK m \in CurrentMerchantId(call[t].cookies) :
            call' = [call EXCEPT ![t].stage = IF call[t].kind = "preview" THEN "answered" ELSE "resolved",
                                 ![t].target = m]
      BY <1>3
    <2>. DEFINE s == IF call[t].kind = "preview" THEN "answered" ELSE "resolved"
    <2>2. call'[t] = [call[t] EXCEPT !.stage = s, !.target = m]
      BY <2>1 DEF TypeOK
    <2>3. s \in {"answered", "resolved"}
      OBVIOUS
    <2>. DEFINE r == [call[t] EXCEPT !.stage = s, !.target = m]
    <2>. HIDE DEF s
    <2>4. /\ r.cookies = call[t].cookies /\ r.fit = call[t].fit /\ r.shown = call[t].shown
          /\ r.moved = call[t].moved /\ r.stage = s /\ r.target = m
      BY <1>1 DEF Request
    <2>5. call'[t] = r
      BY <2>2
    <2>. HIDE DEF r
    <2>. QED BY <1>1, <2>1, <2>3, <2>4, <2>5 DEF CurrentMerchantId
  <1>. QED BY <1>1, <1>2, <1>3 DEF Resolve

LEMMA RequestFitKeeps ==
  ASSUME TypeOK, TokensHonest, Next, NEW t \in Tab, RequestFit(t)
  PROVE  RequestFit(t)'
  <1>1. CASE CallKept(t)
    <2>1. call[t] \in Request
      BY <1>1 DEF CallKept, TypeOK
    <2>. DEFINE s == call[t].cookies.session
    <2>2. s # None => s.user \in User /\ s.epoch \in Nat
      BY <2>1 DEF Request, Jar, Session
    <2>3. call[t].fit \in BOOLEAN
      BY <2>1 DEF Request
    <2>4. s # None => /\ s.epoch <= users'[s.user].epoch
                      /\ call[t].fit \/ s.epoch < users'[s.user].epoch
      <3>1. SUFFICES ASSUME s # None
                     PROVE  /\ s.epoch <= users'[s.user].epoch
                            /\ call[t].fit \/ s.epoch < users'[s.user].epoch
        OBVIOUS
      <3>2. /\ s.epoch <= users[s.user].epoch
            /\ call[t].fit \/ s.epoch < users[s.user].epoch
        BY <1>1, <3>1 DEF RequestFit, CallKept
      <3>3. /\ users[s.user].epoch <= users'[s.user].epoch
            /\ users[s.user].epoch \in Nat /\ users'[s.user].epoch \in Nat
        BY <2>2, <3>1, EpochsGrow
      <3>4. s.epoch \in Nat
        BY <2>2, <3>1
      <3>. HIDE DEF s
      <3>5. s.epoch <= users'[s.user].epoch
        BY <3>2, <3>3, <3>4
      <3>6. s.epoch < users[s.user].epoch => s.epoch < users'[s.user].epoch
        BY <3>3, <3>4
      <3>. QED BY <3>2, <3>5, <3>6
    <2>5. call'[t].stage \in {"resolved", "written"} => call[t].fit
      BY <1>1 DEF RequestFit, CallKept
    <2>6. call'[t].cookies = call[t].cookies /\ call'[t].fit = call[t].fit
      BY <1>1 DEF CallKept
    <2>. QED BY <2>4, <2>5, <2>6 DEF RequestFit
  <1>2. CASE CallSent(t)
    <2>1. /\ UNCHANGED users
          /\ call'[t].cookies = jar /\ call'[t].stage = "sent"
          /\ call'[t].fit = (jar.session # None /\ jar.session.proved = users[jar.session.user].epoch)
      BY <1>2 DEF CallSent, Send, server, TypeOK
    <2>2. jar.session # None => /\ jar.session.epoch <= users[jar.session.user].epoch
                                /\ jar.session.proved = jar.session.epoch
      BY DEF TokensHonest, Honest
    <2>3. jar.session # None => jar.session.epoch \in Nat /\ users[jar.session.user].epoch \in Nat
      BY DEF TypeOK, Jar, Session
    <2>4. jar.session # None =>
            \/ jar.session.proved = users[jar.session.user].epoch
            \/ jar.session.epoch < users[jar.session.user].epoch
      BY <2>2, <2>3
    <2>. QED BY <2>1, <2>2, <2>4 DEF RequestFit
  <1>3. CASE Resolve(t)
    <2>1. call'[t].stage = "resolved" =>
            call[t].cookies.session # None
            /\ call[t].cookies.session.epoch = users[call[t].cookies.session.user].epoch
      BY <1>3, ResolveGives, SelectMerchantIs DEF SelectOf, Known
    <2>2. call[t].cookies.session # None =>
            call[t].cookies.session.epoch \in Nat /\ users[call[t].cookies.session.user].epoch \in Nat
      BY <1>3, ResolveGives DEF TypeOK, Request, Jar, Session
    <2>3. call'[t].stage = "resolved" => call[t].fit
      BY <1>3, <2>1, <2>2, ResolveGives DEF RequestFit
    <2>4. /\ call[t] # None /\ UNCHANGED users
          /\ call'[t].cookies = call[t].cookies /\ call'[t].fit = call[t].fit
          /\ call'[t].stage \in {"answered", "resolved"}
      BY <1>3, ResolveGives DEF server
    <2>. QED BY <2>3, <2>4 DEF RequestFit
  <1>4. CASE call'[t] = None
    BY <1>4 DEF RequestFit
  <1>. QED BY <1>1, <1>2, <1>3, <1>4, CallSteps

----------------------------------------------------------------------------
(* What a step leaves of the cookies and of whose merchant they select.        *)

\* Nobody's memberships and no slug change.
Steady == /\ \A u \in User : users'[u].member = users[u].member
          /\ \A m \in Merchant : shops'[m].name = shops[m].name

\* A session may end, and the pick stays.
JarKeeps == jar'.session \in {None, jar.session} /\ jar'.pick = jar.pick

PickStep == \E t \in Tab : \E slug \in page[t].all : Pick(t, slug)

LEMMA StepKinds ==
  ASSUME TypeOK, Next
  PROVE  \/ AccessChanges /\ UNCHANGED <<jar, refresh>>
         \/ Steady /\ CookiesChange
         \/ Steady /\ PickStep
         \/ Steady /\ JarKeeps
  <1>1. ASSUME NEW u \in User, ChangePassword(u) PROVE Steady /\ JarKeeps
    <2>1. \A v \in User : users'[v].member = users[v].member
      BY <1>1 DEF ChangePassword, TypeOK
    <2>. QED BY <1>1, <2>1 DEF ChangePassword, Script, Steady, JarKeeps
  <1>2. ASSUME NEW m \in Merchant, NEW live \in BOOLEAN, SetMode(m, live) PROVE Steady /\ JarKeeps
    <2>1. \A n \in Merchant : shops'[n].name = shops[n].name
      BY <1>2 DEF SetMode, TypeOK
    <2>. QED BY <1>2, <2>1 DEF SetMode, Script, Steady, JarKeeps
  <1>3. ASSUME NEW t \in Tab, Write(t) PROVE Steady /\ JarKeeps
    <2>1. \A n \in Merchant : shops'[n].name = shops[n].name
      <3>. DEFINE m == call[t].target  live == call[t].live
      <3>1. shops' = [shops EXCEPT ![m].live = live]
        BY <1>3 DEF Write
      <3>. HIDE DEF m, live
      <3>. QED BY <3>1 DEF TypeOK
    <2>. QED BY <1>3, <2>1 DEF Write, Steady, JarKeeps
  <1>4. CASE Logout \/ Tick
    <2>1. UNCHANGED <<users, shops>>
      BY <1>4 DEF Logout, Tick
    <2>2. JarKeeps
      BY <1>4 DEF Logout, Tick, JarKeeps, TypeOK, Jar
    <2>. QED BY <2>1, <2>2 DEF Steady
  <1>5. CASE LoginSigns
    BY <1>5 DEF LoginSigns, Steady
  <1>6. CASE PickStep
    BY <1>6 DEF PickStep, Pick, Steady
  <1>7. CASE UNCHANGED <<users, shops, jar>>
    BY <1>7 DEF Steady, JarKeeps
  <1>8. ASSUME NEW u \in User, NEW m \in Merchant, Grant(u, m) \/ Revoke(u, m)
        PROVE  AccessChanges /\ UNCHANGED <<jar, refresh>>
    BY <1>8 DEF Grant, Revoke, Script
  <1>9. ASSUME NEW m \in Merchant, Rename(m) PROVE AccessChanges /\ UNCHANGED <<jar, refresh>>
    BY <1>9 DEF Rename, Script
  <1>10. \/ UNCHANGED <<users, shops, jar>> \/ Logout \/ Tick \/ LoginSigns \/ PickStep
         \/ \E t \in Tab : Write(t)
         \/ \E u \in User : ChangePassword(u)
         \/ \E u \in User, m \in Merchant : Grant(u, m) \/ Revoke(u, m)
         \/ \E m \in Merchant : Rename(m) \/ \E live \in BOOLEAN : SetMode(m, live)
    BY ZenonT(30) DEF Next, InTab, Served, FetchFails, PollAnswers, PollLands, LoginReads, PickStep,
           Load, Cancel, Confirm, OnChange, Render, Resolve, Answer, server
  <1>. QED BY <1>1, <1>2, <1>3, <1>4, <1>5, <1>6, <1>7, <1>8, <1>9, <1>10

LEMMA TimePasses ==
  ASSUME TypeOK, Next
  PROVE  now' \in Nat /\ now \in Nat /\ now <= now'
  <1>1. UNCHANGED now \/ now' = now + 1
    BY DEF Next, InTab, Served, FetchFails, PollAnswers, PollLands, LoginReads, ChangePassword, Grant, Revoke,
           Rename, SetMode, LoginSigns, Logout, Tick, Load, Cancel, Confirm, OnChange, Pick, Render, Resolve,
           Write, Answer, Script, server
  <1>. QED BY <1>1 DEF TypeOK

\* In a steady step cookies go on to select what they selected, or come to select none.
LEMMA StillSelects ==
  ASSUME TypeOK, Next, Steady, NEW k \in Jar,
         k.session # None => k.session.epoch <= users[k.session.user].epoch
  PROVE  SelectOf(users', shops', now', k) \subseteq SelectOf(users, shops, now, k)
  <1>1. k.session # None => k.session.user \in User /\ k.session.epoch \in Nat /\ k.session.exp \in Nat
    BY DEF Jar, Session
  <1>2. k.session # None /\ k.session.exp > now' => k.session.exp > now
    BY <1>1, TimePasses
  <1>3. k.session # None /\ k.session.epoch = users'[k.session.user].epoch
          => k.session.epoch = users[k.session.user].epoch
    BY <1>1, EpochsGrow
  <1>4. k.session # None => users'[k.session.user].member = users[k.session.user].member
    BY <1>1 DEF Steady
  <1>5. \A m \in Merchant : shops'[m].name = shops[m].name
    BY DEF Steady
  <1>. QED BY <1>2, <1>3, <1>4, <1>5, SelectKeeps

\* Cookies whose session has ended select none; others, what their session and pick say.
LEMMA SelectOfLess ==
  ASSUME NEW us, NEW sh, NEW t, NEW k, NEW k2, k2.session \in {None, k.session}, k2.pick = k.pick
  PROVE  SelectOf(us, sh, t, k2) \subseteq SelectOf(us, sh, t, k)
  <1>1. CASE k2.session = None
    BY <1>1 DEF SelectOf, Known
  <1>2. CASE k2.session = k.session
    BY <1>2 DEF SelectOf
  <1>. QED BY <1>1, <1>2

----------------------------------------------------------------------------
(* Pages, renders and requests are about the merchant the cookies select.      *)

LEMMA PageSteps ==
  ASSUME TypeOK, Next, NEW t \in Tab
  PROVE  \/ PagesMoved
         \/ Render(t)
         \/ page'[t].at = page[t].at /\ page'[t].shop = page[t].shop /\ page'[t].moved = page[t].moved
  <1>1. ASSUME NEW x \in Tab, NEW answer \in polls[x], PollLands(x, answer)
        PROVE  page'[t].at = page[t].at /\ page'[t].shop = page[t].shop /\ page'[t].moved = page[t].moved
    BY <1>1 DEF PollLands, TypeOK, Shown
  <1>2. ASSUME NEW x \in Tab, x # t, Render(x) PROVE page'[t] = page[t]
    BY <1>2 DEF Render, TypeOK
  <1>3. \/ UNCHANGED page \/ PagesMoved
        \/ \E x \in Tab : Render(x) \/ \E answer \in polls[x] : PollLands(x, answer)
    BY DEF Next, InTab, Served, FetchFails, PollAnswers, LoginReads, ChangePassword, Grant, Revoke, Pick,
           Rename, SetMode, LoginSigns, Logout, Tick, Load, Cancel, Confirm, OnChange, Resolve, Write,
           Answer, Script, server, AccessChanges, CookiesChange
  <1>. QED BY <1>1, <1>2, <1>3

LEMMA RenderGives ==
  ASSUME TypeOK, NEW t \in Tab, Render(t), page'[t].at = "home"
  PROVE  /\ refresh[t] # None /\ UNCHANGED server
         /\ page'[t].shop \in SelectMerchant(refresh[t].cookies)
         /\ page'[t].moved = refresh[t].moved
  <1>1. refresh[t] # None /\ UNCHANGED server
    BY DEF Render
  <1>2. ASSUME NEW at \in {"login", "empty"}, page' = [page EXCEPT ![t] = [Blank EXCEPT !.at = at]]
        PROVE  FALSE
    <2>1. page'[t].at = at
      BY <1>2 DEF TypeOK, Blank
    <2>. QED BY <2>1
  <1>3. CASE \E m \in SelectMerchant(refresh[t].cookies) :
               page' = [page EXCEPT ![t] = [at |-> "home", shop |-> m, slug |-> Slug(m),
                                            all |-> UNION {Listed(u) : u \in CurrentUser(refresh[t].cookies.session)},
                                            mode |-> shops[m].live, badge |-> shops[m].live,
                                            moved |-> refresh[t].moved]]
    BY <1>1, <1>3 DEF TypeOK
  <1>4. \/ \E m \in SelectMerchant(refresh[t].cookies) :
             page' = [page EXCEPT ![t] = [at |-> "home", shop |-> m, slug |-> Slug(m),
                                          all |-> UNION {Listed(u) : u \in CurrentUser(refresh[t].cookies.session)},
                                          mode |-> shops[m].live, badge |-> shops[m].live,
                                          moved |-> refresh[t].moved]]
        \/ \E at \in {"login", "empty"} : page' = [page EXCEPT ![t] = [Blank EXCEPT !.at = at]]
    BY DEF Render
  <1>. QED BY <1>2, <1>3, <1>4

LEMMA JarEpoch ==
  ASSUME TokensHonest
  PROVE  jar.session # None => jar.session.epoch <= users[jar.session.user].epoch
  BY DEF TokensHonest, Honest

\* Rendered or not, the page shows what the cookies select.
LEMMA PageTrueKeeps ==
  ASSUME TypeOK, TokensHonest, Next, NEW t \in Tab, PageTrue(t), RenderTrue(t)
  PROVE  PageTrue(t)'
  <1>. SUFFICES ASSUME page'[t].at = "home", ~page'[t].moved
                PROVE  SelectOf(users', shops', now', jar') \subseteq {page'[t].shop}
    BY JarSelects DEF PageTrue
  <1>1. ~PagesMoved
    <2>1. page[t] \in Shown
      BY DEF TypeOK
    <2>2. PagesMoved => page'[t].moved
      BY <2>1 DEF PagesMoved, Shown
    <2>. QED BY <2>2
  <1>2. CASE Render(t)
    <2>1. /\ refresh[t] # None /\ UNCHANGED server /\ ~refresh[t].moved
          /\ page'[t].shop \in SelectOf(users, shops, now, refresh[t].cookies)
      BY <1>2, RenderGives, SelectMerchantIs
    <2>2. SelectOf(users, shops, now, jar) \subseteq SelectOf(users, shops, now, refresh[t].cookies)
      BY <2>1, SelectOfLess DEF RenderTrue
    <2>3. SelectOf(users, shops, now, jar) \subseteq {page'[t].shop}
      BY <2>1, <2>2, SelectIsOne
    <2>. QED BY <2>1, <2>3 DEF server
  <1>3. CASE page'[t].at = page[t].at /\ page'[t].shop = page[t].shop /\ page'[t].moved = page[t].moved
    <2>1. SelectOf(users, shops, now, jar) \subseteq {page[t].shop}
      BY <1>3, SelectMerchantIs DEF PageTrue
    <2>2. Steady /\ JarKeeps
      BY <1>1, StepKinds DEF AccessChanges, CookiesChange, PickStep, Pick
    <2>3. SelectOf(users', shops', now', jar) \subseteq SelectOf(users, shops, now, jar)
      BY <2>2, StillSelects, JarEpoch DEF TypeOK
    <2>4. SelectOf(users', shops', now', jar') \subseteq SelectOf(users', shops', now', jar)
      BY <2>2, SelectOfLess DEF JarKeeps
    <2>. QED BY <1>3, <2>1, <2>3, <2>4
  <1>. QED BY <1>1, <1>2, <1>3, PageSteps

LEMMA RefreshSteps ==
  ASSUME TypeOK, Next, NEW t \in Tab
  PROVE  \/ refresh' = Marked(refresh)
         \/ refresh'[t] \in {None, refresh[t]} /\ ~PickStep
         \/ refresh'[t] = [cookies |-> jar', moved |-> FALSE]
         \/ refresh'[t] = Marked(refresh)[t]
  <1>1. ASSUME NEW x \in Tab, NEW slug \in page[x].all, Pick(x, slug)
        PROVE  \/ refresh'[t] = [cookies |-> jar', moved |-> FALSE]
               \/ refresh'[t] = Marked(refresh)[t]
    BY <1>1 DEF Pick, Marked
  <1>2. ASSUME NEW x \in Tab, Render(x) PROVE refresh'[t] \in {None, refresh[t]}
    BY <1>2 DEF Render, TypeOK
  <1>3. ASSUME NEW x \in Tab, Ask(x), UNCHANGED jar
        PROVE  \/ refresh'[t] = refresh[t]
               \/ refresh'[t] = [cookies |-> jar', moved |-> FALSE]
    BY <1>3 DEF Ask, TypeOK
  <1>4. \/ UNCHANGED refresh \/ refresh' = Marked(refresh) \/ PickStep
        \/ \E x \in Tab : Render(x) \/ (Ask(x) /\ UNCHANGED jar)
    BY DEF Next, InTab, Served, PollAnswers, PollLands, LoginReads, ChangePassword, Grant, Revoke, Confirm,
           Rename, SetMode, LoginSigns, Logout, Tick, Load, Cancel, Script, server, CookiesChange, PickStep,
           OnChange, Resolve, Write, Answer, FetchFails, Settle
  <1>. QED BY <1>1, <1>2, <1>3, <1>4 DEF PickStep

\* A render asked for carries the cookies of now, but for a session that has ended.
LEMMA RenderTrueKeeps ==
  ASSUME TypeOK, Next, NEW t \in Tab, RenderTrue(t)
  PROVE  RenderTrue(t)'
  <1>. SUFFICES ASSUME refresh'[t] # None, ~refresh'[t].moved
                PROVE  /\ jar'.session \in {None, refresh'[t].cookies.session}
                       /\ jar'.pick = refresh'[t].cookies.pick
    BY DEF RenderTrue
  <1>1. refresh'[t] # Marked(refresh)[t]
    <2>1. refresh[t] # None => refresh[t] \in Refresh
      BY DEF TypeOK, Refresh
    <2>2. refresh[t] # None => Marked(refresh)[t].moved
      BY <2>1 DEF Marked, Refresh
    <2>3. refresh[t] = None => Marked(refresh)[t] = None
      BY DEF Marked
    <2>. QED BY <2>2, <2>3
  <1>2. CASE refresh'[t] = [cookies |-> jar', moved |-> FALSE]
    BY <1>2
  <1>3. CASE refresh'[t] = refresh[t] /\ ~PickStep
    <2>1. /\ jar.session \in {None, refresh[t].cookies.session}
          /\ jar.pick = refresh[t].cookies.pick
      BY <1>3 DEF RenderTrue
    <2>2. jar' = jar \/ JarKeeps
      BY <1>1, <1>3, StepKinds DEF CookiesChange
    <2>. QED BY <1>3, <2>1, <2>2 DEF JarKeeps
  <1>. QED BY <1>1, <1>2, <1>3, RefreshSteps

\* A request carries the cookies of the click, and they select the merchant of the page.
LEMMA RequestTrueKeeps ==
  ASSUME TypeOK, TokensHonest, Next, NEW t \in Tab, PageTrue(t), RequestFit(t), RequestTrue(t)
  PROVE  RequestTrue(t)'
  <1>. DEFINE k == call[t].cookies
  <1>. SUFFICES ASSUME call'[t] # None, ~call'[t].moved
                PROVE  /\ call'[t].stage = "sent" =>
                            SelectOf(users', shops', now', call'[t].cookies) \subseteq {call'[t].shown}
                       /\ call'[t].stage \in {"resolved", "written"} => call'[t].target = call'[t].shown
    BY CallSelects DEF RequestTrue
  <1>1. CASE CallKept(t)
    <2>1. /\ call[t] # None /\ call[t] \in Request /\ ~call[t].moved
          /\ call'[t].cookies = k /\ call'[t].shown = call[t].shown /\ call'[t].target = call[t].target
      BY <1>1 DEF CallKept, TypeOK
    <2>2. call'[t].stage \in {"resolved", "written"} => call'[t].target = call'[t].shown
      BY <1>1, <2>1 DEF CallKept, RequestTrue
    <2>3. Steady
      <3>1. ~AccessChanges
        BY <2>1, MarkedKept DEF AccessChanges
      <3>. QED BY <3>1, StepKinds
    <2>4. k \in Jar /\ (k.session # None => k.session.epoch <= users[k.session.user].epoch)
      BY <2>1 DEF Request, RequestFit
    <2>5. SelectOf(users', shops', now', k) \subseteq SelectOf(users, shops, now, k)
      BY <2>3, <2>4, StillSelects
    <2>6. ASSUME call'[t].stage = "sent" PROVE SelectOf(users, shops, now, k) \subseteq {call[t].shown}
      BY <1>1, <2>1, <2>6, SelectMerchantIs DEF CallKept, RequestTrue
    <2>. QED BY <2>1, <2>2, <2>5, <2>6
  <1>2. CASE CallSent(t)
    <2>1. /\ page[t].at = "home" /\ UNCHANGED server
          /\ call'[t].cookies = jar /\ call'[t].stage = "sent"
          /\ call'[t].shown = page[t].shop /\ call'[t].moved = page[t].moved
      BY <1>2 DEF CallSent, Send, Idle, TypeOK
    <2>2. SelectOf(users, shops, now, jar) \subseteq {page[t].shop}
      BY <2>1, SelectMerchantIs DEF PageTrue
    <2>. QED BY <2>1, <2>2 DEF server
  <1>3. CASE Resolve(t)
    <2>1. SelectMerchant(k) \subseteq {call[t].shown}
      BY <1>3, ResolveGives DEF RequestTrue
    <2>. QED BY <1>3, <2>1, ResolveGives
  <1>. QED BY <1>1, <1>2, <1>3, CallSteps

----------------------------------------------------------------------------
(* The invariant and its consequences.                                         *)

LEMMA InitTyped ==
  ASSUME Init
  PROVE  TypeOK
  <1>1. Blank \in Shown
    BY DEF Blank, Shown
  <1>2. /\ users \in [User -> [epoch : Nat, member : SUBSET Merchant]]
        /\ shops \in [Merchant -> [name : Nat, live : BOOLEAN]]
    BY AccessAssumption DEF Init
  <1>3. now \in Nat /\ jar \in Jar
    BY NatAssumption DEF Init, Jar, Session
  <1>4. login \in {None} \cup [user : User, epoch : Nat, proved : Nat]
    BY DEF Init
  <1>5. /\ page \in [Tab -> Shown]
        /\ call \in [Tab -> {None} \cup Request]
        /\ refresh \in [Tab -> {None} \cup Refresh]
    BY <1>1 DEF Init
  <1>6. DOMAIN polls = Tab /\ \A t \in Tab : polls[t] = {}
    BY DEF Init
  <1>. QED BY <1>2, <1>3, <1>4, <1>5, <1>6 DEF TypeOK, Refresh

LEMMA InitInvariant == Init => IInv
  <1>. SUFFICES ASSUME Init PROVE IInv
    OBVIOUS
  <1>1. TokensHonest
    <2>1. PICK u \in User :
            jar = [session |-> [user |-> u, epoch |-> 0, proved |-> 0, exp |-> SESSION_TTL], pick |-> None]
      BY DEF Init
    <2>2. \A v \in User : users[v].epoch = 0
      BY DEF Init
    <2>3. Honest(jar.session)
      BY <2>1, <2>2 DEF Honest
    <2>4. login # None => Honest(login)
      BY <2>2 DEF Init, Honest
    <2>. QED BY <2>3, <2>4 DEF TokensHonest
  <1>2. \A t \in Tab : call[t] = None /\ refresh[t] = None /\ page[t].at = "login"
    BY DEF Init, Blank
  <1>3. \A t \in Tab : RequestFit(t) /\ PageTrue(t) /\ RenderTrue(t) /\ RequestTrue(t)
    BY <1>2 DEF RequestFit, PageTrue, RenderTrue, RequestTrue
  <1>. QED BY <1>1, <1>3, InitTyped DEF IInv

LEMMA InvariantKeeps == IInv /\ [Next]_vars => IInv'
  <1>. SUFFICES ASSUME IInv, [Next]_vars PROVE IInv'
    OBVIOUS
  <1>1. CASE Next
    <2>1. TypeOK' /\ TokensHonest'
      BY <1>1, TypeKeeps, TokensKeep DEF IInv
    <2>2. ASSUME NEW t \in Tab PROVE (RequestFit(t) /\ PageTrue(t) /\ RenderTrue(t) /\ RequestTrue(t))'
      BY <1>1, RequestFitKeeps, PageTrueKeeps, RenderTrueKeeps, RequestTrueKeeps DEF IInv
    <2>. QED BY <2>1, <2>2 DEF IInv
  <1>2. CASE UNCHANGED vars
    <2>1. /\ users' = users /\ shops' = shops /\ now' = now /\ jar' = jar /\ login' = login
          /\ page' = page /\ call' = call /\ refresh' = refresh /\ polls' = polls
      BY <1>2 DEF vars
    <2>2. TypeOK' /\ TokensHonest'
      BY <2>1 DEF IInv, TypeOK, TokensHonest, Honest
    <2>3. ASSUME NEW t \in Tab PROVE RequestFit(t)' /\ RenderTrue(t)'
      BY <2>1 DEF IInv, RequestFit, RenderTrue
    <2>4. ASSUME NEW t \in Tab PROVE PageTrue(t)' /\ RequestTrue(t)'
      <3>1. SelectMerchant(jar)' = SelectMerchant(jar)
        BY <2>1, JarSelects, SelectMerchantIs
      <3>2. SelectMerchant(call[t].cookies)' = SelectMerchant(call[t].cookies)
        BY <2>1, CallSelects, SelectMerchantIs
      <3>. QED BY <2>1, <3>1, <3>2 DEF IInv, PageTrue, RequestTrue
    <2>. QED BY <2>2, <2>3, <2>4 DEF IInv
  <1>. QED BY <1>1, <1>2

LEMMA InvariantHolds == Spec => []IInv
  BY InitInvariant, InvariantKeeps, PTL DEF Spec

\* Sessions, pages, requests and answers to polls always have the shape the code
\* gives them (lib/session.ts, lib/merchant-context.ts, merchant-switcher.tsx).
THEOREM TypeCorrect == Spec => []TypeOK
  <1>1. IInv => TypeOK
    BY DEF IInv
  <1>. QED BY <1>1, InvariantHolds, PTL

\* Whatever is written was asked for by a session opened with the password of the time
\* it was asked at: a token is signed under the epoch read along with the hash that was
\* compared, and it is checked against the epoch of now (login/route.ts, lib/auth.ts).
THEOREM OldPasswordCannotAct == Spec => []OldPasswordIsOut
  <1>1. IInv => OldPasswordIsOut
    BY DEF IInv, RequestFit, OldPasswordIsOut, Written
  <1>. QED BY <1>1, InvariantHolds, PTL

\* A click changes the merchant its page shows unless the cookies, a slug or a
\* membership changed after the page was asked for (merchant-context.ts).
THEOREM ClicksActOnPage == Spec => []ClicksStayOnPage
  <1>1. IInv => ClicksStayOnPage
    <2>. SUFFICES ASSUME IInv, NEW t \in Tab, call[t] # None, call[t].stage = "written", ~call[t].moved
                  PROVE  call[t].target = call[t].shown
      BY DEF ClicksStayOnPage, Written
    <2>. QED BY DEF IInv, RequestTrue
  <1>. QED BY <1>1, InvariantHolds, PTL
=============================================================================
