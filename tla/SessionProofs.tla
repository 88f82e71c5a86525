---------------------------- MODULE SessionProofs ----------------------------
(* Session for any number of tabs: its types, that a session is always about to *)
(* be renewed, and that it implements SessionPromise.                           *)
EXTENDS Session, TLAPS

Page    == [token : {"null", "live", "dead"}, ready : BOOLEAN, timer : BOOLEAN,
            path : {"app", "away", "login", "setup"}, lapsed : BOOLEAN]
Waiting == [Calls -> Answers]

(* What RenewalSurvives says of one tab. *)
Renewing(r, a) == r.token # "null" => r.timer \/ a["refresh"] # "none" \/ r.lapsed \/ a["logout"] # "none"

IInv == TypeOK /\ RenewalSurvives

(* What a step of tab t leaves of the others. *)
Only(t) == \A u \in Tabs \ {t} : tab'[u] = tab[u] /\ ask'[u] = ask[u]

-----------------------------------------------------------------------------
(* RequireAuth looks at a page and changes nothing but its path. *)
LEMMA RequireAuthKeeps ==
  ASSUME NEW r \in Page
  PROVE  /\ RequireAuth(r) \in Page
         /\ RequireAuth(r).token = r.token
         /\ RequireAuth(r).timer = r.timer
         /\ RequireAuth(r).lapsed = r.lapsed
<1>1. CASE r.ready /\ r.token = "null" /\ r.path \in {"app", "away"}
  BY <1>1 DEF RequireAuth, Page
<1>2. CASE ~(r.ready /\ r.token = "null" /\ r.path \in {"app", "away"})
  BY <1>2 DEF RequireAuth, Page
<1>3. QED
  BY <1>1, <1>2

(* The row of one tab. *)
LEMMA Rows ==
  ASSUME TypeOK, NEW t \in Tabs
  PROVE  tab[t] \in Page /\ ask[t] \in Waiting /\ cookie \in BOOLEAN
BY DEF TypeOK, Page, Waiting

(* What a page that was signed or a call that was sent or answered looks like. *)
LEMMA SignedPage ==
  ASSUME NEW r \in Page
  PROVE  Signed(r) \in Page /\ Signed(r).token = "live" /\ Signed(r).timer = TRUE
BY DEF Signed, Page

LEMMA OneCall ==
  ASSUME TypeOK, NEW t \in Tabs, NEW c \in Calls, NEW a \in Answers,
         ask' = [ask EXCEPT ![t][c] = a]
  PROVE  /\ ask' \in [Tabs -> Waiting]
         /\ \A u \in Tabs \ {t} : ask'[u] = ask[u]
         /\ ask'[t][c] = a
         /\ \A d \in Calls \ {c} : ask'[t][d] = ask[t][d]
BY DEF TypeOK, Waiting

LEMMA OnePage ==
  ASSUME TypeOK, NEW t \in Tabs, NEW r \in Page, tab' = [tab EXCEPT ![t] = r]
  PROVE  /\ tab' \in [Tabs -> Page]
         /\ \A u \in Tabs \ {t} : tab'[u] = tab[u]
         /\ tab'[t] = r
BY DEF TypeOK, Page

(* A step that touches one tab keeps the invariant if it does so for that tab. *)
LEMMA OneTab ==
  ASSUME IInv, NEW t \in Tabs, Only(t),
         tab' \in [Tabs -> Page], ask' \in [Tabs -> Waiting],
         cookie' \in BOOLEAN, users' \in BOOLEAN,
         Renewing(tab'[t], ask'[t])
  PROVE  IInv'
<1>1. TypeOK'
  BY DEF TypeOK, Page, Waiting
<1>2. ASSUME NEW u \in Tabs
      PROVE  Renewing(tab'[u], ask'[u])
  <2>1. CASE u = t
    BY <2>1
  <2>2. CASE u # t
    <3>1. Renewing(tab[u], ask[u])
      BY DEF IInv, RenewalSurvives, Renewing
    <3>2. tab'[u] = tab[u] /\ ask'[u] = ask[u]
      BY <2>2 DEF Only
    <3>3. QED
      BY <3>1, <3>2
  <2>3. QED
    BY <2>1, <2>2
<1>3. RenewalSurvives'
  BY <1>2 DEF RenewalSurvives, Renewing
<1>4. QED
  BY <1>1, <1>3 DEF IInv

(* A step that puts page r in tab t and makes, or ends, call c of it. *)
LEMMA PageAndCall ==
  ASSUME IInv, NEW t \in Tabs, NEW r \in Page, NEW c \in Calls, NEW a \in Answers,
         tab' = [tab EXCEPT ![t] = r], ask' = [ask EXCEPT ![t][c] = a],
         cookie' \in BOOLEAN, users' \in BOOLEAN,
         Renewing(r, ask'[t])
  PROVE  IInv'
<1>1. TypeOK
  BY DEF IInv
<1>2. tab' \in [Tabs -> Page] /\ (\A u \in Tabs \ {t} : tab'[u] = tab[u]) /\ tab'[t] = r
  BY <1>1, OnePage
<1>3. ask' \in [Tabs -> Waiting] /\ (\A u \in Tabs \ {t} : ask'[u] = ask[u])
  BY <1>1, OneCall
<1>4. QED
  BY <1>2, <1>3, OneTab DEF Only

(* The same of a step that leaves the calls, or the page, as they are. *)
LEMMA PageOnly ==
  ASSUME IInv, NEW t \in Tabs, NEW r \in Page,
         tab' = [tab EXCEPT ![t] = r], ask' = ask,
         cookie' \in BOOLEAN, users' \in BOOLEAN,
         Renewing(r, ask[t])
  PROVE  IInv'
<1>1. TypeOK
  BY DEF IInv
<1>2. tab' \in [Tabs -> Page] /\ (\A u \in Tabs \ {t} : tab'[u] = tab[u]) /\ tab'[t] = r
  BY <1>1, OnePage
<1>3. ask' \in [Tabs -> Waiting]
  BY <1>1 DEF TypeOK, Waiting
<1>4. QED
  BY <1>2, <1>3, OneTab DEF Only

LEMMA CallOnly ==
  ASSUME IInv, NEW t \in Tabs, NEW c \in Calls \ {"refresh", "logout"}, NEW a \in Answers,
         tab' = tab, ask' = [ask EXCEPT ![t][c] = a],
         cookie' \in BOOLEAN, users' \in BOOLEAN
  PROVE  IInv'
<1>1. TypeOK
  BY DEF IInv
<1>2. tab' \in [Tabs -> Page] /\ tab[t] \in Page
  BY <1>1 DEF TypeOK, Page
<1>3. ask' \in [Tabs -> Waiting] /\ \A u \in Tabs \ {t} : ask'[u] = ask[u]
  BY <1>1, OneCall
<1>4. \A d \in Calls \ {c} : ask'[t][d] = ask[t][d]
  BY <1>1, OneCall
<1>5. ask'[t]["refresh"] = ask[t]["refresh"] /\ ask'[t]["logout"] = ask[t]["logout"]
  BY <1>4 DEF Calls
<1>6. Renewing(tab[t], ask[t])
  BY DEF IInv, RenewalSurvives, Renewing
<1>7. Renewing(tab'[t], ask'[t])
  BY <1>5, <1>6 DEF Renewing
<1>8. QED
  BY <1>2, <1>3, <1>7, OneTab DEF Only

-----------------------------------------------------------------------------
(* Every step keeps the invariant. *)
LEMMA Begins == Init => IInv
<1>1. SUFFICES ASSUME Init PROVE IInv
  OBVIOUS
<1>2. FreshTab("app") \in Page /\ FreshTab("app").token = "null"
  BY DEF FreshTab, Page
<1>3. Starting(FALSE) \in Waiting
  BY DEF Starting, RefreshAnswer, Waiting, Answers
<1>4. TypeOK
  BY <1>1, <1>2, <1>3 DEF Init, TypeOK, Page, Waiting
<1>5. RenewalSurvives
  BY <1>1, <1>2 DEF Init, RenewalSurvives
<1>6. QED
  BY <1>4, <1>5 DEF IInv

LEMMA FreshPages ==
  ASSUME NEW p \in {"app", "away", "login", "setup"}, NEW b \in BOOLEAN
  PROVE  /\ FreshTab(p) \in Page /\ FreshTab(p).token = "null"
         /\ Starting(b) \in Waiting
<1>1. FreshTab(p) \in Page /\ FreshTab(p).token = "null"
  BY DEF FreshTab, Page
<1>2. RefreshAnswer(b) \in Answers
  BY DEF RefreshAnswer, Answers
<1>3. Starting(b) \in Waiting
  BY <1>2 DEF Starting, Waiting, Answers
<1>4. QED
  BY <1>1, <1>3

LEMMA NewPageKeeps ==
  ASSUME IInv, NEW t \in Tabs, NEW p \in {"app", "away", "login", "setup"}, NEW b \in BOOLEAN,
         NewPage(t, p, b)
  PROVE  IInv'
<1>1. TypeOK /\ FreshTab(p) \in Page /\ FreshTab(p).token = "null" /\ Starting(b) \in Waiting
  BY FreshPages DEF IInv
<1>2. tab' \in [Tabs -> Page] /\ (\A u \in Tabs \ {t} : tab'[u] = tab[u]) /\ tab'[t] = FreshTab(p)
  BY <1>1, OnePage DEF NewPage
<1>3. ask' \in [Tabs -> Waiting] /\ \A u \in Tabs \ {t} : ask'[u] = ask[u]
  BY <1>1 DEF NewPage, TypeOK, Waiting
<1>4. cookie' \in BOOLEAN /\ users' \in BOOLEAN
  BY <1>1 DEF NewPage, TypeOK
<1>5. Renewing(tab'[t], ask'[t])
  BY <1>1, <1>2 DEF Renewing
<1>6. QED
  BY <1>2, <1>3, <1>4, <1>5, OneTab DEF Only

LEMMA RefreshSucceedsKeeps == ASSUME IInv, NEW t \in Tabs, RefreshSucceeds(t) PROVE IInv'
<1> DEFINE r == RequireAuth(Signed(tab[t]))
<1>1. TypeOK /\ tab[t] \in Page
  BY Rows DEF IInv
<1>2. r \in Page /\ r.timer = TRUE
  BY <1>1, SignedPage, RequireAuthKeeps
<1>3. tab' = [tab EXCEPT ![t] = r] /\ ask' = [ask EXCEPT ![t]["refresh"] = "none"]
  BY DEF RefreshSucceeds, Set, Arrives
<1>4. cookie' \in BOOLEAN /\ users' \in BOOLEAN
  BY <1>1 DEF RefreshSucceeds, TypeOK
<1>5. Renewing(r, ask'[t])
  BY <1>2 DEF Renewing
<1> HIDE DEF r
<1>6. QED
  BY <1>2, <1>3, <1>4, <1>5, PageAndCall DEF Calls, Answers

LEMMA RefreshFailsKeeps == ASSUME IInv, NEW t \in Tabs, RefreshFails(t) PROVE IInv'
<1> DEFINE q == [tab[t] EXCEPT !.timer = FALSE, !.ready = TRUE, !.lapsed = TRUE]
           r == RequireAuth(q)
<1>1. TypeOK /\ tab[t] \in Page
  BY Rows DEF IInv
<1>2. q \in Page /\ q.lapsed = TRUE
  BY <1>1 DEF Page
<1>3. r \in Page /\ r.lapsed = TRUE
  <2> HIDE DEF q
  <2>1. QED
    BY <1>2, RequireAuthKeeps
<1>4. tab' = [tab EXCEPT ![t] = r] /\ ask' = [ask EXCEPT ![t]["refresh"] = "none"]
  BY DEF RefreshFails, Set, Arrives
<1>5. cookie' \in BOOLEAN /\ users' \in BOOLEAN
  BY <1>1 DEF RefreshFails, TypeOK
<1>6. Renewing(r, ask'[t])
  BY <1>3 DEF Renewing
<1> HIDE DEF r
<1>7. QED
  BY <1>3, <1>4, <1>5, <1>6, PageAndCall DEF Calls, Answers

LEMMA TimerFiresKeeps == ASSUME IInv, NEW t \in Tabs, TimerFires(t) PROVE IInv'
<1> DEFINE r == [tab[t] EXCEPT !.timer = FALSE]
           a == IF ask[t]["refresh"] = "none" THEN RefreshAnswer(cookie) ELSE ask[t]["refresh"]
<1>1. TypeOK /\ tab[t] \in Page /\ ask[t] \in Waiting
  BY Rows DEF IInv
<1>2. r \in Page
  BY <1>1 DEF Page
<1>3. a \in Answers /\ a # "none"
  BY <1>1 DEF RefreshAnswer, Answers, Waiting, Calls
<1>4. tab' = [tab EXCEPT ![t] = r] /\ ask' = [ask EXCEPT ![t]["refresh"] = a]
  BY DEF TimerFires
<1>5. cookie' \in BOOLEAN /\ users' \in BOOLEAN
  BY <1>1 DEF TimerFires, TypeOK
<1> HIDE DEF r, a
<1>6. "refresh" \in Calls
  BY DEF Calls
<1>7. ask'[t]["refresh"] = a
  BY <1>1, <1>3, <1>4, <1>6, OneCall, ZenonT(40)
<1>8. Renewing(r, ask'[t])
  BY <1>3, <1>7 DEF Renewing
<1>9. QED
  BY <1>2, <1>3, <1>4, <1>5, <1>6, <1>8, PageAndCall

LEMMA LoginSucceedsKeeps == ASSUME IInv, NEW t \in Tabs, LoginSucceeds(t) PROVE IInv'
<1> DEFINE q == [Signed(tab[t]) EXCEPT !.path = "app"]
           r == RequireAuth(q)
<1>1. TypeOK /\ tab[t] \in Page
  BY Rows DEF IInv
<1>2. q \in Page /\ q.timer = TRUE
  BY <1>1, SignedPage DEF Page
<1>3. r \in Page /\ r.timer = TRUE
  <2> HIDE DEF q
  <2>1. QED
    BY <1>2, RequireAuthKeeps
<1>4. tab' = [tab EXCEPT ![t] = r] /\ ask' = [ask EXCEPT ![t]["login"] = "none"]
  BY DEF LoginSucceeds, Set, Arrives
<1>5. cookie' \in BOOLEAN /\ users' \in BOOLEAN
  BY <1>1 DEF LoginSucceeds, TypeOK
<1>6. Renewing(r, ask'[t])
  BY <1>3 DEF Renewing
<1> HIDE DEF r
<1>7. QED
  BY <1>3, <1>4, <1>5, <1>6, PageAndCall DEF Calls, Answers

LEMMA SignOutKeeps == ASSUME IInv, NEW t \in Tabs, SignOut(t) PROVE IInv'
<1> DEFINE r == [tab[t] EXCEPT !.timer = FALSE]
<1>1. TypeOK /\ tab[t] \in Page
  BY Rows DEF IInv
<1>2. r \in Page
  BY <1>1 DEF Page
<1>3. tab' = [tab EXCEPT ![t] = r] /\ ask' = [ask EXCEPT ![t]["logout"] = "ok"]
  BY DEF SignOut, Send
<1>4. cookie' \in BOOLEAN /\ users' \in BOOLEAN
  BY <1>1 DEF SignOut, TypeOK
<1> HIDE DEF r
<1>5. "logout" \in Calls /\ "ok" \in Answers
  BY DEF Calls, Answers
<1>6. ask'[t]["logout"] = "ok"
  BY <1>1, <1>3, <1>5, OneCall, ZenonT(40)
<1>7. Renewing(r, ask'[t])
  BY <1>6 DEF Renewing
<1>8. QED
  BY <1>2, <1>3, <1>4, <1>5, <1>7, PageAndCall

LEMMA LogoutEndsKeeps == ASSUME IInv, NEW t \in Tabs, LogoutEnds(t) PROVE IInv'
<1> DEFINE q == [tab[t] EXCEPT !.token = "null", !.ready = TRUE]
           r == RequireAuth(q)
<1>1. TypeOK /\ tab[t] \in Page
  BY Rows DEF IInv
<1>2. q \in Page /\ q.token = "null"
  BY <1>1 DEF Page
<1>3. r \in Page /\ r.token = "null"
  <2> HIDE DEF q
  <2>1. QED
    BY <1>2, RequireAuthKeeps
<1>4. tab' = [tab EXCEPT ![t] = r] /\ ask' = [ask EXCEPT ![t]["logout"] = "none"]
  BY DEF LogoutEnds, Set, Arrives
<1>5. cookie' \in BOOLEAN /\ users' \in BOOLEAN
  BY <1>1 DEF LogoutEnds, TypeOK
<1>6. Renewing(r, ask'[t])
  BY <1>3 DEF Renewing
<1> HIDE DEF r
<1>7. QED
  BY <1>3, <1>4, <1>5, <1>6, PageAndCall DEF Calls, Answers

(* A page that differs in what Renewing does not look at. *)
LEMMA SameToken ==
  ASSUME IInv, NEW t \in Tabs, NEW r,
         r.token # "null" => tab[t].token # "null",
         r.timer = tab[t].timer, r.lapsed = tab[t].lapsed
  PROVE  Renewing(r, ask[t])
BY DEF IInv, RenewalSurvives, Renewing

LEMMA StartTimeoutKeeps == ASSUME IInv, NEW t \in Tabs, StartTimeout(t) PROVE IInv'
<1> DEFINE q == [tab[t] EXCEPT !.ready = TRUE]
           r == RequireAuth(q)
<1>1. TypeOK /\ tab[t] \in Page
  BY Rows DEF IInv
<1>2. q \in Page /\ q.token = tab[t].token /\ q.timer = tab[t].timer /\ q.lapsed = tab[t].lapsed
  BY <1>1 DEF Page
<1>3. r \in Page /\ r.token = tab[t].token /\ r.timer = tab[t].timer /\ r.lapsed = tab[t].lapsed
  <2> HIDE DEF q
  <2>1. QED
    BY <1>2, RequireAuthKeeps
<1>4. tab' = [tab EXCEPT ![t] = r] /\ ask' = ask /\ cookie' \in BOOLEAN /\ users' \in BOOLEAN
  BY <1>1 DEF StartTimeout, Set, TypeOK
<1> HIDE DEF r
<1>5. Renewing(r, ask[t])
  BY <1>3, SameToken
<1>6. QED
  BY <1>3, <1>4, <1>5, PageOnly

LEMMA TokenExpiresKeeps == ASSUME IInv, NEW t \in Tabs, TokenExpires(t) PROVE IInv'
<1> DEFINE r == [tab[t] EXCEPT !.token = "dead"]
<1>1. TypeOK /\ tab[t] \in Page /\ tab[t].token = "live"
  BY Rows DEF IInv, TokenExpires
<1>2. r \in Page /\ tab[t].token # "null" /\ r.timer = tab[t].timer /\ r.lapsed = tab[t].lapsed
  BY <1>1 DEF Page
<1>3. tab' = [tab EXCEPT ![t] = r] /\ ask' = ask /\ cookie' \in BOOLEAN /\ users' \in BOOLEAN
  BY <1>1 DEF TokenExpires, TypeOK
<1> HIDE DEF r
<1>4. Renewing(r, ask[t])
  BY <1>2, SameToken
<1>5. QED
  BY <1>2, <1>3, <1>4, PageOnly

(* The steps that only lead to another path. *)
LEMMA PathKeeps ==
  ASSUME IInv, NEW t \in Tabs, NEW p \in {"app", "away", "login", "setup"},
         tab' = [tab EXCEPT ![t].path = p], UNCHANGED <<ask, cookie, users>>
  PROVE  IInv'
<1> DEFINE r == [tab[t] EXCEPT !.path = p]
<1>1. TypeOK /\ tab[t] \in Page
  BY Rows DEF IInv
<1>2. r \in Page /\ r.token = tab[t].token /\ r.timer = tab[t].timer /\ r.lapsed = tab[t].lapsed
  BY <1>1 DEF Page
<1>3. tab' = [tab EXCEPT ![t] = r] /\ ask' = ask /\ cookie' \in BOOLEAN /\ users' \in BOOLEAN
  BY <1>1 DEF TypeOK
<1> HIDE DEF r
<1>4. Renewing(r, ask[t])
  BY <1>2, SameToken
<1>5. QED
  BY <1>2, <1>3, <1>4, PageOnly

LEMMA CreateUserKeeps == ASSUME IInv, NEW t \in Tabs, CreateUser(t) PROVE IInv'
<1>1. TypeOK /\ tab[t] \in Page
  BY Rows DEF IInv
<1>2. PICK p \in {"login", tab[t].path} : tab' = [tab EXCEPT ![t].path = p]
  BY DEF CreateUser
<1> DEFINE r == [tab[t] EXCEPT !.path = p]
<1>3. p \in {"app", "away", "login", "setup"}
  BY <1>1, <1>2 DEF Page
<1>4. r \in Page /\ r.token = tab[t].token /\ r.timer = tab[t].timer /\ r.lapsed = tab[t].lapsed
  BY <1>1, <1>3 DEF Page
<1>5. tab' = [tab EXCEPT ![t] = r] /\ ask' = [ask EXCEPT ![t]["setup"] = "none"]
      /\ cookie' \in BOOLEAN /\ users' \in BOOLEAN
  <2>1. ask' = [ask EXCEPT ![t]["setup"] = "none"] /\ users' = TRUE /\ cookie' = cookie
    BY DEF CreateUser, Arrives
  <2>2. cookie' \in BOOLEAN /\ users' \in BOOLEAN
    BY <1>1, <2>1 DEF TypeOK
  <2>3. QED
    BY <1>2, <2>1, <2>2
<1> HIDE DEF r
<1>6. "setup" \in Calls /\ "refresh" \in Calls \ {"setup"} /\ "logout" \in Calls \ {"setup"} /\ "none" \in Answers
  BY DEF Calls, Answers
<1>7. ask'[t]["refresh"] = ask[t]["refresh"] /\ ask'[t]["logout"] = ask[t]["logout"]
  BY <1>1, <1>5, <1>6, OneCall
<1>8. Renewing(r, ask[t])
  BY <1>4, SameToken
<1>9. Renewing(r, ask'[t])
  BY <1>7, <1>8 DEF Renewing
<1>10. QED
  BY <1>4, <1>5, <1>6, <1>9, PageAndCall

(* The calls that neither renew nor end a session. *)
LEMMA CallsKeep ==
  ASSUME IInv, NEW t \in Tabs,
         \/ SubmitLogin(t) \/ LoginFails(t) \/ Poll(t) \/ AskAway(t) \/ ChangePassword(t)
         \/ AnswerLost(t) \/ SubmitSetup(t)
  PROVE  IInv'
<1>1. TypeOK /\ cookie \in BOOLEAN /\ users \in BOOLEAN
  BY DEF IInv, TypeOK
<1>2. \E c \in {"login", "api", "setup"}, a \in {"none", "ok", "no", "admitted"} : ask' = [ask EXCEPT ![t][c] = a]
  BY Zenon DEF SubmitLogin, LoginFails, Poll, AskAway, PageCall, ChangePassword, AnswerLost, SubmitSetup, Send, Arrives
<1>3. tab' = tab /\ cookie' = cookie /\ users' = users
  BY DEF SubmitLogin, LoginFails, Poll, AskAway, PageCall, ChangePassword, AnswerLost, SubmitSetup
<1>4. PICK c \in {"login", "api", "setup"}, a \in {"none", "ok", "no", "admitted"} : ask' = [ask EXCEPT ![t][c] = a]
  BY <1>2
<1>5. c \in Calls \ {"refresh", "logout"} /\ a \in Answers
  BY <1>4 DEF Calls, Answers
<1>6. QED
  BY <1>1, <1>3, <1>4, <1>5, CallOnly

LEMMA Keeps == IInv /\ [Next]_vars => IInv'
<1> SUFFICES ASSUME IInv, [Next]_vars PROVE IInv'
  OBVIOUS
<1>1. CASE UNCHANGED vars
  BY <1>1 DEF vars, IInv, TypeOK, RenewalSurvives
<1>2. CASE CookieExpires
  BY <1>2 DEF CookieExpires, IInv, TypeOK, RenewalSurvives
<1>3. ASSUME NEW t \in Tabs,
             \/ RefreshSucceeds(t) \/ RefreshFails(t) \/ TimerFires(t)
             \/ StartTimeout(t) \/ TokenExpires(t)
             \/ SubmitLogin(t) \/ LoginSucceeds(t) \/ LoginFails(t)
             \/ Intercept(t, "login") \/ Intercept(t, "api")
             \/ SignOut(t) \/ LogoutEnds(t) \/ Reload(t) \/ Back(t)
             \/ Turn(t) \/ Poll(t) \/ AskAway(t) \/ ChangePassword(t) \/ AnswerLost(t)
             \/ OfferSetup(t) \/ SubmitSetup(t) \/ CreateUser(t)
      PROVE  IInv'
  <2>1. tab[t].path \in {"app", "away", "login", "setup"} /\ cookie \in BOOLEAN /\ FALSE \in BOOLEAN
    BY Rows DEF IInv, Page
  <2>2. CASE Intercept(t, "login") \/ Intercept(t, "api")
    BY <2>1, <2>2, NewPageKeeps DEF Intercept
  <2>3. CASE Reload(t)
    BY <2>1, <2>3, NewPageKeeps DEF Reload
  <2>4. CASE Back(t)
    BY <2>4, PathKeeps DEF Back
  <2>5. CASE OfferSetup(t)
    BY <2>5, PathKeeps DEF OfferSetup
  <2>6. CASE \/ SubmitLogin(t) \/ LoginFails(t) \/ Poll(t) \/ AskAway(t) \/ ChangePassword(t)
             \/ AnswerLost(t) \/ SubmitSetup(t)
    BY <2>6, CallsKeep
  <2>7. CASE Turn(t)
    BY <2>7, PathKeeps DEF Turn
  <2>8. QED
    BY <1>3, <2>2, <2>3, <2>4, <2>5, <2>6, <2>7, RefreshSucceedsKeeps, RefreshFailsKeeps,
       TimerFiresKeeps, StartTimeoutKeeps, TokenExpiresKeeps, LoginSucceedsKeeps,
       SignOutKeeps, LogoutEndsKeeps, CreateUserKeeps
<1>4. QED
  BY <1>1, <1>2, <1>3 DEF Next

-----------------------------------------------------------------------------
(* Type correctness (Session). *)
THEOREM TypeCorrect == Spec => []TypeOK
<1>1. IInv => TypeOK
  BY DEF IInv
<1>2. QED
  BY Begins, Keeps, <1>1, PTL DEF Spec

(* A session is always about to be renewed, in any number of tabs: at every *)
(* place that sets a token, or drops a timer (auth.js).                     *)
THEOREM Renewed == Spec => []RenewalSurvives
<1>1. IInv => RenewalSurvives
  BY DEF IInv
<1>2. QED
  BY Begins, Keeps, <1>1, PTL DEF Spec
=============================================================================
