-------------------------- MODULE SessionRefinement --------------------------
(* Session implements SessionPromise for any number of tabs. *)
EXTENDS SessionProofs

Holds(r)   == r.token # "null"
Grants(a)  == {c \in {"login", "refresh"} : a[c] = "ok"}
SignedBar  == [t \in Tabs |-> tab[t].token # "null"]
GrantedBar == [t \in Tabs |-> {c \in {"login", "refresh"} : ask[t][c] = "ok"}]

(* The steps of SessionPromise, said of the state of Session. *)
LEMMA AbstractEnter ==
  ASSUME NEW t \in Tabs, NEW m \in GrantedBar[t],
         SignedBar' = [SignedBar EXCEPT ![t] = TRUE],
         GrantedBar' = [GrantedBar EXCEPT ![t] = @ \ {m}], cookie' = TRUE
  PROVE  Promise!Next
BY Zenon DEF Promise!Next, Promise!Enter, SignedBar, GrantedBar

LEMMA AbstractLose ==
  ASSUME NEW t \in Tabs, NEW m \in GrantedBar[t],
         SignedBar' = SignedBar,
         GrantedBar' = [GrantedBar EXCEPT ![t] = @ \ {m}], cookie' = cookie
  PROVE  Promise!Next
BY Zenon DEF Promise!Next, Promise!Lose, SignedBar, GrantedBar

LEMMA AbstractGrant ==
  ASSUME NEW t \in Tabs,
         \/ GrantedBar' = [GrantedBar EXCEPT ![t] = @ \union {"login"}]
         \/ cookie /\ GrantedBar' = [GrantedBar EXCEPT ![t] = @ \union {"refresh"}],
         SignedBar' = SignedBar, cookie' = cookie
  PROVE  Promise!Next
BY Zenon DEF Promise!Next, Promise!Grant, SignedBar, GrantedBar

LEMMA AbstractLeave ==
  ASSUME NEW t \in Tabs,
         SignedBar' = [SignedBar EXCEPT ![t] = FALSE],
         GrantedBar' = GrantedBar, cookie' \in {cookie, FALSE}
  PROVE  Promise!Next
BY Zenon DEF Promise!Next, Promise!Leave, SignedBar, GrantedBar

LEMMA AbstractLoad ==
  ASSUME NEW t \in Tabs,
         SignedBar' = [SignedBar EXCEPT ![t] = FALSE],
         GrantedBar' = [GrantedBar EXCEPT ![t] = IF cookie' THEN {"refresh"} ELSE {}],
         cookie' \in {cookie, FALSE}
  PROVE  Promise!Next
BY Zenon DEF Promise!Next, Promise!Load, SignedBar, GrantedBar

LEMMA AbstractStutter ==
  ASSUME SignedBar' = SignedBar, GrantedBar' = GrantedBar, cookie' = cookie
  PROVE  UNCHANGED Promise!vars
BY Zenon DEF Promise!vars, SignedBar, GrantedBar

-----------------------------------------------------------------------------
(* What becomes of the two when one tab changes. *)
LEMMA SignedUpdate ==
  ASSUME NEW t \in Tabs, NEW b \in BOOLEAN,
         \A u \in Tabs \ {t} : tab'[u] = tab[u], Holds(tab'[t]) <=> b
  PROVE  SignedBar' = [SignedBar EXCEPT ![t] = b]
BY Zenon DEF SignedBar, Holds

LEMMA SignedSame ==
  ASSUME NEW t \in Tabs,
         \A u \in Tabs \ {t} : tab'[u] = tab[u], Holds(tab'[t]) <=> Holds(tab[t])
  PROVE  SignedBar' = SignedBar
BY Zenon DEF SignedBar, Holds

LEMMA GrantedUpdate ==
  ASSUME NEW t \in Tabs, \A u \in Tabs \ {t} : ask'[u] = ask[u]
  PROVE  GrantedBar' = [GrantedBar EXCEPT ![t] = Grants(ask'[t])]
BY Zenon DEF GrantedBar, Grants

LEMMA GrantedSame ==
  ASSUME NEW t \in Tabs, \A u \in Tabs \ {t} : ask'[u] = ask[u], Grants(ask'[t]) = Grants(ask[t])
  PROVE  GrantedBar' = GrantedBar
<1>1. \A u \in Tabs : Grants(ask'[u]) = Grants(ask[u])
  OBVIOUS
<1>2. GrantedBar = [u \in Tabs |-> Grants(ask[u])] /\ GrantedBar' = [u \in Tabs |-> Grants(ask'[u])]
  BY Zenon DEF GrantedBar, Grants
<1>3. QED
  BY <1>1, <1>2, Zenon

(* What becomes of the answers a tab is granted when one of its calls is made or ends. *)
LEMMA GrantsAfter ==
  ASSUME TypeOK, NEW t \in Tabs, NEW c \in Calls, NEW a \in Answers,
         ask' = [ask EXCEPT ![t][c] = a]
  PROVE  /\ \A u \in Tabs \ {t} : ask'[u] = ask[u]
         /\ c \notin {"login", "refresh"} => Grants(ask'[t]) = Grants(ask[t])
         /\ a # "ok" /\ ask[t][c] # "ok" => Grants(ask'[t]) = Grants(ask[t])
         /\ a = ask[t][c] => Grants(ask'[t]) = Grants(ask[t])
         /\ a # "ok" => Grants(ask'[t]) = Grants(ask[t]) \ {c}
         /\ a = "ok" /\ c \in {"login", "refresh"} => Grants(ask'[t]) = Grants(ask[t]) \union {c}
<1>1. /\ \A u \in Tabs \ {t} : ask'[u] = ask[u]
      /\ ask'[t][c] = a
      /\ \A d \in Calls \ {c} : ask'[t][d] = ask[t][d]
  BY OneCall, ZenonT(40)
<1>2. \A d \in {"login", "refresh"} : d # c => ask'[t][d] = ask[t][d]
  BY <1>1 DEF Calls
<1>3. \A d \in {"login", "refresh"} : d \in Grants(ask[t]) <=> ask[t][d] = "ok"
  BY Zenon DEF Grants
<1>4. \A d \in {"login", "refresh"} : d \in Grants(ask'[t]) <=> ask'[t][d] = "ok"
  BY Zenon DEF Grants
<1>5. Grants(ask[t]) \subseteq {"login", "refresh"} /\ Grants(ask'[t]) \subseteq {"login", "refresh"}
  BY Zenon DEF Grants
<1>6. ASSUME c \in {"login", "refresh"} => (a = "ok" <=> ask[t][c] = "ok")
      PROVE  Grants(ask'[t]) = Grants(ask[t])
  <2>1. \A d \in {"login", "refresh"} : ask'[t][d] = "ok" <=> ask[t][d] = "ok"
    BY <1>1, <1>2, <1>6
  <2>2. QED
    BY <2>1, Zenon DEF Grants
<1>7. ASSUME a # "ok" PROVE Grants(ask'[t]) = Grants(ask[t]) \ {c}
  <2>1. \A d \in {"login", "refresh"} : ask'[t][d] = "ok" <=> d # c /\ ask[t][d] = "ok"
    BY <1>1, <1>2, <1>7
  <2>2. QED
    BY <2>1, <1>3, <1>4, <1>5
<1>8. ASSUME a = "ok", c \in {"login", "refresh"} PROVE Grants(ask'[t]) = Grants(ask[t]) \union {c}
  <2>1. \A d \in {"login", "refresh"} : ask'[t][d] = "ok" <=> d = c \/ ask[t][d] = "ok"
    BY <1>1, <1>2, <1>8
  <2>2. QED
    BY <2>1, <1>3, <1>4, <1>5, <1>8
<1>9. QED
  BY <1>1, <1>6, <1>7, <1>8

(* The two kinds of step that end a call of the tab: with a token, or without. *)
LEMMA CallEnds ==
  ASSUME TypeOK, NEW t \in Tabs, NEW c \in {"login", "refresh"},
         \A u \in Tabs \ {t} : tab'[u] = tab[u],
         ask' = [ask EXCEPT ![t][c] = "none"]
  PROVE  /\ ask[t][c] = "ok" /\ Holds(tab'[t]) /\ cookie' = TRUE => Promise!Next
         /\ (Holds(tab'[t]) <=> Holds(tab[t])) /\ cookie' = cookie => [Promise!Next]_Promise!vars
<1>1. c \in Calls /\ "none" \in Answers
  BY DEF Calls, Answers
<1>2. /\ \A u \in Tabs \ {t} : ask'[u] = ask[u]
      /\ Grants(ask'[t]) = Grants(ask[t]) \ {c}
      /\ ask[t][c] # "ok" => Grants(ask'[t]) = Grants(ask[t])
  <2>1. "none" # "ok"
    OBVIOUS
  <2>2. QED
    BY <1>1, <2>1, GrantsAfter, ZenonT(40)
<1>3. GrantedBar[t] = Grants(ask[t])
  BY Zenon DEF GrantedBar, Grants
<1>4. GrantedBar' = [GrantedBar EXCEPT ![t] = @ \ {c}]
  BY <1>2, <1>3, GrantedUpdate
<1>5. ask[t][c] = "ok" => c \in GrantedBar[t]
  BY <1>3 DEF Grants
<1>6. ASSUME ask[t][c] = "ok", Holds(tab'[t]), cookie' = TRUE
      PROVE  Promise!Next
  <2>1. SignedBar' = [SignedBar EXCEPT ![t] = TRUE]
    BY <1>6, SignedUpdate
  <2>2. QED
    BY <1>4, <1>5, <1>6, <2>1, AbstractEnter
<1>7. ASSUME Holds(tab'[t]) <=> Holds(tab[t]), cookie' = cookie
      PROVE  [Promise!Next]_Promise!vars
  <2>1. SignedBar' = SignedBar
    BY <1>7, SignedSame
  <2>2. CASE ask[t][c] = "ok"
    BY <1>4, <1>5, <1>7, <2>1, <2>2, AbstractLose
  <2>3. CASE ask[t][c] # "ok"
    <3>1. GrantedBar' = GrantedBar
      BY <1>2, <2>3, GrantedSame
    <3>2. QED
      BY <1>7, <2>1, <3>1, AbstractStutter
  <2>4. QED
    BY <2>2, <2>3
<1>8. QED
  BY <1>6, <1>7

(* A page that keeps its token, or has none, while nothing is answered. *)
LEMMA Unnoticed ==
  ASSUME NEW t \in Tabs, \A u \in Tabs \ {t} : tab'[u] = tab[u] /\ ask'[u] = ask[u],
         Holds(tab'[t]) <=> Holds(tab[t]), Grants(ask'[t]) = Grants(ask[t]), cookie' = cookie
  PROVE  [Promise!Next]_Promise!vars
<1>1. SignedBar' = SignedBar
  BY SignedSame
<1>2. GrantedBar' = GrantedBar
  BY GrantedSame
<1>3. QED
  BY <1>1, <1>2, AbstractStutter

LEMMA LoadsAnew ==
  ASSUME TypeOK, NEW t \in Tabs, NEW p \in {"app", "away", "login", "setup"}, NEW b \in {cookie, FALSE},
         NewPage(t, p, b)
  PROVE  Promise!Next
<1>1. /\ \A u \in Tabs \ {t} : tab'[u] = tab[u] /\ ask'[u] = ask[u]
      /\ tab'[t] = FreshTab(p) /\ ask'[t] = Starting(b) /\ cookie' = b
  BY DEF NewPage, TypeOK
<1>2. ~Holds(tab'[t])
  BY <1>1 DEF Holds, FreshTab
<1>3. b \in BOOLEAN
  BY DEF TypeOK
<1>4. Grants(Starting(b)) = IF b THEN {"refresh"} ELSE {}
  <2>1. Starting(b)["login"] = "none" /\ Starting(b)["refresh"] = IF b THEN "ok" ELSE "no"
    BY DEF Starting, RefreshAnswer, Calls
  <2>2. QED
    BY <1>3, <2>1 DEF Grants
<1>5. SignedBar' = [SignedBar EXCEPT ![t] = FALSE]
  BY <1>1, <1>2, SignedUpdate
<1>6. GrantedBar' = [GrantedBar EXCEPT ![t] = IF cookie' THEN {"refresh"} ELSE {}]
  BY <1>1, <1>4, GrantedUpdate
<1>7. QED
  BY <1>1, <1>5, <1>6, AbstractLoad

-----------------------------------------------------------------------------
LEMMA Starts == Init => Promise!Init
<1>1. SUFFICES ASSUME Init PROVE Promise!Init
  OBVIOUS
<1>2. \A t \in Tabs : tab[t].token = "null"
  BY <1>1 DEF Init, FreshTab
<1>3. \A t \in Tabs : Grants(ask[t]) = {}
  BY <1>1 DEF Init, Starting, RefreshAnswer, Grants, Calls
<1>4. SignedBar = [t \in Tabs |-> FALSE]
  BY <1>2, Zenon DEF SignedBar
<1>5. GrantedBar = [t \in Tabs |-> {}]
  BY <1>3, Zenon DEF GrantedBar, Grants
<1>6. cookie = FALSE
  BY <1>1 DEF Init
<1>7. QED
  BY <1>4, <1>5, <1>6, Zenon DEF Promise!Init, SignedBar, GrantedBar

(* The steps of one tab, those that renew, end and begin a session first. *)
LEMMA TabRefines ==
  ASSUME TypeOK, NEW t \in Tabs,
         \/ RefreshSucceeds(t) \/ RefreshFails(t) \/ TimerFires(t)
         \/ StartTimeout(t) \/ TokenExpires(t)
         \/ SubmitLogin(t) \/ LoginSucceeds(t) \/ LoginFails(t)
         \/ Intercept(t, "login") \/ Intercept(t, "api")
         \/ SignOut(t) \/ LogoutEnds(t) \/ Reload(t) \/ Back(t)
         \/ Turn(t) \/ Poll(t) \/ AskAway(t) \/ ChangePassword(t) \/ AnswerLost(t)
         \/ OfferSetup(t) \/ SubmitSetup(t) \/ CreateUser(t)
  PROVE  [Promise!Next]_Promise!vars
<1> USE DEF Holds
<1>1. /\ tab[t] \in Page /\ ask[t] \in Waiting /\ cookie \in BOOLEAN
      /\ "refresh" \in Calls /\ "login" \in Calls /\ "logout" \in Calls /\ "api" \in Calls /\ "setup" \in Calls
      /\ "none" \in Answers /\ "ok" \in Answers /\ "no" \in Answers /\ "admitted" \in Answers
  BY Rows DEF Calls, Answers
<1>2. \A r \in Page : Set(t, r) => /\ \A u \in Tabs \ {t} : tab'[u] = tab[u]
                                   /\ tab'[t].token = r.token
  BY OnePage, RequireAuthKeeps DEF Set
<1>3. CASE RefreshSucceeds(t)
  <2>1. Signed(tab[t]) \in Page /\ Signed(tab[t]).token = "live"
    BY <1>1, SignedPage
  <2>2. (\A u \in Tabs \ {t} : tab'[u] = tab[u]) /\ tab'[t].token = "live"
    BY <1>2, <1>3, <2>1 DEF RefreshSucceeds
  <2>3. ask[t]["refresh"] = "ok" /\ ask' = [ask EXCEPT ![t]["refresh"] = "none"] /\ cookie' = TRUE
    BY <1>3 DEF RefreshSucceeds, Arrives
  <2>4. QED
    BY <2>2, <2>3, CallEnds
<1>4. CASE LoginSucceeds(t)
  <2>1. [Signed(tab[t]) EXCEPT !.path = "app"] \in Page /\ [Signed(tab[t]) EXCEPT !.path = "app"].token = "live"
    BY <1>1, SignedPage DEF Page
  <2>2. (\A u \in Tabs \ {t} : tab'[u] = tab[u]) /\ tab'[t].token = "live"
    BY <1>2, <1>4, <2>1 DEF LoginSucceeds
  <2>3. ask[t]["login"] = "ok" /\ ask' = [ask EXCEPT ![t]["login"] = "none"] /\ cookie' = TRUE
    BY <1>4 DEF LoginSucceeds, Arrives
  <2>4. QED
    BY <2>2, <2>3, CallEnds
<1>5. CASE RefreshFails(t)
  <2> DEFINE q == [tab[t] EXCEPT !.timer = FALSE, !.ready = TRUE, !.lapsed = TRUE]
  <2>1. q \in Page /\ q.token = tab[t].token
    BY <1>1 DEF Page
  <2>2. Set(t, q) /\ ask' = [ask EXCEPT ![t]["refresh"] = "none"] /\ cookie' = cookie
    BY <1>5 DEF RefreshFails, Arrives
  <2> HIDE DEF q
  <2>3. (\A u \in Tabs \ {t} : tab'[u] = tab[u]) /\ tab'[t].token = tab[t].token
    BY <1>2, <2>1, <2>2
  <2>4. QED
    BY <2>2, <2>3, CallEnds
<1>6. CASE LoginFails(t)
  <2>1. tab' = tab /\ ask' = [ask EXCEPT ![t]["login"] = "none"] /\ cookie' = cookie
    BY <1>6 DEF LoginFails, Arrives
  <2>2. QED
    BY <2>1, CallEnds
<1>7. CASE TimerFires(t)
  <2> DEFINE a == IF ask[t]["refresh"] = "none" THEN RefreshAnswer(cookie) ELSE ask[t]["refresh"]
  <2>1. ask' = [ask EXCEPT ![t]["refresh"] = a] /\ tab' = [tab EXCEPT ![t].timer = FALSE] /\ cookie' = cookie
    BY <1>7 DEF TimerFires
  <2>2. a \in Answers /\ (a = "ok" => cookie \/ a = ask[t]["refresh"])
        /\ (a # "ok" => ask[t]["refresh"] # "ok")
    BY <1>1 DEF RefreshAnswer, Answers, Waiting
  <2>3. (\A u \in Tabs \ {t} : tab'[u] = tab[u]) /\ tab'[t].token = tab[t].token
    BY <1>1, <2>1 DEF Page, TypeOK
  <2> HIDE DEF a
  <2>4. CASE a = ask[t]["refresh"] \/ a # "ok"
    <3>1. Grants(ask'[t]) = Grants(ask[t]) /\ \A u \in Tabs \ {t} : ask'[u] = ask[u]
      BY <1>1, <2>1, <2>2, <2>4, GrantsAfter, ZenonT(40)
    <3>2. QED
      BY <2>1, <2>3, <3>1, Unnoticed
  <2>5. CASE a = "ok" /\ cookie
    <3>1. Grants(ask'[t]) = Grants(ask[t]) \union {"refresh"} /\ \A u \in Tabs \ {t} : ask'[u] = ask[u]
      BY <1>1, <2>1, <2>2, <2>5, GrantsAfter
    <3>2. GrantedBar[t] = Grants(ask[t])
      BY Zenon DEF GrantedBar, Grants
    <3>3. GrantedBar' = [GrantedBar EXCEPT ![t] = @ \union {"refresh"}]
      BY <3>1, <3>2, GrantedUpdate
    <3>4. SignedBar' = SignedBar
      BY <2>3, SignedSame
    <3>5. QED
      BY <2>1, <2>5, <3>3, <3>4, AbstractGrant
  <2>6. QED
    BY <2>2, <2>4, <2>5
<1>8. CASE SubmitLogin(t)
  <2>1. PICK a \in {"ok", "no"} : ask' = [ask EXCEPT ![t]["login"] = a] /\ ask[t]["login"] = "none"
    BY <1>8 DEF SubmitLogin, Send
  <2>2. tab' = tab /\ cookie' = cookie
    BY <1>8 DEF SubmitLogin
  <2>3. CASE a = "no"
    <3>1. Grants(ask'[t]) = Grants(ask[t]) /\ \A u \in Tabs \ {t} : ask'[u] = ask[u]
      BY <1>1, <2>1, <2>3, GrantsAfter
    <3>2. QED
      BY <2>2, <3>1, Unnoticed
  <2>4. CASE a = "ok"
    <3>1. Grants(ask'[t]) = Grants(ask[t]) \union {"login"} /\ \A u \in Tabs \ {t} : ask'[u] = ask[u]
      BY <1>1, <2>1, <2>4, GrantsAfter
    <3>2. GrantedBar[t] = Grants(ask[t])
      BY Zenon DEF GrantedBar, Grants
    <3>3. GrantedBar' = [GrantedBar EXCEPT ![t] = @ \union {"login"}]
      BY <3>1, <3>2, GrantedUpdate
    <3>4. SignedBar' = SignedBar
      BY <2>2, SignedSame
    <3>5. QED
      BY <2>2, <3>3, <3>4, AbstractGrant
  <2>5. QED
    BY <2>1, <2>3, <2>4
<1>9. CASE Intercept(t, "login") \/ Intercept(t, "api")
  BY <1>9, LoadsAnew DEF Intercept
<1>10. CASE Reload(t)
  BY <1>1, <1>10, LoadsAnew DEF Reload, Page
<1>11. CASE LogoutEnds(t)
  <2> DEFINE q == [tab[t] EXCEPT !.token = "null", !.ready = TRUE]
  <2>1. q \in Page /\ q.token = "null"
    BY <1>1 DEF Page
  <2>2. Set(t, q) /\ ask' = [ask EXCEPT ![t]["logout"] = "none"] /\ cookie' \in {cookie, FALSE}
    BY <1>11 DEF LogoutEnds, Arrives
  <2> HIDE DEF q
  <2>3. (\A u \in Tabs \ {t} : tab'[u] = tab[u]) /\ tab'[t].token = "null"
    BY <1>2, <2>1, <2>2
  <2>4. SignedBar' = [SignedBar EXCEPT ![t] = FALSE]
    BY <2>3, SignedUpdate
  <2>5. Grants(ask'[t]) = Grants(ask[t]) /\ \A u \in Tabs \ {t} : ask'[u] = ask[u]
    BY <1>1, <2>2, GrantsAfter
  <2>6. GrantedBar' = GrantedBar
    BY <2>5, GrantedSame
  <2>7. QED
    BY <2>2, <2>4, <2>6, AbstractLeave
<1>12. CASE SignOut(t)
  <2>1. ask' = [ask EXCEPT ![t]["logout"] = "ok"] /\ tab' = [tab EXCEPT ![t].timer = FALSE] /\ cookie' = cookie
    BY <1>12 DEF SignOut, Send
  <2>2. (\A u \in Tabs \ {t} : tab'[u] = tab[u]) /\ tab'[t].token = tab[t].token
    BY <1>1, <2>1 DEF Page, TypeOK
  <2>3. Grants(ask'[t]) = Grants(ask[t]) /\ \A u \in Tabs \ {t} : ask'[u] = ask[u]
    BY <1>1, <2>1, GrantsAfter
  <2>4. QED
    BY <2>1, <2>2, <2>3, Unnoticed
<1>13. CASE Poll(t) \/ AskAway(t) \/ ChangePassword(t) \/ AnswerLost(t) \/ SubmitSetup(t)
  <2>1. PICK c \in {"api", "setup"}, a \in {"no", "none", "admitted"} : ask' = [ask EXCEPT ![t][c] = a]
    BY <1>13, Zenon DEF Poll, AskAway, PageCall, ChangePassword, AnswerLost, SubmitSetup, Send, Arrives
  <2>2. tab' = tab /\ cookie' = cookie
    BY <1>13 DEF Poll, AskAway, PageCall, ChangePassword, AnswerLost, SubmitSetup
  <2> c \in Calls /\ a \in Answers /\ c \notin {"login", "refresh"}
    BY <2>1 DEF Calls, Answers
  <2>3. Grants(ask'[t]) = Grants(ask[t]) /\ \A u \in Tabs \ {t} : ask'[u] = ask[u]
    BY <1>1, <2>1, GrantsAfter
  <2>4. QED
    BY <2>2, <2>3, Unnoticed
<1>14. CASE CreateUser(t)
  <2>1. /\ ask' = [ask EXCEPT ![t]["setup"] = "none"]
        /\ \E p \in {"login", tab[t].path} : tab' = [tab EXCEPT ![t].path = p]
        /\ cookie' = cookie
    BY <1>14 DEF CreateUser, Arrives
  <2>2. (\A u \in Tabs \ {t} : tab'[u] = tab[u]) /\ tab'[t].token = tab[t].token
    BY <1>1, <2>1 DEF Page, TypeOK
  <2>3. ask' = [ask EXCEPT ![t]["setup"] = "none"] /\ "setup" \in Calls /\ "none" \in Answers
    BY <2>1 DEF Calls, Answers
  <2>4. Grants(ask'[t]) = Grants(ask[t]) /\ \A u \in Tabs \ {t} : ask'[u] = ask[u]
    BY <1>1, <2>3, GrantsAfter
  <2>5. QED
    BY <2>1, <2>2, <2>4, Unnoticed
<1>15. CASE StartTimeout(t)
  <2>1. [tab[t] EXCEPT !.ready = TRUE] \in Page /\ [tab[t] EXCEPT !.ready = TRUE].token = tab[t].token
    BY <1>1 DEF Page
  <2>2. (\A u \in Tabs \ {t} : tab'[u] = tab[u]) /\ tab'[t].token = tab[t].token
    BY <1>2, <1>15, <2>1 DEF StartTimeout
  <2>3. ask' = ask /\ cookie' = cookie
    BY <1>15 DEF StartTimeout
  <2>4. QED
    BY <2>2, <2>3, Unnoticed
<1>16. CASE TokenExpires(t) \/ Back(t) \/ OfferSetup(t) \/ Turn(t)
  <2>1. ask' = ask /\ cookie' = cookie
    BY <1>16 DEF TokenExpires, Back, OfferSetup, Turn
  <2>2. \A u \in Tabs \ {t} : tab'[u] = tab[u]
    BY <1>16 DEF TokenExpires, Back, OfferSetup, Turn, TypeOK
  <2>3. Holds(tab'[t]) <=> Holds(tab[t])
    BY <1>1, <1>16 DEF TokenExpires, Back, OfferSetup, Turn, TypeOK, Page
  <2>4. QED
    BY <2>1, <2>2, <2>3, Unnoticed
<1>17. QED
  BY <1>3, <1>4, <1>5, <1>6, <1>7, <1>8, <1>9, <1>10, <1>11, <1>12, <1>13, <1>14, <1>15, <1>16

LEMMA Refines == TypeOK /\ [Next]_vars => [Promise!Next]_Promise!vars
<1> SUFFICES ASSUME TypeOK, [Next]_vars PROVE [Promise!Next]_Promise!vars
  OBVIOUS
<1>1. CASE UNCHANGED vars
  <2>1. SignedBar' = SignedBar /\ GrantedBar' = GrantedBar /\ cookie' = cookie
    BY <1>1 DEF vars, SignedBar, GrantedBar
  <2>2. QED
    BY <2>1, AbstractStutter
<1>2. CASE CookieExpires
  <2>1. SignedBar' = SignedBar /\ GrantedBar' = GrantedBar /\ cookie' = FALSE
    BY <1>2 DEF CookieExpires, SignedBar, GrantedBar
  <2>2. Promise!Next
    BY <2>1, Zenon DEF Promise!Next, Promise!Drop, SignedBar, GrantedBar
  <2>3. QED
    BY <2>2
<1>3. QED
  BY <1>1, <1>2, TabRefines DEF Next

(* Every behaviour of a browser's tabs keeps the promise stated apart. *)
THEOREM PromiseKept == Spec => KeepsPromise
<1>1. TypeOK /\ [Next]_vars => [Promise!Next]_Promise!vars
  BY Refines
<1>2. QED
  BY Starts, TypeCorrect, <1>1, PTL DEF Spec, KeepsPromise, Promise!Spec
=============================================================================
