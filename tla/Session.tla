------------------------------ MODULE Session ------------------------------
(***************************************************************************)
(* A browser session: the access token a tab keeps in memory, the refresh  *)
(* cookie the tabs share, the timer that renews the token, the interceptor *)
(* that ends a session on a 401 and the pages that sign in, set up the     *)
(* first account and sign out.                                             *)
(*                                                                         *)
(* The server keeps nothing about sessions: what it answers is fixed by    *)
(* the cookie, token or password a request carries, so ask[t][c] holds the *)
(* answer from the moment tab t makes call c, until it arrives or is lost. *)
(* A lost answer and an error other than 401 take the same branch.         *)
(***************************************************************************)
CONSTANT Tabs                   (* the tabs of one browser *)

VARIABLES tab,                  (* what the page in each tab keeps *)
          ask,                  (* the calls each page is waiting for *)
          cookie,               (* does the browser hold a valid refresh_token cookie? *)
          users                 (* has table users a row? *)

vars == <<tab, ask, cookie, users>>

Calls   == {"refresh", "login", "logout", "api", "setup"}
Answers == {"none", "ok", "no", "admitted"}

(* path is "app" for any page with Layout around it, in view; "away" for such a *)
(* page in a tab that is not in view, and for the page that makes a new         *)
(* workspace, which has no Layout.  lapsed is no variable of the code: the last *)
(* renewal failed.                                                              *)
TypeOK == /\ tab \in [Tabs -> [token   : {"null", "live", "dead"},
                               ready   : BOOLEAN,
                               timer   : BOOLEAN,
                               path    : {"app", "away", "login", "setup"},
                               lapsed  : BOOLEAN]]
          /\ ask \in [Tabs -> [Calls -> Answers]]
          /\ cookie \in BOOLEAN
          /\ users \in BOOLEAN

FreshTab(p) == [token |-> "null", ready |-> FALSE, timer |-> FALSE, path |-> p, lapsed |-> FALSE]

(* Every page begins with tryRefresh, which sends whatever cookie there is. *)
RefreshAnswer(c) == IF c THEN "ok" ELSE "no"
Starting(c) == [k \in Calls |-> IF k = "refresh" THEN RefreshAnswer(c) ELSE "none"]

Init == /\ cookie = FALSE
        /\ users = FALSE
        /\ tab = [t \in Tabs |-> FreshTab("app")]
        /\ ask = [t \in Tabs |-> Starting(FALSE)]

(* RequireAuth: once the page is ready, what needs a token is replaced by /login. *)
RequireAuth(r) == IF r.ready /\ r.token = "null" /\ r.path \in {"app", "away"}
                  THEN [r EXCEPT !.path = "login"] ELSE r

Set(t, r) == tab' = [tab EXCEPT ![t] = RequireAuth(r)]
Shows(t, p) == tab[t].ready /\ tab[t].path = p

Send(t, c, a)    == ask[t][c] = "none" /\ ask' = [ask EXCEPT ![t][c] = a]
Arrives(t, c, A) == ask[t][c] \in A /\ ask' = [ask EXCEPT ![t][c] = "none"]

-----------------------------------------------------------------------------
(* The token *)

(* Mutants: the token is read from a field the answer does not have; a token *)
(* is set and its renewal is not scheduled.                                  *)
SignedByWrongField(r) == [r EXCEPT !.token = "undefined", !.timer = TRUE, !.ready = TRUE, !.lapsed = FALSE]
SignedWithoutTimer(r) == [r EXCEPT !.token = "live", !.ready = TRUE, !.lapsed = FALSE]

Signed(r) == [r EXCEPT !.token = "live", !.timer = TRUE, !.ready = TRUE, !.lapsed = FALSE]

RefreshSucceeds(t) == /\ Arrives(t, "refresh", {"ok"})
                      /\ Set(t, Signed(tab[t]))
                      /\ cookie' = TRUE
                      /\ UNCHANGED users

(* The timer goes, the token stays as it is. *)
RefreshFails(t) == /\ Arrives(t, "refresh", {"ok", "no"})
                   /\ Set(t, [tab[t] EXCEPT !.timer = FALSE, !.ready = TRUE, !.lapsed = TRUE])
                   /\ UNCHANGED <<cookie, users>>

(* Mutant: a renewal is answered on the strength of the token it is to renew. *)
TimerFiresWithToken(t) == /\ tab[t].timer
                          /\ tab' = [tab EXCEPT ![t].timer = FALSE]
                          /\ ask' = [ask EXCEPT ![t].refresh = "ok"]
                          /\ UNCHANGED <<cookie, users>>

(* After 13 minutes; a refresh that is still unanswered makes tryRefresh return. *)
TimerFires(t) == /\ tab[t].timer
                 /\ tab' = [tab EXCEPT ![t].timer = FALSE]
                 /\ ask' = [ask EXCEPT ![t].refresh = IF @ = "none" THEN RefreshAnswer(cookie) ELSE @]
                 /\ UNCHANGED <<cookie, users>>

(* Mutant: tryRefresh is not awaited, so its finally clears the timeout at once. *)
StartTimeoutCleared(t) == FALSE /\ UNCHANGED vars

(* App does not wait for the first refresh beyond 5 seconds. *)
StartTimeout(t) == /\ ~tab[t].ready
                   /\ Set(t, [tab[t] EXCEPT !.ready = TRUE])
                   /\ UNCHANGED <<ask, cookie, users>>

(* The access token outlives its 15 minutes; the cookie its 7 days. *)
TokenExpires(t) == /\ tab[t].token = "live"
                   /\ tab' = [tab EXCEPT ![t].token = "dead"]
                   /\ UNCHANGED <<ask, cookie, users>>
CookieExpires == cookie /\ cookie' = FALSE /\ UNCHANGED <<tab, ask, users>>

-----------------------------------------------------------------------------
(* Signing in and out *)

SubmitLogin(t) == /\ Shows(t, "login")
                  /\ \/ users /\ Send(t, "login", "ok")
                     \/ Send(t, "login", "no")
                  /\ UNCHANGED <<tab, cookie, users>>

LoginSucceeds(t) == /\ Arrives(t, "login", {"ok"})
                    /\ Set(t, [Signed(tab[t]) EXCEPT !.path = "app"])
                    /\ cookie' = TRUE
                    /\ UNCHANGED users

LoginFails(t) == /\ Arrives(t, "login", {"ok", "no"})
                 /\ UNCHANGED <<tab, cookie, users>>

(* A new page: whatever the old one was waiting for is abandoned. *)
NewPage(t, p, c) == /\ tab' = [tab EXCEPT ![t] = FreshTab(p)]
                    /\ ask' = [ask EXCEPT ![t] = Starting(c)]
                    /\ cookie' = c
                    /\ UNCHANGED users

(* Mutant: the interceptor leaves it to the logout it started to end the session. *)
InterceptWithoutRedirect(t, k) == /\ ask[t][k] = "no"
                                  /\ ask' = [ask EXCEPT ![t][k] = "none", ![t]["logout"] = "ok"]
                                  /\ tab' = [tab EXCEPT ![t].timer = FALSE]
                                  /\ UNCHANGED <<cookie, users>>

(* The response interceptor, on any 401 but a refresh's: logout is started and  *)
(* not awaited, and the page is replaced by a new one at /login.  The browser   *)
(* has seen the answer of that logout before it drops the old page, or has not. *)
Intercept(t, k) == /\ ask[t][k] = "no"
                   /\ \E c \in {cookie, FALSE} : NewPage(t, "login", c)
Reload(t) == NewPage(t, tab[t].path, cookie)

(* From the menu that Layout shows. *)
SignOut(t) == /\ Shows(t, "app")
              /\ Send(t, "logout", "ok")
              /\ tab' = [tab EXCEPT ![t].timer = FALSE]
              /\ UNCHANGED <<cookie, users>>

(* Whether the call succeeds or not, the token goes; the cookie only if it does. *)
LogoutEnds(t) == /\ Arrives(t, "logout", {"ok"})
                 /\ Set(t, [tab[t] EXCEPT !.token = "null", !.ready = TRUE])
                 /\ cookie' \in {cookie, FALSE}
                 /\ UNCHANGED users

(* A token that came while /login was showing is found by the Back button. *)
Back(t) == /\ Shows(t, "login") \/ Shows(t, "setup")
           /\ tab[t].token # "null"
           /\ tab' = [tab EXCEPT ![t].path = "app"]
           /\ UNCHANGED <<ask, cookie, users>>

-----------------------------------------------------------------------------
(* The calls of the pages.  Layout asks for the workspaces every 30 seconds,    *)
(* but only in a tab that is in view: React Query pauses the interval in the    *)
(* others.  What else pages ask for they ask when they please.  A change of     *)
(* password, from Layout's menu, with the wrong current one is a 401 like any   *)
(* other.                                                                       *)

(* The user turns away from the tab or to the page without Layout, or back. *)
Turn(t) == /\ \/ Shows(t, "app")  /\ tab' = [tab EXCEPT ![t].path = "away"]
              \/ Shows(t, "away") /\ tab' = [tab EXCEPT ![t].path = "app"]
           /\ UNCHANGED <<ask, cookie, users>>

(* An answer other than 401 changes nothing here. *)
PageCall(t) == /\ tab[t].token # "live"
               /\ Send(t, "api", "no")
               /\ UNCHANGED <<tab, cookie, users>>

Poll(t)    == Shows(t, "app") /\ PageCall(t)
AskAway(t) == Shows(t, "away") /\ PageCall(t)

ChangePassword(t) == /\ Shows(t, "app")
                     /\ Send(t, "api", "no")
                     /\ UNCHANGED <<tab, cookie, users>>

AnswerLost(t) == /\ Arrives(t, "api", {"no"})
                 /\ UNCHANGED <<tab, cookie, users>>

-----------------------------------------------------------------------------
(* First-run setup: the server looks for users, then inserts one. *)

OfferSetup(t) == /\ Shows(t, "login")
                 /\ ~users
                 /\ tab' = [tab EXCEPT ![t].path = "setup"]
                 /\ UNCHANGED <<ask, cookie, users>>

SubmitSetup(t) == /\ Shows(t, "setup")
                  /\ ~users
                  /\ Send(t, "setup", "admitted")
                  /\ UNCHANGED <<tab, cookie, users>>

(* The insert; its answer leads to /login, unless it is lost. *)
CreateUser(t) == /\ Arrives(t, "setup", {"admitted"})
                 /\ users' = TRUE
                 /\ \E p \in {"login", tab[t].path} : tab' = [tab EXCEPT ![t].path = p]
                 /\ UNCHANGED cookie

-----------------------------------------------------------------------------
Next == \/ CookieExpires
        \/ \E t \in Tabs : \/ RefreshSucceeds(t) \/ RefreshFails(t) \/ TimerFires(t)
                           \/ StartTimeout(t) \/ TokenExpires(t)
                           \/ SubmitLogin(t) \/ LoginSucceeds(t) \/ LoginFails(t)
                           \/ Intercept(t, "login") \/ Intercept(t, "api")
                           \/ SignOut(t) \/ LogoutEnds(t) \/ Reload(t) \/ Back(t)
                           \/ Turn(t) \/ Poll(t) \/ AskAway(t) \/ ChangePassword(t) \/ AnswerLost(t)
                           \/ OfferSetup(t) \/ SubmitSetup(t) \/ CreateUser(t)

(* Timers fire, time passes, Layout polls in a tab that stays in view with it,    *)
(* and not every 401 is lost on the way.                                          *)
(* Users and cookies do what they like, and every call but the polls may hang for *)
(* ever (axios is given no timeout).                                              *)
Fairness == \A t \in Tabs : /\ WF_vars(StartTimeout(t))
                            /\ WF_vars(TimerFires(t))
                            /\ WF_vars(TokenExpires(t))
                            /\ WF_vars(Poll(t))
                            /\ SF_vars(Intercept(t, "api"))

Spec == Init /\ [][Next]_vars /\ Fairness

-----------------------------------------------------------------------------
(* Renewal: a session is always about to be renewed.  In a tab that holds a   *)
(* token the timer runs or a refresh is under way, unless the last renewal    *)
(* failed or the session is being ended (scheduleRefresh and cancelRefresh in *)
(* auth.js, at every place that sets the token).                              *)
RenewalSurvives ==
    \A t \in Tabs : tab[t].token # "null" =>
        \/ tab[t].timer \/ ask[t].refresh # "none"
        \/ tab[t].lapsed
        \/ ask[t].logout # "none"

(* The session keeps the promise stated apart: a tab is signed in only by an   *)
(* answer given to it for a password or for the browser's cookie, through all  *)
(* reloads, sign-outs and late answers (auth.js, and Login, Refresh and Logout *)
(* in handlers.go).                                                            *)
Promise == INSTANCE SessionPromise WITH
               signed  <- [t \in Tabs |-> tab[t].token # "null"],
               granted <- [t \in Tabs |-> {c \in {"login", "refresh"} : ask[t][c] = "ok"}]
KeepsPromise == Promise!Spec

(* Start-up: the loading screen goes away though the first refresh is never *)
(* answered (the 5 second timeout of AppRoutes).                            *)
StartupEnds == \A t \in Tabs : []<>tab[t].ready

(* A token that has expired does not stay on an open page, for as long as the *)
(* user looks at it and it has Layout's poll: the next 401 makes the          *)
(* interceptor replace the page, or a renewal arrives first.                  *)
ExpiredSessionEnds ==
    \A t \in Tabs : (Shows(t, "app") /\ tab[t].token = "dead")
                     ~> (~Shows(t, "app") \/ tab[t].token = "live")

(* Once the cookie is gone for good, in whichever tab the user signed out, no  *)
(* tab keeps a token that works, and none but those left out of view or on the *)
(* page without Layout goes on showing pages that need a session: not by its   *)
(* timer, not by the token it still holds and not by a refresh answered late.  *)
SignOutReachesEveryTab ==
    <>[](~cookie) => \A t \in Tabs : /\ <>[](tab[t].token # "live")
                                     /\ <>[](~Shows(t, "away")) => <>[](~Shows(t, "app"))
=============================================================================
