--------------------------- MODULE SessionPromise ---------------------------
(***************************************************************************)
(* What signing in promises, seen from the browser: a tab is signed in     *)
(* only by an answer the server gave to that tab, the server gives such an *)
(* answer only for a password or for the browser's session cookie, and the *)
(* cookie itself only ever comes with such an answer.  Nothing is said of  *)
(* timers, of the network or of the order in which answers arrive.         *)
(***************************************************************************)
CONSTANT Tabs                   (* the tabs of one browser *)

VARIABLES signed,               (* does the tab hold an access token? *)
          granted,              (* the answers with a token that are on their way to it *)
          cookie                (* does the browser hold a session cookie? *)

vars == <<signed, granted, cookie>>

Means == {"login", "refresh"}

Init == /\ signed = [t \in Tabs |-> FALSE]
        /\ granted = [t \in Tabs |-> {}]
        /\ cookie = FALSE

(* The server accepts a password, or the cookie that came with a request. *)
Grant(t) == /\ \/ granted' = [granted EXCEPT ![t] = @ \union {"login"}]
               \/ cookie /\ granted' = [granted EXCEPT ![t] = @ \union {"refresh"}]
            /\ UNCHANGED <<signed, cookie>>

(* An answer arrives: the tab gets its token and the browser its cookie. *)
Enter(t) == \E m \in granted[t] : /\ signed' = [signed EXCEPT ![t] = TRUE]
                                  /\ granted' = [granted EXCEPT ![t] = @ \ {m}]
                                  /\ cookie' = TRUE

(* An answer is lost; a cookie is dropped; a tab forgets its token. *)
Lose(t)  == /\ \E m \in granted[t] : granted' = [granted EXCEPT ![t] = @ \ {m}]
            /\ UNCHANGED <<signed, cookie>>
Drop     == cookie' = FALSE /\ UNCHANGED <<signed, granted>>
Leave(t) == /\ signed' = [signed EXCEPT ![t] = FALSE]
            /\ cookie' \in {cookie, FALSE}
            /\ UNCHANGED granted

(* The page is loaded anew: all is forgotten and what cookie there is is tried. *)
Load(t)  == /\ signed' = [signed EXCEPT ![t] = FALSE]
            /\ cookie' \in {cookie, FALSE}
            /\ granted' = [granted EXCEPT ![t] = IF cookie' THEN {"refresh"} ELSE {}]

Next == Drop \/ \E t \in Tabs : Grant(t) \/ Enter(t) \/ Lose(t) \/ Leave(t) \/ Load(t)

Spec == Init /\ [][Next]_vars
=============================================================================
