------------------------- MODULE WorkspacePageProofs -------------------------
(* The views of a workspace page that hold a WebSocket, for any set of targets and *)
(* however often they reconnect; the save of its variables, whoever else writes    *)
(* the file; and the type correctness of the whole page.                           *)
EXTENDS WorkspacePage, SequenceTheorems, TLAPS

Sockets == [of : Targets, state : {"connecting", "open", "closing", "closed"}]
Flowing(s, k) == s[k].state \in {"connecting", "open"}

ViewTyped == /\ kind \in L!Kinds
             /\ socks \in Seq(Sockets)
             /\ ref \in 0..Len(socks)
             /\ mounted => target \in Targets
             /\ shown \subseteq 1..Len(socks)

(* But for the action log, which keeps its old sockets, whatever still flows is *)
(* in use and on the page, unless a late close has cut the terminal loose.      *)
InUseOnly == kind # "action" /\ ~overtaken =>
                 \A k \in 1..Len(socks) : Flowing(socks, k) => mounted /\ k = ref

(* Of the log viewer: nothing cuts it loose, its light is never on, its socket  *)
(* is that of the selection, and so is what it shows, when the effect has run.  *)
LogInOrder == kind = "log" =>
                 /\ ~overtaken /\ light = "off"
                 /\ ~due /\ ref # 0 => socks[ref].of = target
                 /\ ~due => \A k \in shown : socks[k].of = target

LightLit == mounted /\ light = "on" =>
                 IF kind = "action" THEN ref # 0 /\ Flowing(socks, ref)
                 ELSE \E k \in 1..Len(socks) : Flowing(socks, k)

ViewInv == ViewTyped /\ InUseOnly /\ LogInOrder /\ LightLit

-----------------------------------------------------------------------------
LEMMA ViewStarts == L!Init \/ L!Unused => ViewInv
<1>1. ASSUME L!Unused PROVE ViewInv
  <2>1. /\ kind = "log" /\ mounted = FALSE /\ socks = <<>> /\ ref = 0
        /\ shown = {} /\ light = "off" /\ overtaken = FALSE
    BY <1>1 DEF L!Unused
  <2>2. socks \in Seq(Sockets) /\ Len(socks) = 0
    BY <2>1
  <2>3. QED
    BY <2>1, <2>2 DEF ViewInv, ViewTyped, InUseOnly, LogInOrder, LightLit, L!Kinds
<1>2. ASSUME L!Init, kind # "restore" PROVE ViewInv
  <2>1. /\ kind \in L!Kinds /\ mounted = TRUE /\ target \in Targets /\ socks = <<>>
        /\ ref = 0 /\ shown = {} /\ light = "off" /\ overtaken = FALSE
    BY <1>2 DEF L!Init
  <2>2. socks \in Seq(Sockets) /\ Len(socks) = 0
    BY <2>1
  <2>3. QED
    BY <2>1, <2>2 DEF ViewInv, ViewTyped, InUseOnly, LogInOrder, LightLit
<1>3. ASSUME L!Init, kind = "restore" PROVE ViewInv
  <2>1. /\ mounted = TRUE /\ target \in Targets /\ socks = <<L!NewSocket(target)>>
        /\ ref = Len(socks) /\ shown = {} /\ overtaken = FALSE
    BY <1>3 DEF L!Init
  <2>2. L!NewSocket(target) \in Sockets /\ L!NewSocket(target).state = "connecting"
    BY <2>1 DEF L!NewSocket, Sockets
  <2>3. socks \in Seq(Sockets) /\ Len(socks) = 1 /\ socks[1].state = "connecting"
    BY <2>1, <2>2
  <2>4. QED
    BY <1>3, <2>1, <2>3 DEF ViewInv, ViewTyped, InUseOnly, LogInOrder, LightLit, Flowing, L!Kinds
<1>4. QED
  BY <1>1, <1>2, <1>3

-----------------------------------------------------------------------------
(* A socket with another state. *)
LEMMA Turned ==
  ASSUME NEW r \in Sockets, NEW z \in {"connecting", "open", "closing", "closed"}
  PROVE  /\ [r EXCEPT !.state = z] \in Sockets
         /\ [r EXCEPT !.state = z].state = z /\ [r EXCEPT !.state = z].of = r.of
BY DEF Sockets

(* Of a sequence one element of which is replaced. *)
LEMMA Replaced ==
  ASSUME NEW s \in Seq(Sockets), NEW k \in 1..Len(s), NEW r \in Sockets
  PROVE  /\ [s EXCEPT ![k] = r] \in Seq(Sockets)
         /\ Len([s EXCEPT ![k] = r]) = Len(s)
         /\ \A j \in 1..Len(s) : [s EXCEPT ![k] = r][j] = IF j = k THEN r ELSE s[j]
BY ExceptSeq

(* Closing the socket in use. *)
LEMMA ClosedFacts ==
  ASSUME ViewTyped
  PROVE  /\ L!Closed(socks) \in Seq(Sockets)
         /\ Len(L!Closed(socks)) = Len(socks)
         /\ \A k \in 1..Len(socks) : /\ L!Closed(socks)[k].of = socks[k].of
                                     /\ Flowing(L!Closed(socks), k) => Flowing(socks, k)
         /\ ref # 0 => ~Flowing(L!Closed(socks), ref)
<1>1. CASE ref # 0 /\ L!Live(ref)
  <2>1. L!Closed(socks) = [socks EXCEPT ![ref].state = "closing"] /\ ref \in 1..Len(socks)
    BY <1>1 DEF L!Closed, ViewTyped
  <2>2. socks[ref] \in Sockets
    BY <2>1 DEF ViewTyped
  <2>3. L!Closed(socks) = [socks EXCEPT ![ref] = [socks[ref] EXCEPT !.state = "closing"]]
    BY <2>1
  <2>4. [socks[ref] EXCEPT !.state = "closing"] \in Sockets
    BY <2>2, Turned
  <2>5. /\ [socks[ref] EXCEPT !.state = "closing"].state = "closing"
        /\ [socks[ref] EXCEPT !.state = "closing"].of = socks[ref].of
    BY <2>2, Turned
  <2>6. /\ L!Closed(socks) \in Seq(Sockets)
        /\ Len(L!Closed(socks)) = Len(socks)
        /\ \A k \in 1..Len(socks) : L!Closed(socks)[k] =
              IF k = ref THEN [socks[ref] EXCEPT !.state = "closing"] ELSE socks[k]
    BY <2>1, <2>3, <2>4, Replaced DEF ViewTyped
  <2>7. \A k \in 1..Len(socks) : L!Closed(socks)[k].of = socks[k].of
    BY <2>5, <2>6
  <2>8. ~Flowing(L!Closed(socks), ref)
    BY <2>1, <2>5, <2>6 DEF Flowing
  <2>9. \A k \in 1..Len(socks) : k # ref => L!Closed(socks)[k] = socks[k]
    BY <2>6
  <2>10. \A k \in 1..Len(socks) : Flowing(L!Closed(socks), k) => Flowing(socks, k)
    BY <2>8, <2>9 DEF Flowing
  <2>11. QED
    BY <2>6, <2>7, <2>8, <2>10
<1>2. CASE ~(ref # 0 /\ L!Live(ref))
  BY <1>2 DEF L!Closed, L!Live, Flowing, ViewTyped
<1>3. QED
  BY <1>1, <1>2

(* Taking another. *)
LEMMA TakeFacts ==
  ASSUME NEW s \in Seq(Sockets), NEW t \in Targets, Len(s) = Len(socks), L!Take(s, t)
  PROVE  /\ socks' \in Seq(Sockets)
         /\ Len(socks') = Len(s) + 1
         /\ \A k \in 1..Len(s) : socks'[k] = s[k]
         /\ ref' = Len(s) + 1
         /\ socks'[ref'].of = t
         /\ Flowing(socks', ref')
<1>1. L!NewSocket(t) \in Sockets /\ L!NewSocket(t).of = t /\ L!NewSocket(t).state = "connecting"
  BY DEF L!NewSocket, Sockets
<1>2. socks' = Append(s, L!NewSocket(t)) /\ ref' = Len(s) + 1
  BY DEF L!Take
<1>3. QED
  BY <1>1, <1>2 DEF Flowing

(* A socket that changes its state. *)
LEMMA StateFacts ==
  ASSUME ViewTyped, NEW k \in 1..Len(socks),
         NEW z \in {"connecting", "open", "closing", "closed"},
         socks' = [socks EXCEPT ![k].state = z]
  PROVE  /\ socks' \in Seq(Sockets)
         /\ Len(socks') = Len(socks)
         /\ \A j \in 1..Len(socks) : socks'[j].of = socks[j].of
         /\ \A j \in 1..Len(socks) : j # k => (Flowing(socks', j) <=> Flowing(socks, j))
         /\ Flowing(socks', k) <=> z \in {"connecting", "open"}
<1>1. socks[k] \in Sockets
  BY DEF ViewTyped
<1>2. socks' = [socks EXCEPT ![k] = [socks[k] EXCEPT !.state = z]]
  OBVIOUS
<1>3. /\ [socks[k] EXCEPT !.state = z] \in Sockets
      /\ [socks[k] EXCEPT !.state = z].state = z /\ [socks[k] EXCEPT !.state = z].of = socks[k].of
  BY <1>1, Turned
<1>4. /\ socks' \in Seq(Sockets)
      /\ Len(socks') = Len(socks)
      /\ \A j \in 1..Len(socks) :
            socks'[j] = IF j = k THEN [socks[k] EXCEPT !.state = z] ELSE socks[j]
  BY <1>2, <1>3, Replaced DEF ViewTyped
<1>5. \A j \in 1..Len(socks) : socks'[j].of = socks[j].of
  BY <1>3, <1>4
<1>6. \A j \in 1..Len(socks) : j # k => socks'[j] = socks[j]
  BY <1>4
<1>7. socks'[k].state = z
  BY <1>3, <1>4
<1>8. \A j \in 1..Len(socks) : j # k => (Flowing(socks', j) <=> Flowing(socks, j))
  BY <1>6 DEF Flowing
<1>9. Flowing(socks', k) <=> z \in {"connecting", "open"}
  BY <1>7 DEF Flowing
<1>10. QED
  BY <1>4, <1>5, <1>8, <1>9

-----------------------------------------------------------------------------
(* Nothing flows, of a view not cut loose, once the socket in use is closed. *)
LEMMA NoneFlows ==
  ASSUME ViewTyped, InUseOnly, kind # "action", ~overtaken, NEW k \in 1..Len(socks)
  PROVE  ~Flowing(L!Closed(socks), k)
<1>1. Flowing(L!Closed(socks), k) => ref # 0 /\ k = ref
  BY ClosedFacts DEF InUseOnly
<1>2. QED
  BY <1>1, ClosedFacts

(* The socket in use is closed and another may be taken for the same target. *)
LEMMA LogConnectsKeeps == ViewInv /\ L!LogConnects => ViewInv'
<1> SUFFICES ASSUME ViewInv, L!LogConnects PROVE ViewInv'
  OBVIOUS
<1>1. /\ kind = "log" /\ mounted /\ target \in Targets /\ L!Take(L!Closed(socks), target)
      /\ shown' = {} /\ due' = FALSE /\ UNCHANGED <<kind, mounted, target, light, overtaken>>
  BY DEF L!LogConnects, ViewInv, ViewTyped
<1>2. L!Closed(socks) \in Seq(Sockets) /\ Len(L!Closed(socks)) = Len(socks)
  BY ClosedFacts DEF ViewInv
<1>3. /\ socks' \in Seq(Sockets) /\ Len(socks') = Len(socks) + 1 /\ ref' = Len(socks) + 1
      /\ \A k \in 1..Len(socks) : socks'[k] = L!Closed(socks)[k]
      /\ socks'[ref'].of = target
  BY <1>1, <1>2, TakeFacts
<1>4. ViewTyped'
  BY <1>1, <1>2, <1>3 DEF ViewInv, ViewTyped
<1>5. LogInOrder' /\ LightLit'
  BY <1>1, <1>3 DEF ViewInv, LogInOrder, LightLit
<1>6. InUseOnly'
  <2>1. ~overtaken
    BY <1>1 DEF ViewInv, LogInOrder
  <2>2. \A k \in 1..Len(socks) : ~Flowing(socks', k)
    BY <1>1, <1>3, <2>1, NoneFlows DEF ViewInv, Flowing
  <2>3. \A k \in 1..Len(socks') : k \in 1..Len(socks) \/ k = ref'
    BY <1>2, <1>3 DEF ViewInv, ViewTyped
  <2>4. QED
    BY <1>1, <2>2, <2>3 DEF InUseOnly
<1>7. QED
  BY <1>4, <1>5, <1>6 DEF ViewInv

LEMMA TerminalConnectsKeeps == ViewInv /\ L!TerminalConnects => ViewInv'
<1> SUFFICES ASSUME ViewInv, L!TerminalConnects PROVE ViewInv'
  OBVIOUS
<1>1. /\ kind = "terminal" /\ mounted /\ target \in Targets /\ L!Take(L!Closed(socks), target)
      /\ shown' = {} /\ light' = "waiting" /\ UNCHANGED <<kind, mounted, target, overtaken>>
  BY DEF L!TerminalConnects, ViewInv, ViewTyped
<1>2. L!Closed(socks) \in Seq(Sockets) /\ Len(L!Closed(socks)) = Len(socks)
  BY ClosedFacts DEF ViewInv
<1>3. /\ socks' \in Seq(Sockets) /\ Len(socks') = Len(socks) + 1 /\ ref' = Len(socks) + 1
      /\ \A k \in 1..Len(socks) : socks'[k] = L!Closed(socks)[k]
  BY <1>1, <1>2, TakeFacts
<1>4. ViewTyped'
  BY <1>1, <1>2, <1>3 DEF ViewInv, ViewTyped
<1>5. LogInOrder' /\ LightLit'
  BY <1>1 DEF LogInOrder, LightLit
<1>6. InUseOnly'
  <2>1. ~overtaken => \A k \in 1..Len(socks) : ~Flowing(socks', k)
    BY <1>1, <1>3, NoneFlows DEF ViewInv, Flowing
  <2>2. \A k \in 1..Len(socks') : k \in 1..Len(socks) \/ k = ref'
    BY <1>2, <1>3 DEF ViewInv, ViewTyped
  <2>3. QED
    BY <1>1, <2>1, <2>2 DEF InUseOnly
<1>7. QED
  BY <1>4, <1>5, <1>6 DEF ViewInv

LEMMA RunActionKeeps == ASSUME NEW t \in Targets, ViewInv, L!RunAction(t) PROVE ViewInv'
<1>1. /\ kind = "action" /\ L!Take(socks, t) /\ target' = t
      /\ shown' = {} /\ UNCHANGED <<kind, mounted, overtaken>>
  BY DEF L!RunAction
<1>2. /\ socks' \in Seq(Sockets) /\ Len(socks') = Len(socks) + 1
      /\ ref' = Len(socks) + 1 /\ Flowing(socks', ref')
  BY <1>1, TakeFacts DEF ViewInv, ViewTyped
<1>3. ref' # 0 /\ ref' \in 0..Len(socks')
  BY <1>2 DEF ViewInv, ViewTyped
<1>4. ViewTyped'
  BY <1>1, <1>2, <1>3 DEF ViewInv, ViewTyped
<1>5. InUseOnly' /\ LogInOrder' /\ LightLit'
  BY <1>1, <1>2, <1>3 DEF InUseOnly, LogInOrder, LightLit
<1>6. QED
  BY <1>4, <1>5 DEF ViewInv

(* A socket is let go and its view is left or dark. *)
LEMMA DisconnectKeeps ==
  ASSUME ViewInv,
         L!Disconnect \/ (\E t \in Targets : L!TerminalSelects(t))
  PROVE  ViewInv'
<1>1. /\ kind = "terminal" /\ socks' = L!Closed(socks) /\ ref' = 0 /\ light' = "off"
      /\ mounted /\ target' \in Targets /\ UNCHANGED <<kind, mounted, shown, overtaken>>
  BY DEF L!Disconnect, L!TerminalSelects, ViewInv, ViewTyped
<1>2. ViewTyped'
  BY <1>1, ClosedFacts DEF ViewInv, ViewTyped
<1>3. InUseOnly'
  BY <1>1, NoneFlows, ClosedFacts DEF ViewInv, InUseOnly
<1>4. LogInOrder' /\ LightLit'
  BY <1>1 DEF LogInOrder, LightLit
<1>5. QED
  BY <1>2, <1>3, <1>4 DEF ViewInv

LEMMA LeaveKeeps == ViewInv /\ L!Leave => ViewInv'
<1> SUFFICES ASSUME ViewInv, L!Leave PROVE ViewInv'
  OBVIOUS
<1>1. mounted' = FALSE /\ UNCHANGED <<kind, target, due, ref, shown, light, overtaken>>
  BY DEF L!Leave
<1>2. CASE kind = "action"
  <2>1. socks' = socks
    BY <1>2 DEF L!Leave
  <2>2. QED
    BY <1>1, <1>2, <2>1 DEF ViewInv, ViewTyped, InUseOnly, LogInOrder, LightLit
<1>3. CASE kind # "action"
  <2>1. socks' = L!Closed(socks)
    BY <1>3 DEF L!Leave
  <2>2. ViewTyped' /\ LightLit'
    BY <1>1, <2>1, ClosedFacts DEF ViewInv, ViewTyped, LightLit
  <2>3. InUseOnly'
    BY <1>1, <1>3, <2>1, NoneFlows, ClosedFacts DEF ViewInv, InUseOnly
  <2>4. LogInOrder'
    BY <1>1, <2>1, ClosedFacts DEF ViewInv, ViewTyped, LogInOrder
  <2>5. QED
    BY <2>2, <2>3, <2>4 DEF ViewInv
<1>4. QED
  BY <1>2, <1>3

LEMMA LogSelectsKeeps == ASSUME NEW t \in Targets, ViewInv, L!LogSelects(t) PROVE ViewInv'
<1>1. /\ kind = "log" /\ mounted /\ target' = t /\ due' = TRUE
      /\ UNCHANGED <<kind, mounted, socks, ref, shown, light, overtaken>>
  BY DEF L!LogSelects
<1>2. QED
  BY <1>1 DEF ViewInv, ViewTyped, InUseOnly, LogInOrder, LightLit

LEMMA ClearKeeps == ViewInv /\ L!Clear => ViewInv'
BY DEF L!Clear, ViewInv, ViewTyped, InUseOnly, LogInOrder, LightLit

LEMMA OpensKeeps == ASSUME NEW k \in 1..Len(socks), ViewInv, L!Opens(k) PROVE ViewInv'
<1>1. /\ socks[k].state = "connecting" /\ socks' = [socks EXCEPT ![k].state = "open"]
      /\ UNCHANGED <<kind, mounted, target, due, ref, shown, light, overtaken>>
  BY DEF L!Opens
<1>2. /\ socks' \in Seq(Sockets) /\ Len(socks') = Len(socks)
      /\ \A j \in 1..Len(socks) : socks'[j].of = socks[j].of
      /\ \A j \in 1..Len(socks) : j # k => (Flowing(socks', j) <=> Flowing(socks, j))
      /\ Flowing(socks', k)
  BY <1>1, StateFacts DEF ViewInv
<1>3. \A j \in 1..Len(socks) : Flowing(socks', j) <=> Flowing(socks, j)
  BY <1>1, <1>2 DEF Flowing
<1>4. ViewTyped'
  BY <1>1, <1>2 DEF ViewInv, ViewTyped
<1>5. InUseOnly'
  BY <1>1, <1>2, <1>3 DEF ViewInv, InUseOnly
<1>6. LogInOrder'
  BY <1>1, <1>2 DEF ViewInv, ViewTyped, LogInOrder
<1>7. LightLit'
  <2> SUFFICES ASSUME mounted', light' = "on"
               PROVE  IF kind = "action" THEN ref # 0 /\ Flowing(socks', ref)
                      ELSE \E j \in 1..Len(socks) : Flowing(socks', j)
    BY <1>1, <1>2 DEF LightLit
  <2>1. IF kind = "action" THEN ref # 0 /\ Flowing(socks, ref)
        ELSE \E j \in 1..Len(socks) : Flowing(socks, j)
    BY <1>1 DEF ViewInv, LightLit
  <2>2. ref # 0 => ref \in 1..Len(socks)
    BY DEF ViewInv, ViewTyped
  <2>3. QED
    BY <1>3, <2>1, <2>2
<1>8. QED
  BY <1>4, <1>5, <1>6, <1>7 DEF ViewInv

LEMMA OutputKeeps == ASSUME NEW k \in 1..Len(socks), ViewInv, L!Output(k) PROVE ViewInv'
<1>1. /\ socks[k].state = "open" /\ shown' = shown \union {k}
      /\ UNCHANGED <<kind, mounted, target, due, socks, ref, overtaken>>
  BY DEF L!Output
<1>2. Flowing(socks, k)
  BY <1>1 DEF Flowing
<1>3. light' = light \/ light' = "off" \/ (light' = "on" /\ kind = "terminal")
  BY DEF L!Output
<1>4. ViewTyped' /\ InUseOnly'
  BY <1>1 DEF ViewInv, ViewTyped, InUseOnly
<1>5. LogInOrder'
  <2>1. kind = "log" => k = ref /\ ref # 0
    BY <1>2 DEF ViewInv, InUseOnly, LogInOrder
  <2>2. QED
    BY <1>1, <1>3, <2>1 DEF ViewInv, LogInOrder
<1>6. LightLit'
  BY <1>1, <1>2, <1>3 DEF ViewInv, LightLit
<1>7. QED
  BY <1>4, <1>5, <1>6 DEF ViewInv

LEMMA ClosesKeeps ==
  ASSUME NEW k \in 1..Len(socks), ViewInv, L!PeerCloses(k) \/ L!CloseArrives(k)
  PROVE  ViewInv'
<1>1. /\ socks' = [socks EXCEPT ![k].state = "closed"]
      /\ light' = IF kind = "log" THEN light ELSE "off"
      /\ ref' = IF kind = "terminal" THEN 0 ELSE ref
      /\ overtaken' = (overtaken \/ (kind = "terminal" /\ ref \notin {0, k}))
      /\ UNCHANGED <<kind, mounted, target, due, shown>>
  BY DEF L!PeerCloses, L!CloseArrives, L!OnClose
<1>2. /\ socks' \in Seq(Sockets) /\ Len(socks') = Len(socks)
      /\ \A j \in 1..Len(socks) : socks'[j].of = socks[j].of
      /\ \A j \in 1..Len(socks) : j # k => (Flowing(socks', j) <=> Flowing(socks, j))
      /\ ~Flowing(socks', k)
  BY <1>1, StateFacts DEF ViewInv
<1>3. ViewTyped'
  BY <1>1, <1>2 DEF ViewInv, ViewTyped
<1>4. InUseOnly'
  <2>1. CASE kind = "terminal" /\ ~overtaken'
    <3>1. ~overtaken /\ ref \in {0, k}
      BY <1>1, <2>1
    <3>2. \A j \in 1..Len(socks) : ~Flowing(socks', j)
      BY <1>2, <2>1, <3>1 DEF ViewInv, InUseOnly
    <3>3. QED
      BY <1>2, <3>2 DEF InUseOnly
  <2>2. CASE kind # "terminal"
    BY <1>1, <1>2, <2>2 DEF ViewInv, InUseOnly
  <2>3. QED
    BY <1>1, <2>1, <2>2 DEF InUseOnly
<1>5. LogInOrder'
  <2> SUFFICES ASSUME kind = "log" PROVE LogInOrder'
    BY <1>1 DEF LogInOrder
  <2>1. ~overtaken'
    BY <1>1, Zenon DEF ViewInv, LogInOrder
  <2>2. light' = "off" /\ ref' = ref
    BY <1>1 DEF ViewInv, LogInOrder
  <2>3. ~due' /\ ref' # 0 => socks'[ref'].of = target'
    BY <1>1, <1>2, <2>2 DEF ViewInv, ViewTyped, LogInOrder
  <2>4. ~due' => \A j \in shown' : socks'[j].of = target'
    BY <1>1, <1>2 DEF ViewInv, ViewTyped, LogInOrder
  <2>5. QED
    BY <2>1, <2>2, <2>3, <2>4 DEF LogInOrder
<1>6. LightLit'
  BY <1>1 DEF ViewInv, LogInOrder, LightLit
<1>7. QED
  BY <1>3, <1>4, <1>5, <1>6 DEF ViewInv

LEMMA ViewKeeps == ViewInv /\ [Next]_vars => ViewInv'
<1> SUFFICES ASSUME ViewInv, [Next]_vars PROVE ViewInv'
  OBVIOUS
<1>1. CASE L!Next
  <2>1. CASE \E t \in Targets : L!LogSelects(t) \/ L!RunAction(t) \/ L!TerminalSelects(t)
    BY <2>1, LogSelectsKeeps, RunActionKeeps, DisconnectKeeps
  <2>2. CASE L!LogConnects \/ L!Clear \/ L!TerminalConnects \/ L!Disconnect \/ L!Leave
    BY <2>2, LogConnectsKeeps, ClearKeeps, TerminalConnectsKeeps, DisconnectKeeps, LeaveKeeps
  <2>3. CASE \E k \in 1..Len(socks) :
                L!Opens(k) \/ L!Output(k) \/ L!PeerCloses(k) \/ L!CloseArrives(k)
    BY <2>3, OpensKeeps, OutputKeeps, ClosesKeeps
  <2>4. QED
    BY <1>1, <2>1, <2>2, <2>3 DEF L!Next, L!Ids
<1>2. CASE UNCHANGED views
  BY <1>2 DEF views, ViewInv, ViewTyped, InUseOnly, LogInOrder, LightLit
<1>3. QED
  BY <1>1, <1>2 DEF Next, vars

LEMMA ViewsAlways == Spec => []ViewInv
<1>1. Init => ViewInv
  BY ViewStarts DEF Init
<1>2. QED
  BY <1>1, ViewKeeps, PTL DEF Spec

-----------------------------------------------------------------------------
(* OneStream: but for a terminal cut loose by a late close, no socket flows  *)
(* behind the view, for any number of reconnections (connect, disconnect and *)
(* the cleanups of LogViewer, TerminalModal and RestoreModal).               *)
THEOREM NoStrayStream == Spec => []OneStream
<1>1. ViewInv => OneStream
  BY DEF ViewInv, InUseOnly, Flowing, OneStream, L!OneStream, L!Ids, L!Live
<1>2. QED
  BY <1>1, ViewsAlways, PTL

(* LogShowsItsTarget: for any set of environments and services, the log on  *)
(* display is of the one selected (connect in LogViewer).                   *)
THEOREM LogTrue == Spec => []LogShowsItsTarget
<1>1. ViewInv => LogShowsItsTarget
  BY DEF ViewInv, LogInOrder, LogShowsItsTarget, L!LogShowsItsTarget
<1>2. QED
  BY <1>1, ViewsAlways, PTL

(* LightIsTrue: a light that is on has a socket behind it that flows, however *)
(* many there were (the onclose handlers of the four views).                  *)
THEOREM LightHasStream == Spec => []LightIsTrue
<1>1. ViewInv => LightIsTrue
  BY DEF ViewInv, LightLit, Flowing, LightIsTrue, L!LightIsTrue, L!Ids, L!Live
<1>2. QED
  BY <1>1, ViewsAlways, PTL

-----------------------------------------------------------------------------
(* A save carries what the editor showed as changed, and until someone else *)
(* writes, what it has read is what the file holds.                         *)
SaveInv ==
    /\ patch = [step |-> patch.step, updates |-> patch.updates, deletes |-> patch.deletes, base |-> patch.base]
    /\ patch.step \in {"sent", "read"} => patch.updates = asked.updates /\ patch.deletes = asked.deletes
    /\ patch.step = "read" /\ ~crossed => patch.base = file

LEMMA SaveStarts == V!Init \/ V!Unused => SaveInv
<1>1. V!Init \/ V!Unused => patch = V!NoPatch
  BY DEF V!Init, V!Unused
<1>2. QED
  BY <1>1 DEF V!NoPatch, SaveInv

(* What leaves the save and the file alone, and makes nothing of it crossed. *)
LEMMA SaveUntouched ==
  ASSUME SaveInv, UNCHANGED <<patch, asked, file, crossed>>
  PROVE  SaveInv'
BY DEF SaveInv

(* Another's write crosses a save that has read the file. *)
LEMMA SaveCrossed ==
  ASSUME SaveInv, UNCHANGED <<patch, asked>>, patch.step = "read" => crossed'
  PROVE  SaveInv'
BY DEF SaveInv

LEMMA RewriteCrosses ==
  ASSUME NEW f, V!Rewrite(f), patch.step = "read"
  PROVE  crossed'
BY DEF V!Rewrite

LEMMA SaveKeeps == SaveInv /\ V!Next => SaveInv'
<1> SUFFICES ASSUME SaveInv, V!Next PROVE SaveInv'
  OBVIOUS
<1>1. CASE \/ V!Open \/ V!Leave \/ V!List \/ V!Reveal
           \/ \E k \in V!Keys : V!toggleDelete(k) \/ V!TypeIn(k)
           \/ \E n \in V!NewRows : V!TypeNew(n)
  <2>1. UNCHANGED <<patch, asked, file, crossed>>
    BY <1>1 DEF V!Open, V!Leave, V!List, V!Reveal, V!toggleDelete, V!TypeIn, V!TypeNew, V!Unsaved
  <2>2. QED
    BY <2>1, SaveUntouched
<1>2. CASE V!handleSave
  <2>1. patch' = [V!NoPatch EXCEPT !.step = "sent", !.updates = V!Updates, !.deletes = ed.deletes]
    BY <1>2 DEF V!handleSave
  <2>2. patch' = [step |-> "sent", updates |-> V!Updates, deletes |-> ed.deletes, base |-> V!NoPatch.base]
    BY <2>1 DEF V!NoPatch
  <2>3. asked'.updates = V!Updates /\ asked'.deletes = ed.deletes
    BY <1>2 DEF V!handleSave, V!Updates
  <2>4. QED
    BY <2>2, <2>3 DEF SaveInv
<1>3. CASE V!Saved \/ V!SaveFailed
  <2>1. patch' = V!NoPatch
    BY <1>3 DEF V!Saved, V!SaveFailed, V!EndSave, V!Answered, V!NoPatch
  <2>2. QED
    BY <2>1 DEF V!NoPatch, SaveInv
<1>4. CASE V!ReadFile
  <2>1. CASE patch' = [patch EXCEPT !.step = "read", !.base = file]
    <3>1. patch.step = "sent" /\ UNCHANGED <<file, asked>>
      BY <1>4, <2>1 DEF V!ReadFile, V!Answered, V!NoPatch
    <3>2. patch' = [step |-> "read", updates |-> patch.updates, deletes |-> patch.deletes, base |-> file]
      BY <2>1 DEF SaveInv
    <3>3. QED
      BY <3>1, <3>2 DEF SaveInv
  <2>2. CASE V!Answered("failed")
    BY <2>2 DEF V!Answered, V!NoPatch, SaveInv
  <2>3. QED
    BY <1>4, <2>1, <2>2 DEF V!ReadFile
<1>5. CASE V!WriteFile
  <2>1. V!Answered("done")
    BY <1>5 DEF V!WriteFile
  <2>2. QED
    BY <2>1 DEF V!Answered, V!NoPatch, SaveInv
<1>6. CASE V!LookUp
  <2>1. UNCHANGED <<patch, asked, file, crossed>>
    BY <1>6 DEF V!LookUp
  <2>2. QED
    BY <2>1, SaveUntouched
<1>7. CASE V!Truncate
  <2>1. UNCHANGED <<patch, asked>> /\ \E f : V!Rewrite(f)
    BY <1>7, Zenon DEF V!Truncate
  <2>2. QED
    BY <2>1, RewriteCrosses, SaveCrossed
<1>8. CASE V!Finish
  <2>1. UNCHANGED <<patch, asked>> /\ \E f : V!Rewrite(f)
    BY <1>8, Zenon DEF V!Finish
  <2>2. QED
    BY <2>1, RewriteCrosses, SaveCrossed
<1>9. CASE V!ensure_env_file \/ V!Others
  <2>1. UNCHANGED <<patch, asked>> /\ \E f : V!Rewrite(f)
    BY <1>9, Zenon DEF V!ensure_env_file, V!Others
  <2>2. QED
    BY <2>1, RewriteCrosses, SaveCrossed
<1>10. QED
  BY <1>1, <1>2, <1>3, <1>4, <1>5, <1>6, <1>7, <1>8, <1>9 DEF V!Next

(* OthersVariablesKept: a save no other write came between makes of each of the *)
(* variables what the user asked, and keeps the others, for any number of runs  *)
(* of env-gen.sh and other writers before and after it (handleSave of           *)
(* EnvVarsModal and UpdateEnvVars).  What the user left blank with the values   *)
(* hidden is not covered: the page says it stays and the save empties it.       *)
THEOREM SaveDoesAsAsked == Spec => OthersVariablesKept
<1>1. Init => SaveInv
  BY SaveStarts DEF Init
<1>2. SaveInv /\ [Next]_vars => SaveInv'
  <2> SUFFICES ASSUME SaveInv, [Next]_vars PROVE SaveInv'
    OBVIOUS
  <2>1. CASE V!Next
    BY <2>1, SaveKeeps
  <2>2. CASE UNCHANGED variables
    BY <2>2 DEF variables, SaveInv
  <2>3. QED
    BY <2>1, <2>2 DEF Next, vars
<1>3. ASSUME SaveInv
      PROVE  V!WriteFile /\ ~crossed =>
               \A k \in V!Keys \ (asked.left \union {j \in asked.deletes : asked.updates[j] # "none"}) :
                  file'[k] = IF k \in asked.deletes THEN "absent"
                             ELSE IF asked.updates[k] # "none" THEN asked.updates[k] ELSE file[k]
  <2> SUFFICES ASSUME V!WriteFile, ~crossed, NEW k \in V!Keys
               PROVE  file'[k] = IF k \in asked.deletes THEN "absent"
                                 ELSE IF asked.updates[k] # "none" THEN asked.updates[k] ELSE file[k]
    OBVIOUS
  <2>1. patch.step = "read" /\ file' = V!Updated
    BY DEF V!WriteFile
  <2>2. patch.updates = asked.updates /\ patch.deletes = asked.deletes /\ patch.base = file
    BY <1>3, <2>1 DEF SaveInv
  <2>3. QED
    BY <2>1, <2>2 DEF V!Updated
<1>4. QED
  BY <1>1, <1>2, <1>3, PTL DEF Spec, OthersVariablesKept, V!OthersVariablesKept

-----------------------------------------------------------------------------
(* Every variable keeps its type: the cards', step by step. *)
LEMMA CardsKeep == C!TypeOK /\ C!Next => C!TypeOK'
<1> SUFFICES ASSUME C!TypeOK, C!Next PROVE C!TypeOK'
  OBVIOUS
<1> USE DEF C!TypeOK, C!Statuses
<1>1. CASE C!StreamOpens \/ C!StreamCloses
  BY <1>1 DEF C!StreamOpens, C!StreamCloses
<1>2. ASSUME NEW e \in Envs, C!ContainersChange(e) \/ C!DockerComesAndGoes(e) PROVE C!TypeOK'
  BY <1>2 DEF C!ContainersChange, C!DockerComesAndGoes
<1>3. ASSUME NEW e \in Envs, C!EventArrives(e) \/ C!EventMistaken(e) \/ C!PollStatus(e) PROVE C!TypeOK'
  BY <1>3 DEF C!EventArrives, C!EventMistaken, C!PollStatus, C!AskStatus, C!EnvStatus
<1>4. ASSUME NEW e \in Envs, C!StatusArrives(e) \/ C!StatusLost(e) PROVE C!TypeOK'
  BY <1>4 DEF C!StatusArrives, C!StatusLost
<1>5. ASSUME NEW e \in Envs, C!Press(e) \/ C!JobEnds(e) \/ C!AfterJob(e) PROVE C!TypeOK'
  <2>0. job[e] \in [open : 0..MaxJobs, closed : 0..MaxJobs] /\ MaxJobs \in Nat
    BY WorkspacePageAssumption
  <2>1. job' \in [Envs -> [open : 0..MaxJobs, closed : 0..MaxJobs]]
    <3>1. CASE C!Press(e)
      <4>1. job[e].open + 1 \in 0..MaxJobs
        BY <2>0, <3>1 DEF C!Press
      <4>2. QED
        BY <2>0, <3>1, <4>1 DEF C!Press
    <3>2. CASE C!JobEnds(e)
      <4>1. job[e].open - 1 \in 0..MaxJobs /\ job[e].closed + 1 \in 0..MaxJobs
        BY <2>0, <3>2 DEF C!JobEnds
      <4>2. QED
        BY <3>2, <4>1 DEF C!JobEnds
    <3>3. CASE C!AfterJob(e)
      <4>1. job[e].closed - 1 \in 0..MaxJobs
        BY <2>0, <3>3 DEF C!AfterJob
      <4>2. QED
        BY <2>0, <3>3, <4>1 DEF C!AfterJob
    <3>4. QED
      BY <1>5, <3>1, <3>2, <3>3
  <2>2. fetch' \in [Envs -> C!Statuses \union {"none", "away"}]
    BY <1>5 DEF C!Press, C!JobEnds, C!AfterJob, C!AskStatus, C!EnvStatus
  <2>3. QED
    BY <1>5, <2>1, <2>2 DEF C!Press, C!JobEnds, C!AfterJob
<1>6. QED
  BY <1>1, <1>2, <1>3, <1>4, <1>5, Zenon DEF C!Next

LEMMA NoJobTyped == C!NoJob \in [open : 0..MaxJobs, closed : 0..MaxJobs]
BY WorkspacePageAssumption DEF C!NoJob

LEMMA CardsStart == C!Init \/ C!Unused => C!TypeOK
<1> USE DEF C!States, C!Statuses
<1>1. ASSUME C!Init PROVE C!TypeOK
  BY <1>1, NoJobTyped DEF C!Init, C!TypeOK
<1>2. ASSUME C!Unused PROVE C!TypeOK
  BY <1>2, NoJobTyped DEF C!Unused, C!TypeOK
<1>3. QED
  BY <1>1, <1>2

(* The badges'. *)
LEMMA CheckTyped == \A e : B!Check(e) \in B!Verdicts
BY DEF B!Check, B!Verdicts

(* Updates that are counted. *)
LEMMA FewerClosed ==
  ASSUME NEW f \in [Envs -> [open : 0..MaxJobs, closed : 0..MaxJobs]], NEW g, NEW e \in Envs,
         g = f \/ (f[e].closed > 0 /\ g = [f EXCEPT ![e].closed = @ - 1])
  PROVE  g \in [Envs -> [open : 0..MaxJobs, closed : 0..MaxJobs]]
BY WorkspacePageAssumption

LEMMA OneMoreOpen ==
  ASSUME NEW f \in [Envs -> [open : 0..MaxJobs, closed : 0..MaxJobs]], NEW g, NEW e \in Envs,
         \/ /\ f[e].open + f[e].closed < MaxJobs
            /\ g = [f EXCEPT ![e].open = @ + 1]
         \/ /\ f[e].open > 0 /\ f[e].closed < MaxJobs
            /\ g = [f EXCEPT ![e] = [open |-> @.open - 1, closed |-> @.closed + 1]]
  PROVE  g \in [Envs -> [open : 0..MaxJobs, closed : 0..MaxJobs]]
BY WorkspacePageAssumption

LEMMA BadgesKeep == B!TypeOK /\ B!Next => B!TypeOK'
<1> SUFFICES ASSUME B!TypeOK, B!Next PROVE B!TypeOK'
  OBVIOUS
<1> USE DEF B!TypeOK
<1>1. CASE B!HubComesAndGoes \/ B!DockerComesAndGoes
  BY <1>1 DEF B!HubComesAndGoes, B!DockerComesAndGoes
<1>2. ASSUME NEW e \in Envs, B!Publish(e) \/ B!Retag(e) PROVE B!TypeOK'
  <2>1. \A k \in B!Images : B!Releases(k) \subseteq {"no", "seen", "unseen"}
    BY DEF B!Images, B!Releases
  <2>2. image' \in [Envs -> B!Images] /\ UNCHANGED <<online, local, look, found, ask, badge, update>>
    BY <1>2 DEF B!Publish, B!Retag
  <2>3. \E b \in {"no", "seen", "unseen"} : behind' = [behind EXCEPT ![e] = b]
    <3>1. image[e] \in B!Images
      OBVIOUS
    <3>2. \E k \in B!Images : \E b \in B!Releases(k) : behind' = [behind EXCEPT ![e] = b]
      BY <1>2, <3>1 DEF B!Publish, B!Retag
    <3>3. QED
      BY <2>1, <3>2, Zenon
  <2>4. QED
    BY <2>2, <2>3
<1>3. ASSUME NEW e \in Envs, B!HourlyLook(e) PROVE B!TypeOK'
  BY <1>3, CheckTyped DEF B!HourlyLook, B!LookAt, B!Checkers
<1>4. ASSUME NEW e \in Envs, B!PollUpdates(e) \/ B!AfterUpdate(e) PROVE B!TypeOK'
  <2>1. ask' \in [Envs -> B!Verdicts \union {"none", "pending", "away"}]
    BY <1>4 DEF B!PollUpdates, B!AfterUpdate, B!AskUpdates
  <2>2. look' \in [Envs -> [B!Checkers -> B!Verdicts \union {"none", "away"}]]
    BY <1>4, CheckTyped DEF B!PollUpdates, B!AfterUpdate, B!AskUpdates, B!LookAt, B!Checkers
  <2>3. update' \in [Envs -> [open : 0..MaxJobs, closed : 0..MaxJobs]]
    <3>1. update' = update \/ (update[e].closed > 0 /\ update' = [update EXCEPT ![e].closed = @ - 1])
      BY <1>4, Zenon DEF B!PollUpdates, B!AfterUpdate
    <3>2. update \in [Envs -> [open : 0..MaxJobs, closed : 0..MaxJobs]]
      OBVIOUS
    <3>3. QED
      BY <3>1, <3>2, FewerClosed
  <2>4. QED
    BY <1>4, <2>1, <2>2, <2>3 DEF B!PollUpdates, B!AfterUpdate
<1>5. ASSUME NEW e \in Envs, B!UpdatesArrive(e) \/ B!UpdatesLost(e) PROVE B!TypeOK'
  <2>1. ask' \in [Envs -> B!Verdicts \union {"none", "pending", "away"}]
    BY <1>5 DEF B!UpdatesArrive, B!UpdatesLost
  <2>2. badge' \in [Envs -> B!Verdicts \union {"pending"}]
    <3>1. ask[e] \in B!Verdicts \union {"pending"}
      BY <1>5 DEF B!UpdatesArrive, B!UpdatesLost
    <3>2. QED
      BY <1>5, <3>1 DEF B!UpdatesArrive, B!UpdatesLost
  <2>3. QED
    BY <1>5, <2>1, <2>2 DEF B!UpdatesArrive, B!UpdatesLost
<1>6. ASSUME NEW e \in Envs, B!PressUpdate(e) \/ B!UpdateEnds(e) PROVE B!TypeOK'
  <2>1. update' \in [Envs -> [open : 0..MaxJobs, closed : 0..MaxJobs]]
    <3>1. \/ /\ update[e].open + update[e].closed < MaxJobs
             /\ update' = [update EXCEPT ![e].open = @ + 1]
          \/ /\ update[e].open > 0 /\ update[e].closed < MaxJobs
             /\ update' = [update EXCEPT ![e] = [open |-> @.open - 1, closed |-> @.closed + 1]]
      BY <1>6, Zenon DEF B!PressUpdate, B!UpdateEnds
    <3>2. update \in [Envs -> [open : 0..MaxJobs, closed : 0..MaxJobs]]
      OBVIOUS
    <3>3. QED
      BY <3>1, <3>2, OneMoreOpen
  <2>2. QED
    BY <1>6, <2>1 DEF B!PressUpdate, B!UpdateEnds
<1>7. ASSUME NEW e \in Envs, B!UpdatePulls(e) PROVE B!TypeOK'
  BY <1>7 DEF B!UpdatePulls
<1>8. ASSUME NEW e \in Envs, NEW c \in B!Checkers, B!LookEnds(e, c) PROVE B!TypeOK'
  BY <1>8 DEF B!LookEnds
<1>9. QED
  BY <1>1, <1>2, <1>3, <1>4, <1>5, <1>6, <1>7, <1>8, Zenon DEF B!Next

LEMMA BadgesStart == B!Init \/ B!Unused => B!TypeOK
<1> USE DEF B!Images, B!Checkers, B!Verdicts
<1>1. B!NoJob \in [open : 0..MaxJobs, closed : 0..MaxJobs]
  BY WorkspacePageAssumption DEF B!NoJob
<1>2. ASSUME B!Init PROVE B!TypeOK
  BY <1>1, <1>2 DEF B!Init, B!TypeOK
<1>3. ASSUME B!Unused PROVE B!TypeOK
  BY <1>1, <1>3 DEF B!Unused, B!TypeOK
<1>4. QED
  BY <1>2, <1>3

-----------------------------------------------------------------------------
(* Of the views, what ViewInv does not say. *)
ViewRest == /\ mounted \in BOOLEAN /\ due \in BOOLEAN /\ heard \in BOOLEAN /\ overtaken \in BOOLEAN
            /\ target \in Targets
            /\ Len(socks) <= MaxSockets
            /\ light \in {"off", "waiting", "on"}

LEMMA ViewRestStarts == L!Init \/ L!Unused => ViewRest
<1> USE WorkspacePageAssumption
<1>1. ASSUME L!Init PROVE ViewRest
  <2>1. /\ mounted \in BOOLEAN /\ due \in BOOLEAN /\ heard \in BOOLEAN /\ overtaken \in BOOLEAN
    BY <1>1, Zenon DEF L!Init
  <2>2. target \in Targets /\ light \in {"off", "waiting", "on"}
    BY <1>1 DEF L!Init
  <2>3. socks = <<L!NewSocket(target)>> \/ socks = <<>>
    BY <1>1 DEF L!Init
  <2>4. Len(socks) <= MaxSockets
    BY <2>3
  <2>5. QED
    BY <2>1, <2>2, <2>4 DEF ViewRest
<1>2. ASSUME L!Unused PROVE ViewRest
  <2>1. target \in Targets
    BY <1>2 DEF L!Unused
  <2>2. socks = <<>>
    BY <1>2 DEF L!Unused
  <2>3. Len(socks) <= MaxSockets
    BY <2>2
  <2>4. QED
    BY <1>2, <2>1, <2>3 DEF L!Unused, ViewRest
<1>3. QED
  BY <1>1, <1>2

LEMMA ViewRestKeeps == ViewInv /\ ViewRest /\ L!Next => ViewRest'
<1> SUFFICES ASSUME ViewInv, ViewRest, L!Next PROVE ViewRest'
  OBVIOUS
<1>1. Len(socks') <= MaxSockets
  <2>1. CASE socks' = socks
    BY <2>1 DEF ViewRest
  <2>2. CASE socks' = L!Closed(socks)
    BY <2>2, ClosedFacts DEF ViewRest, ViewInv
  <2>3. CASE \E t \in Targets : L!Take(socks, t) \/ L!Take(L!Closed(socks), t)
    <3>1. /\ Len(socks) < MaxSockets
          /\ \E s \in {socks, L!Closed(socks)}, t \in Targets : L!Take(s, t)
      BY <2>3 DEF L!Take
    <3>2. Len(socks') = Len(socks) + 1
      BY <3>1, ClosedFacts, TakeFacts DEF ViewInv, ViewTyped
    <3>3. Len(socks) \in Nat /\ MaxSockets \in Nat
      BY WorkspacePageAssumption DEF ViewInv, ViewTyped
    <3>4. QED
      BY <3>1, <3>2, <3>3
  <2>4. CASE \E k \in 1..Len(socks), z \in {"open", "closed"} : socks' = [socks EXCEPT ![k].state = z]
    BY <2>4, StateFacts DEF ViewInv, ViewRest
  <2>5. \/ socks' = socks \/ socks' = L!Closed(socks)
        \/ \E t \in Targets : L!Take(socks, t) \/ L!Take(L!Closed(socks), t)
        \/ \E k \in 1..Len(socks), z \in {"open", "closed"} : socks' = [socks EXCEPT ![k].state = z]
    BY Zenon DEF ViewRest, L!Next, L!Ids, L!LogSelects, L!LogConnects, L!RunAction, L!Clear, L!TerminalSelects,
             L!TerminalConnects, L!Disconnect, L!Leave, L!Opens, L!Output, L!PeerCloses, L!CloseArrives
  <2>6. QED
    BY <2>1, <2>2, <2>3, <2>4, <2>5
<1>2. target' \in Targets
  BY DEF ViewRest, L!Next, L!LogSelects, L!LogConnects, L!RunAction, L!Clear, L!TerminalSelects,
         L!TerminalConnects, L!Disconnect, L!Leave, L!Opens, L!Output, L!PeerCloses, L!CloseArrives, L!OnClose
<1>3. light' \in {"off", "waiting", "on"}
  BY DEF ViewRest, L!Next, L!LogSelects, L!LogConnects, L!RunAction, L!Clear, L!TerminalSelects,
         L!TerminalConnects, L!Disconnect, L!Leave, L!Opens, L!Output, L!PeerCloses, L!CloseArrives, L!OnClose
<1>4. mounted' \in BOOLEAN /\ due' \in BOOLEAN
  BY DEF ViewRest, L!Next, L!LogSelects, L!LogConnects, L!RunAction, L!Clear, L!TerminalSelects,
         L!TerminalConnects, L!Disconnect, L!Leave, L!Opens, L!Output, L!PeerCloses, L!CloseArrives, L!OnClose
<1>5. heard' \in BOOLEAN
  BY DEF ViewRest, L!Next, L!LogSelects, L!LogConnects, L!RunAction, L!Clear, L!TerminalSelects,
         L!TerminalConnects, L!Disconnect, L!Leave, L!Opens, L!Output, L!PeerCloses, L!CloseArrives, L!OnClose
<1>6. overtaken' \in BOOLEAN
  BY DEF ViewRest, L!Next, L!LogSelects, L!LogConnects, L!RunAction, L!Clear, L!TerminalSelects,
         L!TerminalConnects, L!Disconnect, L!Leave, L!Opens, L!Output, L!PeerCloses, L!CloseArrives, L!OnClose
<1>7. QED
  BY <1>1, <1>2, <1>3, <1>4, <1>5, <1>6 DEF ViewRest

-----------------------------------------------------------------------------
(* The file and its editor. *)
EdTyped == [open : BOOLEAN, reveal : BOOLEAN, edits : [V!Keys -> V!Typed],
            deletes : SUBSET V!Keys, new : [V!Keys -> V!Typed]]

LEMMA EdFields ==
  ASSUME NEW a \in BOOLEAN, NEW b \in BOOLEAN, NEW x \in [V!Keys -> V!Typed],
         NEW z \in SUBSET V!Keys, NEW y \in [V!Keys -> V!Typed]
  PROVE  [open |-> a, reveal |-> b, edits |-> x, deletes |-> z, new |-> y] \in EdTyped
BY Zenon DEF EdTyped

LEMMA NoEditsTyped == V!NoEdits \in [V!Keys -> V!Typed] /\ {} \in SUBSET V!Keys
BY DEF V!NoEdits, V!Typed

LEMMA UntouchedTyped ==
  ASSUME NEW a \in BOOLEAN, NEW b \in BOOLEAN
  PROVE  V!Untouched(a, b) \in EdTyped
BY NoEditsTyped, EdFields DEF V!Untouched

LEMMA ClosedTyped == V!Closed \in EdTyped
BY UntouchedTyped DEF V!Closed

LEMMA RestTyped ==
  /\ V!NoPatch \in [step : {"none", "sent", "read", "done", "failed"}, updates : [V!Keys -> V!Typed],
                    deletes : SUBSET V!Keys, base : [V!Keys -> V!Held \ {"mask"}]]
  /\ V!NoGen \in [step : {"idle", "looked", "truncated"}, kept : V!Held \ {"mask"}]
  /\ V!Nothing \in [updates : [V!Keys -> V!Typed], deletes : SUBSET V!Keys, left : SUBSET V!Keys]
  /\ 0 \in 0..MaxOthers /\ FALSE \in BOOLEAN /\ {} \subseteq V!Keys
BY NoEditsTyped, WorkspacePageAssumption DEF V!NoPatch, V!NoGen, V!Nothing, V!Held

LEMMA FileStarts == V!Init \/ V!Unused => V!TypeOK
<1> USE DEF V!TypeOK, V!Held
<1>1. V!Init => V!TypeOK
  <2> SUFFICES ASSUME V!Init PROVE V!TypeOK
    OBVIOUS
  <2>1. file \in [V!Keys -> V!Held \ {"mask"}]
    BY DEF V!Init
  <2>2. exists \in [env : BOOLEAN, example : BOOLEAN]
    <3>1. \/ exists = [env |-> TRUE, example |-> TRUE]
          \/ exists \in [env : {FALSE}, example : BOOLEAN]
      BY DEF V!Init
    <3>2. ASSUME NEW x \in BOOLEAN, NEW y \in BOOLEAN
          PROVE  [env |-> x, example |-> y] \in [env : BOOLEAN, example : BOOLEAN]
      BY Zenon
    <3>3. CASE exists \in [env : {FALSE}, example : BOOLEAN]
      <4>1. exists = [env |-> exists.env, example |-> exists.example]
        BY <3>3
      <4>2. exists.env \in {FALSE} /\ exists.example \in BOOLEAN
        BY <3>3
      <4>3. exists.env \in BOOLEAN
        BY <4>2, Zenon
      <4>4. QED
        BY <4>1, <4>2, <4>3, <3>2, Zenon
    <3>4. QED
      BY <3>1, <3>2, <3>3, Zenon
  <2>3. ed \in EdTyped
    BY ClosedTyped DEF V!Init
  <2>4. stack \in {"image", "custom"} /\ listing = {} /\ patch = V!NoPatch /\ gen = V!NoGen
        /\ asked = V!Nothing /\ crossed = FALSE /\ others = 0
    BY DEF V!Init
  <2>5. QED
    BY <2>1, <2>2, <2>3, <2>4, RestTyped DEF EdTyped
<1>2. V!Unused => V!TypeOK
  <2> SUFFICES ASSUME V!Unused PROVE V!TypeOK
    OBVIOUS
  <2>1. ed \in EdTyped
    BY ClosedTyped DEF V!Unused
  <2>2. exists \in [env : BOOLEAN, example : BOOLEAN]
    <3>1. [env |-> FALSE, example |-> FALSE] \in [env : BOOLEAN, example : BOOLEAN]
      BY Zenon
    <3>2. QED
      BY <3>1 DEF V!Unused
  <2>3. stack \in {"image", "custom"} /\ listing = {} /\ patch = V!NoPatch /\ gen = V!NoGen
        /\ asked = V!Nothing /\ crossed = FALSE /\ others = 0
    BY DEF V!Unused
  <2>4. file \in [V!Keys -> V!Held \ {"mask"}]
    BY DEF V!Unused
  <2>5. QED
    BY <2>1, <2>2, <2>3, <2>4, RestTyped DEF EdTyped
<1>3. QED
  BY <1>1, <1>2

LEMMA UpdatesTyped == V!TypeOK => V!Updates \in [V!Keys -> V!Typed]
BY DEF V!TypeOK, V!Updates

LEMMA UpdatedTyped == V!TypeOK => V!Updated \in [V!Keys -> V!Held \ {"mask"}]
BY DEF V!TypeOK, V!Updated, V!Held, V!Typed

(* Who writes the file, writes values, and the rest of the state keeps its type. *)
LEMMA RewriteTyped ==
  ASSUME V!TypeOK, NEW f \in [V!Keys -> V!Held \ {"mask"}], V!Rewrite(f)
  PROVE  file' \in [V!Keys -> V!Held \ {"mask"}] /\ crossed' \in BOOLEAN
BY DEF V!TypeOK, V!Rewrite

LEMMA AnsweredTyped ==
  ASSUME NEW as \in {"none", "done", "failed"}, V!Answered(as)
  PROVE  /\ patch' \in [step : {"none", "sent", "read", "done", "failed"}, updates : [V!Keys -> V!Typed],
                        deletes : SUBSET V!Keys, base : [V!Keys -> V!Held \ {"mask"}]]
         /\ asked' \in [updates : [V!Keys -> V!Typed], deletes : SUBSET V!Keys, left : SUBSET V!Keys]
         /\ crossed' \in BOOLEAN
<1>1. /\ patch' = [step |-> as, updates |-> V!NoEdits, deletes |-> {}, base |-> [k \in V!Keys |-> "absent"]]
      /\ asked' = V!Nothing /\ crossed' = FALSE
  BY DEF V!Answered, V!NoPatch
<1>2. /\ V!NoEdits \in [V!Keys -> V!Typed]
      /\ [k \in V!Keys |-> "absent"] \in [V!Keys -> V!Held \ {"mask"}]
  BY DEF V!NoEdits, V!Typed, V!Held
<1>3. QED
  BY <1>1, <1>2 DEF V!Nothing

LEMMA AnotherTyped == V!TypeOK /\ V!Another => others' \in 0..MaxOthers
BY WorkspacePageAssumption DEF V!TypeOK, V!Another

LEMMA FileKeeps == V!TypeOK /\ V!Next => V!TypeOK'
<1> SUFFICES ASSUME V!TypeOK, V!Next PROVE V!TypeOK'
  OBVIOUS
<1>1. CASE \/ V!Open \/ V!Leave \/ V!List \/ V!Reveal
           \/ \E k \in V!Keys : V!toggleDelete(k) \/ V!TypeIn(k)
           \/ \E n \in V!NewRows : V!TypeNew(n)
  <2>1. UNCHANGED <<stack, file, exists, patch, gen, asked, crossed, others>>
    BY <1>1 DEF V!Open, V!Leave, V!List, V!Reveal, V!toggleDelete, V!TypeIn, V!TypeNew, V!Unsaved
  <2>2. listing' \subseteq V!Keys
    BY <1>1 DEF V!TypeOK, V!Open, V!Leave, V!List, V!Reveal, V!toggleDelete, V!TypeIn, V!TypeNew, V!Defined
  <2>3. ed' \in [open : BOOLEAN, reveal : BOOLEAN, edits : [V!Keys -> V!Typed],
                deletes : SUBSET V!Keys, new : [V!Keys -> V!Typed]]
    <3>1. CASE V!Open \/ V!Leave
      <4>1. ed' = V!Untouched(TRUE, FALSE) \/ ed' = V!Closed
        BY <3>1, Zenon DEF V!Open, V!Leave, V!Show
      <4>2. QED
        <5>1. ed' \in EdTyped
          BY <4>1, UntouchedTyped, ClosedTyped
        <5>2. QED
          BY <5>1 DEF EdTyped
    <3>2. CASE V!List \/ V!Reveal
      <4>1. ed \in EdTyped
        BY DEF V!TypeOK, EdTyped
      <4>2. CASE V!List
        BY <4>1, <4>2 DEF V!List, EdTyped
      <4>3. CASE V!Reveal
        <5>1. ed' = [ed EXCEPT !.reveal = ~@, !.edits = V!NoEdits]
          BY <4>3 DEF V!Reveal, V!Show
        <5>2. /\ ed.open \in BOOLEAN /\ ed.deletes \in SUBSET V!Keys /\ ed.new \in [V!Keys -> V!Typed]
              /\ ed' = [open |-> ed.open, reveal |-> ~ed.reveal, edits |-> V!NoEdits,
                        deletes |-> ed.deletes, new |-> ed.new]
          BY <4>1, <5>1 DEF EdTyped
        <5>3. (~ed.reveal) \in BOOLEAN
          OBVIOUS
        <5>4. ed' \in EdTyped
          BY <5>2, <5>3, NoEditsTyped, EdFields
        <5>5. QED
          BY <5>4 DEF EdTyped
      <4>4. QED
        BY <3>2, <4>2, <4>3
    <3>3. ASSUME NEW k \in V!Keys, V!toggleDelete(k) \/ V!TypeIn(k)
          PROVE  ed' \in [open : BOOLEAN, reveal : BOOLEAN, edits : [V!Keys -> V!Typed],
                         deletes : SUBSET V!Keys, new : [V!Keys -> V!Typed]]
      <4>1. \/ \E v \in {"typed", "blank"} : ed' = [ed EXCEPT !.edits[k] = v]
            \/ \E d \in SUBSET V!Keys : ed' = [ed EXCEPT !.deletes = d, !.edits[k] = "none"]
        <5>1. CASE V!TypeIn(k)
          BY <5>1, Zenon DEF V!TypeIn, V!Show
        <5>2. CASE V!toggleDelete(k)
          <6> DEFINE d == IF k \in ed.deletes THEN ed.deletes \ {k} ELSE ed.deletes \union {k}
          <6>1. ed' = [ed EXCEPT !.deletes = d, !.edits[k] = "none"]
            BY <5>2 DEF V!toggleDelete, V!Show
          <6>2. d \in SUBSET V!Keys
            BY DEF V!TypeOK
          <6>3. QED
            BY <6>1, <6>2, Zenon
        <5>3. QED
          BY <3>3, <5>1, <5>2
      <4>2. /\ ed'.open = ed.open /\ ed.open \in BOOLEAN
            /\ ed'.reveal = ed.reveal /\ ed.reveal \in BOOLEAN
            /\ ed'.new = ed.new /\ ed.new \in [V!Keys -> V!Typed]
            /\ ed' = [open |-> ed'.open, reveal |-> ed'.reveal, edits |-> ed'.edits, deletes |-> ed'.deletes, new |-> ed'.new]
        BY <4>1 DEF V!TypeOK
      <4>3. ed'.edits \in [V!Keys -> V!Typed]
        <5>1. \E v \in V!Typed : ed'.edits = [ed.edits EXCEPT ![k] = v]
          BY <4>1 DEF V!TypeOK, V!Typed
        <5>2. ed.edits \in [V!Keys -> V!Typed]
          BY DEF V!TypeOK
        <5>3. QED
          BY <5>1, <5>2 DEF V!Typed
      <4>4. ed'.deletes \in SUBSET V!Keys
        BY <4>1 DEF V!TypeOK
      <4>5. QED
        BY <4>2, <4>3, <4>4, Zenon
    <3>4. ASSUME NEW n \in V!NewRows, V!TypeNew(n)
          PROVE  ed' \in [open : BOOLEAN, reveal : BOOLEAN, edits : [V!Keys -> V!Typed],
                         deletes : SUBSET V!Keys, new : [V!Keys -> V!Typed]]
      <4>1. n \in [V!Keys -> V!Typed]
        BY DEF V!NewRows, V!NoEdits, V!Typed
      <4>2. QED
        BY <3>4, <4>1 DEF V!TypeOK, V!TypeNew, V!Show
    <3>5. QED
      BY <1>1, <3>1, <3>2, <3>3, <3>4
  <2>4. QED
    BY <2>1, <2>2, <2>3 DEF V!TypeOK
<1>2. CASE V!handleSave
  <2>1. patch' = [step |-> "sent", updates |-> V!Updates, deletes |-> ed.deletes, base |-> [k \in V!Keys |-> "absent"]]
    BY <1>2 DEF V!handleSave, V!NoPatch
  <2>2. \E l \in SUBSET V!Keys : asked' = [updates |-> V!Updates, deletes |-> ed.deletes, left |-> l]
    BY <1>2, Zenon DEF V!handleSave, V!Updates
  <2>3. ed.deletes \in SUBSET V!Keys /\ [k \in V!Keys |-> "absent"] \in [V!Keys -> V!Held \ {"mask"}]
    BY DEF V!TypeOK, V!Held
  <2>4. /\ patch' \in [step : {"none", "sent", "read", "done", "failed"}, updates : [V!Keys -> V!Typed],
                       deletes : SUBSET V!Keys, base : [V!Keys -> V!Held \ {"mask"}]]
        /\ asked' \in [updates : [V!Keys -> V!Typed], deletes : SUBSET V!Keys, left : SUBSET V!Keys]
    BY <2>1, <2>2, <2>3, UpdatesTyped
  <2>5. UNCHANGED <<stack, file, exists, ed, listing, gen, others>> /\ crossed' = FALSE
    BY <1>2 DEF V!handleSave
  <2>6. QED
    BY <2>4, <2>5 DEF V!TypeOK
<1>3. CASE V!Saved \/ V!SaveFailed
  <2>1. V!Answered("none")
    BY <1>3 DEF V!Saved, V!SaveFailed, V!EndSave
  <2>2. ed' \in [open : BOOLEAN, reveal : BOOLEAN, edits : [V!Keys -> V!Typed],
                deletes : SUBSET V!Keys, new : [V!Keys -> V!Typed]]
    <3>1. ed \in EdTyped
      BY DEF V!TypeOK, EdTyped
    <3>2. ed' = ed \/ ed' = V!Untouched(ed.open, ed.reveal)
      BY <1>3 DEF V!Saved, V!SaveFailed
    <3>3. ed.open \in BOOLEAN /\ ed.reveal \in BOOLEAN
      BY <3>1 DEF EdTyped
    <3>4. V!Untouched(ed.open, ed.reveal) \in EdTyped
      BY <3>3, UntouchedTyped
    <3>5. ed' \in EdTyped
      BY <3>1, <3>2, <3>4, Zenon
    <3>6. QED
      BY <3>5 DEF EdTyped
  <2>3. UNCHANGED <<stack, file, exists, listing, gen, others>>
    BY <1>3 DEF V!Saved, V!SaveFailed
  <2>4. QED
    BY <2>1, <2>2, <2>3, AnsweredTyped DEF V!TypeOK
<1>4. CASE V!ReadFile
  <2>1. UNCHANGED <<stack, file, exists, ed, listing, gen, others>>
    BY <1>4 DEF V!ReadFile
  <2>2. CASE V!Answered("failed")
    BY <2>1, <2>2, AnsweredTyped DEF V!TypeOK
  <2>3. CASE patch' = [patch EXCEPT !.step = "read", !.base = file] /\ UNCHANGED <<asked, crossed>>
    BY <2>1, <2>3 DEF V!TypeOK
  <2>4. QED
    BY <1>4, <2>2, <2>3 DEF V!ReadFile
<1>5. CASE V!WriteFile
  <2>1. file' \in [V!Keys -> V!Held \ {"mask"}] /\ V!Answered("done")
    BY <1>5, UpdatedTyped DEF V!WriteFile
  <2>2. QED
    BY <1>5, <2>1, AnsweredTyped DEF V!TypeOK, V!WriteFile
<1>6. CASE V!LookUp
  <2>1. others' \in 0..MaxOthers
    BY <1>6, AnotherTyped DEF V!LookUp
  <2>2. gen' \in [step : {"idle", "looked", "truncated"}, kept : V!Held \ {"mask"}]
    BY <1>6 DEF V!TypeOK, V!LookUp, V!Keys
  <2>3. QED
    BY <1>6, <2>1, <2>2 DEF V!TypeOK, V!LookUp
<1>7. CASE V!Truncate
  <2>1. others' \in 0..MaxOthers
    BY <1>7, AnotherTyped DEF V!Truncate, V!TypeOK
  <2>2. gen' \in [step : {"idle", "looked", "truncated"}, kept : V!Held \ {"mask"}]
    BY <1>7 DEF V!TypeOK, V!Truncate
  <2>3. [k \in V!Keys |-> "absent"] \in [V!Keys -> V!Held \ {"mask"}] /\ V!Rewrite([k \in V!Keys |-> "absent"])
    BY <1>7 DEF V!Truncate, V!Held
  <2>4. file' \in [V!Keys -> V!Held \ {"mask"}] /\ crossed' \in BOOLEAN
    BY <2>3, RewriteTyped
  <2>5. exists' \in [env : BOOLEAN, example : BOOLEAN] /\ UNCHANGED <<stack, ed, listing, patch, asked>>
    BY <1>7 DEF V!TypeOK, V!Truncate
  <2>6. QED
    BY <2>1, <2>2, <2>4, <2>5 DEF V!TypeOK
<1>8. CASE V!Finish
  <2>1. \E f \in [V!Keys -> V!Held \ {"mask"}] : V!Rewrite(f)
    BY <1>8 DEF V!TypeOK, V!Finish, V!Keys, V!Held
  <2>2. file' \in [V!Keys -> V!Held \ {"mask"}] /\ crossed' \in BOOLEAN
    BY <2>1, RewriteTyped
  <2>3. UNCHANGED <<stack, ed, listing, patch, asked, others>> /\ gen' = V!NoGen
        /\ exists' = [exists EXCEPT !.example = TRUE]
    BY <1>8 DEF V!Finish
  <2>4. QED
    BY <2>2, <2>3 DEF V!TypeOK, V!NoGen, V!Held
<1>9. CASE V!ensure_env_file \/ V!Others
  <2>1. others' \in 0..MaxOthers
    BY <1>9, AnotherTyped DEF V!ensure_env_file, V!Others
  <2>2. \E f \in [V!Keys -> V!Held \ {"mask"}] : V!Rewrite(f)
    BY <1>9 DEF V!TypeOK, V!ensure_env_file, V!Others, V!Held
  <2>3. file' \in [V!Keys -> V!Held \ {"mask"}] /\ crossed' \in BOOLEAN
    BY <2>2, RewriteTyped
  <2>4. UNCHANGED <<stack, ed, listing, patch, gen, asked>>
        /\ (exists' = exists \/ exists' = [exists EXCEPT !.env = TRUE])
    BY <1>9 DEF V!ensure_env_file, V!Others
  <2>5. QED
    BY <2>1, <2>3, <2>4 DEF V!TypeOK
<1>10. QED
  BY <1>1, <1>2, <1>3, <1>4, <1>5, <1>6, <1>7, <1>8, <1>9, Zenon DEF V!Next

-----------------------------------------------------------------------------
PageInv == part \in {"cards", "badges", "views", "variables"} /\ C!TypeOK /\ B!TypeOK /\ ViewInv /\ ViewRest /\ V!TypeOK

(* TypeOK: for any environments, targets and bounds, and whichever part is looked *)
(* at; the sockets of a view are never more than they may be, the badge of a card *)
(* never takes a question for an answer, and what is read of a file and written    *)
(* back is values, never the mask shown for them (EnvCard, useDockerEvents, the    *)
(* socket views, EnvVarsModal, UpdateEnvVars and env-gen.sh).                      *)
THEOREM TypeCorrect == Spec => []TypeOK
<1>1. Init => PageInv
  BY CardsStart, BadgesStart, ViewStarts, ViewRestStarts, FileStarts DEF Init, PageInv
<1>2. PageInv /\ [Next]_vars => PageInv'
  <2> SUFFICES ASSUME PageInv, [Next]_vars PROVE PageInv'
    OBVIOUS
  <2>1. part' \in {"cards", "badges", "views", "variables"}
    BY DEF PageInv, Next, vars
  <2>2. C!TypeOK'
    <3>1. C!Next \/ UNCHANGED cards
      BY DEF Next, vars
    <3>2. UNCHANGED cards => C!TypeOK'
      BY DEF PageInv, cards, C!TypeOK
    <3>3. QED
      BY <3>1, <3>2, CardsKeep DEF PageInv
  <2>3. B!TypeOK'
    <3>1. B!Next \/ UNCHANGED badges
      BY DEF Next, vars
    <3>2. UNCHANGED badges => B!TypeOK'
      BY DEF PageInv, badges, B!TypeOK
    <3>3. QED
      BY <3>1, <3>2, BadgesKeep DEF PageInv
  <2>4. ViewInv' /\ ViewRest'
    <3>1. L!Next \/ UNCHANGED views
      BY DEF Next, vars
    <3>2. UNCHANGED views => ViewRest'
      BY DEF PageInv, views, ViewRest
    <3>3. QED
      BY <3>1, <3>2, ViewKeeps, ViewRestKeeps DEF PageInv
  <2>5. V!TypeOK'
    <3>1. V!Next \/ UNCHANGED variables
      BY DEF Next, vars
    <3>2. UNCHANGED variables => V!TypeOK'
      BY DEF PageInv, variables, V!TypeOK
    <3>3. QED
      BY <3>1, <3>2, FileKeeps DEF PageInv
  <2>6. QED
    BY <2>1, <2>2, <2>3, <2>4, <2>5 DEF PageInv
<1>3. PageInv => TypeOK
  <2>1. ViewInv /\ ViewRest => L!TypeOK
    BY DEF ViewInv, ViewTyped, ViewRest, L!TypeOK, L!Ids, Sockets
  <2>2. QED
    BY <2>1 DEF PageInv, TypeOK
<1>4. QED
  BY <1>1, <1>2, <1>3, PTL DEF Spec
=============================================================================
