------------------------------ MODULE LiveViews ------------------------------
(***************************************************************************)
(* The views that show what a WebSocket sends: the log viewer and the      *)
(* action log of a workspace page, the terminal modal and the window that  *)
(* follows a restore.  They share no state, so a behaviour is of one view  *)
(* of one kind.  What differs is what they do with the socket they had     *)
(* when they take the next one, and whom they believe when it closes.      *)
(*                                                                         *)
(* A socket that was closed here still has its close event to come; it     *)
(* delivers no message any more.                                           *)
(***************************************************************************)
EXTENDS Naturals, Sequences

CONSTANTS Targets,              (* what can be streamed: an environment, or one of its services *)
          MaxSockets            (* bound: sockets one view opens *)

VARIABLES kind,                 (* which of the four views this is *)
          mounted,              (* is it on the page? *)
          target,               (* the environment and service selected *)
          due,                  (* the selection changed and its effect has not run *)
          socks,                (* every socket opened, the oldest first *)
          ref,                  (* wsRef: the index of the socket in use, 0 for null *)
          heard,                (* firstMsgRef of the terminal *)
          shown,                (* the sockets whose output is on display *)
          light,                (* running / connected / done, as the view tells it *)
          overtaken             (* history: a close event came when a newer socket was in use *)

vars == <<kind, mounted, target, due, socks, ref, heard, shown, light, overtaken>>

Kinds == {"log", "action", "terminal", "restore"}
Ids   == 1..Len(socks)
Live(k) == socks[k].state \in {"connecting", "open"}

TypeOK == /\ kind \in Kinds
          /\ mounted \in BOOLEAN /\ due \in BOOLEAN /\ heard \in BOOLEAN /\ overtaken \in BOOLEAN
          /\ target \in Targets
          /\ socks \in Seq([of : Targets, state : {"connecting", "open", "closing", "closed"}])
          /\ Len(socks) <= MaxSockets
          /\ ref \in 0..Len(socks)
          /\ shown \subseteq Ids
          /\ light \in {"off", "waiting", "on"}

NewSocket(t) == [of |-> t, state |-> "connecting"]

(* A restore is asked for when its window is mounted, logs when the effect runs. *)
Init == /\ kind \in Kinds
        /\ mounted = TRUE
        /\ target \in Targets
        /\ due = (kind = "log")
        /\ socks = IF kind = "restore" THEN <<NewSocket(target)>> ELSE <<>>
        /\ ref = Len(socks)
        /\ heard = FALSE
        /\ shown = {}
        /\ light = IF kind = "restore" THEN "on" ELSE "off"
        /\ overtaken = FALSE

Unused == /\ kind = "log" /\ mounted = FALSE /\ due = FALSE
          /\ target = CHOOSE t \in Targets : TRUE
          /\ socks = <<>> /\ ref = 0 /\ heard = FALSE
          /\ shown = {} /\ light = "off" /\ overtaken = FALSE

(* Mutant: a socket that is closed is dropped from the books, wsRef is not. *)
ClosedAndDropped(s) == IF ref # 0 /\ Live(ref) THEN SubSeq(s, 1, Len(s) - 1) ELSE s

(* wsRef.current?.close() *)
Closed(s) == IF ref # 0 /\ Live(ref) THEN [s EXCEPT ![ref].state = "closing"] ELSE s

(* wsRef.current = new WebSocket(...) *)
Take(s, t) == /\ Len(socks) < MaxSockets
              /\ socks' = Append(s, NewSocket(t))
              /\ ref' = Len(socks) + 1

-----------------------------------------------------------------------------
(* The log viewer: connect closes the socket in use, clears and opens another. *)

LogSelects(t) == /\ kind = "log" /\ mounted /\ ~due
                 /\ target' = t          \* the same t: the token was renewed
                 /\ due' = TRUE
                 /\ UNCHANGED <<kind, mounted, socks, ref, heard, shown, light, overtaken>>

(* Mutant: the socket of the selection before is left open. *)
LogConnectsToo == /\ kind = "log" /\ mounted
                  /\ Take(socks, target)
                  /\ shown' = {}
                  /\ due' = FALSE
                  /\ UNCHANGED <<kind, mounted, target, heard, light, overtaken>>

LogConnects == /\ kind = "log" /\ mounted
               /\ Take(Closed(socks), target)
               /\ shown' = {}
               /\ due' = FALSE
               /\ UNCHANGED <<kind, mounted, target, heard, light, overtaken>>

-----------------------------------------------------------------------------
(* The action log: each action brings its own socket, the old one is left alone. *)

RunAction(t) == /\ kind = "action" /\ mounted
                /\ Take(socks, t)
                /\ target' = t
                /\ shown' = {}
                /\ light' = "on"
                /\ UNCHANGED <<kind, mounted, due, heard, overtaken>>

Clear == /\ kind = "action" /\ mounted /\ shown # {}
         /\ shown' = {}
         /\ light' = "off"
         /\ UNCHANGED <<kind, mounted, target, due, socks, ref, heard, overtaken>>

-----------------------------------------------------------------------------
(* The terminal: disconnect closes the socket in use and forgets it. *)

TerminalSelects(t) == /\ kind = "terminal" /\ mounted /\ light = "off"
                      /\ target' = t
                      /\ socks' = Closed(socks)
                      /\ ref' = 0
                      /\ heard' = FALSE
                      /\ UNCHANGED <<kind, mounted, due, shown, light, overtaken>>

TerminalConnects == /\ kind = "terminal" /\ mounted /\ light = "off"
                    /\ Take(Closed(socks), target)
                    /\ heard' = FALSE
                    /\ light' = "waiting"
                    /\ shown' = {}
                    /\ UNCHANGED <<kind, mounted, target, due, overtaken>>

Disconnect == /\ kind = "terminal" /\ mounted /\ light = "on"
              /\ socks' = Closed(socks)
              /\ ref' = 0
              /\ heard' = FALSE
              /\ light' = "off"
              /\ UNCHANGED <<kind, mounted, target, due, shown, overtaken>>

-----------------------------------------------------------------------------
(* Mutant: the window of a restore has no cleanup. *)
LeaveRestoring == /\ mounted
                  /\ mounted' = FALSE
                  /\ socks' = IF kind \in {"action", "restore"} THEN socks ELSE Closed(socks)
                  /\ UNCHANGED <<kind, target, due, ref, heard, shown, light, overtaken>>

(* Any view can be left at any time; all but the action log clean up. *)

Leave == /\ mounted
         /\ mounted' = FALSE
         /\ socks' = IF kind = "action" THEN socks ELSE Closed(socks)
         /\ UNCHANGED <<kind, target, due, ref, heard, shown, light, overtaken>>

-----------------------------------------------------------------------------
(* The other end, and the handlers each view hangs on its sockets. *)

Opens(k) == /\ socks[k].state = "connecting"
            /\ socks' = [socks EXCEPT ![k].state = "open"]
            /\ UNCHANGED <<kind, mounted, target, due, ref, heard, shown, light, overtaken>>

(* Output is put on display; the terminal takes its first for being connected, *)
(* and the restore takes one of two texts for being done.                      *)
Output(k) == /\ socks[k].state = "open"
             /\ shown' = shown \union {k}
             /\ heard' = (kind = "terminal" \/ heard)
             /\ \/ light' = IF kind = "terminal" /\ ~heard THEN "on" ELSE light
                \/ kind = "restore" /\ light' = "off"
             /\ UNCHANGED <<kind, mounted, target, due, socks, ref, overtaken>>

(* Whichever socket it is that closes, the light goes out; the terminal also *)
(* forgets the socket in use.  The log viewer only writes a line.            *)
OnClose(k) == /\ light' = IF kind = "log" THEN light ELSE "off"
              /\ heard' = (heard /\ kind # "terminal")
              /\ ref' = IF kind = "terminal" THEN 0 ELSE ref
              /\ overtaken' = (overtaken \/ (kind = "terminal" /\ ref \notin {0, k}))
              /\ UNCHANGED <<kind, mounted, target, due, shown>>

(* Mutant: the close handler is hung on the socket when it opens. *)
PeerClosesUnheard(k) == /\ Live(k)
                        /\ socks' = [socks EXCEPT ![k].state = "closed"]
                        /\ IF socks[k].state = "open" THEN OnClose(k)
                           ELSE UNCHANGED <<kind, mounted, target, due, ref, heard, shown, light, overtaken>>

PeerCloses(k) == /\ Live(k)
                 /\ socks' = [socks EXCEPT ![k].state = "closed"]
                 /\ OnClose(k)

CloseArrives(k) == /\ socks[k].state = "closing"
                   /\ socks' = [socks EXCEPT ![k].state = "closed"]
                   /\ OnClose(k)

-----------------------------------------------------------------------------
Next == \/ \E t \in Targets : LogSelects(t) \/ RunAction(t) \/ TerminalSelects(t)
        \/ LogConnects \/ Clear \/ TerminalConnects \/ Disconnect \/ Leave
        \/ \E k \in Ids : Opens(k) \/ Output(k) \/ PeerCloses(k) \/ CloseArrives(k)

(* A connection is made or fails, and a connected terminal says something or  *)
(* ends.  Nobody clicks because they must.                                    *)
Fairness == /\ \A k \in 1..MaxSockets :
                  /\ WF_vars(k \in Ids /\ (Opens(k) \/ PeerCloses(k)))
                  /\ WF_vars(k \in Ids /\ kind = "terminal" /\ (Output(k) \/ PeerCloses(k)))
                  /\ WF_vars(k \in Ids /\ CloseArrives(k))

Spec == Init /\ [][Next]_vars /\ Fairness

-----------------------------------------------------------------------------
(* The log viewer shows lines of one stream, the selected one: once the effect *)
(* of a change has run, no line of the environment or service selected before  *)
(* is on display or can still come (connect in LogViewer).                     *)
LogShowsItsTarget ==
    kind = "log" /\ ~due => \A k \in shown : socks[k].of = target

(* A view has at most the socket it holds, and none once it is gone: no shell  *)
(* stays open behind a closed terminal, no log streams to nobody.  It fails in *)
(* a terminal whose old socket reported its close after the next one was made  *)
(* (the handler sets wsRef to null), so that case is set aside.                *)
OneStream ==
    kind # "action" /\ ~overtaken =>
        \A k \in Ids : Live(k) => mounted /\ k = ref

(* A view that says running or connected has a socket that still is: no light  *)
(* outlives its stream, whichever of several sockets closes last.              *)
LightIsTrue ==
    mounted /\ light = "on" => IF kind = "action" THEN Live(ref) ELSE \E k \in Ids : Live(k)

(* Nobody waits for ever: a terminal that is connecting becomes connected or   *)
(* says that it is not.                                                        *)
NobodyWaitsForEver == (light = "waiting" /\ mounted) ~> (light # "waiting" \/ ~mounted)
=============================================================================
