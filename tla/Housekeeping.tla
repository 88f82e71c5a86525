------------------------------ MODULE Housekeeping ------------------------------
(***************************************************************************)
(* The safety center of the housekeeping page.  A section lists what the   *)
(* server says may go; the user ticks some of it and approves in the way   *)
(* of the section: a click for images, PRUNE typed out for containers, a   *)
(* button held for three seconds for volumes, a second confirmation for    *)
(* kernels.  Behind the page containers come and go.                       *)
(*                                                                         *)
(* The sections share nothing, so a behaviour is one visit to one of them. *)
(* A list is read and shown in one step: what changes while it is on its   *)
(* way might as well have changed after.                                   *)
(***************************************************************************)
EXTENDS Naturals

CONSTANT Things                 (* the images, containers, volumes or kernels there may be; *)
                                (* an image goes with all its tags                          *)

VARIABLES section,              (* which section this is about *)
          real,                 (* what each thing is *)
          open,                 (* is the section unfolded? *)
          shown,                (* the list of the page *)
          ticked,               (* what the user has ticked, in the list or not *)
          gate,                 (* PRUNE is typed: 1; the kernels' confirmStep *)
          hold,                 (* is the timer in holdTimer.current running? *)
          stray,                (* is a timer running that it points to no more? *)
          post,                 (* the request under way *)
          offered               (* history: all that was ever in the list *)

buttons == <<gate, hold, stray>>
vars    == <<section, real, open, shown, ticked, buttons, post, offered>>

Sections == {"images", "containers", "volumes", "kernels"}

(* unused: listed; kept: not needed and not listed (untagged images, stopped      *)
(* containers whose project has a running one, volumes of a compose project, the  *)
(* locked kernels); used: by a container, or running.                             *)
States == {"gone", "unused", "kept", "used"}

NoPost == [sent |-> FALSE, names |-> {}]

TypeOK == /\ section \in Sections
          /\ real \in [Things -> States]
          /\ open \in BOOLEAN
          /\ shown \subseteq Things
          /\ ticked \subseteq Things
          /\ gate \in 0..2
          /\ hold \in BOOLEAN
          /\ stray \in BOOLEAN
          /\ post \in [sent : BOOLEAN, names : SUBSET Things]
          /\ offered \subseteq Things

Folded == /\ open = FALSE
          /\ shown = {} /\ ticked = {}
          /\ gate = 0 /\ hold = FALSE /\ stray = FALSE
          /\ post = NoPost
          /\ offered = {}

Unused == section = "images" /\ real = [x \in Things |-> "gone"] /\ Folded

Init == /\ section \in Sections
        /\ real \in [Things -> States]
        /\ Folded

Listed == {x \in Things : real[x] = "unused"}

(* selectedIDs, selectedNames, selectedPkgs: images keep a tick whose image has *)
(* left the list.                                                               *)
Selected == CASE section = "images"     -> ticked
              [] section = "containers" -> {}
              [] OTHER                  -> ticked \intersect shown

-----------------------------------------------------------------------------
(* The section *)

Show(s) == shown' = s /\ offered' = offered \union s

(* Unfolding shows the list of the last time until the new one is there. *)
Unfold == /\ open' = ~open
          /\ UNCHANGED <<section, real, shown, ticked, buttons, post, offered>>

(* On unfolding, and whenever the window gets the focus. *)
Refetch == /\ open
           /\ Show(Listed)
           /\ UNCHANGED <<section, real, open, ticked, buttons, post>>

(* One box, and for images all and none. *)
Tick == /\ open
        /\ section # "containers"
        /\ \/ \E x \in shown : ticked' \in {ticked \union {x}, ticked \ {x}}
           \/ section = "images" /\ shown # {} /\ ticked' \in {shown, {}}
        /\ UNCHANGED <<section, real, open, shown, buttons, post, offered>>

-----------------------------------------------------------------------------
(* Approval *)

Send == /\ post' = [sent |-> TRUE, names |-> Selected]
        /\ UNCHANGED <<section, real, open, shown, ticked, offered>>

Choose(g) == gate' = g /\ UNCHANGED <<section, real, open, shown, ticked, hold, stray, post, offered>>

PurgeImages == /\ section = "images" /\ open /\ shown # {}
               /\ Selected # {} /\ ~post.sent
               /\ Send /\ UNCHANGED buttons

(* The word stays in its field, so the next time a click is enough. *)
TypeWord == section = "containers" /\ open /\ shown # {} /\ Choose(1 - gate)

PurgeContainers == /\ section = "containers" /\ open /\ shown # {}
                   /\ gate = 1 /\ ~post.sent
                   /\ Send /\ UNCHANGED buttons

(* The kernels' list is never empty: it holds the locked ones too. What is   *)
(* selected may be, by the time it is confirmed; confirmStep stays at 2.     *)
AskKernels     == section = "kernels" /\ open /\ Selected # {} /\ gate = 0 /\ Choose(1)
CancelKernels  == section = "kernels" /\ open /\ gate = 1 /\ Choose(0)
ConfirmKernels == /\ section = "kernels" /\ open /\ gate = 1 /\ ~post.sent
                  /\ gate' = 2
                  /\ Send /\ UNCHANGED <<hold, stray>>

(* The button that is held is there while something is selected. *)
HoldButton == section = "volumes" /\ open /\ Selected # {}

(* A second mouse button or finger starts a second timer; the first is then *)
(* beyond the reach of any release.                                         *)
startHold == /\ HoldButton /\ ~post.sent
             /\ hold' = TRUE
             /\ stray' = (stray \/ hold)
             /\ UNCHANGED <<section, real, open, shown, ticked, gate, post, offered>>

stopHold == /\ HoldButton /\ hold
            /\ hold' = FALSE
            /\ UNCHANGED <<section, real, open, shown, ticked, gate, stray, post, offered>>

(* After three seconds, the button there or not; a stray timer stops the other *)
(* one, not itself.  Bound: it sends no second request while one is under way. *)
HoldEnds == /\ section = "volumes" /\ (hold \/ stray) /\ ~post.sent
            /\ hold' = FALSE
            /\ Send /\ UNCHANGED <<gate, stray>>

-----------------------------------------------------------------------------
(* The server *)

(* Mutant: image prune -a whatever the request names. *)
TakenWhatever == {{x \in Things : real[x] \in {"unused", "kept"}}}

(* rmi -f spares what a running container uses and not what a stopped one does;  *)
(* volume rm spares what is attached, and the prune that stands for an empty     *)
(* list takes every anonymous volume that is not; apt-get purge spares nothing.  *)
Taken ==
    LET spare  == {x \in Things : real[x] \in {"unused", "kept"}}
        inUse  == {x \in Things : real[x] = "used"}
        named  == post.names
    IN  CASE section = "images"     -> {(named \intersect spare) \union u : u \in SUBSET (named \intersect inUse)}
          [] section = "containers" -> {spare}
          [] section = "volumes"    -> IF named = {} THEN SUBSET spare ELSE {named \intersect spare}
          [] OTHER                  -> {named}

(* CleanKernels refuses an empty request.  Only the kernels' answer refreshes the *)
(* list: the others invalidate a key that is nobody's.                                  *)
Purge == /\ post.sent
         /\ section = "kernels" => post.names # {}
         /\ \E t \in Taken : real' = [x \in Things |-> IF x \in t THEN "gone" ELSE real[x]]
         /\ post' = NoPost
         /\ IF section = "kernels" /\ open THEN Show(Listed') ELSE UNCHANGED <<shown, offered>>
         /\ UNCHANGED <<section, open, ticked, buttons>>

(* The request is lost, or refused. *)
PurgeFails == /\ post.sent
              /\ post' = NoPost
              /\ UNCHANGED <<section, real, open, shown, ticked, buttons, offered>>

(* The daily job, which takes untagged images; deployments, other tabs, a reboot *)
(* into another kernel.                                                          *)
Others(x, s) == /\ s # real[x]
                /\ real' = [real EXCEPT ![x] = s]
                /\ UNCHANGED <<section, open, shown, ticked, buttons, post, offered>>

-----------------------------------------------------------------------------
Next == \/ Unfold \/ Refetch \/ Tick
        \/ PurgeImages \/ TypeWord \/ PurgeContainers
        \/ AskKernels \/ CancelKernels \/ ConfirmKernels
        \/ startHold \/ stopHold \/ HoldEnds
        \/ Purge \/ PurgeFails
        \/ \E x \in Things, s \in States : Others(x, s)

Spec == Init /\ [][Next]_vars

-----------------------------------------------------------------------------
(* What a request names and destroys was at some time in the list in front of   *)
(* the user, who ticked it there: however lists, ticks and timers interleave, a *)
(* thing never offered is not named.  (Two requests name nothing: that of a hold *)
(* that outlived its selection, which is SelectedVolumesOnly's, and the prune of *)
(* containers, which takes every stopped one although the page says "all" of a  *)
(* list without those its handler calls managed.)                               *)
NamesWereOffered ==
    [][\A x \in Things :
          Purge /\ section # "containers" /\ post.names # {} /\ real[x] # "gone" /\ real'[x] = "gone"
             => x \in post.names \intersect offered]_vars

(* "volume(s) selected for destruction. Hold the button for 3 seconds to        *)
(* authorize" (VolumePurgingSection): what goes is what was selected.           *)
SelectedVolumesOnly ==
    [][\A x \in Things :
          Purge /\ section = "volumes" /\ real[x] # "gone" /\ real'[x] = "gone" => x \in post.names]_vars
=============================================================================
