----------------------------- MODULE UpdateBadge -----------------------------
(***************************************************************************)
(* What the cards of image stacks say of newer images.  It comes through   *)
(* the server's cache, filled by an hourly check and by one that the first *)
(* question starts; each check compares with Docker Hub what it can.  A    *)
(* question carries its answer from the moment the server reads it, and a  *)
(* check what it found.                                                    *)
(***************************************************************************)
EXTENDS Naturals

CONSTANTS Envs,                 (* the environments on the page *)
          MaxJobs               (* bound: updates of one card at a time *)

VARIABLES image,                (* what an environment runs *)
          behind,               (* has a newer one been published? *)
          online,               (* can Docker Hub be reached? *)
          local,                (* can docker tell the digests of the images it has? *)
          look,                 (* the checks under way *)
          found,                (* imagecheck's cache *)
          ask,                  (* the image-updates question under way *)
          badge,                (* what the card knows of updates *)
          update                (* the updates a card has started *)

vars == <<image, behind, online, local, look, found, ask, badge, update>>

Checkers == {"hourly", "asked"}
Verdicts == {"yes", "no"}

(* Tag latest, or a tag that stays what it is, of a repository on Docker Hub; *)
(* or an image of another registry.                                           *)
Images == {"latest", "pinned", "elsewhere"}

(* What may have been published: nothing newer, something the check can see, or *)
(* something it cannot: another registry's, or a tag that sorts, as a string,   *)
(* before the one in use or does not look like a version.                       *)
Releases(k) == CASE k = "latest"    -> {"no", "seen"}
                 [] k = "pinned"    -> {"no", "seen", "unseen"}
                 [] k = "elsewhere" -> {"no", "unseen"}

TypeOK == /\ image \in [Envs -> Images]
          /\ behind \in [Envs -> {"no", "seen", "unseen"}]
          /\ online \in BOOLEAN
          /\ local \in BOOLEAN
          /\ look \in [Envs -> [Checkers -> Verdicts \union {"none", "away"}]]
          /\ found \in [Envs -> Verdicts \union {"pending"}]
          /\ ask \in [Envs -> Verdicts \union {"none", "pending", "away"}]
          /\ badge \in [Envs -> Verdicts \union {"pending"}]
          /\ update \in [Envs -> [open : 0..MaxJobs, closed : 0..MaxJobs]]

NoJob == [open |-> 0, closed |-> 0]

Init == /\ image \in [Envs -> Images]
        /\ behind \in [Envs -> {"no", "seen", "unseen"}]
        /\ \A e \in Envs : behind[e] \in Releases(image[e])
        /\ online = TRUE
        /\ local = TRUE
        /\ look = [e \in Envs |-> [c \in Checkers |-> "none"]]
        /\ found = [e \in Envs |-> "pending"]
        /\ ask = [e \in Envs |-> "none"]
        /\ badge = [e \in Envs |-> "pending"]
        /\ update = [e \in Envs |-> NoJob]

(* No cards on display: nobody asks ("away"). *)
Unused == /\ image = [e \in Envs |-> "latest"] /\ behind = [e \in Envs |-> "no"]
          /\ online = TRUE /\ local = TRUE
          /\ look = [e \in Envs |-> [c \in Checkers |-> "away"]]
          /\ found = [e \in Envs |-> "no"]
          /\ ask = [e \in Envs |-> "away"] /\ badge = [e \in Envs |-> "no"]
          /\ update = [e \in Envs |-> NoJob]

-----------------------------------------------------------------------------
(* The world *)

Publish(e) == /\ behind[e] = "no"
              /\ \E b \in Releases(image[e]) \ {"no"} : behind' = [behind EXCEPT ![e] = b]
              /\ UNCHANGED <<image, online, local, look, found, ask, badge, update>>

(* The configuration is given another image or tag. *)
Retag(e) == /\ \E k \in Images : /\ image' = [image EXCEPT ![e] = k]
                                 /\ \E b \in Releases(k) : behind' = [behind EXCEPT ![e] = b]
            /\ UNCHANGED <<online, local, look, found, ask, badge, update>>

HubComesAndGoes == /\ online' = ~online
                   /\ UNCHANGED <<image, behind, local, look, found, ask, badge, update>>
DockerComesAndGoes == /\ local' = ~local
                      /\ UNCHANGED <<image, behind, online, look, found, ask, badge, update>>

-----------------------------------------------------------------------------
(* The checks *)

(* What Check finds.  Tag latest: a digest that differs from the published one, *)
(* or that docker cannot tell.  Another tag: one listed after it.  Without the  *)
(* hub there is an error beside has_update false, or no newer tag; the card     *)
(* reads has_update alone.                                                      *)
Check(e) == IF online /\ (behind[e] = "seen" \/ (image[e] = "latest" /\ ~local))
            THEN "yes" ELSE "no"

LookAt(e, c) == look' = [look EXCEPT ![e][c] = Check(e)]

(* Mutant: what is in the cache is not checked again. *)
HourlyLookOnce(e) == /\ look[e]["hourly"] = "none" /\ found[e] = "pending"
                     /\ LookAt(e, "hourly")
                     /\ UNCHANGED <<image, behind, online, local, found, ask, badge, update>>

HourlyLook(e) == /\ look[e]["hourly"] = "none"
                 /\ LookAt(e, "hourly")
                 /\ UNCHANGED <<image, behind, online, local, found, ask, badge, update>>

LookEnds(e, c) == /\ look[e][c] \in Verdicts
                  /\ found' = [found EXCEPT ![e] = look[e][c]]
                  /\ look' = [look EXCEPT ![e][c] = "none"]
                  /\ UNCHANGED <<image, behind, online, local, ask, badge, update>>

-----------------------------------------------------------------------------
(* The card *)

(* GetImageUpdates answers with what the cache holds; without an entry it starts *)
(* a check of its own.  Several such checks are one here.                        *)
AskUpdates(e) == /\ ask' = [ask EXCEPT ![e] = found[e]]
                 /\ IF found[e] = "pending" /\ look[e]["asked"] = "none"
                    THEN LookAt(e, "asked") ELSE UNCHANGED look

PollUpdates(e) == /\ ask[e] = "none"
                  /\ AskUpdates(e)
                  /\ UNCHANGED <<image, behind, online, local, found, badge, update>>

UpdatesArrive(e) == /\ ask[e] \notin {"none", "away"}
                    /\ badge' = [badge EXCEPT ![e] = ask[e]]
                    /\ ask' = [ask EXCEPT ![e] = "none"]
                    /\ UNCHANGED <<image, behind, online, local, look, found, update>>

UpdatesLost(e) == /\ ask[e] \notin {"none", "away"}
                  /\ ask' = [ask EXCEPT ![e] = "none"]
                  /\ UNCHANGED <<image, behind, online, local, look, found, badge, update>>

(* handleUpdate does nothing but say so when the card believes all is current. *)
PressUpdate(e) == /\ badge[e] # "no"
                  /\ update[e].open + update[e].closed < MaxJobs
                  /\ update' = [update EXCEPT ![e].open = @ + 1]
                  /\ UNCHANGED <<image, behind, online, local, look, found, ask, badge>>

(* The pull gets what a tag stands for now: for a pinned one, what it did before. *)
UpdatePulls(e) == /\ update[e].open > 0
                  /\ image[e] # "pinned"
                  /\ behind' = [behind EXCEPT ![e] = "no"]
                  /\ UNCHANGED <<image, online, local, look, found, ask, badge, update>>

UpdateEnds(e) == /\ update[e].open > 0
                 /\ update[e].closed < MaxJobs
                 /\ update' = [update EXCEPT ![e] = [open |-> @.open - 1, closed |-> @.closed + 1]]
                 /\ UNCHANGED <<image, behind, online, local, look, found, ask, badge>>

(* Two seconds after the socket closed; the server's cache is as it was. *)
AfterUpdate(e) == /\ update[e].closed > 0
                  /\ AskUpdates(e)
                  /\ update' = [update EXCEPT ![e].closed = @ - 1]
                  /\ UNCHANGED <<image, behind, online, local, found, badge>>

-----------------------------------------------------------------------------
Next == \/ HubComesAndGoes \/ DockerComesAndGoes
        \/ \E e \in Envs : \/ Publish(e) \/ Retag(e) \/ HourlyLook(e)
                           \/ PollUpdates(e) \/ UpdatesArrive(e) \/ UpdatesLost(e)
                           \/ PressUpdate(e) \/ UpdatePulls(e) \/ UpdateEnds(e) \/ AfterUpdate(e)
                           \/ \E c \in Checkers : LookEnds(e, c)

(* The timers of the page and of the server go on, a check ends (the hub answers *)
(* or the connection fails), and not every answer is lost.                       *)
Fairness == \A e \in Envs : /\ WF_vars(PollUpdates(e)) /\ SF_vars(UpdatesArrive(e))
                            /\ WF_vars(HourlyLook(e))
                            /\ \A c \in Checkers : WF_vars(LookEnds(e, c))

Spec == Init /\ [][Next]_vars /\ Fairness

-----------------------------------------------------------------------------
(* Of a release that the check can see, the badge comes to tell once the hub    *)
(* stays in reach, and it goes once there is none and docker tells its digests, *)
(* though an update leaves the answer found before it in the cache and checks   *)
(* overlap: nobody is kept for good from an update that could be announced      *)
(* (handleUpdate refuses what the card believes needless), and none is          *)
(* announced for good that has been made (Check, RunBackground and              *)
(* GetImageUpdates).  Of what the check cannot see it says nothing.             *)
BadgeCatchesUp ==
    \A e \in Envs : /\ <>[](behind[e] = "seen" /\ online) => <>[](badge[e] = "yes")
                    /\ <>[](behind[e] = "no" /\ local) => <>[](badge[e] = "no")
=============================================================================
