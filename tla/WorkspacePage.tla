---------------------------- MODULE WorkspacePage ----------------------------
(***************************************************************************)
(* The page of one workspace: its environment cards, what they say of      *)
(* newer images, the views that show what a WebSocket sends, and the       *)
(* editor of an environment's variables.  The four share the server and no *)
(* state of the page, so a behaviour is of one of them; what each shares   *)
(* with the rest of the world (commands, containers, scripts, other tabs)  *)
(* is in its own module.                                                   *)
(***************************************************************************)
EXTENDS Naturals, Sequences

CONSTANTS Envs, MaxJobs,                                        (* EnvCard, UpdateBadge *)
          Targets, MaxSockets,                                  (* LiveViews *)
          Secret, Prefixed, MaxOthers, MaxChanges               (* EnvFile *)

(* A page has something to stream, and room for the socket of a restore. *)
ASSUME WorkspacePageAssumption ==
    Targets # {} /\ MaxSockets \in Nat \ {0} /\ MaxJobs \in Nat /\ MaxOthers \in Nat

VARIABLES part,                                                 (* what is looked at *)
          real, docker, card, fetch, stream, wire, job,         (* EnvCard *)
          image, behind, online, local, look, found, ask, badge, update,               (* UpdateBadge *)
          kind, mounted, target, due, socks, ref, heard, shown, light, overtaken,      (* LiveViews *)
          stack, file, exists, ed, listing, patch, gen, asked, crossed, others         (* EnvFile *)

C == INSTANCE EnvCard
B == INSTANCE UpdateBadge
L == INSTANCE LiveViews
V == INSTANCE EnvFile

cards     == <<real, docker, card, fetch, stream, wire, job>>
badges    == <<image, behind, online, local, look, found, ask, badge, update>>
views     == <<kind, mounted, target, due, socks, ref, heard, shown, light, overtaken>>
variables == <<stack, file, exists, ed, listing, patch, gen, asked, crossed, others>>
vars      == <<part, cards, badges, views, variables>>

TypeOK == /\ part \in {"cards", "badges", "views", "variables"}
          /\ C!TypeOK /\ B!TypeOK /\ L!TypeOK /\ V!TypeOK

Init == \/ part = "cards"     /\ C!Init   /\ B!Unused /\ L!Unused /\ V!Unused
        \/ part = "badges"    /\ C!Unused /\ B!Init   /\ L!Unused /\ V!Unused
        \/ part = "views"     /\ C!Unused /\ B!Unused /\ L!Init   /\ V!Unused
        \/ part = "variables" /\ C!Unused /\ B!Unused /\ L!Unused /\ V!Init

Next == /\ \/ part = "cards"     /\ C!Next /\ UNCHANGED <<badges, views, variables>>
           \/ part = "badges"    /\ B!Next /\ UNCHANGED <<cards, views, variables>>
           \/ part = "views"     /\ L!Next /\ UNCHANGED <<cards, badges, variables>>
           \/ part = "variables" /\ V!Next /\ UNCHANGED <<cards, badges, views>>
        /\ UNCHANGED part

(* Of a part that is not looked at, nothing is under way that is owed anything. *)
Spec == Init /\ [][Next]_vars /\ C!Fairness /\ B!Fairness /\ L!Fairness

-----------------------------------------------------------------------------
(* A card comes to show the state its containers stay in (EnvCard). *)
CardCatchesUp == C!CardCatchesUp

(* The badge comes to tell the truth about the updates it can see (UpdateBadge). *)
BadgeCatchesUp == B!BadgeCatchesUp

(* The log viewer shows lines of one stream, the selected one (LiveViews). *)
LogShowsItsTarget == L!LogShowsItsTarget

(* A view has at most the socket it holds, and none once it is gone (LiveViews). *)
OneStream == L!OneStream

(* No light outlives its stream (LiveViews). *)
LightIsTrue == L!LightIsTrue

(* A terminal that is connecting becomes connected or says that it is not *)
(* (LiveViews).                                                           *)
NobodyWaitsForEver == L!NobodyWaitsForEver

(* A save changes the variables the user changed and no others (EnvFile). *)
OthersVariablesKept == V!OthersVariablesKept
=============================================================================
