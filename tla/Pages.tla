-------------------------------- MODULE Pages --------------------------------
(***************************************************************************)
(* The pages that collect what the user wants and then send it, under the  *)
(* router that shows one of them: the wizard that makes a workspace, the   *)
(* page that edits its environments, the service cards of that page, the   *)
(* safety center of the housekeeping page and the settings.  Of the page   *)
(* shown nothing outlives it, so a behaviour is one visit; the editor,     *)
(* whose cached copy and requests do outlive it, is visited again and      *)
(* again.                                                                  *)
(***************************************************************************)
EXTENDS Naturals, Sequences

CONSTANTS EnvNames, NewName, Settings, Blank, MaxEdits,         (* ConfigEditor *)
          MaxWrites,                                            (* ConfigEditor, SettingsPage *)
          MaxServices, MaxRows, Lefts, Rights,                  (* ServiceCards *)
          Things,                                               (* Housekeeping *)
          MaxId                                                 (* SettingsPage *)

(* There is an environment to add, none goes by the label of another part of the *)
(* file, and what a user deletes is no setting;                                  *)
(* a text typed in a service's card is a list of parts; every list and table     *)
(* holds at least one row.                                                       *)
ASSUME PagesAssumption ==
    /\ NewName \in EnvNames /\ Blank \in Settings /\ "gone" \notin Settings
    /\ EnvNames \intersect {"project", "version"} = {}
    /\ MaxWrites \in Nat
    /\ MaxServices \in Nat \ {0} /\ MaxRows \in Nat \ {0}
    /\ Lefts \union Rights \subseteq Seq({"80", "80x", "x"})
    /\ MaxId \in Nat \ {0}

VARIABLES page,                                                 (* what the router shows *)
          step, data, details, socket, server, made, done,      (* Wizard *)
          disk, cache, get, at, form, put, danger, base, typed, writes,  (* ConfigEditor *)
          list, images, cards, shifted,                         (* ServiceCards *)
          section, real, open, shown, ticked, gate, hold, stray, post, offered, (* Housekeeping *)
          tab, rows, seen, modal, fields, synced, save, intact, changes        (* SettingsPage *)

W == INSTANCE Wizard
E == INSTANCE ConfigEditor
S == INSTANCE ServiceCards
H == INSTANCE Housekeeping
T == INSTANCE SettingsPage

wizard   == <<step, data, details, socket, server, made, done>>
editor   == <<disk, cache, get, at, form, put, danger, base, typed, writes>>
services == <<list, images, cards, shifted>>
safety   == <<section, real, open, shown, ticked, gate, hold, stray, post, offered>>
settings == <<tab, rows, seen, modal, fields, synced, save, intact, changes>>
vars     == <<page, wizard, editor, services, safety, settings>>

TypeOK == /\ page \in {"new", "edit", "services", "housekeeping", "settings"}
          /\ W!TypeOK /\ E!TypeOK /\ S!TypeOK /\ H!TypeOK /\ T!TypeOK

Init == \/ page = "new"          /\ W!Init   /\ E!Unused /\ S!Unused /\ H!Unused /\ T!Unused
        \/ page = "edit"         /\ W!Unused /\ E!Init   /\ S!Unused /\ H!Unused /\ T!Unused
        \/ page = "services"     /\ W!Unused /\ E!Unused /\ S!Init   /\ H!Unused /\ T!Unused
        \/ page = "housekeeping" /\ W!Unused /\ E!Unused /\ S!Unused /\ H!Init   /\ T!Unused
        \/ page = "settings"     /\ W!Unused /\ E!Unused /\ S!Unused /\ H!Unused /\ T!Init

Next == /\ \/ page = "new"          /\ W!Next /\ UNCHANGED <<editor, services, safety, settings>>
           \/ page = "edit"         /\ E!Next /\ UNCHANGED <<wizard, services, safety, settings>>
           \/ page = "services"     /\ S!Next /\ UNCHANGED <<wizard, editor, safety, settings>>
           \/ page = "housekeeping" /\ H!Next /\ UNCHANGED <<wizard, editor, services, settings>>
           \/ page = "settings"     /\ T!Next /\ UNCHANGED <<wizard, editor, services, safety>>
        /\ UNCHANGED page

Spec == Init /\ [][Next]_vars /\ W!Fairness

-----------------------------------------------------------------------------
(* What is sent is complete, whatever the way through the wizard (Wizard). *)
PayloadComplete == W!PayloadComplete

(* Step 7 always offers a way on (Wizard). *)
CreationEnds == W!CreationEnds

(* A save of config.json has every edit of the user in it, and changes of the   *)
(* rest only what was changed since its form was filled (ConfigEditor).         *)
SaveKeepsTheRest == E!SaveKeepsTheRest

(* A card shows what its service saves, through saves and openings of the page, *)
(* until one before it is removed, and unless it loses a port (ServiceCards).   *)
CardsTellTheTruth == S!CardsTellTheTruth

(* What a purge names was offered to the user and ticked (Housekeeping). *)
NamesWereOffered == H!NamesWereOffered

(* A save changes the row its form was filled from, in the parts the user typed *)
(* (SettingsPage).                                                              *)
SaveStaysInItsRow == T!SaveStaysInItsRow
=============================================================================
