------------------------------ MODULE SettingsPage ------------------------------
(***************************************************************************)
(* The settings page: two tabs that list the rows of a table, registries   *)
(* or backup targets, with a form over the list to add or edit one and a   *)
(* window to confirm a deletion; and the general tab, a form for the one   *)
(* row of app_settings.  All saves of a tab share one mutation, and so do  *)
(* its deletions.  A behaviour is one visit to one tab.                    *)
(*                                                                         *)
(* A row has two parts: what is listed of it and a secret; of the general  *)
(* settings, the two that are edited.                                      *)
(***************************************************************************)
EXTENDS Naturals

CONSTANTS MaxId,                (* bound: the rows a table ever has *)
          MaxWrites             (* bound: changes of the table *)

VARIABLES tab,                  (* the tab of this visit *)
          rows,                 (* the table *)
          seen,                 (* the list on the page *)
          modal,                (* null, 'new' or the row that is edited *)
          fields,               (* what its fields hold *)
          synced,               (* the general tab's synced *)
          save,                 (* the save under way *)
          intact,               (* history: is the form of the row it is put on, as that row now is? *)
          changes               (* changes of the table so far *)

windows == <<modal, fields, synced, intact>>
vars    == <<tab, rows, seen, windows, save, changes>>

Ids    == 1..MaxId              \* given in this order, each once
Null   == 0
New    == MaxId + 1             \* 'new'
Parts  == {"public", "secret"}
Nothing  == "blank"
Values == {"old", "typed", "other", Nothing}
Row    == [Parts -> Values]
NoRow  == [p \in Parts |-> "none"]      \* an id not given yet
Gone   == [p \in Parts |-> "gone"]      \* a row that was deleted
Absent == {NoRow, Gone}
General == 1

Empty  == [p \in Parts |-> Nothing]
NoSave  == [to |-> Null, body |-> Empty, intact |-> FALSE]

TypeOK ==
    /\ tab \in {"general", "registries", "backup-targets"}
    /\ rows \in [Ids -> Row \union Absent]
    /\ seen \in [Ids -> Row \union Absent]
    /\ modal \in 0..New
    /\ fields \in Row
    /\ synced \in BOOLEAN
    /\ save \in [to : 0..New, body : Row, intact : BOOLEAN]
    /\ intact \in BOOLEAN
    /\ changes \in 0..MaxWrites

Shut == /\ seen = rows
        /\ modal = Null /\ fields = Empty /\ synced = FALSE
        /\ intact = FALSE /\ save = NoSave /\ changes = 0

Unused == tab = "general" /\ rows = [i \in Ids |-> NoRow] /\ Shut

Init == /\ tab \in {"general", "registries", "backup-targets"}
        /\ \E n \in 0..MaxId : rows = [i \in Ids |-> IF i <= n THEN [p \in Parts |-> "old"] ELSE NoRow]
        /\ tab = "general" => rows[General] # NoRow
        /\ Shut

There(i) == i \in Ids /\ seen[i] \notin Absent

-----------------------------------------------------------------------------
(* The list, and the windows over it *)

Fill(i, f, t) == modal' = i /\ fields' = f /\ intact' = t

(* On entering, after a save or a deletion, and when the window gets the focus. *)
(* The general tab takes the first answer over into its fields.                 *)
Refetch == /\ seen' = rows
           /\ IF tab = "general" /\ ~synced
              THEN synced' = TRUE /\ Fill(General, rows[General], TRUE)
              ELSE UNCHANGED <<modal, fields, synced, intact>>
           /\ UNCHANGED <<tab, rows, save, changes>>

(* After a failed load the general tab shows its fields all the same, blank. *)
LoadFails == /\ tab = "general" /\ modal = Null
             /\ UNCHANGED <<tab, rows, seen, synced, save, changes>>
             /\ Fill(General, Empty, FALSE)

(* A registry's password is not listed and begins blank in the form. A form that *)
(* is up when another row's Edit is reached (by keyboard, under the overlay)     *)
(* keeps its fields: to React it is the same form.                               *)
Edit(i) == /\ tab # "general"
           /\ There(i) \/ i = New
           /\ UNCHANGED <<tab, rows, seen, synced, save, changes>>
           /\ IF modal # Null THEN modal' = i /\ intact' = (intact /\ modal = i) /\ UNCHANGED fields
              ELSE IF i = New THEN Fill(i, Empty, TRUE)
              ELSE Fill(i, IF tab = "registries" THEN [seen[i] EXCEPT !["secret"] = Nothing] ELSE seen[i],
                        seen[i] = rows[i])

Type(p) == /\ modal # Null
           /\ fields' = [fields EXCEPT ![p] = "typed"]
           /\ UNCHANGED <<tab, rows, seen, modal, synced, save, intact, changes>>

Cancel == /\ tab # "general" /\ modal # Null
          /\ modal' = Null /\ fields' = Empty /\ intact' = FALSE
          /\ UNCHANGED <<tab, rows, seen, synced, save, changes>>

(* A new registry needs a password. *)
submit == /\ modal # Null
          /\ save = NoSave
          /\ tab # "general" => fields["public"] # Nothing
          /\ tab = "registries" /\ modal = New => fields["secret"] # Nothing
          /\ save' = [to |-> modal, body |-> fields, intact |-> intact]
          /\ UNCHANGED <<tab, rows, seen, windows, changes>>

-----------------------------------------------------------------------------
(* The server *)

(* A row changes: a form filled from it, and a save of one, are of the past. *)
Ages(i) == intact' = (intact /\ modal # i)
Mark(i) == Ages(i) /\ save' = [save EXCEPT !.intact = @ /\ save.to # i]

Change(i, row) == /\ changes < MaxWrites
                  /\ changes' = changes + 1
                  /\ rows' = [rows EXCEPT ![i] = row]

(* Mutant: a blank password is stored like any other. *)
StoredAsSent(old, body) == body

(* UpdateRegistry keeps the password where none is sent; a target and the general *)
(* settings are sent whole and stored as sent.                                    *)
Stored(old, body) == IF tab = "registries" /\ body["secret"] = Nothing
                     THEN [body EXCEPT !["secret"] = old["secret"]] ELSE body

(* A request is answered as it is served.  Success closes whatever form is open  *)
(* by then; an answer that is lost does not.                                      *)
CloseForm(i) == \/ tab # "general" /\ modal' = Null /\ fields' = Empty /\ intact' = FALSE
                \/ tab # "general" /\ Ages(i) /\ UNCHANGED <<modal, fields>>
                \/ tab = "general" /\ UNCHANGED <<modal, fields>>
                   /\ intact' = \A p \in Parts : fields[p] \in {"typed", save.body[p]}

NextId(i) == rows[i] = NoRow /\ \A j \in 1..i-1 : rows[j] # NoRow

Store == /\ \/ save.to \in Ids /\ rows[save.to] \notin Absent
               /\ Change(save.to, Stored(rows[save.to], save.body)) /\ CloseForm(save.to)
            \/ save.to = New /\ \E i \in Ids : NextId(i) /\ Change(i, save.body) /\ CloseForm(i)
         /\ save' = NoSave
         /\ UNCHANGED <<tab, seen, synced>>

(* A name taken, a row gone, a request lost: the form stays, with an error in it. *)
SaveFails == /\ save # NoSave
             /\ save' = NoSave
             /\ UNCHANGED <<tab, rows, seen, windows, changes>>

(* Of a row listed, once it is confirmed; to the forms it is as if another had done it. *)
Delete(i) == /\ tab # "general" /\ There(i)
             /\ rows[i] \notin Absent /\ Change(i, Gone)
             /\ Mark(i)
             /\ UNCHANGED <<tab, seen, modal, fields, synced>>

(* Another tab or another user. *)
Others(i) == /\ rows[i] \notin Absent
             /\ \/ Change(i, [rows[i] EXCEPT !["public"] = "other"])
                \/ tab # "general" /\ Change(i, Gone)
             /\ Mark(i)
             /\ UNCHANGED <<tab, seen, modal, fields, synced>>

-----------------------------------------------------------------------------
Next == \/ Refetch \/ LoadFails \/ Edit(New) \/ Cancel \/ submit
        \/ \E p \in Parts : Type(p)
        \/ \E i \in Ids : Edit(i) \/ Delete(i) \/ Others(i)
        \/ Store \/ SaveFails

Spec == Init /\ [][Next]_vars

-----------------------------------------------------------------------------
(* "Leave blank to keep existing password" (RegistryForm), and every other part *)
(* with it: a save changes the row its form was filled from, in the parts the   *)
(* user typed, and nothing else, though forms of other rows were opened and     *)
(* closed while earlier saves and deletions were still unanswered.  Two cases   *)
(* are set aside: a form put on another row while it was up, or filled from     *)
(* nothing after a failed load, and a row that has changed since the list the   *)
(* form was filled from (its old values are then stored again).                 *)
SaveStaysInItsRow ==
    [][Store /\ save.to \in Ids /\ save.intact =>
          \A i \in Ids : rows'[i] # rows[i] =>
             /\ i = save.to
             /\ \A p \in Parts : rows'[i][p] # rows[i][p] => save.body[p] = "typed"]_vars
=============================================================================
