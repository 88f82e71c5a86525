------------------------------- MODULE EnvFile -------------------------------
(***************************************************************************)
(* The .env file of one environment and all who write it: the variables    *)
(* editor of a page, through a PATCH that reads the file, changes it and   *)
(* writes it back; env-gen.sh, which starts the file anew; ensure_env_file,*)
(* which makes one of .env.example; and whoever else has an editor.        *)
(*                                                                         *)
(* A generated stack has a Secret.  In a custom stack env-gen.sh looks for *)
(* the value to keep under another name, <PROJECT>_<ENV>_<key>: Prefixed.  *)
(***************************************************************************)
EXTENDS Naturals, FiniteSets

CONSTANTS Secret, Prefixed,     (* the two variables this is about *)
          MaxOthers,            (* bound: runs of env-gen.sh and writes by others *)
          MaxChanges            (* bound: variables typed in, deleted or added at a time *)

VARIABLES stack,                (* "image" or "custom" *)
          file,                 (* what .env defines *)
          exists,               (* are there .env and .env.example? *)
          ed,                   (* the editor: what is shown and typed *)
          listing,              (* the keys it lists *)
          patch,                (* the save under way *)
          gen,                  (* env-gen.sh *)
          asked,                (* history: what the editor showed as changed when Save was pressed *)
          crossed,              (* history: has another written between the save's read and write? *)
          others                (* runs of env-gen.sh and writes by others so far *)

vars == <<stack, file, exists, ed, listing, patch, gen, asked, crossed, others>>

Keys  == {Secret, Prefixed}
Held  == {"absent", "set", "fresh", "typed", "blank", "mask"}
Typed == {"none", "typed", "blank"}

NoEdits   == [k \in Keys |-> "none"]
Untouched(o, r) == [open |-> o, reveal |-> r, edits |-> NoEdits, deletes |-> {}, new |-> NoEdits]
Closed    == Untouched(FALSE, FALSE)
NoPatch   == [step |-> "none", updates |-> NoEdits, deletes |-> {}, base |-> [k \in Keys |-> "absent"]]
Nothing   == [updates |-> NoEdits, deletes |-> {}, left |-> {}]
NoGen     == [step |-> "idle", kept |-> "absent"]

TypeOK == /\ stack \in {"image", "custom"}
          /\ file \in [Keys -> Held \ {"mask"}]
          /\ exists \in [env : BOOLEAN, example : BOOLEAN]
          /\ ed \in [open : BOOLEAN, reveal : BOOLEAN, edits : [Keys -> Typed],
                     deletes : SUBSET Keys, new : [Keys -> Typed]]
          /\ listing \subseteq Keys
          /\ patch \in [step : {"none", "sent", "read", "done", "failed"}, updates : [Keys -> Typed],
                        deletes : SUBSET Keys, base : [Keys -> Held \ {"mask"}]]
          /\ gen \in [step : {"idle", "looked", "truncated"}, kept : Held \ {"mask"}]
          /\ asked \in [updates : [Keys -> Typed], deletes : SUBSET Keys, left : SUBSET Keys]
          /\ crossed \in BOOLEAN
          /\ others \in 0..MaxOthers

Unused == /\ stack = "image"
          /\ file = [k \in Keys |-> "absent"]
          /\ exists = [env |-> FALSE, example |-> FALSE]
          /\ ed = Closed /\ listing = {} /\ patch = NoPatch /\ gen = NoGen
          /\ asked = Nothing
          /\ crossed = FALSE /\ others = 0

(* A workspace as it was made, or as it comes from a repository, without .env. *)
Init == /\ stack \in {"image", "custom"}
        /\ \/ file = [k \in Keys |-> IF k = Secret THEN "set" ELSE "absent"] /\ exists = [env |-> TRUE, example |-> TRUE]
           \/ file = [k \in Keys |-> "absent"] /\ exists \in [env : {FALSE}, example : BOOLEAN]
        /\ ed = Closed /\ listing = {} /\ patch = NoPatch /\ gen = NoGen
        /\ asked = Nothing
        /\ crossed = FALSE /\ others = 0

Defined(f) == {k \in Keys : f[k] # "absent"}

(* A write of the file by another than the editor, which a save under way may *)
(* have read before.                                                          *)
Rewrite(f) == /\ file' = f
              /\ crossed' = (crossed \/ patch.step = "read")

-----------------------------------------------------------------------------
(* The editor *)

Unsaved == UNCHANGED <<stack, file, exists, patch, gen, asked, crossed, others>>

Changes(e) == Cardinality({k \in Keys : e.edits[k] # "none"}) + Cardinality(e.deletes)
                + Cardinality({k \in Keys : e.new[k] # "none"})
Show(e) == Changes(e) <= MaxChanges /\ ed' = e

(* An editor that is folded keeps what it has, like one nobody touches. *)
Open   == ~ed.open /\ Show(Untouched(TRUE, FALSE)) /\ UNCHANGED listing /\ Unsaved
Leave  == ed.open /\ Show(Closed) /\ UNCHANGED listing /\ Unsaved

(* On opening, on another choice of reveal and after a save the list is asked for;  *)
(* a file that cannot be read leaves the list of the last time.                     *)
List   == /\ ed.open /\ exists.env
          /\ listing' = Defined(file)
          /\ UNCHANGED ed /\ Unsaved

(* The other query's list is as old as this one, or not there yet. *)
Reveal == /\ ed.open
          /\ Show([ed EXCEPT !.reveal = ~@, !.edits = NoEdits])
          /\ listing' \in {listing, {}}
          /\ Unsaved

(* What is typed and taken back leaves an edit, to a blank. *)
TypeIn(k) == /\ ed.open
             /\ k \in listing \ ed.deletes
             /\ \E v \in {"typed", "blank"} : Show([ed EXCEPT !.edits[k] = v])
             /\ UNCHANGED listing /\ Unsaved

toggleDelete(k) == /\ ed.open
                   /\ k \in listing
                   /\ Show([ed EXCEPT !.deletes = IF k \in @ THEN @ \ {k} ELSE @ \union {k},
                                     !.edits[k] = "none"])
                   /\ UNCHANGED listing /\ Unsaved

(* The row for a new variable; no name: nothing is added, no value: that is meant. *)
TypeNew(n) == /\ ed.open
              /\ Show([ed EXCEPT !.new = n])
              /\ UNCHANGED listing /\ Unsaved
NewRows == {NoEdits} \union {[NoEdits EXCEPT ![k] = "typed"] : k \in Keys}

(* Mutant: every value on display is sent along. *)
UpdatesAll == [k \in Keys |-> IF ed.new[k] # "none" THEN ed.new[k]
                              ELSE IF ed.edits[k] # "none" THEN ed.edits[k]
                              ELSE IF k \in listing THEN "mask" ELSE "none"]

Updates == [k \in Keys |-> IF ed.new[k] # "none" THEN ed.new[k] ELSE ed.edits[k]]

handleSave == /\ ed.open
              /\ patch.step = "none"
              /\ patch' = [NoPatch EXCEPT !.step = "sent", !.updates = Updates, !.deletes = ed.deletes]
              /\ asked' = [updates |-> [k \in Keys |-> IF ed.new[k] # "none" THEN ed.new[k] ELSE ed.edits[k]],
                           deletes |-> ed.deletes,
                           left    |-> {k \in Keys : ~ed.reveal /\ ed.edits[k] = "blank" /\ ed.new[k] = "none"}]
              /\ crossed' = FALSE
              /\ UNCHANGED <<stack, file, exists, ed, listing, gen, others>>

(* Nothing is kept of a save that has written, or has failed, but the answer. *)
Answered(as) == patch' = [NoPatch EXCEPT !.step = as] /\ asked' = Nothing /\ crossed' = FALSE
EndSave == Answered("none")

(* The answer clears what was typed since along with what was sent, unless the *)
(* editor that saved is closed by then.                                        *)
Saved == /\ patch.step = "done"
         /\ EndSave
         /\ ed' \in {ed, Untouched(ed.open, ed.reveal)}
         /\ UNCHANGED <<stack, file, exists, listing, gen, others>>
SaveFailed == /\ patch.step \in {"sent", "failed"}
              /\ EndSave
              /\ UNCHANGED <<stack, file, exists, ed, listing, gen, others>>

-----------------------------------------------------------------------------
(* UpdateEnvVars: the file is read, and written whole. *)

ReadFile == /\ patch.step = "sent"
            /\ \/ /\ exists.env
                  /\ patch' = [patch EXCEPT !.step = "read", !.base = file]
                  /\ UNCHANGED <<asked, crossed>>
               \/ ~exists.env /\ Answered("failed")
            /\ UNCHANGED <<stack, file, exists, ed, listing, gen, others>>

(* Mutant: an update of a key the file has not is lost. *)
UpdatedOnly == [k \in Keys |->
    IF k \in patch.deletes \/ patch.base[k] = "absent" THEN "absent"
    ELSE IF patch.updates[k] # "none" THEN patch.updates[k] ELSE patch.base[k]]

(* Deletes win. *)
Updated == [k \in Keys |->
    IF k \in patch.deletes THEN "absent"
    ELSE IF patch.updates[k] # "none" THEN patch.updates[k] ELSE patch.base[k]]

WriteFile == /\ patch.step = "read"
             /\ file' = Updated
             /\ Answered("done")
             /\ UNCHANGED <<stack, exists, ed, listing, gen, others>>

-----------------------------------------------------------------------------
(* The scripts *)

Another == others < MaxOthers /\ others' = others + 1

(* bootstrap.sh runs env-gen.sh for want of a .env, and whenever it is told to. *)
(* A custom stack has its secret looked up first, under the prefixed name, an   *)
(* image stack once the file has been begun anew, in what is left of it.        *)
LookUp == /\ gen.step = "idle" /\ stack = "custom"
          /\ Another
          /\ gen' = [step |-> "looked", kept |-> file[Prefixed]]
          /\ UNCHANGED <<stack, file, exists, ed, listing, patch, asked, crossed>>

Truncate == /\ \/ stack = "custom" /\ gen.step = "looked" /\ UNCHANGED others
               \/ stack = "image" /\ gen.step = "idle" /\ Another
            /\ gen' = [gen EXCEPT !.step = "truncated"]
            /\ Rewrite([k \in Keys |-> "absent"])
            /\ exists' = [exists EXCEPT !.env = TRUE]
            /\ UNCHANGED <<stack, ed, listing, patch, asked>>

(* A blank value is none to keep.  What another wrote in the meantime stays in  *)
(* an image stack's file, which is appended to, and may in a custom stack's.    *)
Finish == LET kept == IF stack = "custom" THEN gen.kept ELSE file[Secret]
              new  == IF kept \in {"absent", "blank"} THEN "fresh" ELSE kept
          IN  /\ gen.step = "truncated"
              /\ \/ Rewrite([file EXCEPT ![Secret] = new])
                 \/ stack = "custom" /\ Rewrite([file EXCEPT ![Secret] = new, ![Prefixed] = "absent"])
              /\ exists' = [exists EXCEPT !.example = TRUE]
              /\ gen' = NoGen
              /\ UNCHANGED <<stack, ed, listing, patch, asked, others>>

ensure_env_file == /\ Another
                   /\ ~exists.env /\ exists.example
                   /\ Rewrite([k \in Keys |-> IF k = Secret THEN "set" ELSE "absent"])
                   /\ exists' = [exists EXCEPT !.env = TRUE]
                   /\ UNCHANGED <<stack, ed, listing, patch, gen, asked>>

(* Another tab, an editor in a shell. *)
Others == /\ Another
          /\ exists.env
          /\ \E k \in Keys, v \in {"absent", "set"} : v # file[k] /\ Rewrite([file EXCEPT ![k] = v])
          /\ UNCHANGED <<stack, exists, ed, listing, patch, gen, asked>>

-----------------------------------------------------------------------------
Next == \/ Open \/ Leave \/ List \/ Reveal
        \/ \E k \in Keys : toggleDelete(k) \/ TypeIn(k)
        \/ \E n \in NewRows : TypeNew(n)
        \/ handleSave \/ Saved \/ SaveFailed \/ ReadFile \/ WriteFile
        \/ LookUp \/ Truncate \/ Finish \/ ensure_env_file \/ Others

Spec == Init /\ [][Next]_vars

-----------------------------------------------------------------------------
(* "Other lines are preserved unchanged" (UpdateEnvVars): a save that no other *)
(* write came between changes the variables the user changed, to what the user *)
(* typed, and leaves every other as it is, however old the list in front of    *)
(* the user.  A variable deleted and added anew in one save is set aside (it   *)
(* is gone after it), and so is one left blank while the values are hidden,    *)
(* which the page says keeps its value and the save empties.                   *)
OthersVariablesKept ==
    [][WriteFile /\ ~crossed =>
          \A k \in Keys \ (asked.left \union {j \in asked.deletes : asked.updates[j] # "none"}) :
             file'[k] = IF k \in asked.deletes THEN "absent"
                        ELSE IF asked.updates[k] # "none" THEN asked.updates[k] ELSE file[k]]_vars
=============================================================================
