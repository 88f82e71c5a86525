----------------------------- MODULE ConfigEditor -----------------------------
(***************************************************************************)
(* The page that edits a workspace's config.json.  It fills its form once, *)
(* from whatever copy React Query holds, keeps what the user types in the  *)
(* form while the copy is refetched behind it, and saves what the form     *)
(* holds (the environments, the project with its version, the services)    *)
(* among the other keys of the latest copy.  Meanwhile version.sh, other   *)
(* tabs and editors write the same file, and the danger zone removes it    *)
(* with its workspace.                                                     *)
(*                                                                         *)
(* A request carries what the server read or is to write.  One PUT is      *)
(* under way at a time.                                                    *)
(***************************************************************************)
EXTENDS Naturals, FiniteSets, Functions

CONSTANTS EnvNames,             (* the names environments may have *)
          NewName,              (* the name the next new environment is given *)
          Settings,             (* what a part of the file may say *)
          Blank,                (* those a new environment starts with *)
          MaxEdits,             (* bound: the parts edited in one form *)
          MaxWrites             (* bound: on the saves, and the writes of others *)

VARIABLES disk,                 (* config.json *)
          cache,                (* the copy under ['config', name] *)
          get,                  (* the GET under way, and what it read *)
          at,                   (* is the page away, awaiting its first copy, or filled? *)
          form,                 (* the parts of the file in the form *)
          put,                  (* the PUT under way, and what it is to write *)
          danger,               (* the danger zone *)
          base,                 (* history: the copy the form was filled from *)
          typed,                (* history: what the user has made of a part *)
          writes                (* how often the file was written *)

fills == <<at, form, base, typed>>
vars  == <<disk, cache, get, put, danger, writes, fills>>

(* What the form holds besides the environments: the user's part of the project, *)
(* with the services of an image stack, and the project's version, which no      *)
(* field of the form shows.                                                      *)
Fixed == {"project", "version"}

(* rest: have the keys that the form does not hold changed since the file was made? *)
Forms   == UNION {[S \union Fixed -> Settings] : S \in (SUBSET EnvNames) \ {{}}}
Configs == [parts : Forms, rest : BOOLEAN]
None    == [parts |-> <<>>, rest |-> FALSE]
Edits   == UNION {[S -> Settings \union {"gone"}] : S \in SUBSET (EnvNames \union Fixed)}

TypeOK == /\ disk \in Configs \union {None}
          /\ cache \in Configs \union {None}
          /\ get \in [busy : BOOLEAN, read : Configs \union {None}]
          /\ at \in {"away", "empty", "filled"}
          /\ form \in IF at = "filled" THEN Forms ELSE {<<>>}
          /\ put \in [state : {"none", "sent", "written", "failed"}, what : Configs \union {None}]
          /\ danger \in {"closed", "asked"}
          /\ base \in IF at = "filled" THEN Configs ELSE {None}
          /\ typed \in Edits
          /\ writes \in 0..MaxWrites

NoGet  == [busy |-> FALSE, read |-> None]
Put(s) == [state |-> s, what |-> None]
NoPut  == Put("none")

Idle == /\ cache = None
        /\ get = NoGet
        /\ at = "away" /\ form = <<>>
        /\ put = NoPut
        /\ danger = "closed"
        /\ base = None /\ typed = <<>> /\ writes = 0

(* What the wizard writes; it names no environment as addEnv does. *)
Made   == {c \in Configs : ~c.rest /\ Range(c.parts) = {Blank} /\ NewName \notin DOMAIN c.parts}
Init   == disk \in Made /\ Idle
Unused == disk = None /\ Idle

(* The effect: the first copy there is fills the form, a later one does not. *)
FillWith(c) == /\ at' = "filled"
               /\ form' = c.parts
               /\ base' = c
               /\ typed' = <<>>
(* Mutant: every copy that comes is put into the form. *)
FillAlways(c) == IF at = "filled" THEN form' = c.parts /\ UNCHANGED <<at, base, typed>> ELSE FillWith(c)
Fill(c) == IF at = "filled" THEN UNCHANGED fills ELSE FillWith(c)

Vanish == /\ at' = "away"
          /\ form' = <<>>
          /\ base' = None
          /\ typed' = <<>>

-----------------------------------------------------------------------------
(* The copy *)

Open == /\ at = "away"
        /\ IF cache = None THEN at' = "empty" /\ UNCHANGED <<form, base, typed>> ELSE Fill(cache)
        /\ UNCHANGED <<disk, cache, get, put, danger, writes>>

(* Cancel, or any link. *)
Leave == /\ at # "away"
         /\ Vanish
         /\ UNCHANGED <<disk, cache, get, put, danger, writes>>

(* On mount and on focus, when the copy is older than ten seconds. *)
Ask == /\ at # "away" /\ ~get.busy
       /\ get' = [busy |-> TRUE, read |-> disk]
       /\ UNCHANGED <<disk, cache, put, danger, fills, writes>>

Arrives == /\ get.busy /\ get.read # None
           /\ cache' = get.read
           /\ get' = NoGet
           /\ IF at = "away" THEN UNCHANGED fills ELSE Fill(get.read)
           /\ UNCHANGED <<disk, put, danger, writes>>

AskFails == /\ get.busy
            /\ get' = NoGet
            /\ UNCHANGED <<disk, cache, put, danger, fills, writes>>

(* Five minutes after the page was left. *)
Forget == /\ at = "away" /\ cache # None
          /\ cache' = None
          /\ UNCHANGED <<disk, get, put, danger, fills, writes>>

-----------------------------------------------------------------------------
(* The form *)

(* { ...f, ...g }, and an object of one key. *)
Spread(f, g) == [n \in DOMAIN f \union DOMAIN g |-> IF n \in DOMAIN g THEN g[n] ELSE f[n]]
Only(n, s)   == [m \in {n} |-> s]
Without(f, n) == Restrict(f, DOMAIN f \ {n})

Edit(f, t) == /\ at = "filled"
              /\ form' = f
              /\ typed' = Spread(typed, t)
              /\ Cardinality(DOMAIN typed') <= MaxEdits
              /\ UNCHANGED <<disk, cache, get, at, put, danger, base, writes>>

updateEnv(e, s) == e \in DOMAIN form /\ Edit([form EXCEPT ![e] = s], Only(e, s))

(* setProject and setImages. *)
updateProject(s) == updateEnv("project", s)

(* One that has the new name already is merged with the renamed: of the two the *)
(* later in the object's order survives.                                        *)
renameEnv(e, n) ==
    /\ e \in DOMAIN form /\ n # e
    /\ \E s \in {form[x] : x \in {e, n} \intersect DOMAIN form} :
          Edit(Spread(Without(form, e), Only(n, s)), Spread(Only(e, "gone"), Only(n, s)))

(* Mutant: the last environment can be removed. *)
removeEnvAnyway(e) == e \in DOMAIN form /\ Edit(Without(form, e), Only(e, "gone"))

removeEnv(e) == /\ e \in DOMAIN form /\ DOMAIN form # {e} \union Fixed
                /\ Edit(Without(form, e), Only(e, "gone"))

(* The counter starts anew with the page, so the name may be in the form: its *)
(* settings are then replaced.                                                *)
addEnv == Edit(Spread(form, Only(NewName, Blank)), Only(NewName, Blank))

-----------------------------------------------------------------------------
(* Saving *)

(* { ...rawConfig, project, environments: envs, images } *)
Payload == [parts |-> form, rest |-> cache.rest]

Save == /\ at = "filled" /\ put.state = "none" /\ writes < MaxWrites
        /\ put' = [state |-> "sent", what |-> Payload]
        /\ writes' = writes + 1
        /\ UNCHANGED <<disk, cache, get, danger, fills>>

(* PutConfig: there is no directory to write in when the workspace is gone. *)
PutConfig == /\ put.state = "sent"
             /\ disk' = IF disk = None THEN None ELSE put.what
             /\ put' = Put(IF disk = None THEN "failed" ELSE "written")
             /\ UNCHANGED <<cache, get, danger, fills, writes>>

(* onSuccess refetches the copy if the page is there and shows the workspace, *)
(* whatever is shown by then.                                                 *)
Saved == /\ put.state = "written"
         /\ put' = NoPut
         /\ get' = IF at = "away" THEN get ELSE [busy |-> TRUE, read |-> disk]
         /\ Vanish
         /\ UNCHANGED <<disk, cache, danger, writes>>

(* Refused, or the request or its answer is lost: the form stays as it is. *)
SaveFails == /\ put.state # "none"
             /\ put' = NoPut
             /\ UNCHANGED <<disk, cache, get, danger, fills, writes>>

-----------------------------------------------------------------------------
(* The danger zone, and everybody else *)

(* The name of the workspace has been typed out. *)
Delete == /\ at = "filled" /\ danger = "closed"
          /\ danger' = "asked"
          /\ UNCHANGED <<disk, cache, get, put, fills, writes>>

(* The copy is not invalidated: a workspace made anew under the name finds it. *)
Deleted == /\ danger = "asked"
           /\ disk' = None
           /\ danger' = "closed"
           /\ Vanish \/ UNCHANGED fills
           /\ UNCHANGED <<cache, get, put, writes>>

(* version.sh, by itself or under build.sh, writes the version; another tab or   *)
(* an editor writes a part or the other keys, adds or removes an environment;    *)
(* the workspace is deleted; one is made anew under its name.                    *)
Elsewhere == /\ writes < MaxWrites
             /\ writes' = writes + 1
             /\ \/ /\ disk # None
                   /\ \/ \E n \in EnvNames \union Fixed, s \in Settings :
                            disk' = [disk EXCEPT !.parts = Spread(@, Only(n, s))]
                      \/ \E e \in EnvNames : /\ DOMAIN disk.parts # {e} \union Fixed
                                            /\ disk' = [disk EXCEPT !.parts = Without(@, e)]
                      \/ disk' = [disk EXCEPT !.rest = ~@]
                      \/ disk' = None
                \/ disk = None /\ disk' \in Made
             /\ disk' # disk
             /\ UNCHANGED <<cache, get, at, form, put, danger, base, typed>>

-----------------------------------------------------------------------------
Next == \/ Open \/ Leave \/ Ask \/ Arrives \/ AskFails \/ Forget
        \/ \E e \in EnvNames : \/ \E s \in Settings : updateEnv(e, s)
                               \/ \E n \in EnvNames : renameEnv(e, n)
                               \/ removeEnv(e)
        \/ addEnv \/ \E s \in Settings : updateProject(s)
        \/ Save \/ PutConfig \/ Saved \/ SaveFails
        \/ Delete \/ Deleted \/ Elsewhere

Spec == Init /\ [][Next]_vars

-----------------------------------------------------------------------------
Says(c, n) == IF n \in DOMAIN c.parts THEN c.parts[n] ELSE "gone"

(* A save takes nothing back but what was changed behind it: through all        *)
(* refetches, failed saves and visits before it every edit of the user is in the *)
(* file it sends, and a part the user left alone is sent as it is, unless it was *)
(* changed in the file since the copy was read that filled the form.  Such a     *)
(* change, a version bump for one or the user's own save from an earlier form,   *)
(* is undone (the effect and the mutation of EditWorkspacePage).                 *)
SaveKeepsTheRest ==
    [][\A n \in EnvNames \union Fixed :
          Save /\ disk # None =>
             /\ n \in DOMAIN typed => Says(put'.what, n) = typed[n]
             /\ n \notin DOMAIN typed /\ Says(disk, n) = Says(base, n)
                   => Says(put'.what, n) = Says(disk, n)]_vars
=============================================================================
