------------------------------ MODULE StackOps ------------------------------
(***************************************************************************)
(* What acts on one environment's stack: the run.sh commands of deploy.sh, *)
(* compose-gen.sh (through `refresh`), image-check.sh (through `ps`),      *)
(* backup.sh and restore.sh, and the two handlers of the backend that      *)
(* write docker-compose.yml (PutCompose, and PutConfig's regenCompose).    *)
(* Each invocation is a process or goroutine of its own; nothing locks the *)
(* environment, so any number of them interleave between the docker        *)
(* commands they run.  Swarm deployments are left out.                     *)
(*                                                                         *)
(* A compose file defines services by key.  The generator names a key      *)
(* <project>_<env>_<service> ("prefixed"), a file saved in the Compose     *)
(* editor may call it <service> ("bare").  Compose puts the project name   *)
(* <project>_<env> in front of every volume key, so only the volume of a   *)
(* bare key is the one backup.sh and restore.sh mean by                    *)
(* <project>_<env>_<label>.                                                *)
(*                                                                         *)
(* What a volume holds is a number: Absent, Blank, or the generation of    *)
(* the data last written into it.                                          *)
(***************************************************************************)
EXTENDS Integers, FiniteSets

CONSTANTS
  Jobs,        (* invocations of run.sh                                    *)
  Asked,       (* the commands they may be invoked with                    *)
  App, DB,     (* an application service and a database service            *)
  Earlier,     (* a snapshot more than 30 days old                         *)
  MaxGen,      (* generations of data                                      *)
  MaxRelease   (* releases of the stack's images                           *)

Commands == {"start", "stop", "down", "restart", "ps", "update", "refresh",
             "save config", "edit compose", "backup", "backup db", "backup files",
             "restore"}

ASSUME StackAssumption ==
  /\ Asked \subseteq Commands
  /\ MaxGen \in Nat \ {0}
  /\ MaxRelease \in Nat \ {0}
  /\ Earlier \notin Jobs
  /\ App # DB

Services  == {App, DB}
Names     == {"prefixed", "bare"}
Keys      == Names \X Services
Snapshots == Jobs \cup {Earlier}
Absent    == -1
Blank     == 0
Content   == Absent .. MaxGen

Generated == {"prefixed"} \X Services

(* What backup.sh and restore.sh take for the database service and for the *)
(* volume of the uploads: the bare names.                                  *)
Dumped  == <<"bare", DB>>
Uploads == <<"bare", App>>

VARIABLES
  type,      (* project.type: "custom" or "image"                          *)
  dumps,     (* is DB a database backup.sh recognises?                     *)
  file,      (* the service keys docker-compose.yml defines                *)
  run,       (* each key's container: "none", "stopped", "running"         *)
  ver,       (* the image release it was created from                      *)
  local,     (* the release of the images pulled on this host              *)
  upstream,  (* the release in the registry                                *)
  vol,       (* each key's volume                                          *)
  gen,       (* the last generation of data written                        *)
  snap,      (* the snapshot directories, one for each backup              *)
  pc,        (* where each job is                                          *)
  cmd,       (* its command                                                *)
  from,      (* the snapshot a restore was asked for                       *)
  was,       (* update: RUNNING_BEFORE                                     *)
  todo,      (* the archives a loop still has to go through                *)
  hit,       (* a volume has been archived / restored                      *)
  lone,      (* history: no other job has been under way meanwhile         *)
  before     (* history: the state when the job began                      *)

stackVars == <<type, dumps>>
dockerVars == <<run, ver, local, vol>>
loopVars == <<from, was, todo, hit>>
historyVars == <<lone, before>>
vars == <<stackVars, file, dockerVars, upstream, gen, snap, pc, cmd, loopVars,
          historyVars>>

Runs == {"none", "stopped", "running"}
Locations == {"idle", "check", "pull", "up", "stop", "down", "ps", "generate", "write",
              "dump", "archive", "prune", "halt", "database", "drop", "load",
              "extract", "start", "ok", "failed"}
States == [running : SUBSET Keys, rows : Content, uploads : Content]
Idle == [running |-> {}, rows |-> Blank, uploads |-> Blank]
Directories == [made : BOOLEAN, dump : Content, tar : [Services -> Content]]
NoSnapshot == [made |-> FALSE, dump |-> Absent, tar |-> [s \in Services |-> Absent]]

TypeOK ==
  /\ type \in {"custom", "image"} /\ dumps \in BOOLEAN
  /\ file \subseteq Keys
  /\ run \in [Keys -> Runs]
  /\ ver \in [Keys -> 0 .. MaxRelease]
  /\ local \in 1 .. MaxRelease /\ upstream \in 1 .. MaxRelease
  /\ vol \in [Keys -> Content]
  /\ gen \in 1 .. MaxGen
  /\ snap \in [Snapshots -> Directories]
  /\ pc \in [Jobs -> Locations]
  /\ cmd \in [Jobs -> Asked \cup {"none"}]
  /\ from \in [Jobs -> Snapshots]
  /\ was \in [Jobs -> BOOLEAN]
  /\ todo \in [Jobs -> SUBSET Services]
  /\ hit \in [Jobs -> BOOLEAN]
  /\ lone \in [Jobs -> BOOLEAN]
  /\ before \in [Jobs -> States]

Archived == IF type = "image" THEN Services ELSE {App}

(* A stack deployed from a generated or from an edited file, up or stopped, *)
(* its volumes in use, with one old snapshot of that data, taken when the  *)
(* file had the bare names; their volumes have been pruned since if it has *)
(* been generated again.                                                   *)
Init ==
  /\ type \in {"custom", "image"} /\ dumps \in BOOLEAN
  /\ \E n \in Names, state \in {"running", "stopped"} :
       /\ file = {n} \X Services
       /\ run = [k \in Keys |-> IF k \in file THEN state ELSE "none"]
       /\ ver = [k \in Keys |-> IF k \in file THEN 1 ELSE 0]
       /\ vol = [k \in Keys |-> IF k \in file THEN 1 ELSE Absent]
  /\ local = 1 /\ upstream = 1 /\ gen = 1
  /\ snap = [i \in Snapshots |->
               IF i = Earlier
                 THEN [made |-> TRUE, dump |-> IF dumps THEN 1 ELSE Absent,
                       tar |-> [s \in Services |-> IF s \in Archived THEN 1 ELSE Absent]]
                 ELSE NoSnapshot]
  /\ pc = [j \in Jobs |-> "idle"]
  /\ cmd = [j \in Jobs |-> "none"]
  /\ from = [j \in Jobs |-> Earlier]
  /\ was = [j \in Jobs |-> FALSE]
  /\ todo = [j \in Jobs |-> {}]
  /\ hit = [j \in Jobs |-> FALSE]
  /\ lone = [j \in Jobs |-> TRUE]
  /\ before = [j \in Jobs |-> Idle]

-----------------------------------------------------------------------------
Ended == {"idle", "ok", "failed"}
UnderWay(j) == pc[j] \notin Ended
Running == {k \in Keys : run[k] = "running"}

Goto(j, l) == pc' = [pc EXCEPT ![j] = l]

(* What runs compose-gen.sh, and what rewrites docker-compose.yml.         *)
Regenerate == {"refresh", "save config"}
Rewrite == Regenerate \cup {"edit compose"}

\* Mutant: `update` is not among the commands deploy.sh knows.
EntryWithoutUpdate(c) ==
  CASE c \in {"start", "restart"} -> "up"
    [] c \in Regenerate -> "generate"
    [] c = "edit compose" -> "write"
    [] c \in {"backup", "backup db"} -> "dump"
    [] c = "backup files" -> "archive"
    [] c = "restore" -> "halt"
    [] OTHER -> c

(* run.sh and deploy.sh: where each command begins.                        *)
Entry(c) ==
  CASE c \in {"start", "restart"} -> "up"
    [] c = "update" -> "check"
    [] c \in Regenerate -> "generate"
    [] c = "edit compose" -> "write"
    [] c \in {"backup", "backup db"} -> "dump"
    [] c = "backup files" -> "archive"
    [] c = "restore" -> "halt"
    [] OTHER -> c

(* A job begins.  backup.sh makes its directory; restore.sh refuses a      *)
(* snapshot whose directory is not there; what rewrites docker-compose.yml *)
(* truncates it first.                                                     *)
Begin(j, c) ==
  /\ pc[j] = "idle"
  /\ cmd' = [cmd EXCEPT ![j] = c]
  /\ \E i \in IF c = "restore" THEN Snapshots ELSE {Earlier} :
       /\ from' = [from EXCEPT ![j] = i]
       /\ Goto(j, IF c = "restore" /\ ~snap[i].made THEN "failed" ELSE Entry(c))
  /\ snap' = IF Entry(c) \in {"dump", "archive"}
               THEN [snap EXCEPT ![j].made = TRUE] ELSE snap
  /\ file' = IF c \in Rewrite THEN {} ELSE file
  /\ todo' = [todo EXCEPT ![j] = IF c \in Regenerate THEN Services ELSE Archived]
  /\ lone' = [i \in Jobs |-> IF i = j THEN \A o \in Jobs \ {j} : ~UnderWay(o)
                                      ELSE lone[i] /\ ~UnderWay(i)]
  /\ before' = [before EXCEPT ![j] = [running |-> Running, rows |-> vol[Dumped],
                                      uploads |-> vol[Uploads]]]
  /\ UNCHANGED <<stackVars, dockerVars, upstream, gen, was, hit>>

-----------------------------------------------------------------------------
(* What the docker commands do.                                            *)

(* `docker compose up -d` brings every service of the file up, on the      *)
(* images pulled, and makes the volumes they miss.  With --remove-orphans  *)
(* it removes the project's containers that the file does not define.      *)
ComposeUp(orphans) ==
  /\ file # {}
  /\ run' = [k \in Keys |-> IF k \in file THEN "running"
                            ELSE IF orphans THEN "none" ELSE run[k]]
  /\ ver' = [k \in Keys |-> IF k \in file THEN local ELSE ver[k]]
  /\ vol' = [k \in Keys |-> IF k \in file /\ vol[k] = Absent THEN Blank ELSE vol[k]]
  /\ UNCHANGED local

(* It may fail half-way (a port that is taken, a dependency that stays     *)
(* unhealthy): some services are up, some were created and not started.    *)
ComposeUpFails ==
  \E up \in SUBSET file, made \in SUBSET file :
    /\ run' = [k \in Keys |-> IF k \in up THEN "running"
                              ELSE IF k \in made THEN "stopped" ELSE run[k]]
    /\ ver' = [k \in Keys |-> IF k \in up \cup made THEN local ELSE ver[k]]
    /\ vol' = [k \in Keys |-> IF k \in up \cup made /\ vol[k] = Absent
                              THEN Blank ELSE vol[k]]
    /\ UNCHANGED local

\* Mutant: `down -v`.
ComposeToWithVolumes(state, S) ==
  /\ run' = [k \in Keys |-> IF k \in S /\ run[k] # "none" THEN state ELSE run[k]]
  /\ vol' = [k \in Keys |-> IF state = "none" /\ k \in S THEN Absent ELSE vol[k]]
  /\ UNCHANGED <<ver, local>>

(* stop and down reach the containers of the services the file defines.    *)
ComposeTo(state, S) ==
  /\ run' = [k \in Keys |-> IF k \in S /\ run[k] # "none" THEN state ELSE run[k]]
  /\ UNCHANGED <<ver, local, vol>>

-----------------------------------------------------------------------------
(* start, restart (which is `up -d` too), and the end of refresh and of an *)
(* update.                                                                 *)
Up(j) ==
  /\ pc[j] = "up"
  /\ \/ ComposeUp(TRUE) /\ Goto(j, "ok")
     \/ ComposeUpFails /\ Goto(j, "failed")
  /\ UNCHANGED <<stackVars, file, upstream, gen, snap, cmd, loopVars, historyVars>>

Stop(j) ==
  /\ pc[j] = "stop"
  /\ \/ file # {} /\ ComposeTo("stopped", file \cap Running) /\ Goto(j, "ok")
     \/ \E S \in SUBSET (file \cap Running) :
          ComposeTo("stopped", S) /\ Goto(j, "failed")
  /\ UNCHANGED <<stackVars, file, upstream, gen, snap, cmd, loopVars, historyVars>>

Down(j) ==
  /\ pc[j] = "down"
  /\ \/ file # {} /\ ComposeTo("none", file) /\ Goto(j, "ok")
     \/ \E S \in SUBSET file : ComposeTo("none", S) /\ Goto(j, "failed")
  /\ UNCHANGED <<stackVars, file, upstream, gen, snap, cmd, loopVars, historyVars>>

(* `ps`, which for an image stack goes on to image-check.sh: an image      *)
(* tagged latest that has a newer release is pulled; the restart that      *)
(* follows names another project, finds nothing and only warns.            *)
Ps(j) ==
  /\ pc[j] = "ps"
  /\ \/ /\ file # {}
        /\ local' \in IF type = "image" THEN {local, upstream} ELSE {local}
        /\ Goto(j, "ok")
     \/ UNCHANGED local /\ Goto(j, "failed")
  /\ UNCHANGED <<stackVars, file, run, ver, vol, upstream, gen, snap, cmd, loopVars,
                 historyVars>>

(* refresh and save config: compose-gen.sh writes the file where it lies,  *)
(* one service after the other, under the prefixed names; it may die in    *)
(* between.  For save config the script's own standard output is the same  *)
(* file at another offset: what it logs at the end lands inside the text   *)
(* just written, escape sequences and all, and no YAML parser takes it.    *)
Generate(j) ==
  /\ pc[j] = "generate"
  /\ \/ /\ todo[j] = {} /\ cmd[j] = "refresh"
        /\ Goto(j, "up") /\ UNCHANGED <<file, todo>>
     \/ /\ todo[j] = {} /\ cmd[j] = "save config"
        /\ file' = {}
        /\ Goto(j, "ok") /\ UNCHANGED todo
     \/ /\ \E s \in todo[j] :
             /\ file' = file \cup {<<"prefixed", s>>}
             /\ todo' = [todo EXCEPT ![j] = @ \ {s}]
        /\ UNCHANGED pc
     \/ Goto(j, "failed") /\ UNCHANGED <<file, todo>>
  /\ UNCHANGED <<stackVars, dockerVars, upstream, gen, snap, cmd, from, was, hit,
                 historyVars>>

(* edit compose: os.WriteFile puts the text of the Compose editor into the *)
(* file it has truncated.                                                  *)
WriteFile(j) ==
  /\ pc[j] = "write"
  /\ \/ /\ \E n \in Names : file' = {n} \X Services
        /\ Goto(j, "ok")
     \/ Goto(j, "failed") /\ UNCHANGED file
  /\ UNCHANGED <<stackVars, dockerVars, upstream, gen, snap, cmd, loopVars, historyVars>>

(* update: `ps --quiet | grep -q .`.  grep leaves at the first line; with  *)
(* two lines or more `docker` may die of SIGPIPE, which pipefail turns     *)
(* into "not running".                                                     *)
Check(j) ==
  /\ pc[j] = "check"
  /\ \/ /\ file # {} /\ Running # {}
        /\ was' = [was EXCEPT ![j] = TRUE]
     \/ /\ file = {} \/ Cardinality(Running) # 1
        /\ was' = [was EXCEPT ![j] = FALSE]
  /\ Goto(j, "pull")
  /\ UNCHANGED <<stackVars, file, dockerVars, upstream, gen, snap, cmd, from, todo, hit,
                 historyVars>>

\* Mutant: RUNNING_BEFORE is not looked at.
PullThenUp(j) ==
  /\ pc[j] = "pull"
  /\ \/ /\ file # {}
        /\ local' = upstream
        /\ Goto(j, "up")
     \/ UNCHANGED local /\ Goto(j, "failed")
  /\ UNCHANGED <<stackVars, file, run, ver, vol, upstream, gen, snap, cmd, loopVars,
                 historyVars>>

(* Then the images are pulled, and the stack brought up if it was running. *)
Pull(j) ==
  /\ pc[j] = "pull"
  /\ \/ /\ file # {}
        /\ local' = upstream
        /\ Goto(j, IF was[j] THEN "up" ELSE "ok")
     \/ UNCHANGED local /\ Goto(j, "failed")
  /\ UNCHANGED <<stackVars, file, run, ver, vol, upstream, gen, snap, cmd, loopVars,
                 historyVars>>

-----------------------------------------------------------------------------
(* backup.sh.  The dump is taken with `compose exec DB`, a bare name: it   *)
(* needs that key in the file and its container running.  Failing, it      *)
(* leaves a dump with nothing in it, and the script ends there.            *)
CanExec(k) == k \in file /\ run[k] = "running"

\* Mutant: no pipefail; gzip's status hides that of the dump.
DumpWithoutPipefail(j) ==
  /\ pc[j] = "dump"
  /\ snap' = IF ~dumps THEN snap
             ELSE [snap EXCEPT ![j].dump = IF CanExec(Dumped) THEN vol[Dumped] ELSE Blank]
  /\ Goto(j, IF cmd[j] = "backup db" THEN "ok" ELSE "archive")
  /\ UNCHANGED <<stackVars, file, dockerVars, upstream, gen, cmd, loopVars, historyVars>>

Dump(j) ==
  /\ pc[j] = "dump"
  /\ \/ /\ ~dumps
        /\ Goto(j, IF cmd[j] = "backup db" THEN "ok" ELSE "archive")
        /\ UNCHANGED snap
     \/ /\ dumps /\ CanExec(Dumped)
        /\ snap' = [snap EXCEPT ![j].dump = vol[Dumped]]
        /\ Goto(j, IF cmd[j] = "backup db" THEN "ok" ELSE "archive")
     \/ /\ dumps
        /\ snap' = [snap EXCEPT ![j].dump = Blank]
        /\ Goto(j, "failed")
  /\ UNCHANGED <<stackVars, file, dockerVars, upstream, gen, cmd, loopVars, historyVars>>

(* One volume.  For a custom stack `docker run -v` makes the volume if it  *)
(* is not there; for an image stack a missing one is skipped.              *)
Archive(j) ==
  /\ pc[j] = "archive"
  /\ \E s \in todo[j] :
       LET k == <<"bare", s>>
           skipped == type = "image" /\ vol[k] = Absent
       IN /\ todo' = [todo EXCEPT ![j] = @ \ {s}]
          /\ vol' = [vol EXCEPT ![k] = IF @ = Absent /\ ~skipped THEN Blank ELSE @]
          /\ \/ /\ snap' = IF skipped THEN snap ELSE [snap EXCEPT ![j].tar[s] = vol'[k]]
                /\ hit' = [hit EXCEPT ![j] = @ \/ ~skipped]
                /\ UNCHANGED pc
             \/ /\ ~skipped
                /\ snap' = [snap EXCEPT ![j].tar[s] = Blank]
                /\ Goto(j, "failed") /\ UNCHANGED hit
  /\ UNCHANGED <<stackVars, file, run, ver, local, upstream, gen, cmd, from, was,
                 historyVars>>

(* The loop of an image stack ends with `[[ $backed -eq 0 ]] && ...`: when *)
(* something was archived the function returns 1, and set -e ends the      *)
(* script there, as failed.                                                *)
Archives(j) ==
  /\ pc[j] = "archive" /\ todo[j] = {}
  /\ Goto(j, IF type = "image" /\ hit[j] THEN "failed"
             ELSE IF cmd[j] = "backup files" THEN "ok" ELSE "prune")
  /\ UNCHANGED <<stackVars, file, dockerVars, upstream, gen, snap, cmd, loopVars,
                 historyVars>>

Prune(j) ==
  /\ pc[j] = "prune"
  /\ snap' = [snap EXCEPT ![Earlier] = NoSnapshot]
  /\ Goto(j, "ok")
  /\ UNCHANGED <<stackVars, file, dockerVars, upstream, gen, cmd, loopVars, historyVars>>

-----------------------------------------------------------------------------
(* restore.sh.  A `stop` that fails is ignored.                            *)
Halt(j) ==
  /\ pc[j] = "halt"
  /\ \E S \in SUBSET (file \cap Running) : ComposeTo("stopped", S)
  /\ Goto(j, "database")
  /\ UNCHANGED <<stackVars, file, upstream, gen, snap, cmd, loopVars, historyVars>>

(* The database service is brought up alone, under its bare name, if there *)
(* is a dump to load.                                                      *)
Database(j) ==
  /\ pc[j] = "database"
  /\ \/ /\ ~dumps \/ snap[from[j]].dump = Absent
        /\ Goto(j, "extract")
        /\ todo' = [todo EXCEPT ![j] = {s \in Services : snap[from[j]].tar[s] # Absent}]
        /\ UNCHANGED <<run, ver, vol>>
     \/ /\ dumps /\ snap[from[j]].dump # Absent /\ Dumped \in file
        /\ run' = [run EXCEPT ![Dumped] = "running"]
        /\ ver' = [ver EXCEPT ![Dumped] = local]
        /\ vol' = [vol EXCEPT ![Dumped] = IF @ = Absent THEN Blank ELSE @]
        /\ Goto(j, "drop") /\ UNCHANGED todo
     \/ /\ dumps /\ snap[from[j]].dump # Absent
        /\ Goto(j, "failed") /\ UNCHANGED <<run, ver, vol, todo>>
  /\ UNCHANGED <<stackVars, file, local, upstream, gen, snap, cmd, from, was, hit,
                 historyVars>>

(* DROP SCHEMA, whose failure is ignored.                                  *)
Drop(j) ==
  /\ pc[j] = "drop"
  /\ \/ CanExec(Dumped) /\ vol' = [vol EXCEPT ![Dumped] = Blank]
     \/ UNCHANGED vol
  /\ Goto(j, "load")
  /\ UNCHANGED <<stackVars, file, run, ver, local, upstream, gen, snap, cmd, loopVars,
                 historyVars>>

(* psql goes on after an error in the SQL: over a schema that was not      *)
(* dropped it may change nothing and still succeed.                        *)
Load(j) ==
  /\ pc[j] = "load"
  /\ \/ /\ CanExec(Dumped) /\ snap[from[j]].made
        /\ LET dump == snap[from[j]].dump
           IN \/ /\ vol[Dumped] = Blank \/ dump # Blank
                 /\ vol' = [vol EXCEPT ![Dumped] = dump]
              \/ vol[Dumped] # Blank /\ UNCHANGED vol
        /\ Goto(j, "extract")
     \/ UNCHANGED vol /\ Goto(j, "failed")
  /\ todo' = [todo EXCEPT ![j] = {s \in Services : snap[from[j]].tar[s] # Absent}]
  /\ UNCHANGED <<stackVars, file, run, ver, local, upstream, gen, snap, cmd, from, was,
                 hit, historyVars>>

\* Mutant: the archive goes to the volume under Compose's own name.
ExtractElsewhere(j) ==
  /\ pc[j] = "extract"
  /\ \E s \in todo[j] :
       /\ todo' = [todo EXCEPT ![j] = @ \ {s}]
       /\ vol' = [vol EXCEPT ![<<"prefixed", s>>] = snap[from[j]].tar[s]]
       /\ hit' = [hit EXCEPT ![j] = TRUE]
  /\ UNCHANGED <<stackVars, file, run, ver, local, upstream, gen, snap, pc, cmd, from,
                 was, historyVars>>

(* One archive: if the script's name for its volume exists, the volume is  *)
(* emptied and the archive extracted into it.                              *)
Extract(j) ==
  /\ pc[j] = "extract"
  /\ \E s \in todo[j] :
       LET k == <<"bare", s>>
           skipped == ~snap[from[j]].made \/ vol[k] = Absent
       IN /\ todo' = [todo EXCEPT ![j] = @ \ {s}]
          /\ \/ /\ vol' = IF skipped THEN vol
                          ELSE [vol EXCEPT ![k] = snap[from[j]].tar[s]]
                /\ hit' = [hit EXCEPT ![j] = @ \/ ~skipped]
                /\ UNCHANGED pc
             \/ /\ ~skipped
                /\ vol' = [vol EXCEPT ![k] = Blank]
                /\ Goto(j, "failed") /\ UNCHANGED hit
  /\ UNCHANGED <<stackVars, file, run, ver, local, upstream, gen, snap, cmd, from, was,
                 historyVars>>

(* The loop ends with `[[ $restored -eq 0 ]] && ...`: when something was   *)
(* restored the function returns 1, set -e ends the script, and the stack  *)
(* stays stopped.                                                          *)
Extracted(j) ==
  /\ pc[j] = "extract" /\ todo[j] = {}
  /\ Goto(j, IF hit[j] THEN "failed" ELSE "start")
  /\ UNCHANGED <<stackVars, file, dockerVars, upstream, gen, snap, cmd, loopVars,
                 historyVars>>

Start(j) ==
  /\ pc[j] = "start"
  /\ \/ ComposeUp(FALSE) /\ Goto(j, "ok")
     \/ ComposeUpFails /\ Goto(j, "failed")
  /\ UNCHANGED <<stackVars, file, upstream, gen, snap, cmd, loopVars, historyVars>>

-----------------------------------------------------------------------------
(* The world outside: a running container writes to its volume; a new      *)
(* release of the images is published.                                     *)
Write(k) ==
  /\ run[k] = "running" /\ gen < MaxGen
  /\ gen' = gen + 1
  /\ vol' = [vol EXCEPT ![k] = gen + 1]
  /\ UNCHANGED <<stackVars, file, run, ver, local, upstream, snap, pc, cmd, loopVars,
                 historyVars>>

Release ==
  /\ upstream < MaxRelease
  /\ upstream' = upstream + 1
  /\ UNCHANGED <<stackVars, file, dockerVars, gen, snap, pc, cmd, loopVars, historyVars>>

Deploy(j)  == \/ Up(j) \/ Stop(j) \/ Down(j) \/ Ps(j) \/ Generate(j) \/ WriteFile(j)
              \/ Check(j) \/ Pull(j)
Backup(j)  == Dump(j) \/ Archive(j) \/ Archives(j) \/ Prune(j)
Restore(j) == \/ Halt(j) \/ Database(j) \/ Drop(j) \/ Load(j) \/ Extract(j)
              \/ Extracted(j) \/ Start(j)
Step(j)    == Deploy(j) \/ Backup(j) \/ Restore(j)

Next ==
  \/ \E j \in Jobs : Step(j) \/ \E c \in Asked : Begin(j, c)
  \/ \E k \in Keys : Write(k)
  \/ Release

Spec == Init /\ [][Next]_vars

-----------------------------------------------------------------------------
(* Properties                                                              *)

Finishes(j, c) == cmd[j] = c /\ UnderWay(j) /\ pc'[j] = "ok"

(* Data in a volume goes backwards only through the data steps of a        *)
(* restore, never through down, a failed start, a refresh, an update or a  *)
(* backup, whatever overlaps; and then to what that restore's own snapshot *)
(* has for that service, or to nothing on the way there.                   *)
OnlyRestoreLosesData ==
  [][\A k \in Keys :
       vol'[k] < vol[k] =>
         \E j \in Jobs :
           /\ cmd[j] = "restore" /\ pc[j] \in {"drop", "load", "extract"}
           /\ vol'[k] \in {Blank, snap[from[j]].dump, snap[from[j]].tar[k[2]]}]_vars

(* An update that no other command overlaps and that succeeds leaves a     *)
(* stopped stack stopped and takes nothing down that the file defines and  *)
(* that was running when it began (deploy.sh:52-53).                       *)
LoneUpdateKeepsRunState ==
  [][\A j \in Jobs :
       Finishes(j, "update") /\ lone[j] =>
         /\ before[j].running = {} => Running' = {}
         /\ before[j].running \cap file \subseteq Running']_vars

(* A backup that no other command overlaps and that succeeds holds the     *)
(* database, and for a custom stack the volume backup.sh calls the uploads, *)
(* as they were at some moment of the run: never the empty dump a failed   *)
(* `compose exec` leaves behind, and an empty archive only of a volume that *)
(* was empty or not there.  Whether the volume of that name is the one the *)
(* stack uses is another question: SnapshotsCoverVolumes, below.           *)
LoneBackupIsCurrent ==
  [][\A j \in Jobs :
       lone[j] =>
         /\ (Finishes(j, "backup") \/ Finishes(j, "backup db")) /\ dumps =>
              snap'[j].dump \in before[j].rows .. vol[Dumped] \ {Absent}
         /\ (Finishes(j, "backup") \/ Finishes(j, "backup files")) /\ type = "custom" =>
              snap'[j].tar[App] \in before[j].uploads .. vol[Uploads] \ {Absent}]_vars

(* When a restore that no other command overlaps has gone through its      *)
(* archives, every volume it has an archive for, that exists under the     *)
(* script's name for it and that no container is writing to holds what was *)
(* archived.                                                               *)
RestoredVolumesMatch ==
  [][\A j \in Jobs, s \in Services :
       LET k == <<"bare", s>> IN
         /\ pc[j] = "extract" /\ todo[j] = {} /\ pc'[j] # pc[j] /\ lone[j]
         /\ snap[from[j]].tar[s] # Absent
         /\ vol[k] # Absent /\ run[k] # "running"
         => vol[k] = snap[from[j]].tar[s]]_vars

-----------------------------------------------------------------------------
(* What the documentation says and the scripts do not do.                  *)

(* README.md:574 "./run.sh backup <env>          # database + all volumes", *)
(* README.md:600 "3. **Restore volumes** - extracts each `.tar.gz` archive *)
(* back into its Docker named volume", SlideOutPanel.jsx:247 "overwrite    *)
(* all database and volume data with the snapshot": once a restore nobody  *)
(* overlaps has gone through the archives of a backup that succeeded, the  *)
(* volume of the application, unless a container writes to it, holds what  *)
(* was archived, and that is data if there was any.                        *)
SnapshotsCoverVolumes ==
  [][\A j \in Jobs, k \in file :
       /\ pc[j] = "extract" /\ todo[j] = {} /\ pc'[j] # pc[j] /\ lone[j]
       /\ from[j] \in Jobs
       /\ cmd[from[j]] = "backup" /\ pc[from[j]] = "ok" /\ lone[from[j]]
       /\ k[2] = App /\ run[k] # "running" /\ vol[k] > Blank
       => snap[from[j]].tar[App] > Blank /\ vol[k] = snap[from[j]].tar[App]]_vars

(* README.md:601 "4. **Start** - docker compose up -d": a restore whose    *)
(* data steps are through starts the stack.                                *)
RestoreStartsTheStack ==
  [][\A j \in Jobs :
       pc[j] = "extract" /\ todo[j] = {} /\ pc'[j] # pc[j] => pc'[j] = "start"]_vars

(* deploy.sh:53 "A stopped stack should remain stopped after update": the  *)
(* up that ends an update finds the stack running.                         *)
StoppedStaysStopped ==
  [][\A j \in Jobs : pc[j] = "up" /\ Finishes(j, "update") => Running # {}]_vars

(* handlers.go:532 "Auto-regenerate docker-compose.yml for every           *)
(* environment in this workspace": once regenCompose is through, the file  *)
(* defines the generated services.                                         *)
SaveConfigRegenerates ==
  [][\A j \in Jobs : Finishes(j, "save config") => file' = Generated]_vars
=============================================================================
