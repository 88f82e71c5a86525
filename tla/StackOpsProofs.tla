--------------------------- MODULE StackOpsProofs ---------------------------
(***************************************************************************)
(* Proofs about StackOps: its type invariant, and that only the data steps *)
(* of a restore take a volume back to older data, for any number of        *)
(* commands overlapping in any way.                                        *)
(*                                                                         *)
(* OnlyRestoreLosesData is not a fact about single steps: that Write moves *)
(* forward needs every volume to hold a generation no later than gen, and  *)
(* since a restore brings back what a snapshot holds, every snapshot too   *)
(* (GenInv); that the steps of a restore belong to a restore is RestoreInv.*)
(*                                                                         *)
(* The second half is about a command that no other overlaps: an update    *)
(* keeps what runs, a backup holds what it says, a restore puts back what  *)
(* was archived. What such a command finds at its end it must have kept    *)
(* from its first step on, so the invariant (LoneInv) says where each of   *)
(* the three stands at each of its steps (LoneUpdate, LoneBackup,          *)
(* LoneRestore), that nobody else is under way then (Alone), and what the  *)
(* directories and the volumes hold at any time (MadeFirst, Sources,       *)
(* InUse), which is needed of commands that do overlap, too.               *)
(***************************************************************************)
EXTENDS StackOps, TLAPS

(* A job in the middle of restore.sh was asked for a restore.              *)
RestoreInv ==
  \A j \in Jobs :
    pc[j] \in {"halt", "database", "drop", "load", "extract"} => cmd[j] = "restore"

(* No volume and no snapshot holds data later than the last written.       *)
GenInv ==
  /\ \A k \in Keys : vol[k] <= gen
  /\ \A i \in Snapshots : /\ snap[i].dump <= gen
                          /\ \A s \in Services : snap[i].tar[s] <= gen

IInv == TypeOK /\ RestoreInv /\ GenInv

USE StackAssumption

-----------------------------------------------------------------------------
(* Writing one field of one snapshot keeps the snapshots well typed.       *)
LEMMA SnapshotRows ==
  ASSUME NEW f \in [Snapshots -> Directories], NEW i \in Snapshots, NEW v \in Content,
         NEW s \in Services
  PROVE  /\ [f EXCEPT ![i].made = TRUE] \in [Snapshots -> Directories]
         /\ [f EXCEPT ![i].dump = v] \in [Snapshots -> Directories]
         /\ [f EXCEPT ![i].tar[s] = v] \in [Snapshots -> Directories]
  <1>1. f[i] \in Directories
    OBVIOUS
  <1>2. [f[i] EXCEPT !.made = TRUE] \in Directories
    BY <1>1 DEF Directories
  <1>3. [f[i] EXCEPT !.dump = v] \in Directories
    BY <1>1 DEF Directories
  <1>4. [f[i] EXCEPT !.tar[s] = v] \in Directories
    BY <1>1 DEF Directories
  <1>. QED BY <1>2, <1>3, <1>4

(* ... and leaves every other field as it was.                             *)
LEMMA SnapshotValues ==
  ASSUME NEW f \in [Snapshots -> Directories], NEW i \in Snapshots, NEW v \in Content,
         NEW s \in Services
  PROVE  /\ \A o \in Snapshots :
              /\ [f EXCEPT ![i].made = TRUE][o].dump = f[o].dump
              /\ [f EXCEPT ![i].made = TRUE][o].tar = f[o].tar
         /\ \A o \in Snapshots :
              /\ [f EXCEPT ![i].dump = v][o].dump = (IF o = i THEN v ELSE f[o].dump)
              /\ [f EXCEPT ![i].dump = v][o].tar = f[o].tar
         /\ \A o \in Snapshots, t \in Services :
              /\ [f EXCEPT ![i].tar[s] = v][o].dump = f[o].dump
              /\ [f EXCEPT ![i].tar[s] = v][o].tar[t]
                   = (IF o = i /\ t = s THEN v ELSE f[o].tar[t])
  BY DEF Directories

(* What a well-typed state says of its volumes and snapshots.              *)
LEMMA ContentFacts ==
  ASSUME TypeOK
  PROVE  /\ \A k \in Keys : vol[k] \in Content
         /\ \A i \in Snapshots : /\ snap[i] \in Directories
                                 /\ snap[i].dump \in Content
                                 /\ \A s \in Services : snap[i].tar[s] \in Content
         /\ Absent \in Content /\ Blank \in Content
         /\ Dumped \in Keys /\ Uploads \in Keys
         /\ \A s \in Services : <<"bare", s>> \in Keys /\ <<"prefixed", s>> \in Keys
         /\ \A j \in Jobs : j \in Snapshots /\ from[j] \in Snapshots
         /\ Earlier \in Snapshots /\ NoSnapshot \in Directories
         /\ \A j \in Jobs : todo[j] \subseteq Services
  <1>1. Absent \in Content /\ Blank \in Content
    BY DEF Content, Absent, Blank
  <1>2. /\ Dumped \in Keys /\ Uploads \in Keys
        /\ \A s \in Services : <<"bare", s>> \in Keys /\ <<"prefixed", s>> \in Keys
    BY DEF Dumped, Uploads, Keys, Names, Services
  <1>3. Earlier \in Snapshots /\ \A j \in Jobs : j \in Snapshots /\ from[j] \in Snapshots
    BY DEF TypeOK, Snapshots
  <1>4. NoSnapshot \in Directories
    BY <1>1 DEF NoSnapshot, Directories
  <1>5. \A i \in Snapshots : snap[i] \in Directories
    BY DEF TypeOK
  <1>6. \A d \in Directories : d.dump \in Content /\ \A s \in Services : d.tar[s] \in Content
    BY DEF Directories
  <1>7. (\A k \in Keys : vol[k] \in Content) /\ \A j \in Jobs : todo[j] \subseteq Services
    BY DEF TypeOK
  <1>. QED BY <1>1, <1>2, <1>3, <1>4, <1>5, <1>6, <1>7

(* The initial states satisfy the invariant.                               *)
LEMMA InitInv == Init => IInv
  <1>. SUFFICES ASSUME Init PROVE IInv
    OBVIOUS
  <1>1. TypeOK
    <2>1. NoSnapshot \in Directories /\ snap \in [Snapshots -> Directories]
      BY DEF Init, Directories, NoSnapshot, Content, Absent, Blank
    <2>2. /\ run \in [Keys -> Runs] /\ ver \in [Keys -> 0 .. MaxRelease]
          /\ vol \in [Keys -> Content] /\ file \subseteq Keys
      BY DEF Init, Runs, Content, Absent, Keys
    <2>3. before \in [Jobs -> States]
      BY DEF Init, Idle, States, Content, Absent, Blank
    <2>4. pc \in [Jobs -> Locations]
      BY DEF Init, Locations
    <2>. QED BY <2>1, <2>2, <2>3, <2>4 DEF Init, TypeOK, Snapshots
  <1>2. RestoreInv
    BY DEF Init, RestoreInv
  <1>3. GenInv
    BY DEF Init, GenInv, Content, Absent, Blank, NoSnapshot
  <1>. QED BY <1>1, <1>2, <1>3 DEF IInv

-----------------------------------------------------------------------------
(* Every step keeps the types: one step per action, and under it one per   *)
(* variable the action changes.                                            *)
LEMMA TypeStep == TypeOK /\ [Next]_vars => TypeOK'
  <1>. SUFFICES ASSUME TypeOK, [Next]_vars PROVE TypeOK'
    OBVIOUS
  <1>1. ASSUME NEW j \in Jobs, Up(j) PROVE TypeOK'
    <2>1. UNCHANGED <<type, dumps, file, local, upstream, gen, snap, cmd, from, was, todo, hit, lone, before>>
      BY <1>1 DEF Up, ComposeUp, ComposeUpFails, stackVars, dockerVars, loopVars, historyVars
    <2>2. run' \in [Keys -> Runs]
      BY <1>1, ContentFacts DEF Up, ComposeUp, ComposeUpFails, TypeOK, Runs
    <2>3. ver' \in [Keys -> 0 .. MaxRelease]
      BY <1>1, ContentFacts DEF Up, ComposeUp, ComposeUpFails, TypeOK
    <2>4. vol' \in [Keys -> Content]
      BY <1>1, ContentFacts DEF Up, ComposeUp, ComposeUpFails, TypeOK, Content, Absent, Blank
    <2>5. pc' \in [Jobs -> Locations]
      BY <1>1 DEF Up, Goto, TypeOK, Locations
    <2>. QED BY <2>1, <2>2, <2>3, <2>4, <2>5 DEF TypeOK
  <1>2. ASSUME NEW j \in Jobs, Stop(j) PROVE TypeOK'
    <2>1. UNCHANGED <<type, dumps, file, ver, local, upstream, vol, gen, snap, cmd, from, was, todo, hit, lone, before>>
      BY <1>2 DEF Stop, ComposeTo, stackVars, dockerVars, loopVars, historyVars
    <2>2. run' \in [Keys -> Runs]
      BY <1>2, ContentFacts DEF Stop, ComposeTo, TypeOK, Runs
    <2>3. pc' \in [Jobs -> Locations]
      BY <1>2 DEF Stop, Goto, TypeOK, Locations
    <2>. QED BY <2>1, <2>2, <2>3 DEF TypeOK
  <1>3. ASSUME NEW j \in Jobs, Down(j) PROVE TypeOK'
    <2>1. UNCHANGED <<type, dumps, file, ver, local, upstream, vol, gen, snap, cmd, from, was, todo, hit, lone, before>>
      BY <1>3 DEF Down, ComposeTo, stackVars, dockerVars, loopVars, historyVars
    <2>2. run' \in [Keys -> Runs]
      BY <1>3, ContentFacts DEF Down, ComposeTo, TypeOK, Runs
    <2>3. pc' \in [Jobs -> Locations]
      BY <1>3 DEF Down, Goto, TypeOK, Locations
    <2>. QED BY <2>1, <2>2, <2>3 DEF TypeOK
  <1>4. ASSUME NEW j \in Jobs, Ps(j) PROVE TypeOK'
    <2>1. UNCHANGED <<type, dumps, file, run, ver, upstream, vol, gen, snap, cmd, from, was, todo, hit, lone, before>>
      BY <1>4 DEF Ps, stackVars, dockerVars, loopVars, historyVars
    <2>2. local' \in 1 .. MaxRelease
      BY <1>4 DEF Ps, TypeOK
    <2>3. pc' \in [Jobs -> Locations]
      BY <1>4 DEF Ps, Goto, TypeOK, Locations
    <2>. QED BY <2>1, <2>2, <2>3 DEF TypeOK
  <1>5. ASSUME NEW j \in Jobs, Generate(j) PROVE TypeOK'
    <2>1. UNCHANGED <<type, dumps, run, ver, local, upstream, vol, gen, snap, cmd, from, was, hit, lone, before>>
      BY <1>5 DEF Generate, stackVars, dockerVars, loopVars, historyVars
    <2>2. file' \subseteq Keys
      <3>1. file \subseteq Keys /\ todo[j] \subseteq Services
        BY DEF TypeOK
      <3>2. ASSUME NEW s \in Services PROVE file \cup {<<"prefixed", s>>} \subseteq Keys
        BY <3>1 DEF Keys, Names
      <3>3. file' \in {file, {}} \/ \E s \in todo[j] : file' = file \cup {<<"prefixed", s>>}
        BY <1>5 DEF Generate
      <3>. QED BY <3>1, <3>2, <3>3
    <2>3. todo' \in [Jobs -> SUBSET Services]
      <3>1. \A i \in Jobs, s \in Services :
              [todo EXCEPT ![i] = todo[i] \ {s}] \in [Jobs -> SUBSET Services]
        BY DEF TypeOK
      <3>2. todo \in [Jobs -> SUBSET Services] /\ todo[j] \subseteq Services
        BY DEF TypeOK
      <3>. QED BY <1>5, <3>1, <3>2 DEF Generate
    <2>4. pc' \in [Jobs -> Locations]
      BY <1>5 DEF Generate, Goto, TypeOK, Locations
    <2>. QED BY <2>1, <2>2, <2>3, <2>4 DEF TypeOK
  <1>6. ASSUME NEW j \in Jobs, WriteFile(j) PROVE TypeOK'
    <2>1. UNCHANGED <<type, dumps, run, ver, local, upstream, vol, gen, snap, cmd, from, was, todo, hit, lone, before>>
      BY <1>6 DEF WriteFile, stackVars, dockerVars, loopVars, historyVars
    <2>2. file' \subseteq Keys
      BY <1>6 DEF WriteFile, TypeOK, Keys, Names
    <2>3. pc' \in [Jobs -> Locations]
      BY <1>6 DEF WriteFile, Goto, TypeOK, Locations
    <2>. QED BY <2>1, <2>2, <2>3 DEF TypeOK
  <1>7. ASSUME NEW j \in Jobs, Check(j) PROVE TypeOK'
    <2>1. UNCHANGED <<type, dumps, file, run, ver, local, upstream, vol, gen, snap, cmd, from, todo, hit, lone, before>>
      BY <1>7 DEF Check, stackVars, dockerVars, loopVars, historyVars
    <2>2. was' \in [Jobs -> BOOLEAN]
      BY <1>7 DEF Check, TypeOK
    <2>3. pc' \in [Jobs -> Locations]
      BY <1>7 DEF Check, Goto, TypeOK, Locations
    <2>. QED BY <2>1, <2>2, <2>3 DEF TypeOK
  <1>8. ASSUME NEW j \in Jobs, Pull(j) PROVE TypeOK'
    <2>1. UNCHANGED <<type, dumps, file, run, ver, upstream, vol, gen, snap, cmd, from, was, todo, hit, lone, before>>
      BY <1>8 DEF Pull, stackVars, dockerVars, loopVars, historyVars
    <2>2. local' \in 1 .. MaxRelease
      BY <1>8 DEF Pull, TypeOK
    <2>3. pc' \in [Jobs -> Locations]
      BY <1>8 DEF Pull, Goto, TypeOK, Locations
    <2>. QED BY <2>1, <2>2, <2>3 DEF TypeOK
  <1>9. ASSUME NEW j \in Jobs, Dump(j) PROVE TypeOK'
    <2>1. UNCHANGED <<type, dumps, file, run, ver, local, upstream, vol, gen, cmd, from, was, todo, hit, lone, before>>
      BY <1>9 DEF Dump, stackVars, dockerVars, loopVars, historyVars
    <2>2. snap' \in [Snapshots -> Directories]
      <3>1. snap \in [Snapshots -> Directories] /\ App \in Services
        BY DEF TypeOK, Services
      <3>2. \A v \in Content : [snap EXCEPT ![j].dump = v] \in [Snapshots -> Directories]
        BY <3>1, ContentFacts, SnapshotRows
      <3>3. snap' \in {snap, [snap EXCEPT ![j].dump = vol[Dumped]],
                        [snap EXCEPT ![j].dump = Blank]}
        BY <1>9 DEF Dump
      <3>4. vol[Dumped] \in Content /\ Blank \in Content
        BY ContentFacts
      <3>. QED BY <3>1, <3>2, <3>3, <3>4
    <2>3. pc' \in [Jobs -> Locations]
      BY <1>9 DEF Dump, Goto, TypeOK, Locations
    <2>. QED BY <2>1, <2>2, <2>3 DEF TypeOK
  <1>10. ASSUME NEW j \in Jobs, Archive(j) PROVE TypeOK'
    <2>1. UNCHANGED <<type, dumps, file, run, ver, local, upstream, gen, cmd, from, was, lone, before>>
      BY <1>10 DEF Archive, stackVars, dockerVars, loopVars, historyVars
    <2>2. todo' \in [Jobs -> SUBSET Services]
      BY <1>10, ContentFacts DEF Archive, TypeOK, Services
    <2>3. vol' \in [Keys -> Content]
      BY <1>10, ContentFacts DEF Archive, TypeOK, Content, Absent, Blank
    <2>4. snap' \in [Snapshots -> Directories]
      <3>1. \A s \in Services, v \in Content :
              [snap EXCEPT ![j].tar[s] = v] \in [Snapshots -> Directories]
        BY ContentFacts, SnapshotRows DEF TypeOK
      <3>2. \A s \in Services : vol'[<<"bare", s>>] \in Content
        BY <2>3, ContentFacts
      <3>3. PICK s \in todo[j] :
              snap' \in {snap, [snap EXCEPT ![j].tar[s] = vol'[<<"bare", s>>]],
                         [snap EXCEPT ![j].tar[s] = Blank]}
        BY <1>10, Zenon DEF Archive
      <3>4. s \in Services /\ Blank \in Content /\ snap \in [Snapshots -> Directories]
        BY ContentFacts DEF TypeOK
      <3>. QED BY <3>1, <3>2, <3>3, <3>4
    <2>5. hit' \in [Jobs -> BOOLEAN]
      BY <1>10 DEF Archive, TypeOK
    <2>6. pc' \in [Jobs -> Locations]
      BY <1>10 DEF Archive, Goto, TypeOK, Locations
    <2>. QED BY <2>1, <2>2, <2>3, <2>4, <2>5, <2>6 DEF TypeOK
  <1>11. ASSUME NEW j \in Jobs, Archives(j) PROVE TypeOK'
    <2>1. UNCHANGED <<type, dumps, file, run, ver, local, upstream, vol, gen, snap, cmd, from, was, todo, hit, lone, before>>
      BY <1>11 DEF Archives, stackVars, dockerVars, loopVars, historyVars
    <2>2. pc' \in [Jobs -> Locations]
      BY <1>11 DEF Archives, Goto, TypeOK, Locations
    <2>. QED BY <2>1, <2>2 DEF TypeOK
  <1>12. ASSUME NEW j \in Jobs, Prune(j) PROVE TypeOK'
    <2>1. UNCHANGED <<type, dumps, file, run, ver, local, upstream, vol, gen, cmd, from, was, todo, hit, lone, before>>
      BY <1>12 DEF Prune, stackVars, dockerVars, loopVars, historyVars
    <2>2. snap' \in [Snapshots -> Directories]
      BY <1>12, ContentFacts, SnapshotRows DEF Prune, TypeOK, Content, Absent, Blank
    <2>3. pc' \in [Jobs -> Locations]
      BY <1>12 DEF Prune, Goto, TypeOK, Locations
    <2>. QED BY <2>1, <2>2, <2>3 DEF TypeOK
  <1>13. ASSUME NEW j \in Jobs, Halt(j) PROVE TypeOK'
    <2>1. UNCHANGED <<type, dumps, file, ver, local, upstream, vol, gen, snap, cmd, from, was, todo, hit, lone, before>>
      BY <1>13 DEF Halt, ComposeTo, stackVars, dockerVars, loopVars, historyVars
    <2>2. run' \in [Keys -> Runs]
      BY <1>13, ContentFacts DEF Halt, ComposeTo, TypeOK, Runs
    <2>3. pc' \in [Jobs -> Locations]
      BY <1>13 DEF Halt, Goto, TypeOK, Locations
    <2>. QED BY <2>1, <2>2, <2>3 DEF TypeOK
  <1>14. ASSUME NEW j \in Jobs, Database(j) PROVE TypeOK'
    <2>1. UNCHANGED <<type, dumps, file, local, upstream, gen, snap, cmd, from, was, hit, lone, before>>
      BY <1>14 DEF Database, stackVars, dockerVars, loopVars, historyVars
    <2>2. run' \in [Keys -> Runs]
      BY <1>14, ContentFacts DEF Database, TypeOK, Runs
    <2>3. ver' \in [Keys -> 0 .. MaxRelease]
      BY <1>14, ContentFacts DEF Database, TypeOK
    <2>4. vol' \in [Keys -> Content]
      BY <1>14, ContentFacts DEF Database, TypeOK, Content, Absent, Blank
    <2>5. todo' \in [Jobs -> SUBSET Services]
      BY <1>14, ContentFacts DEF Database, TypeOK, Services
    <2>6. pc' \in [Jobs -> Locations]
      BY <1>14 DEF Database, Goto, TypeOK, Locations
    <2>. QED BY <2>1, <2>2, <2>3, <2>4, <2>5, <2>6 DEF TypeOK
  <1>15. ASSUME NEW j \in Jobs, Drop(j) PROVE TypeOK'
    <2>1. UNCHANGED <<type, dumps, file, run, ver, local, upstream, gen, snap, cmd, from, was, todo, hit, lone, before>>
      BY <1>15 DEF Drop, stackVars, dockerVars, loopVars, historyVars
    <2>2. vol' \in [Keys -> Content]
      BY <1>15, ContentFacts DEF Drop, TypeOK, Content, Absent, Blank
    <2>3. pc' \in [Jobs -> Locations]
      BY <1>15 DEF Drop, Goto, TypeOK, Locations
    <2>. QED BY <2>1, <2>2, <2>3 DEF TypeOK
  <1>16. ASSUME NEW j \in Jobs, Load(j) PROVE TypeOK'
    <2>1. UNCHANGED <<type, dumps, file, run, ver, local, upstream, gen, snap, cmd, from, was, hit, lone, before>>
      BY <1>16 DEF Load, stackVars, dockerVars, loopVars, historyVars
    <2>2. vol' \in [Keys -> Content]
      BY <1>16, ContentFacts DEF Load, TypeOK, Content, Absent, Blank
    <2>3. todo' \in [Jobs -> SUBSET Services]
      BY <1>16, ContentFacts DEF Load, TypeOK, Services
    <2>4. pc' \in [Jobs -> Locations]
      BY <1>16 DEF Load, Goto, TypeOK, Locations
    <2>. QED BY <2>1, <2>2, <2>3, <2>4 DEF TypeOK
  <1>17. ASSUME NEW j \in Jobs, Extract(j) PROVE TypeOK'
    <2>1. UNCHANGED <<type, dumps, file, run, ver, local, upstream, gen, snap, cmd, from, was, lone, before>>
      BY <1>17 DEF Extract, stackVars, dockerVars, loopVars, historyVars
    <2>2. vol' \in [Keys -> Content]
      <3>1. \A k \in Keys, v \in Content : [vol EXCEPT ![k] = v] \in [Keys -> Content]
        BY DEF TypeOK
      <3>2. \A s \in Services : snap[from[j]].tar[s] \in Content
        BY ContentFacts
      <3>3. PICK s \in todo[j] :
              vol' \in {vol, [vol EXCEPT ![<<"bare", s>>] = snap[from[j]].tar[s]],
                       [vol EXCEPT ![<<"bare", s>>] = Blank]}
        BY <1>17 DEF Extract
      <3>4. /\ s \in Services /\ <<"bare", s>> \in Keys /\ Blank \in Content
            /\ vol \in [Keys -> Content]
        BY ContentFacts DEF TypeOK
      <3>. QED BY <3>1, <3>2, <3>3, <3>4
    <2>3. todo' \in [Jobs -> SUBSET Services]
      BY <1>17, ContentFacts DEF Extract, TypeOK, Services
    <2>4. hit' \in [Jobs -> BOOLEAN]
      BY <1>17 DEF Extract, TypeOK
    <2>5. pc' \in [Jobs -> Locations]
      BY <1>17 DEF Extract, Goto, TypeOK, Locations
    <2>. QED BY <2>1, <2>2, <2>3, <2>4, <2>5 DEF TypeOK
  <1>18. ASSUME NEW j \in Jobs, Extracted(j) PROVE TypeOK'
    <2>1. UNCHANGED <<type, dumps, file, run, ver, local, upstream, vol, gen, snap, cmd, from, was, todo, hit, lone, before>>
      BY <1>18 DEF Extracted, stackVars, dockerVars, loopVars, historyVars
    <2>2. pc' \in [Jobs -> Locations]
      BY <1>18 DEF Extracted, Goto, TypeOK, Locations
    <2>. QED BY <2>1, <2>2 DEF TypeOK
  <1>19. ASSUME NEW j \in Jobs, Start(j) PROVE TypeOK'
    <2>1. UNCHANGED <<type, dumps, file, local, upstream, gen, snap, cmd, from, was, todo, hit, lone, before>>
      BY <1>19
         DEF Start, ComposeUp, ComposeUpFails, stackVars, dockerVars, loopVars, historyVars
    <2>2. run' \in [Keys -> Runs]
      BY <1>19, ContentFacts DEF Start, ComposeUp, ComposeUpFails, TypeOK, Runs
    <2>3. ver' \in [Keys -> 0 .. MaxRelease]
      BY <1>19, ContentFacts DEF Start, ComposeUp, ComposeUpFails, TypeOK
    <2>4. vol' \in [Keys -> Content]
      BY <1>19, ContentFacts
         DEF Start, ComposeUp, ComposeUpFails, TypeOK, Content, Absent, Blank
    <2>5. pc' \in [Jobs -> Locations]
      BY <1>19 DEF Start, Goto, TypeOK, Locations
    <2>. QED BY <2>1, <2>2, <2>3, <2>4, <2>5 DEF TypeOK
  <1>20. ASSUME NEW j \in Jobs, NEW c \in Asked, Begin(j, c) PROVE TypeOK'
    <2>1. UNCHANGED <<type, dumps, run, ver, local, upstream, vol, gen, was, hit>>
      BY <1>20 DEF Begin, stackVars, dockerVars
    <2>2. Entry(c) \in Locations
      BY DEF Entry, Locations, Commands, Regenerate
    <2>3. pc' \in [Jobs -> Locations]
      BY <1>20, <2>2 DEF Begin, Goto, TypeOK, Locations
    <2>4. cmd' \in [Jobs -> Asked \cup {"none"}] /\ from' \in [Jobs -> Snapshots]
      BY <1>20 DEF Begin, TypeOK, Snapshots
    <2>5. snap' \in [Snapshots -> Directories]
      <3>1. App \in Services /\ snap \in [Snapshots -> Directories]
        BY DEF TypeOK, Services
      <3>2. [snap EXCEPT ![j].made = TRUE] \in [Snapshots -> Directories]
        BY <3>1, ContentFacts, SnapshotRows
      <3>. QED BY <1>20, <3>1, <3>2 DEF Begin
    <2>6. file' \subseteq Keys /\ todo' \in [Jobs -> SUBSET Services]
      BY <1>20 DEF Begin, TypeOK, Archived, Services
    <2>7. lone' \in [Jobs -> BOOLEAN]
      <3>1. \A i \in Jobs : lone[i] \in BOOLEAN
        BY DEF TypeOK
      <3>. QED BY <1>20, <3>1 DEF Begin, UnderWay
    <2>8. before' \in [Jobs -> States]
      <3>1. [running |-> Running, rows |-> vol[Dumped], uploads |-> vol[Uploads]] \in States
        BY ContentFacts DEF States, Running
      <3>. QED BY <1>20, <3>1 DEF Begin, TypeOK
    <2>. QED BY <2>1, <2>3, <2>4, <2>5, <2>6, <2>7, <2>8 DEF TypeOK
  <1>21. ASSUME NEW k \in Keys, Write(k) PROVE TypeOK'
    <2>1. gen' \in 1 .. MaxGen /\ vol' \in [Keys -> Content]
      BY <1>21 DEF Write, TypeOK, Content, Absent
    <2>. QED BY <1>21, <2>1 DEF Write, TypeOK, stackVars, loopVars, historyVars
  <1>22. CASE Release
    <2>1. upstream' \in 1 .. MaxRelease
      BY <1>22 DEF Release, TypeOK
    <2>. QED BY <1>22, <2>1 DEF Release, TypeOK, stackVars, dockerVars, loopVars, historyVars
  <1>23. CASE UNCHANGED vars
    BY <1>23 DEF vars, TypeOK, stackVars, dockerVars, loopVars, historyVars
  <1>. QED
    BY <1>1, <1>2, <1>3, <1>4, <1>5, <1>6, <1>7, <1>8, <1>9, <1>10, <1>11, <1>12, <1>13,
       <1>14, <1>15, <1>16, <1>17, <1>18, <1>19, <1>20, <1>21, <1>22, <1>23
    DEF Next, Step, Deploy, Backup, Restore

-----------------------------------------------------------------------------
(* A step takes a job into the middle of restore.sh only from the middle   *)
(* of it, or because the job begins with `restore`.                        *)
LEMMA RestoreStep == TypeOK /\ RestoreInv /\ [Next]_vars => RestoreInv'
  <1>. SUFFICES ASSUME TypeOK, RestoreInv, [Next]_vars PROVE RestoreInv'
    OBVIOUS
  <1>. DEFINE Data == {"halt", "database", "drop", "load", "extract"}
  <1>1. /\ pc \in [Jobs -> Locations] /\ cmd \in [Jobs -> Asked \cup {"none"}]
        /\ \A i \in Jobs : pc[i] \in Data => cmd[i] = "restore"
    BY DEF TypeOK, RestoreInv
  <1>2. ASSUME NEW j \in Jobs, Deploy(j) \/ Backup(j) PROVE RestoreInv'
    <2>1. cmd' = cmd
      BY <1>2 DEF Deploy, Backup, Up, Stop, Down, Ps, Generate, WriteFile, Check, Pull,
         Dump, Archive, Archives, Prune
    <2>2. \/ pc' = pc
          \/ \E l \in Locations \ Data : pc' = [pc EXCEPT ![j] = l]
      BY <1>2 DEF Deploy, Backup, Up, Stop, Down, Ps, Generate, WriteFile, Check, Pull,
         Dump, Archive, Archives, Prune, Goto, Locations
    <2>. QED BY <1>1, <2>1, <2>2 DEF RestoreInv
  <1>3. ASSUME NEW j \in Jobs, Restore(j) PROVE RestoreInv'
    <2>1. cmd' = cmd
      BY <1>3 DEF Restore, Halt, Database, Drop, Load, Extract, Extracted, Start
    <2>2. pc[j] \in Data \/ \E l \in Locations \ Data : pc' = [pc EXCEPT ![j] = l]
      BY <1>3 DEF Restore, Halt, Database, Drop, Load, Extract, Extracted, Start, Goto,
         Locations
    <2>3. pc' = pc \/ \E l \in Locations : pc' = [pc EXCEPT ![j] = l]
      BY <1>3 DEF Restore, Halt, Database, Drop, Load, Extract, Extracted, Start, Goto,
         Locations
    <2>. QED BY <1>1, <2>1, <2>2, <2>3 DEF RestoreInv
  <1>4. ASSUME NEW j \in Jobs, NEW c \in Asked, Begin(j, c) PROVE RestoreInv'
    <2>1. Entry(c) \in Data => c = "restore"
      BY DEF Entry, Commands, Regenerate
    <2>2. PICK l \in {"failed", Entry(c)} : pc' = [pc EXCEPT ![j] = l]
      BY <1>4 DEF Begin, Goto
    <2>3. cmd' = [cmd EXCEPT ![j] = c]
      BY <1>4 DEF Begin
    <2>. QED BY <1>1, <2>1, <2>2, <2>3 DEF RestoreInv
  <1>5. ASSUME UNCHANGED <<pc, cmd>> PROVE RestoreInv'
    BY <1>5 DEF RestoreInv
  <1>6. CASE \E k \in Keys : Write(k)
    BY <1>5, <1>6 DEF Write
  <1>7. CASE Release
    BY <1>5, <1>7 DEF Release
  <1>8. CASE UNCHANGED vars
    BY <1>5, <1>8 DEF vars
  <1>. QED BY <1>2, <1>3, <1>4, <1>6, <1>7, <1>8 DEF Next, Step

(* How a step changes the volumes: made empty, written anew, or (a restore *)
(* job, on a volume of a bare name) emptied or filled from a snapshot.     *)
VolumeMoves ==
  \/ gen' = gen /\ \A k \in Keys : vol'[k] \in {vol[k], Blank} /\ vol'[k] >= vol[k]
  \/ /\ gen' = gen + 1
     /\ \A k \in Keys : vol'[k] \in {vol[k], gen + 1}
  \/ /\ gen' = gen
     /\ \E j \in Jobs, s \in Services :
          /\ pc[j] \in {"drop", "load", "extract"}
          /\ \A k \in Keys :
               vol'[k] \in IF k = <<"bare", s>>
                             THEN {vol[k], Blank, snap[from[j]].dump, snap[from[j]].tar[s]}
                             ELSE {vol[k]}

(* Every step is one of these.                                             *)
LEMMA VolumeStep == TypeOK /\ [Next]_vars => VolumeMoves
  <1>. SUFFICES ASSUME TypeOK, [Next]_vars PROVE VolumeMoves
    OBVIOUS
  <1>1. /\ vol \in [Keys -> Content] /\ gen \in 1 .. MaxGen
        /\ \A k \in Keys : vol[k] \in Content
    BY DEF TypeOK
  <1>2. ASSUME UNCHANGED <<vol, gen>> PROVE VolumeMoves
    BY <1>1, <1>2 DEF VolumeMoves, Content, Absent
  <1>3. ASSUME NEW S \in SUBSET Keys, gen' = gen,
               vol' = [k \in Keys |-> IF k \in S /\ vol[k] = Absent THEN Blank ELSE vol[k]]
        PROVE  VolumeMoves
    BY <1>1, <1>3 DEF VolumeMoves, Content, Absent, Blank
  <1>4. ASSUME NEW j \in Jobs, Up(j) \/ Start(j) PROVE VolumeMoves
    <2>1. file \in SUBSET Keys
      BY DEF TypeOK
    <2>2. gen' = gen
      BY <1>4 DEF Up, Start
    <2>3. \E S \in SUBSET Keys :
            vol' = [k \in Keys |-> IF k \in S /\ vol[k] = Absent THEN Blank ELSE vol[k]]
      <3>1. CASE \E o \in BOOLEAN : ComposeUp(o)
        BY <2>1, <3>1 DEF ComposeUp
      <3>2. CASE ComposeUpFails
        <4>1. PICK up \in SUBSET file, made \in SUBSET file :
                vol' = [k \in Keys |-> IF k \in up \cup made /\ vol[k] = Absent
                                        THEN Blank ELSE vol[k]]
          BY <3>2 DEF ComposeUpFails
        <4>2. up \cup made \in SUBSET Keys
          BY <2>1
        <4>. QED BY <4>1, <4>2
      <3>. QED BY <1>4, <3>1, <3>2 DEF Up, Start
    <2>. QED BY <1>3, <2>2, <2>3
  <1>5. ASSUME NEW j \in Jobs, Archive(j) PROVE VolumeMoves
    <2>1. gen' = gen
      BY <1>5 DEF Archive
    <2>2. PICK s \in todo[j] : vol' = vol \/ (vol[<<"bare", s>>] = Absent
                                             /\ vol' = [vol EXCEPT ![<<"bare", s>>] = Blank])
      <3>1. PICK s \in todo[j] :
              vol' = [vol EXCEPT ![<<"bare", s>>] =
                        IF vol[<<"bare", s>>] = Absent
                           /\ ~(type = "image" /\ vol[<<"bare", s>>] = Absent)
                        THEN Blank ELSE vol[<<"bare", s>>]]
        BY <1>5 DEF Archive
      <3>. QED BY <1>1, <3>1
    <2>3. <<"bare", s>> \in Keys
      BY ContentFacts
    <2>. QED BY <1>1, <2>1, <2>2, <2>3 DEF VolumeMoves, Content, Absent, Blank
  <1>6. ASSUME NEW j \in Jobs, Database(j) PROVE VolumeMoves
    <2>1. gen' = gen /\ Dumped \in Keys
      BY <1>6, ContentFacts DEF Database
    <2>2. vol' = vol \/ vol' = [vol EXCEPT ![Dumped] = IF @ = Absent THEN Blank ELSE @]
      BY <1>6 DEF Database
    <2>. QED BY <1>1, <2>1, <2>2 DEF VolumeMoves, Content, Absent, Blank
  <1>7. ASSUME NEW j \in Jobs, Drop(j) \/ Load(j) PROVE VolumeMoves
    <2>1. gen' = gen /\ pc[j] \in {"drop", "load"}
      BY <1>7 DEF Drop, Load
    <2>2. vol' \in {vol, [vol EXCEPT ![Dumped] = Blank],
                   [vol EXCEPT ![Dumped] = snap[from[j]].dump]}
      BY <1>7 DEF Drop, Load
    <2>3. DB \in Services /\ Dumped = <<"bare", DB>> /\ Dumped \in Keys
      BY ContentFacts DEF Services, Dumped
    <2>. QED BY <1>1, <2>1, <2>2, <2>3 DEF VolumeMoves
  <1>8. ASSUME NEW j \in Jobs, Extract(j) PROVE VolumeMoves
    <2>1. gen' = gen /\ pc[j] = "extract"
      BY <1>8 DEF Extract
    <2>2. PICK s \in todo[j] :
            vol' \in {vol, [vol EXCEPT ![<<"bare", s>>] = snap[from[j]].tar[s]],
                     [vol EXCEPT ![<<"bare", s>>] = Blank]}
      BY <1>8 DEF Extract
    <2>3. s \in Services /\ <<"bare", s>> \in Keys
      BY ContentFacts
    <2>. QED BY <1>1, <2>1, <2>2, <2>3 DEF VolumeMoves
  <1>9. ASSUME NEW k \in Keys, Write(k) PROVE VolumeMoves
    BY <1>1, <1>9 DEF Write, VolumeMoves
  <1>10. ASSUME NEW j \in Jobs, Deploy(j) PROVE VolumeMoves
    BY <1>2, <1>4, <1>10 DEF Deploy, Stop, Down, Ps, Generate, WriteFile, Check, Pull,
       ComposeTo, dockerVars
  <1>11. ASSUME NEW j \in Jobs, Backup(j) PROVE VolumeMoves
    BY <1>2, <1>5, <1>11 DEF Backup, Dump, Archives, Prune, dockerVars
  <1>12. ASSUME NEW j \in Jobs, Restore(j) PROVE VolumeMoves
    BY <1>2, <1>4, <1>6, <1>7, <1>8, <1>12 DEF Restore, Halt, Extracted, ComposeTo, dockerVars
  <1>13. ASSUME NEW j \in Jobs, NEW c \in Asked, Begin(j, c) PROVE VolumeMoves
    BY <1>2, <1>13 DEF Begin, dockerVars
  <1>14. CASE Release
    BY <1>2, <1>14 DEF Release, dockerVars
  <1>15. CASE UNCHANGED vars
    BY <1>2, <1>15 DEF vars, dockerVars
  <1>. QED BY <1>9, <1>10, <1>11, <1>12, <1>13, <1>14, <1>15 DEF Next, Step

-----------------------------------------------------------------------------
(* No step puts data of the future into a volume or a snapshot.            *)
LEMMA GenStep == TypeOK /\ TypeOK' /\ GenInv /\ [Next]_vars => GenInv'
  <1>. SUFFICES ASSUME TypeOK, TypeOK', GenInv, [Next]_vars PROVE GenInv'
    OBVIOUS
  <1>1. /\ gen \in Nat /\ gen' \in Nat /\ gen >= 1 /\ gen' >= gen
        /\ \A k \in Keys : vol[k] \in Int /\ vol[k] <= gen
        /\ \A i \in Snapshots : /\ snap[i].dump \in Int /\ snap[i].dump <= gen
                                /\ \A s \in Services : /\ snap[i].tar[s] \in Int
                                                        /\ snap[i].tar[s] <= gen
    <2>1. gen \in 1 .. MaxGen /\ gen' \in 1 .. MaxGen
      BY DEF TypeOK
    <2>2. gen' >= gen
      BY <2>1, VolumeStep DEF VolumeMoves
    <2>. QED BY <2>1, <2>2, ContentFacts DEF GenInv, Content, Absent
  <1>2. \A k \in Keys : vol'[k] <= gen'
    <2>. SUFFICES ASSUME NEW k \in Keys PROVE vol'[k] <= gen'
      OBVIOUS
    <2>1. vol[k] \in Int /\ vol[k] <= gen
      BY <1>1
    <2>2. CASE vol'[k] \in {vol[k], Blank} \/ (gen' = gen + 1 /\ vol'[k] = gen + 1)
      BY <1>1, <2>1, <2>2 DEF Blank
    <2>3. CASE \E j \in Jobs, s \in Services :
                 vol'[k] \in {vol[k], Blank, snap[from[j]].dump, snap[from[j]].tar[s]}
      <3>1. PICK j \in Jobs, s \in Services :
                 vol'[k] \in {vol[k], Blank, snap[from[j]].dump, snap[from[j]].tar[s]}
        BY <2>3
      <3>2. from[j] \in Snapshots
        BY ContentFacts
      <3>3. snap[from[j]].dump <= gen /\ snap[from[j]].tar[s] <= gen
        BY <1>1, <3>2
      <3>4. snap[from[j]].dump \in Int /\ snap[from[j]].tar[s] \in Int
        BY <1>1, <3>2
      <3>5. vol'[k] \in Int /\ vol'[k] <= gen
        BY <1>1, <2>1, <3>1, <3>3, <3>4 DEF Blank
      <3>. QED BY <1>1, <3>5
    <2>. QED BY <2>2, <2>3, VolumeStep DEF VolumeMoves
  <1>3. ASSUME UNCHANGED snap PROVE GenInv'
    <2>1. \A i \in Snapshots : /\ snap'[i].dump <= gen'
                              /\ \A s \in Services : snap'[i].tar[s] <= gen'
      BY <1>1, <1>3
    <2>. QED BY <1>2, <2>1 DEF GenInv
  <1>4. ASSUME gen' = gen, NEW i \in Snapshots, NEW v \in Content, v <= gen,
               NEW s \in Services,
               snap' \in {[snap EXCEPT ![i].made = TRUE], [snap EXCEPT ![i].dump = v],
                         [snap EXCEPT ![i].tar[s] = v]}
        PROVE  GenInv'
    <2>1. snap \in [Snapshots -> Directories]
      BY DEF TypeOK
    <2>2. \A o \in Snapshots : /\ snap'[o].dump \in {snap[o].dump, v}
                              /\ \A t \in Services : snap'[o].tar[t] \in {snap[o].tar[t], v}
      <3>1. CASE snap' = [snap EXCEPT ![i].made = TRUE]
        BY <1>4, <2>1, <3>1, SnapshotValues
      <3>2. CASE snap' = [snap EXCEPT ![i].dump = v]
        BY <1>4, <2>1, <3>2, SnapshotValues
      <3>3. CASE snap' = [snap EXCEPT ![i].tar[s] = v]
        <4>1. \A o \in Snapshots, t \in Services :
                /\ snap'[o].dump = snap[o].dump
                /\ snap'[o].tar[t] = (IF o = i /\ t = s THEN v ELSE snap[o].tar[t])
          BY <2>1, <3>3, SnapshotValues
        <4>. QED BY <1>4, <4>1
      <3>. QED BY <1>4, <3>1, <3>2, <3>3
    <2>3. \A o \in Snapshots : /\ snap'[o].dump <= gen'
                              /\ \A t \in Services : snap'[o].tar[t] <= gen'
      BY <1>1, <1>4, <2>2
    <2>. QED BY <1>2, <2>3 DEF GenInv
  <1>5. /\ \A j \in Jobs : j \in Snapshots
        /\ App \in Services /\ Blank \in Content /\ Blank <= gen /\ Absent <= gen
        /\ Dumped \in Keys /\ \A k \in Keys : vol[k] \in Content /\ vol[k] <= gen
    BY <1>1, ContentFacts DEF Services, Blank, Absent
  <1>6. ASSUME NEW j \in Jobs, NEW c \in Asked, Begin(j, c) PROVE GenInv'
    <2>1. gen' = gen /\ (snap' = snap \/ snap' = [snap EXCEPT ![j].made = TRUE])
      BY <1>6 DEF Begin
    <2>. QED BY <1>3, <1>4, <1>5, <2>1
  <1>7. ASSUME NEW j \in Jobs, Dump(j) PROVE GenInv'
    <2>1. gen' = gen /\ snap' \in {snap, [snap EXCEPT ![j].dump = vol[Dumped]],
                                   [snap EXCEPT ![j].dump = Blank]}
      BY <1>7 DEF Dump
    <2>. QED BY <1>3, <1>4, <1>5, <2>1
  <1>8. ASSUME NEW j \in Jobs, Archive(j) PROVE GenInv'
    <2>1. gen' = gen
      BY <1>8 DEF Archive
    <2>2. PICK s \in todo[j] : snap' \in {snap, [snap EXCEPT ![j].tar[s] = vol'[<<"bare", s>>]],
                                          [snap EXCEPT ![j].tar[s] = Blank]}
      BY <1>8 DEF Archive
    <2>3. s \in Services /\ <<"bare", s>> \in Keys
      BY ContentFacts
    <2>4. vol'[<<"bare", s>>] \in Content /\ vol'[<<"bare", s>>] <= gen
      <3>1. vol' \in [Keys -> Content]
        BY DEF TypeOK
      <3>. QED BY <1>2, <2>1, <2>3, <3>1
    <2>. QED BY <1>3, <1>4, <1>5, <2>1, <2>2, <2>3, <2>4
  <1>9. ASSUME NEW j \in Jobs, Prune(j) PROVE GenInv'
    <2>1. gen' = gen /\ snap' = [snap EXCEPT ![Earlier] = NoSnapshot]
      BY <1>9 DEF Prune
    <2>2. \A o \in Snapshots : /\ snap'[o] \in {snap[o], NoSnapshot}
      BY <2>1 DEF TypeOK
    <2>3. NoSnapshot.dump = Absent /\ \A s \in Services : NoSnapshot.tar[s] = Absent
      BY DEF NoSnapshot
    <2>4. \A o \in Snapshots : /\ snap'[o].dump <= gen'
                              /\ \A t \in Services : snap'[o].tar[t] <= gen'
      BY <1>1, <1>5, <2>1, <2>2, <2>3
    <2>. QED BY <1>2, <2>4 DEF GenInv
  <1>10. ASSUME NEW j \in Jobs, Deploy(j) PROVE GenInv'
    BY <1>3, <1>10 DEF Deploy, Up, Stop, Down, Ps, Generate, WriteFile, Check, Pull
  <1>11. ASSUME NEW j \in Jobs, Backup(j) PROVE GenInv'
    BY <1>3, <1>7, <1>8, <1>9, <1>11 DEF Backup, Archives
  <1>12. ASSUME NEW j \in Jobs, Restore(j) PROVE GenInv'
    BY <1>3, <1>12 DEF Restore, Halt, Database, Drop, Load, Extract, Extracted, Start
  <1>13. CASE \E k \in Keys : Write(k)
    BY <1>3, <1>13 DEF Write
  <1>14. CASE Release
    BY <1>3, <1>14 DEF Release
  <1>15. CASE UNCHANGED vars
    BY <1>3, <1>15 DEF vars
  <1>. QED BY <1>6, <1>10, <1>11, <1>12, <1>13, <1>14, <1>15 DEF Next, Step

(* The invariant is inductive.                                             *)
LEMMA StepInv == IInv /\ [Next]_vars => IInv'
  BY TypeStep, RestoreStep, GenStep DEF IInv

(* Under the invariant a volume goes back only in the data steps of a      *)
(* restore job, and then to what its snapshot has or to nothing.           *)
LEMMA DataStep ==
  IInv /\ [Next]_vars =>
    \A k \in Keys :
      vol'[k] < vol[k] =>
        \E j \in Jobs :
          /\ cmd[j] = "restore" /\ pc[j] \in {"drop", "load", "extract"}
          /\ vol'[k] \in {Blank, snap[from[j]].dump, snap[from[j]].tar[k[2]]}
  <1>. SUFFICES ASSUME IInv, [Next]_vars, NEW k \in Keys, vol'[k] < vol[k]
       PROVE  \E j \in Jobs :
                /\ cmd[j] = "restore" /\ pc[j] \in {"drop", "load", "extract"}
                /\ vol'[k] \in {Blank, snap[from[j]].dump, snap[from[j]].tar[k[2]]}
    OBVIOUS
  <1>1. /\ gen \in Nat /\ vol[k] \in Int /\ vol[k] <= gen
    BY ContentFacts DEF IInv, GenInv, TypeOK, Content, Absent
  <1>2. PICK j \in Jobs, s \in Services :
          /\ pc[j] \in {"drop", "load", "extract"}
          /\ vol'[k] \in IF k = <<"bare", s>>
                          THEN {vol[k], Blank, snap[from[j]].dump, snap[from[j]].tar[s]}
                          ELSE {vol[k]}
    <2>1. ~ (vol'[k] \in {vol[k], Blank} /\ vol'[k] >= vol[k]) /\ vol'[k] # vol[k]
          /\ vol'[k] # gen + 1
      <3>1. vol'[k] # vol[k]
        BY <1>1
      <3>2. vol'[k] # gen + 1
        BY <1>1
      <3>3. ~ (vol'[k] \in {vol[k], Blank} /\ vol'[k] >= vol[k])
        BY <1>1, <3>1 DEF Blank
      <3>. QED BY <3>1, <3>2, <3>3
    <2>. QED BY <2>1, VolumeStep DEF IInv, VolumeMoves
  <1>3. k = <<"bare", s>>
    BY <1>1, <1>2
  <1>4. vol'[k] \in {Blank, snap[from[j]].dump, snap[from[j]].tar[k[2]]}
    <2>1. k[2] = s
      BY <1>3
    <2>2. vol'[k] \in {vol[k], Blank, snap[from[j]].dump, snap[from[j]].tar[s]}
      BY <1>2, <1>3
    <2>3. vol'[k] # vol[k]
      BY <1>1
    <2>. QED BY <2>1, <2>2, <2>3
  <1>5. cmd[j] = "restore"
    BY <1>2 DEF IInv, RestoreInv
  <1>. QED BY <1>2, <1>4, <1>5

-----------------------------------------------------------------------------
(* Type correctness: every variable stays in its type however the commands *)
(* of deploy.sh, backup.sh and restore.sh and the two handlers overlap.    *)
THEOREM TypeCorrect == Spec => []TypeOK
  <1>1. IInv => TypeOK
    BY DEF IInv
  <1>. QED BY InitInv, StepInv, <1>1, PTL DEF Spec

(* Whatever run.sh is asked for by however many callers at once, data in a *)
(* volume goes back only through the data steps of a restore, and only to  *)
(* what the snapshot it was asked for has of that service, or to nothing.  *)
THEOREM DataSafe == Spec => OnlyRestoreLosesData
  <1>. QED BY InitInv, StepInv, DataStep, PTL DEF Spec, OnlyRestoreLosesData

-----------------------------------------------------------------------------
(* A command no other overlaps. lone[j] is what Begin notes and a later Begin *)
(* takes back; that no step of another job comes between two of a lone one *)
(* is an invariant (Alone), and all that follows rests on it.              *)

(* While a lone job is under way, no other is.                             *)
Alone == \A j \in Jobs : lone[j] /\ UnderWay(j) => \A o \in Jobs \ {j} : ~UnderWay(o)

(* What goes on besides the jobs.                                          *)
World == (\E k \in Keys : Write(k)) \/ Release \/ UNCHANGED vars

(* A step is of a job that is under way; it changes no job's place but its own,*)
(* and of what a job began with nothing.                                   *)
LEMMA StepMoves ==
  ASSUME TypeOK, NEW j \in Jobs, Step(j)
  PROVE  /\ UnderWay(j)
         /\ \E l \in Locations : pc' = [pc EXCEPT ![j] = l]
         /\ UNCHANGED <<type, dumps, upstream, gen, cmd, from, lone, before>>
  <1>1. pc = [pc EXCEPT ![j] = pc[j]] /\ pc[j] \in Locations
    BY DEF TypeOK
  <1>2. CASE Deploy(j)
    <2>1. UnderWay(j) /\ UNCHANGED <<type, dumps, upstream, gen, cmd, from, lone, before>>
      BY <1>2 DEF Deploy, Up, Stop, Down, Ps, Generate, WriteFile, Check, Pull, UnderWay, Ended,
         stackVars, loopVars, historyVars
    <2>2. pc' = pc \/ \E l \in Locations : pc' = [pc EXCEPT ![j] = l]
      BY <1>2 DEF Deploy, Up, Stop, Down, Ps, Generate, WriteFile, Check, Pull, Goto, Locations
    <2>. QED BY <1>1, <2>1, <2>2
  <1>3. CASE Backup(j)
    <2>1. UnderWay(j) /\ UNCHANGED <<type, dumps, upstream, gen, cmd, from, lone, before>>
      BY <1>3 DEF Backup, Dump, Archive, Archives, Prune, UnderWay, Ended,
         stackVars, loopVars, historyVars
    <2>2. pc' = pc \/ \E l \in Locations : pc' = [pc EXCEPT ![j] = l]
      BY <1>3 DEF Backup, Dump, Archive, Archives, Prune, Goto, Locations
    <2>. QED BY <1>1, <2>1, <2>2
  <1>4. CASE Restore(j)
    <2>1. UnderWay(j) /\ UNCHANGED <<type, dumps, upstream, gen, cmd, from, lone, before>>
      BY <1>4 DEF Restore, Halt, Database, Drop, Load, Extract, Extracted, Start, UnderWay, Ended,
         stackVars, loopVars, historyVars
    <2>2. pc' = pc \/ \E l \in Locations : pc' = [pc EXCEPT ![j] = l]
      BY <1>4 DEF Restore, Halt, Database, Drop, Load, Extract, Extracted, Start, Goto, Locations
    <2>. QED BY <1>1, <2>1, <2>2
  <1>. QED BY <1>2, <1>3, <1>4 DEF Step

(* A job begins once, and whoever is under way is no longer alone.         *)
LEMMA BeginMoves ==
  ASSUME TypeOK, NEW j \in Jobs, NEW c \in Asked, Begin(j, c)
  PROVE  /\ pc[j] = "idle" /\ \E l \in {"failed", Entry(c)} : pc' = [pc EXCEPT ![j] = l]
         /\ \A i \in Jobs : lone'[i] <=> IF i = j THEN \A o \in Jobs \ {j} : ~UnderWay(o)
                                                   ELSE lone[i] /\ ~UnderWay(i)
  BY DEF Begin, Goto

(* Only a running container writes, and nothing else changes that matters  *)
(* to a job.                                                               *)
LEMMA WorldMoves ==
  ASSUME TypeOK, World
  PROVE  /\ UNCHANGED <<type, dumps, file, run, snap, pc, cmd, from, was, todo, lone, before>>
         /\ \A k \in Keys : vol'[k] = vol[k] \/ (run[k] = "running" /\ vol'[k] = gen + 1)
  <1>1. UNCHANGED <<type, dumps, file, run, snap, pc, cmd, from, was, todo, lone, before>>
    BY DEF World, Write, Release, vars, stackVars, dockerVars, loopVars, historyVars
  <1>2. ASSUME NEW k \in Keys, NEW w \in Keys, Write(w)
        PROVE  vol'[k] = vol[k] \/ (run[k] = "running" /\ vol'[k] = gen + 1)
    BY <1>2 DEF Write, TypeOK
  <1>3. Release \/ UNCHANGED vars => vol' = vol
    BY DEF Release, vars, dockerVars
  <1>. QED BY <1>1, <1>2, <1>3 DEF World

(* Who begins alone stays so until another begins.                         *)
LEMMA AloneStep == TypeOK /\ Alone /\ [Next]_vars => Alone'
  <1>. SUFFICES ASSUME TypeOK, Alone, [Next]_vars, NEW j \in Jobs, lone'[j], UnderWay(j)',
                       NEW o \in Jobs \ {j}
                PROVE  ~UnderWay(o)'
    BY DEF Alone
  <1>1. ASSUME NEW i \in Jobs, Step(i) PROVE ~UnderWay(o)'
    <2>1. UnderWay(i) /\ lone[j] /\ \A x \in Jobs : x # i => pc'[x] = pc[x]
      BY <1>1, StepMoves DEF TypeOK
    <2>2. i = j
      BY <2>1 DEF Alone, UnderWay
    <2>. QED BY <2>1, <2>2 DEF Alone, UnderWay
  <1>2. ASSUME NEW i \in Jobs, NEW c \in Asked, Begin(i, c) PROVE ~UnderWay(o)'
    <2>1. \A x \in Jobs : x # i => pc'[x] = pc[x]
      BY <1>2, BeginMoves DEF TypeOK
    <2>2. i = j
      BY <1>2, <2>1, BeginMoves DEF UnderWay
    <2>3. ~UnderWay(o)
      BY <1>2, <2>2, BeginMoves
    <2>. QED BY <2>1, <2>2, <2>3 DEF UnderWay
  <1>3. CASE World
    <2>1. pc' = pc /\ lone' = lone
      BY <1>3, WorldMoves
    <2>. QED BY <2>1 DEF Alone, UnderWay
  <1>. QED BY <1>1, <1>2, <1>3 DEF Next, World

(* Job j is under way, and nobody has begun since it did or was there then.   *)
Undisturbed(j) == lone[j] /\ UnderWay(j)

(* What happens to a job nobody has overlapped: it begins, it goes on, or a   *)
(* container writes or a release is published.                             *)
LEMMA LoneMoves ==
  ASSUME TypeOK, Alone, [Next]_vars, NEW j \in Jobs, Undisturbed(j)'
  PROVE  \/ \E c \in Asked : Begin(j, c)
         \/ Undisturbed(j) /\ (Step(j) \/ World)
  <1>0. lone'[j] /\ UnderWay(j)'
    BY DEF Undisturbed
  <1>1. ASSUME NEW i \in Jobs, Step(i) PROVE lone[j] /\ UnderWay(j) /\ Step(j)
    <2>1. UnderWay(i) /\ lone[j] /\ \A x \in Jobs : x # i => pc'[x] = pc[x]
      BY <1>0, <1>1, StepMoves DEF TypeOK
    <2>2. i = j
      BY <1>0, <2>1 DEF Alone, UnderWay
    <2>. QED BY <1>1, <2>1, <2>2
  <1>2. ASSUME NEW i \in Jobs, NEW c \in Asked, Begin(i, c) PROVE i = j
    <2>1. \A x \in Jobs : x # i => pc'[x] = pc[x]
      BY <1>2, BeginMoves DEF TypeOK
    <2>. QED BY <1>0, <1>2, <2>1, BeginMoves DEF UnderWay
  <1>3. CASE World
    <2>1. pc' = pc /\ lone' = lone
      BY <1>3, WorldMoves
    <2>. QED BY <1>0, <1>3, <2>1 DEF UnderWay, Undisturbed
  <1>. QED BY <1>1, <1>2, <1>3 DEF Next, World, Undisturbed

(* ... and when it finishes, it goes on.                                   *)
LEMMA LoneFinish ==
  ASSUME TypeOK, [Next]_vars, NEW j \in Jobs, UnderWay(j), pc'[j] # pc[j]
  PROVE  Step(j)
  <1>1. ASSUME NEW i \in Jobs, Step(i) PROVE i = j
    BY <1>1, StepMoves DEF TypeOK
  <1>2. ASSUME NEW i \in Jobs, NEW c \in Asked, Begin(i, c) PROVE FALSE
    <2>1. (\A x \in Jobs : x # i => pc'[x] = pc[x]) /\ pc[i] = "idle"
      BY <1>2, BeginMoves DEF TypeOK
    <2>. QED BY <2>1 DEF UnderWay, Ended
  <1>3. ~World
    BY WorldMoves
  <1>. QED BY <1>1, <1>2, <1>3 DEF Next, World

(* What a backup writes it writes in a directory it has made, so a directory  *)
(* that was never made holds nothing.                                      *)
MadeFirst ==
  /\ \A j \in Jobs : pc[j] \in {"dump", "archive"} => snap[j].made
  /\ \A i \in Snapshots : ~snap[i].made =>
       snap[i].dump = Absent /\ \A s \in Services : snap[i].tar[s] = Absent

(* A restore works from a directory that was there when it began (restore.sh  *)
(* checks that it is), or from the old one a backup's prune may have taken *)
(* since; and it unpacks only what it found in it: its dump is not absent once*)
(* the database is being loaded, nor is the archive of a service still to do. *)
Sources ==
  \A j \in Jobs :
    /\ pc[j] \in {"halt", "database", "drop", "load", "extract"} =>
         snap[from[j]].made \/ from[j] = Earlier
    /\ pc[j] \in {"drop", "load"} /\ snap[from[j]].made => snap[from[j]].dump # Absent
    /\ pc[j] = "extract" /\ snap[from[j]].made =>
         \A s \in todo[j] : snap[from[j]].tar[s] # Absent

(* A running container has its volume.                                     *)
InUse == \A k \in Keys : run[k] = "running" => vol[k] # Absent

(* No volume goes: not with down, and what a restore puts there is never   *)
(* nothing.                                                                *)
LEMMA VolumeKept ==
  ASSUME TypeOK, Sources, [Next]_vars, NEW k \in Keys, vol[k] # Absent
  PROVE  vol'[k] # Absent
  <1>1. /\ vol \in [Keys -> Content] /\ gen \in 1 .. MaxGen /\ vol[k] \in Content
        /\ Blank # Absent /\ gen + 1 # Absent
    BY DEF TypeOK, Absent, Blank
  <1>2. ASSUME NEW j \in Jobs, Up(j) \/ Start(j) PROVE vol'[k] # Absent
    BY <1>1, <1>2 DEF Up, Start, ComposeUp, ComposeUpFails
  <1>3. ASSUME NEW j \in Jobs, Archive(j) \/ Database(j) \/ Drop(j) PROVE vol'[k] # Absent
    BY <1>1, <1>3 DEF Archive, Database, Drop
  <1>4. ASSUME NEW j \in Jobs, Load(j) PROVE vol'[k] # Absent
    BY <1>1, <1>4 DEF Load, Sources
  <1>5. ASSUME NEW j \in Jobs, Extract(j) PROVE vol'[k] # Absent
    <2>1. PICK s \in todo[j] :
            \/ vol' = vol \/ vol' = [vol EXCEPT ![<<"bare", s>>] = Blank]
            \/ snap[from[j]].made /\ vol' = [vol EXCEPT ![<<"bare", s>>] = snap[from[j]].tar[s]]
      BY <1>5 DEF Extract
    <2>2. snap[from[j]].made => snap[from[j]].tar[s] # Absent
      BY <1>5 DEF Extract, Sources
    <2>. QED BY <1>1, <2>1, <2>2
  <1>6. ASSUME NEW j \in Jobs, Deploy(j) PROVE vol'[k] # Absent
    BY <1>2, <1>6 DEF Deploy, Stop, Down, Ps, Generate, WriteFile, Check, Pull, ComposeTo, dockerVars
  <1>7. ASSUME NEW j \in Jobs, Backup(j) PROVE vol'[k] # Absent
    BY <1>3, <1>7 DEF Backup, Dump, Archives, Prune, dockerVars
  <1>8. ASSUME NEW j \in Jobs, Restore(j) PROVE vol'[k] # Absent
    BY <1>2, <1>3, <1>4, <1>5, <1>8 DEF Restore, Halt, Extracted, ComposeTo, dockerVars
  <1>9. ASSUME NEW j \in Jobs, NEW c \in Asked, Begin(j, c) PROVE vol'[k] # Absent
    BY <1>9 DEF Begin, dockerVars
  <1>10. CASE World
    BY <1>1, <1>10, WorldMoves
  <1>. QED BY <1>6, <1>7, <1>8, <1>9, <1>10 DEF Next, Step, World

(* Whatever starts a container makes its volume first.                     *)
LEMMA InUseStep == TypeOK /\ Sources /\ InUse /\ [Next]_vars => InUse'
  <1>. SUFFICES ASSUME TypeOK, Sources, InUse, [Next]_vars, NEW k \in Keys, run'[k] = "running"
                PROVE  vol'[k] # Absent
    BY DEF InUse
  <1>1. CASE run'[k] = run[k]
    BY <1>1, VolumeKept DEF InUse
  <1>2. /\ run \in [Keys -> Runs] /\ vol \in [Keys -> Content] /\ Blank # Absent
    BY DEF TypeOK, Absent, Blank
  <1>3. ASSUME NEW j \in Jobs, Up(j) \/ Start(j) PROVE vol'[k] # Absent
    BY <1>1, <1>2, <1>3 DEF Up, Start, ComposeUp, ComposeUpFails
  <1>4. ASSUME NEW j \in Jobs, Stop(j) \/ Down(j) \/ Halt(j) PROVE run'[k] = run[k]
    BY <1>2, <1>4 DEF Stop, Down, Halt, ComposeTo
  <1>5. ASSUME NEW j \in Jobs, Database(j) PROVE vol'[k] # Absent
    BY <1>1, <1>2, <1>5 DEF Database
  <1>6. ASSUME NEW j \in Jobs, Deploy(j) PROVE vol'[k] # Absent
    BY <1>1, <1>3, <1>4, <1>6 DEF Deploy, Ps, Generate, WriteFile, Check, Pull, dockerVars
  <1>7. ASSUME NEW j \in Jobs, Backup(j) PROVE vol'[k] # Absent
    BY <1>1, <1>7 DEF Backup, Dump, Archive, Archives, Prune, dockerVars
  <1>8. ASSUME NEW j \in Jobs, Restore(j) PROVE vol'[k] # Absent
    BY <1>1, <1>3, <1>4, <1>5, <1>8 DEF Restore, Drop, Load, Extract, Extracted, dockerVars
  <1>9. ASSUME NEW j \in Jobs, NEW c \in Asked, Begin(j, c) PROVE vol'[k] # Absent
    BY <1>1, <1>9 DEF Begin, dockerVars
  <1>10. CASE World
    BY <1>1, <1>10, WorldMoves
  <1>. QED BY <1>6, <1>7, <1>8, <1>9, <1>10 DEF Next, Step, World

-----------------------------------------------------------------------------
(* How a step changes the snapshots.                                       *)
SnapMoves ==
  \/ snap' = snap
  \/ \E j \in Jobs : pc[j] = "idle" /\ snap' = [snap EXCEPT ![j].made = TRUE]
  \/ \E j \in Jobs, v \in Content \ {Absent} :
       pc[j] = "dump" /\ snap' = [snap EXCEPT ![j].dump = v]
  \/ \E j \in Jobs, s \in Services, v \in Content \ {Absent} :
       pc[j] = "archive" /\ snap' = [snap EXCEPT ![j].tar[s] = v]
  \/ snap' = [snap EXCEPT ![Earlier] = NoSnapshot]

(* Every step is one of these: what is dumped or archived is never nothing.   *)
LEMMA SnapStep == TypeOK /\ TypeOK' /\ Sources /\ InUse /\ [Next]_vars => SnapMoves
  <1>. SUFFICES ASSUME TypeOK, TypeOK', Sources, InUse, [Next]_vars PROVE SnapMoves
    OBVIOUS
  <1>1. snap' = snap => SnapMoves
    BY DEF SnapMoves
  <1>2. Blank \in Content \ {Absent}
    BY ContentFacts DEF Absent, Blank
  <1>3. ASSUME NEW j \in Jobs, Dump(j) PROVE SnapMoves
    <2>1. pc[j] = "dump" /\ (\/ snap' = snap \/ snap' = [snap EXCEPT ![j].dump = Blank]
                             \/ CanExec(Dumped) /\ snap' = [snap EXCEPT ![j].dump = vol[Dumped]])
      BY <1>3 DEF Dump
    <2>2. CanExec(Dumped) => vol[Dumped] \in Content \ {Absent}
      BY ContentFacts DEF InUse, CanExec
    <2>. QED BY <1>2, <2>1, <2>2 DEF SnapMoves
  <1>4. ASSUME NEW j \in Jobs, Archive(j) PROVE SnapMoves
    <2>1. pc[j] = "archive"
      BY <1>4 DEF Archive
    <2>2. PICK s \in todo[j] :
            /\ vol' = [vol EXCEPT ![<<"bare", s>>] =
                         IF vol[<<"bare", s>>] = Absent
                            /\ ~(type = "image" /\ vol[<<"bare", s>>] = Absent)
                         THEN Blank ELSE vol[<<"bare", s>>]]
            /\ \/ type = "image" /\ vol[<<"bare", s>>] = Absent /\ snap' = snap
               \/ /\ ~(type = "image" /\ vol[<<"bare", s>>] = Absent)
                  /\ snap' = [snap EXCEPT ![j].tar[s] = vol'[<<"bare", s>>]]
               \/ snap' = [snap EXCEPT ![j].tar[s] = Blank]
      BY <1>4 DEF Archive
    <2>3. s \in Services /\ <<"bare", s>> \in Keys /\ vol'[<<"bare", s>>] \in Content
      <3>1. vol' \in [Keys -> Content]
        BY DEF TypeOK
      <3>. QED BY <3>1, ContentFacts
    <2>4. CASE ~(type = "image" /\ vol[<<"bare", s>>] = Absent)
               /\ snap' = [snap EXCEPT ![j].tar[s] = vol'[<<"bare", s>>]]
      <3>1. vol'[<<"bare", s>>] # Absent
        BY <1>2, <2>2, <2>3, <2>4 DEF TypeOK
      <3>2. vol'[<<"bare", s>>] \in Content \ {Absent}
        BY <2>3, <3>1
      <3>. QED BY <2>1, <2>3, <2>4, <3>2, Zenon DEF SnapMoves
    <2>. QED BY <1>1, <1>2, <2>1, <2>2, <2>3, <2>4 DEF SnapMoves
  <1>5. ASSUME NEW j \in Jobs, Prune(j) PROVE SnapMoves
    BY <1>5 DEF Prune, SnapMoves
  <1>6. ASSUME NEW j \in Jobs, NEW c \in Asked, Begin(j, c) PROVE SnapMoves
    BY <1>6 DEF Begin, SnapMoves
  <1>7. ASSUME NEW j \in Jobs, Deploy(j) PROVE SnapMoves
    BY <1>1, <1>7 DEF Deploy, Up, Stop, Down, Ps, Generate, WriteFile, Check, Pull
  <1>8. ASSUME NEW j \in Jobs, Backup(j) PROVE SnapMoves
    BY <1>1, <1>3, <1>4, <1>5, <1>8 DEF Backup, Archives
  <1>9. ASSUME NEW j \in Jobs, Restore(j) PROVE SnapMoves
    BY <1>1, <1>9 DEF Restore, Halt, Database, Drop, Load, Extract, Extracted, Start
  <1>10. CASE World
    BY <1>1, <1>10, WorldMoves
  <1>. QED BY <1>6, <1>7, <1>8, <1>9, <1>10 DEF Next, Step, World

(* ... and each of them: that of 30 days ago may go, the others only grow. *)
Grows(i) ==
  \/ i = Earlier /\ snap'[i] = NoSnapshot
  \/ /\ i = Earlier => snap'[i] = snap[i]
     /\ snap[i].made => snap'[i].made
     /\ snap[i].dump # Absent => snap'[i].dump # Absent
     /\ \A s \in Services : snap[i].tar[s] # Absent => snap'[i].tar[s] # Absent

LEMMA Growth == ASSUME TypeOK, SnapMoves, NEW i \in Snapshots PROVE Grows(i)
  <1>1. snap \in [Snapshots -> Directories] /\ snap[i] \in Directories
    BY DEF TypeOK
  <1>2. snap'[i] = snap[i] => Grows(i)
    BY DEF Grows
  <1>3. \A j \in Jobs : j # Earlier
    OBVIOUS
  <1>4. ASSUME NEW j \in Jobs, snap' = [snap EXCEPT ![j].made = TRUE] PROVE Grows(i)
    <2>1. CASE i = j
      <3>1. snap'[i] = [snap[i] EXCEPT !.made = TRUE]
        BY <1>1, <1>4, <2>1
      <3>2. snap'[i].made /\ snap'[i].dump = snap[i].dump /\ snap'[i].tar = snap[i].tar
        BY <1>1, <3>1 DEF Directories
      <3>. QED BY <1>3, <2>1, <3>2, Zenon DEF Grows
    <2>2. CASE i # j
      BY <1>1, <1>2, <1>4, <2>2
    <2>. QED BY <2>1, <2>2
  <1>5. ASSUME NEW j \in Jobs, NEW v \in Content \ {Absent}, snap' = [snap EXCEPT ![j].dump = v]
        PROVE Grows(i)
    <2>1. CASE i = j
      <3>1. snap'[i] = [snap[i] EXCEPT !.dump = v]
        BY <1>1, <1>5, <2>1
      <3>2. snap'[i].made = snap[i].made /\ snap'[i].dump = v /\ snap'[i].tar = snap[i].tar
        BY <1>1, <3>1 DEF Directories
      <3>3. v # Absent
        OBVIOUS
      <3>. QED BY <1>3, <2>1, <3>2, <3>3, Zenon DEF Grows
    <2>2. CASE i # j
      BY <1>1, <1>2, <1>5, <2>2
    <2>. QED BY <2>1, <2>2
  <1>6. ASSUME NEW j \in Jobs, NEW s \in Services, NEW v \in Content \ {Absent},
               snap' = [snap EXCEPT ![j].tar[s] = v]
        PROVE Grows(i)
    <2>1. CASE i = j
      <3>1. snap'[i] = [snap[i] EXCEPT !.tar[s] = v]
        BY <1>1, <1>6, <2>1
      <3>2. /\ snap'[i].made = snap[i].made /\ snap'[i].dump = snap[i].dump
            /\ snap'[i].tar = [snap[i].tar EXCEPT ![s] = v]
            /\ snap[i].tar \in [Services -> Content]
        BY <1>1, <3>1 DEF Directories
      <3>3. \A t \in Services : snap[i].tar[t] # Absent => snap'[i].tar[t] # Absent
        BY <3>2
      <3>. QED BY <1>3, <2>1, <3>2, <3>3, Zenon DEF Grows
    <2>2. CASE i # j
      BY <1>1, <1>2, <1>6, <2>2
    <2>. QED BY <2>1, <2>2
  <1>7. CASE snap' = [snap EXCEPT ![Earlier] = NoSnapshot]
    BY <1>1, <1>2, <1>7, Zenon DEF Grows, Snapshots
  <1>. QED BY <1>2, <1>4, <1>5, <1>6, <1>7 DEF SnapMoves

(* What is written of a snapshot is written in a directory that was made.  *)
LEMMA MadeStep == TypeOK /\ MadeFirst /\ SnapMoves /\ [Next]_vars => MadeFirst'
  <1>. SUFFICES ASSUME TypeOK, MadeFirst, SnapMoves, [Next]_vars PROVE MadeFirst'
    OBVIOUS
  <1>1. ASSUME NEW j \in Jobs, pc'[j] \in {"dump", "archive"} PROVE snap'[j].made
    <2>1. j # Earlier /\ j \in Snapshots
      BY DEF Snapshots
    <2>2. snap[j].made => snap'[j].made
      BY <2>1, Growth DEF Grows
    <2>3. ASSUME NEW c \in Asked, Begin(j, c) PROVE snap'[j].made
      <3>1. Entry(c) \in {"dump", "archive"}
        BY <1>1, <2>3 DEF Begin, Goto, TypeOK
      <3>2. snap' = [snap EXCEPT ![j].made = TRUE]
        BY <2>3, <3>1 DEF Begin
      <3>3. snap[j] \in Directories /\ snap'[j] = [snap[j] EXCEPT !.made = TRUE]
        BY <2>1, <3>2 DEF TypeOK
      <3>. QED BY <3>3 DEF Directories
    <2>4. (\E c \in Asked : Begin(j, c)) \/ pc[j] \in {"dump", "archive"}
      <3>1. ASSUME NEW i \in Jobs, Step(i), i # j PROVE pc'[j] = pc[j]
        BY <3>1, StepMoves DEF TypeOK
      <3>2. ASSUME NEW i \in Jobs, NEW c \in Asked, Begin(i, c), i # j PROVE pc'[j] = pc[j]
        BY <3>2, BeginMoves DEF TypeOK
      <3>3. CASE Deploy(j) \/ Restore(j)
        BY <1>1, <3>3 DEF TypeOK, Deploy, Restore, Up, Stop, Down, Ps, Generate, WriteFile, Check, Pull,
           Halt, Database, Drop, Load, Extract, Extracted, Start, Goto
      <3>4. CASE Backup(j)
        BY <1>1, <3>4 DEF TypeOK, Backup, Dump, Archive, Archives, Prune, Goto
      <3>5. World => pc'[j] = pc[j]
        BY WorldMoves
      <3>. QED BY <1>1, <3>1, <3>2, <3>3, <3>4, <3>5 DEF Next, Step, World
    <2>. QED BY <2>2, <2>3, <2>4 DEF MadeFirst
  <1>2. ASSUME NEW i \in Snapshots, ~snap'[i].made
        PROVE  snap'[i].dump = Absent /\ \A s \in Services : snap'[i].tar[s] = Absent
    <2>1. snap \in [Snapshots -> Directories] /\ snap[i] \in Directories
      BY DEF TypeOK
    <2>2. CASE snap'[i] = snap[i]
      BY <1>2, <2>2 DEF MadeFirst
    <2>3. CASE snap'[i] = NoSnapshot
      BY <2>3 DEF NoSnapshot
    <2>4. snap'[i] = snap[i] \/ snap'[i] = NoSnapshot
      <3>1. ASSUME NEW j \in Jobs, snap' = [snap EXCEPT ![j].made = TRUE] PROVE i # j
        <4>1. i = j => snap'[i] = [snap[i] EXCEPT !.made = TRUE]
          BY <2>1, <3>1
        <4>. QED BY <1>2, <2>1, <4>1 DEF Directories
      <3>2. ASSUME NEW j \in Jobs, snap' = [snap EXCEPT ![j].made = TRUE] PROVE snap'[i] = snap[i]
        BY <2>1, <3>1, <3>2
      <3>3. ASSUME NEW j \in Jobs, NEW v \in Content, pc[j] = "dump", snap' = [snap EXCEPT ![j].dump = v]
            PROVE snap'[i] = snap[i]
        <4>1. i = j => snap'[i] = [snap[i] EXCEPT !.dump = v]
          BY <2>1, <3>3
        <4>2. i = j => snap'[i].made = snap[i].made
          BY <2>1, <4>1 DEF Directories
        <4>3. i # j
          BY <1>2, <3>3, <4>2, Zenon DEF MadeFirst
        <4>. QED BY <2>1, <3>3, <4>3
      <3>4. ASSUME NEW j \in Jobs, NEW s \in Services, NEW v \in Content, pc[j] = "archive",
                   snap' = [snap EXCEPT ![j].tar[s] = v]
            PROVE snap'[i] = snap[i]
        <4>1. i = j => snap'[i] = [snap[i] EXCEPT !.tar[s] = v]
          BY <2>1, <3>4
        <4>2. i = j => snap'[i].made = snap[i].made
          BY <2>1, <4>1 DEF Directories
        <4>3. i # j
          BY <1>2, <3>4, <4>2, Zenon DEF MadeFirst
        <4>. QED BY <2>1, <3>4, <4>3
      <3>5. snap' = [snap EXCEPT ![Earlier] = NoSnapshot] => snap'[i] \in {snap[i], NoSnapshot}
        BY <2>1
      <3>. QED BY <3>2, <3>3, <3>4, <3>5 DEF SnapMoves
    <2>. QED BY <2>2, <2>3, <2>4
  <1>. QED BY <1>1, <1>2 DEF MadeFirst

(* A job in the middle of restore.sh came there, or was there already.     *)
LEMMA RestoreMoves ==
  ASSUME TypeOK, [Next]_vars, NEW j \in Jobs,
         pc'[j] \in {"halt", "database", "drop", "load", "extract"}
  PROVE  \/ \E c \in Asked : Begin(j, c)
         \/ Restore(j)
         \/ pc'[j] = pc[j] /\ from'[j] = from[j] /\ todo'[j] = todo[j]
  <1>. DEFINE Data == {"halt", "database", "drop", "load", "extract"}
  <1>1. ASSUME NEW i \in Jobs, Step(i), i # j
        PROVE  pc'[j] = pc[j] /\ from'[j] = from[j] /\ todo'[j] = todo[j]
    <2>1. pc'[j] = pc[j] /\ from'[j] = from[j]
      BY <1>1, StepMoves DEF TypeOK
    <2>2. todo'[j] = todo[j]
      <3>1. CASE Deploy(i)
        BY <1>1, <3>1 DEF TypeOK, Deploy, Up, Stop, Down, Ps, Generate, WriteFile, Check, Pull, loopVars
      <3>2. CASE Backup(i)
        BY <1>1, <3>2 DEF TypeOK, Backup, Dump, Archive, Archives, Prune, loopVars
      <3>3. CASE Restore(i)
        BY <1>1, <3>3 DEF TypeOK, Restore, Halt, Database, Drop, Load, Extract, Extracted, Start, loopVars
      <3>. QED BY <1>1, <3>1, <3>2, <3>3 DEF Step
    <2>. QED BY <2>1, <2>2
  <1>2. ASSUME NEW i \in Jobs, NEW c \in Asked, Begin(i, c), i # j
        PROVE  pc'[j] = pc[j] /\ from'[j] = from[j] /\ todo'[j] = todo[j]
    <2>1. pc'[j] = pc[j]
      BY <1>2, BeginMoves DEF TypeOK
    <2>2. todo'[j] = todo[j]
      BY <1>2 DEF TypeOK, Begin
    <2>3. from'[j] = from[j]
      <3>1. \E x : from' = [from EXCEPT ![i] = x]
        BY <1>2 DEF Begin
      <3>. QED BY <1>2, <3>1 DEF TypeOK
    <2>. QED BY <2>1, <2>2, <2>3
  <1>3. CASE Deploy(j) \/ Backup(j)
    <2>1. pc[j] \notin Data
      BY <1>3 DEF Deploy, Backup, Up, Stop, Down, Ps, Generate, WriteFile, Check, Pull,
         Dump, Archive, Archives, Prune
    <2>2. pc' = pc \/ \E l \in Locations \ Data : pc' = [pc EXCEPT ![j] = l]
      BY <1>3 DEF Deploy, Backup, Up, Stop, Down, Ps, Generate, WriteFile, Check, Pull,
         Dump, Archive, Archives, Prune, Goto, Locations
    <2>. QED BY <2>1, <2>2 DEF TypeOK
  <1>4. CASE World
    BY <1>4, WorldMoves
  <1>. QED BY <1>1, <1>2, <1>3, <1>4 DEF Next, Step, World

(* What a restore works from was there when it began, and what it has found in*)
(* it stays until it goes as a whole.                                      *)
LEMMA SourcesStep == TypeOK /\ Sources /\ SnapMoves /\ [Next]_vars => Sources'
  <1>. SUFFICES ASSUME TypeOK, Sources, SnapMoves, [Next]_vars, NEW j \in Jobs,
                       pc'[j] \in {"halt", "database", "drop", "load", "extract"}
       PROVE  /\ snap'[from'[j]].made \/ from'[j] = Earlier
              /\ pc'[j] \in {"drop", "load"} /\ snap'[from'[j]].made => snap'[from'[j]].dump # Absent
              /\ pc'[j] = "extract" /\ snap'[from'[j]].made =>
                   \A s \in todo'[j] : snap'[from'[j]].tar[s] # Absent
    BY DEF Sources
  <1>1. ASSUME NEW c \in Asked, Begin(j, c)
        PROVE  pc'[j] = "halt" /\ snap'[from'[j]].made
    <2>1. PICK i \in Snapshots :
            /\ from' = [from EXCEPT ![j] = i]
            /\ pc' = [pc EXCEPT ![j] = IF c = "restore" /\ ~snap[i].made THEN "failed" ELSE Entry(c)]
      BY <1>1 DEF Begin, Goto, Snapshots
    <2>2. pc'[j] = IF c = "restore" /\ ~snap[i].made THEN "failed" ELSE Entry(c)
      BY <2>1 DEF TypeOK
    <2>3. Entry(c) \in {"halt", "database", "drop", "load", "extract"} => c = "restore" /\ Entry(c) = "halt"
      BY DEF Entry, Commands, Regenerate
    <2>4. c = "restore" /\ Entry(c) = "halt" /\ pc'[j] = "halt" /\ snap[i].made
      BY <2>2, <2>3
    <2>5. snap' = snap /\ from'[j] = i
      BY <1>1, <2>1, <2>4 DEF Begin, TypeOK
    <2>. QED BY <2>4, <2>5
  <1>2. from[j] \in Snapshots /\ Grows(from[j])
    BY ContentFacts, Growth
  <1>3. CASE Restore(j)
    <2>1. snap' = snap /\ from' = from
      BY <1>3 DEF Restore, Halt, Database, Drop, Load, Extract, Extracted, Start, loopVars
    <2>2. pc[j] \in {"halt", "database", "drop", "load", "extract"}
      BY <1>3 DEF TypeOK, Restore, Halt, Database, Drop, Load, Extract, Extracted, Start, Goto
    <2>3. pc'[j] \in {"drop", "load"} /\ snap[from[j]].made => snap[from[j]].dump # Absent
      BY <1>3 DEF TypeOK, Sources, Restore, Halt, Database, Drop, Load, Extract, Extracted, Start, Goto
    <2>4. pc'[j] = "extract" /\ snap[from[j]].made => \A s \in todo'[j] : snap[from[j]].tar[s] # Absent
      <3>1. CASE Database(j) \/ Load(j)
        BY <3>1 DEF TypeOK, Database, Load, Goto
      <3>2. CASE Extract(j)
        <4>1. todo'[j] \subseteq todo[j] /\ pc[j] = "extract"
          BY <3>2 DEF TypeOK, Extract
        <4>. QED BY <4>1 DEF Sources
      <3>3. CASE Halt(j) \/ Drop(j) \/ Extracted(j) \/ Start(j)
        BY <3>3 DEF TypeOK, Halt, Drop, Extracted, Start, Goto
      <3>. QED BY <1>3, <3>1, <3>2, <3>3 DEF Restore
    <2>. QED BY <2>1, <2>2, <2>3, <2>4 DEF Sources
  <1>4. CASE pc'[j] = pc[j] /\ from'[j] = from[j] /\ todo'[j] = todo[j]
    <2>1. CASE from[j] = Earlier /\ snap'[from[j]] = NoSnapshot
      <3>1. ~NoSnapshot.made
        BY DEF NoSnapshot
      <3>. QED BY <1>4, <2>1, <3>1
    <2>2. CASE /\ from[j] = Earlier => snap'[from[j]] = snap[from[j]]
               /\ snap[from[j]].made => snap'[from[j]].made
               /\ snap[from[j]].dump # Absent => snap'[from[j]].dump # Absent
               /\ \A s \in Services : snap[from[j]].tar[s] # Absent => snap'[from[j]].tar[s] # Absent
      <3>1. todo[j] \subseteq Services
        BY ContentFacts
      <3>. QED BY <1>4, <2>2, <3>1 DEF Sources
    <2>. QED BY <1>2, <2>1, <2>2 DEF Grows
  <1>. QED BY <1>1, <1>3, <1>4, RestoreMoves

-----------------------------------------------------------------------------
(* The three commands whose result the properties speak of, step by step.  *)
(*                                                                         *)
(* A lone update has changed nothing yet: what runs is what ran when it began,*)
(* and it goes on to pull and to up only when something does (deploy.sh:52-53).*)
LoneUpdate ==
  \A j \in Jobs : Undisturbed(j) /\ cmd[j] = "update" =>
    /\ pc[j] \in {"check", "pull", "up"}
    /\ Running = before[j].running
    /\ pc[j] \in {"pull", "up"} /\ was[j] => Running # {}
    /\ pc[j] = "up" => was[j]

(* A lone backup: the database only grows meanwhile, and the dump once taken  *)
(* lies between what it held at the start and what it holds now (backup.sh).  *)
LoneBackup ==
  \A j \in Jobs : Undisturbed(j) /\ cmd[j] \in {"backup", "backup db"} =>
    /\ pc[j] \in {"dump", "archive", "prune"}
    /\ cmd[j] = "backup db" => pc[j] = "dump"
    /\ before[j].rows <= vol[Dumped]
    /\ pc[j] # "dump" /\ dumps => snap[j].dump \in before[j].rows .. vol[Dumped] \ {Absent}

(* So does the volume of the uploads of a custom stack, which is archived or  *)
(* still to do.                                                            *)
LoneArchive ==
  \A j \in Jobs : Undisturbed(j) /\ cmd[j] \in {"backup", "backup files"} =>
    /\ pc[j] \in {"dump", "archive", "prune"}
    /\ cmd[j] = "backup files" => pc[j] = "archive"
    /\ before[j].uploads <= vol[Uploads]
    /\ type = "custom" => \/ App \in todo[j]
                           \/ snap[j].tar[App] \in before[j].uploads .. vol[Uploads] \ {Absent}
    /\ pc[j] = "prune" => todo[j] = {}

(* A lone restore: the volume of each service is still to do, has no archive, *)
(* does not exist, is being written to, or holds what was archived.        *)
LoneRestore ==
  \A j \in Jobs, s \in Services : lone[j] /\ pc[j] = "extract" =>
    \/ s \in todo[j] \/ snap[from[j]].tar[s] = Absent
    \/ vol[<<"bare", s>>] = Absent \/ run[<<"bare", s>>] = "running"
    \/ vol[<<"bare", s>>] = snap[from[j]].tar[s]

(* What a command that begins finds and notes.                             *)
LEMMA BeginEntry ==
  ASSUME TypeOK, NEW j \in Jobs, NEW c \in Asked, Begin(j, c), pc'[j] # "failed"
  PROVE  /\ pc'[j] = Entry(c) /\ cmd'[j] = c
         /\ before'[j] = [running |-> Running, rows |-> vol[Dumped], uploads |-> vol[Uploads]]
         /\ todo'[j] = IF c \in Regenerate THEN Services ELSE Archived
         /\ UNCHANGED <<type, dumps, run, vol>>
  <1>1. pc'[j] = Entry(c)
    BY BeginMoves DEF TypeOK
  <1>. QED BY <1>1 DEF TypeOK, Begin, stackVars, dockerVars

(* LoneUpdate is inductive given Alone: check only looks, pull only fetches.  *)
LEMMA UpdateStep == TypeOK /\ Alone /\ LoneUpdate /\ [Next]_vars => LoneUpdate'
  <1>. SUFFICES ASSUME TypeOK, Alone, LoneUpdate, [Next]_vars, NEW j \in Jobs,
                       Undisturbed(j)', cmd'[j] = "update"
       PROVE  /\ pc'[j] \in {"check", "pull", "up"}
              /\ Running' = before'[j].running
              /\ pc'[j] \in {"pull", "up"} /\ was'[j] => Running' # {}
              /\ pc'[j] = "up" => was'[j]
    BY DEF LoneUpdate
  <1>1. run' = run => Running' = Running
    BY DEF Running
  <1>2. ASSUME NEW c \in Asked, Begin(j, c)
        PROVE  pc'[j] = "check" /\ Running' = before'[j].running
    <2>1. pc'[j] # "failed"
      BY DEF Undisturbed, UnderWay, Ended
    <2>2. c = "update" /\ Entry(c) = "check"
      BY <1>2, <2>1, BeginEntry DEF Entry, Regenerate
    <2>. QED BY <1>1, <1>2, <2>1, <2>2, BeginEntry
  <1>3. ASSUME Undisturbed(j), World
        PROVE  /\ pc'[j] \in {"check", "pull", "up"}
               /\ Running' = before'[j].running
               /\ pc'[j] \in {"pull", "up"} /\ was'[j] => Running' # {}
               /\ pc'[j] = "up" => was'[j]
    BY <1>1, <1>3, WorldMoves DEF LoneUpdate
  <1>4. ASSUME Undisturbed(j), Step(j)
        PROVE  /\ pc'[j] \in {"check", "pull", "up"}
               /\ Running' = before'[j].running
               /\ pc'[j] \in {"pull", "up"} /\ was'[j] => Running' # {}
               /\ pc'[j] = "up" => was'[j]
    <2>1. cmd[j] = "update" /\ before' = before
      BY <1>4, StepMoves
    <2>2. /\ pc[j] \in {"check", "pull", "up"} /\ Running = before[j].running
          /\ pc[j] \in {"pull", "up"} /\ was[j] => Running # {}
      BY <1>4, <2>1 DEF LoneUpdate
    <2>3. Check(j) \/ Pull(j) \/ Up(j)
      BY <1>4, <2>2 DEF Step, Deploy, Backup, Restore, Up, Stop, Down, Ps, Generate, WriteFile,
         Dump, Archive, Archives, Prune, Halt, Database, Drop, Load, Extract, Extracted, Start
    <2>4. CASE Check(j)
      <3>1. pc'[j] = "pull" /\ run' = run
        BY <2>4 DEF Check, Goto, TypeOK, dockerVars
      <3>2. was'[j] => Running # {}
        BY <2>4 DEF Check, TypeOK
      <3>. QED BY <1>1, <2>1, <2>2, <3>1, <3>2
    <2>5. CASE Pull(j)
      <3>1. pc'[j] = "up" /\ was[j] /\ was' = was /\ run' = run
        BY <2>5 DEF Pull, Goto, TypeOK, Undisturbed, UnderWay, Ended, loopVars
      <3>2. pc[j] = "pull"
        BY <2>5 DEF Pull
      <3>. QED BY <1>1, <2>1, <2>2, <3>1, <3>2
    <2>6. CASE Up(j)
      BY <2>6 DEF Up, Goto, TypeOK, Undisturbed, UnderWay, Ended
    <2>. QED BY <2>3, <2>4, <2>5, <2>6
  <1>. QED BY <1>2, <1>3, <1>4, LoneMoves

(* Facts about numbers and records the steps of a backup need.             *)
LEMMA ContentIsInt == \A x \in Content : x \in Int
  BY DEF Content, Absent

LEMMA EndsIn ==
  ASSUME NEW a \in Int, NEW b \in Int, a <= b, b # Absent
  PROVE  b \in a .. b \ {Absent}
  OBVIOUS

LEMMA Reflexive ==
  ASSUME NEW b \in Int PROVE b <= b
  OBVIOUS

LEMMA LaterIsMore ==
  ASSUME NEW b \in Int, NEW g \in Int, b <= g
  PROVE  b <= b /\ b <= g + 1
  OBVIOUS

LEMMA AbsentIsLeast ==
  ASSUME NEW x \in Content, NEW y, y = IF x = Absent THEN Blank ELSE x
  PROVE  x <= y /\ y # Absent
  BY DEF Content, Absent, Blank

LEMMA GenIsInt == TypeOK => gen \in Int
  <1>1. \A x \in 1 .. MaxGen : x \in Int
    OBVIOUS
  <1>. QED BY <1>1 DEF TypeOK

(* What archiving one service changes of a snapshot.                       *)
LEMMA ArchivedValues ==
  ASSUME TypeOK, NEW j \in Jobs, NEW s \in Services, NEW v \in Content,
         snap' = [snap EXCEPT ![j].tar[s] = v]
  PROVE  /\ snap'[j].dump = snap[j].dump
         /\ snap'[j].tar[s] = v
         /\ \A t \in Services : t # s => snap'[j].tar[t] = snap[j].tar[t]
  <1>1. snap \in [Snapshots -> Directories] /\ j \in Snapshots
    BY ContentFacts DEF TypeOK
  <1>2. snap[j] \in Directories
    BY <1>1
  <1>3. snap'[j] = [snap[j] EXCEPT !.tar[s] = v]
    BY <1>1
  <1>. QED BY <1>2, <1>3 DEF Directories

(* What archiving one service does: it takes the service off the list and     *)
(* nothing else, a custom stack's archive holds what its volume holds, and no *)
(* volume goes back.                                                       *)
LEMMA ArchiveMoves ==
  ASSUME TypeOK, TypeOK', NEW j \in Jobs, Archive(j), pc'[j] # "failed"
  PROVE  /\ pc'[j] = pc[j] /\ pc[j] = "archive" /\ todo'[j] \subseteq todo[j]
         /\ snap'[j].dump = snap[j].dump
         /\ \A k \in Keys : vol[k] <= vol'[k]
         /\ \A s \in Services :
              \/ snap'[j].tar[s] = snap[j].tar[s] /\ (s \in todo[j] => s \in todo'[j])
              \/ type = "image"
              \/ snap'[j].tar[s] = vol'[<<"bare", s>>] /\ vol'[<<"bare", s>>] # Absent
  <1>1. PICK s \in todo[j] :
          /\ todo' = [todo EXCEPT ![j] = @ \ {s}]
          /\ vol' = [vol EXCEPT ![<<"bare", s>>] =
                       IF @ = Absent /\ ~(type = "image" /\ vol[<<"bare", s>>] = Absent)
                       THEN Blank ELSE @]
          /\ \/ /\ type = "image" /\ vol[<<"bare", s>>] = Absent
                /\ snap' = snap /\ pc' = pc
             \/ /\ ~(type = "image" /\ vol[<<"bare", s>>] = Absent)
                /\ snap' = [snap EXCEPT ![j].tar[s] = vol'[<<"bare", s>>]]
                /\ pc' = pc
             \/ pc' = [pc EXCEPT ![j] = "failed"]
    BY DEF Archive, Goto
  <1>2. pc' = pc /\ pc[j] = "archive"
    BY <1>1 DEF Archive, TypeOK
  <1>3. /\ s \in Services /\ <<"bare", s>> \in Keys /\ todo'[j] = todo[j] \ {s}
        /\ vol \in [Keys -> Content] /\ vol' \in [Keys -> Content]
        /\ vol[<<"bare", s>>] \in Content /\ vol'[<<"bare", s>>] \in Content
    <2>1. s \in Services /\ todo'[j] = todo[j] \ {s}
      BY <1>1, ContentFacts DEF TypeOK
    <2>2. vol \in [Keys -> Content] /\ vol' \in [Keys -> Content]
      BY DEF TypeOK
    <2>. QED BY <2>1, <2>2, ContentFacts
  <1>4. \A k \in Keys : vol[k] <= vol'[k]
    <2>. SUFFICES ASSUME NEW k \in Keys PROVE vol[k] <= vol'[k]
      OBVIOUS
    <2>1. vol'[k] = vol[k] \/ vol'[k] = IF vol[k] = Absent THEN Blank ELSE vol[k]
      BY <1>1, <1>3
    <2>2. vol[k] \in Content /\ vol[k] \in Int
      BY <1>3, ContentIsInt
    <2>3. vol[k] <= vol[k]
      BY <2>2
    <2>. QED BY <2>1, <2>2, <2>3, AbsentIsLeast
  <1>5. \/ type = "image" /\ vol[<<"bare", s>>] = Absent /\ snap' = snap
        \/ /\ ~(type = "image" /\ vol[<<"bare", s>>] = Absent)
           /\ snap' = [snap EXCEPT ![j].tar[s] = vol'[<<"bare", s>>]]
    BY <1>1, <1>2 DEF TypeOK
  <1>6. CASE type = "image" /\ vol[<<"bare", s>>] = Absent /\ snap' = snap
    BY <1>2, <1>3, <1>4, <1>6
  <1>7. CASE /\ ~(type = "image" /\ vol[<<"bare", s>>] = Absent)
             /\ snap' = [snap EXCEPT ![j].tar[s] = vol'[<<"bare", s>>]]
    <2>1. /\ snap'[j].dump = snap[j].dump
          /\ snap'[j].tar[s] = vol'[<<"bare", s>>]
          /\ \A x \in Services : x # s => snap'[j].tar[x] = snap[j].tar[x]
      BY <1>3, <1>7, ArchivedValues, Zenon
    <2>2. type = "image" \/ vol'[<<"bare", s>>] # Absent
      <3>1. ASSUME type # "image" PROVE vol'[<<"bare", s>>] # Absent
        <4>1. vol'[<<"bare", s>>] = IF vol[<<"bare", s>>] = Absent THEN Blank ELSE vol[<<"bare", s>>]
          BY <1>1, <1>3, <3>1
        <4>. QED BY <1>3, <4>1, AbsentIsLeast
      <3>. QED BY <3>1
    <2>. QED BY <1>2, <1>3, <1>4, <2>1, <2>2
  <1>. QED BY <1>5, <1>6, <1>7

(* A backup that begins has noted what the database and the uploads hold, and *)
(* has the uploads of the application to archive.                          *)
LEMMA BackupBegins ==
  ASSUME TypeOK, NEW j \in Jobs, NEW c \in Asked, Begin(j, c), pc'[j] # "failed",
         cmd'[j] \in {"backup", "backup db", "backup files"}
  PROVE  /\ pc'[j] = IF cmd'[j] = "backup files" THEN "archive" ELSE "dump"
         /\ before'[j].rows = vol'[Dumped] /\ before'[j].uploads = vol'[Uploads]
         /\ App \in todo'[j]
  <1>1. /\ c \in {"backup", "backup db", "backup files"} /\ c \notin Regenerate
        /\ Entry(c) = IF c = "backup files" THEN "archive" ELSE "dump"
    BY BeginEntry DEF Entry, Regenerate
  <1>2. before'[j] = [running |-> Running, rows |-> vol[Dumped], uploads |-> vol[Uploads]]
        /\ vol' = vol
    BY BeginEntry
  <1>3. before'[j].rows = vol'[Dumped] /\ before'[j].uploads = vol'[Uploads]
    <2>1. /\ [running |-> Running, rows |-> vol[Dumped], uploads |-> vol[Uploads]].rows = vol[Dumped]
          /\ [running |-> Running, rows |-> vol[Dumped], uploads |-> vol[Uploads]].uploads = vol[Uploads]
      OBVIOUS
    <2>. QED BY <1>2, <2>1, Zenon
  <1>4. pc'[j] = IF cmd'[j] = "backup files" THEN "archive" ELSE "dump"
    BY <1>1, BeginEntry
  <1>5. todo'[j] = Archived
    BY <1>1, BeginEntry
  <1>6. App \in Archived
    BY DEF Archived, Services
  <1>. QED BY <1>3, <1>4, <1>5, <1>6

(* The numbers the two invariants compare.                                 *)
LEMMA BackupNumbers ==
  ASSUME TypeOK, TypeOK', GenInv, NEW j \in Jobs
  PROVE  /\ Dumped \in Keys /\ Uploads \in Keys /\ gen \in Int
         /\ \A k \in Keys : vol[k] \in Int /\ vol'[k] \in Int /\ vol[k] <= gen
         /\ before[j].rows \in Int /\ before[j].uploads \in Int
         /\ j \in Snapshots /\ App \in Services
         /\ snap \in [Snapshots -> Directories] /\ snap[j] \in Directories
  <1>1. vol \in [Keys -> Content] /\ vol' \in [Keys -> Content] /\ before \in [Jobs -> States]
    BY DEF TypeOK
  <1>2. before[j] \in States
    BY <1>1
  <1>3. before[j].rows \in Content /\ before[j].uploads \in Content
    BY <1>2 DEF States
  <1>4. \A k \in Keys : vol[k] \in Content /\ vol'[k] \in Content /\ vol[k] <= gen
    BY <1>1 DEF GenInv
  <1>5. snap \in [Snapshots -> Directories] /\ App \in Services
    BY DEF TypeOK, Services
  <1>6. Dumped \in Keys /\ Uploads \in Keys /\ j \in Snapshots
    BY ContentFacts
  <1>. QED BY <1>3, <1>4, <1>5, <1>6, ContentIsInt, GenIsInt

(* While neither a container's write nor an archive can take data back, what  *)
(* a backup has noted and what it has saved stay on the right side of it.  *)
LEMMA StillCurrent ==
  ASSUME NEW a \in Int, NEW b \in Int, NEW c \in Int, NEW x, b <= c
  PROVE  /\ a <= b => a <= c
         /\ x \in a .. b \ {Absent} => x \in a .. c \ {Absent}
  OBVIOUS

(* LoneBackup is inductive: the dump takes what the volume holds, and whatever *)
(* else writes meanwhile only adds.                                        *)
LEMMA BackupStep ==
  TypeOK /\ TypeOK' /\ GenInv /\ InUse /\ Alone /\ LoneBackup /\ [Next]_vars => LoneBackup'
  <1>. SUFFICES ASSUME TypeOK, TypeOK', GenInv, InUse, Alone, LoneBackup, [Next]_vars, NEW j \in Jobs,
                       Undisturbed(j)', cmd'[j] \in {"backup", "backup db"}
       PROVE  /\ pc'[j] \in {"dump", "archive", "prune"}
              /\ cmd'[j] = "backup db" => pc'[j] = "dump"
              /\ before'[j].rows <= vol'[Dumped]
              /\ pc'[j] # "dump" /\ dumps' => snap'[j].dump \in before'[j].rows .. vol'[Dumped] \ {Absent}
    BY DEF LoneBackup, Dumped
  <1>0. /\ Dumped \in Keys /\ gen \in Int /\ before[j].rows \in Int
        /\ vol[Dumped] \in Int /\ vol'[Dumped] \in Int /\ vol[Dumped] <= gen
    BY BackupNumbers
  <1>1. ASSUME Undisturbed(j), cmd' = cmd
        PROVE  /\ pc[j] \in {"dump", "archive", "prune"}
               /\ cmd[j] = "backup db" => pc[j] = "dump"
               /\ before[j].rows <= vol[Dumped]
               /\ pc[j] # "dump" /\ dumps => snap[j].dump \in before[j].rows .. vol[Dumped] \ {Absent}
    BY <1>1 DEF LoneBackup
  <1>2. ASSUME Undisturbed(j), UNCHANGED <<type, dumps, cmd, before>>,
               vol[Dumped] <= vol'[Dumped], pc'[j] = pc[j], snap'[j].dump = snap[j].dump
        PROVE  /\ pc'[j] \in {"dump", "archive", "prune"}
               /\ cmd'[j] = "backup db" => pc'[j] = "dump"
               /\ before'[j].rows <= vol'[Dumped]
               /\ pc'[j] # "dump" /\ dumps' => snap'[j].dump \in before'[j].rows .. vol'[Dumped] \ {Absent}
    <2>1. /\ before[j].rows <= vol[Dumped] => before[j].rows <= vol'[Dumped]
          /\ snap[j].dump \in before[j].rows .. vol[Dumped] \ {Absent} =>
               snap[j].dump \in before[j].rows .. vol'[Dumped] \ {Absent}
      BY <1>0, <1>2, StillCurrent
    <2>. QED BY <1>1, <1>2, <2>1
  <1>3. ASSUME Undisturbed(j), World
        PROVE  vol[Dumped] <= vol'[Dumped] /\ UNCHANGED <<type, dumps, snap, pc, cmd, todo, before>>
    <2>1. UNCHANGED <<type, dumps, snap, pc, cmd, todo, before>>
      BY <1>3, WorldMoves
    <2>2. vol'[Dumped] = vol[Dumped] \/ vol'[Dumped] = gen + 1
      BY <1>0, <1>3, WorldMoves
    <2>. QED BY <1>0, <2>1, <2>2, LaterIsMore
  <1>4. ASSUME Undisturbed(j), Step(j)
        PROVE  /\ pc'[j] \in {"dump", "archive", "prune"}
               /\ cmd'[j] = "backup db" => pc'[j] = "dump"
               /\ before'[j].rows <= vol'[Dumped]
               /\ pc'[j] # "dump" /\ dumps' => snap'[j].dump \in before'[j].rows .. vol'[Dumped] \ {Absent}
    <2>1. UNCHANGED <<type, dumps, cmd, before>>
      BY <1>4, StepMoves
    <2>2. pc[j] \in {"dump", "archive", "prune"}
      BY <1>1, <1>4, <2>1
    <2>3. Backup(j)
      BY <1>4, <2>2 DEF Step, Deploy, Restore, Up, Stop, Down, Ps, Generate, WriteFile, Check, Pull,
         Halt, Database, Drop, Load, Extract, Extracted, Start
    <2>4. CASE Dump(j)
      <3>1. pc'[j] = "archive" /\ cmd[j] # "backup db" /\ vol' = vol
        BY <2>4 DEF Dump, Goto, TypeOK, Undisturbed, UnderWay, Ended, dockerVars, loopVars
      <3>2. dumps => CanExec(Dumped) /\ snap' = [snap EXCEPT ![j].dump = vol[Dumped]]
        BY <2>4, <3>1 DEF Dump, Goto, TypeOK
      <3>3. dumps => snap'[j].dump = vol[Dumped] /\ vol[Dumped] # Absent
        <4>1. CanExec(Dumped) => vol[Dumped] # Absent
          BY <1>0 DEF CanExec, InUse
        <4>2. dumps => snap'[j] = [snap[j] EXCEPT !.dump = vol[Dumped]]
          BY BackupNumbers, <3>2
        <4>3. snap[j] \in Directories
          BY BackupNumbers
        <4>. QED BY <3>2, <4>1, <4>2, <4>3 DEF Directories
      <3>4. before[j].rows <= vol[Dumped]
        BY <1>1, <1>4, <2>1
      <3>5. dumps => snap'[j].dump \in before[j].rows .. vol[Dumped] \ {Absent}
        BY <1>0, <3>3, <3>4, EndsIn
      <3>. QED BY <2>1, <3>1, <3>4, <3>5
    <2>5. CASE Archive(j)
      <3>1. pc'[j] # "failed"
        BY DEF Undisturbed, UnderWay, Ended
      <3>2. pc'[j] = pc[j] /\ snap'[j].dump = snap[j].dump /\ vol[Dumped] <= vol'[Dumped]
        BY <1>0, <2>5, <3>1, ArchiveMoves
      <3>. QED BY <1>2, <1>4, <2>1, <3>2
    <2>6. CASE Archives(j)
      <3>1. pc[j] = "archive" /\ pc'[j] \in {"failed", "ok", "prune"} /\ vol' = vol /\ snap' = snap
        BY <2>6 DEF Archives, Goto, TypeOK, dockerVars, loopVars
      <3>2. pc'[j] = "prune" /\ cmd[j] # "backup db"
        BY <1>1, <1>4, <2>1, <3>1 DEF Undisturbed, UnderWay, Ended
      <3>3. dumps => snap[j].dump \in before[j].rows .. vol[Dumped] \ {Absent}
        BY <1>1, <1>4, <2>1, <3>1
      <3>. QED BY <1>1, <1>4, <2>1, <3>1, <3>2, <3>3
    <2>7. CASE Prune(j)
      BY <2>7 DEF Prune, Goto, TypeOK, Undisturbed, UnderWay, Ended
    <2>. QED BY <2>3, <2>4, <2>5, <2>6, <2>7 DEF Backup
  <1>5. CASE Undisturbed(j) /\ World
    BY <1>2, <1>3, <1>5
  <1>6. CASE \E c \in Asked : Begin(j, c)
    <2>1. pc'[j] # "failed"
      BY DEF Undisturbed, UnderWay, Ended
    <2>2. pc'[j] = "dump" /\ before'[j].rows = vol'[Dumped]
      BY <1>6, <2>1, BackupBegins
    <2>3. before'[j].rows <= vol'[Dumped]
      BY <1>0, <2>2, Reflexive
    <2>. QED BY <2>2, <2>3
  <1>. QED BY <1>4, <1>5, <1>6, LoneMoves

(* LoneArchive is inductive: an archive takes what its volume holds.       *)
LEMMA ArchiveStep ==
  TypeOK /\ TypeOK' /\ GenInv /\ Alone /\ LoneArchive /\ [Next]_vars => LoneArchive'
  <1>. SUFFICES ASSUME TypeOK, TypeOK', GenInv, Alone, LoneArchive, [Next]_vars, NEW j \in Jobs,
                       Undisturbed(j)', cmd'[j] \in {"backup", "backup files"}
       PROVE  /\ pc'[j] \in {"dump", "archive", "prune"}
              /\ cmd'[j] = "backup files" => pc'[j] = "archive"
              /\ before'[j].uploads <= vol'[Uploads]
              /\ type' = "custom" =>
                   \/ App \in todo'[j]
                   \/ snap'[j].tar[App] \in before'[j].uploads .. vol'[Uploads] \ {Absent}
              /\ pc'[j] = "prune" => todo'[j] = {}
    BY DEF LoneArchive, Uploads
  <1>0. /\ Uploads \in Keys /\ gen \in Int /\ before[j].uploads \in Int
        /\ vol[Uploads] \in Int /\ vol'[Uploads] \in Int /\ vol[Uploads] <= gen
    BY BackupNumbers
  <1>1. ASSUME Undisturbed(j), cmd' = cmd
        PROVE  /\ pc[j] \in {"dump", "archive", "prune"}
               /\ cmd[j] = "backup files" => pc[j] = "archive"
               /\ before[j].uploads <= vol[Uploads]
               /\ type = "custom" =>
                    \/ App \in todo[j]
                    \/ snap[j].tar[App] \in before[j].uploads .. vol[Uploads] \ {Absent}
               /\ pc[j] = "prune" => todo[j] = {}
    BY <1>1 DEF LoneArchive
  <1>2. ASSUME Undisturbed(j), UNCHANGED <<type, cmd, before>>, vol[Uploads] <= vol'[Uploads],
               pc'[j] \in {pc[j], "archive"}, pc[j] # "prune", cmd[j] = "backup files" => pc'[j] = "archive",
               snap'[j].tar[App] = snap[j].tar[App], App \in todo[j] => App \in todo'[j]
        PROVE  /\ pc'[j] \in {"dump", "archive", "prune"}
               /\ cmd'[j] = "backup files" => pc'[j] = "archive"
               /\ before'[j].uploads <= vol'[Uploads]
               /\ type' = "custom" =>
                    \/ App \in todo'[j]
                    \/ snap'[j].tar[App] \in before'[j].uploads .. vol'[Uploads] \ {Absent}
               /\ pc'[j] = "prune" => todo'[j] = {}
    <2>1. /\ before[j].uploads <= vol[Uploads] => before[j].uploads <= vol'[Uploads]
          /\ snap[j].tar[App] \in before[j].uploads .. vol[Uploads] \ {Absent} =>
               snap[j].tar[App] \in before[j].uploads .. vol'[Uploads] \ {Absent}
      <3>1. vol[Uploads] <= vol'[Uploads]
        BY <1>2
      <3>2. ASSUME NEW x
            PROVE  x \in before[j].uploads .. vol[Uploads] \ {Absent} =>
                     x \in before[j].uploads .. vol'[Uploads] \ {Absent}
        BY <1>0, <3>1, StillCurrent
      <3>3. before[j].uploads <= vol[Uploads] => before[j].uploads <= vol'[Uploads]
        BY <1>0, <3>1, StillCurrent
      <3>. QED BY <3>2, <3>3, Zenon
    <2>2. /\ pc[j] \in {"dump", "archive", "prune"} /\ before[j].uploads <= vol[Uploads]
          /\ type = "custom" =>
               \/ App \in todo[j]
               \/ snap[j].tar[App] \in before[j].uploads .. vol[Uploads] \ {Absent}
      BY <1>1, <1>2
    <2>3. pc'[j] \in {"dump", "archive"}
      BY <1>2, <2>2
    <2>. QED BY <1>2, <2>1, <2>2, <2>3
  <1>3. ASSUME Undisturbed(j), World
        PROVE  /\ pc'[j] \in {"dump", "archive", "prune"}
               /\ cmd'[j] = "backup files" => pc'[j] = "archive"
               /\ before'[j].uploads <= vol'[Uploads]
               /\ type' = "custom" =>
                    \/ App \in todo'[j]
                    \/ snap'[j].tar[App] \in before'[j].uploads .. vol'[Uploads] \ {Absent}
               /\ pc'[j] = "prune" => todo'[j] = {}
    <2>1. UNCHANGED <<type, dumps, snap, pc, cmd, todo, before>>
      BY <1>3, WorldMoves
    <2>2. vol'[Uploads] = vol[Uploads] \/ vol'[Uploads] = gen + 1
      BY <1>0, <1>3, WorldMoves
    <2>3. vol[Uploads] <= vol'[Uploads]
      BY <1>0, <2>2, LaterIsMore
    <2>4. /\ before[j].uploads <= vol[Uploads] => before[j].uploads <= vol'[Uploads]
          /\ snap[j].tar[App] \in before[j].uploads .. vol[Uploads] \ {Absent} =>
               snap[j].tar[App] \in before[j].uploads .. vol'[Uploads] \ {Absent}
      <3>1. vol[Uploads] <= vol'[Uploads]
        BY <2>3
      <3>2. ASSUME NEW x
            PROVE  x \in before[j].uploads .. vol[Uploads] \ {Absent} =>
                     x \in before[j].uploads .. vol'[Uploads] \ {Absent}
        BY <1>0, <3>1, StillCurrent
      <3>3. before[j].uploads <= vol[Uploads] => before[j].uploads <= vol'[Uploads]
        BY <1>0, <3>1, StillCurrent
      <3>. QED BY <3>2, <3>3, Zenon
    <2>. QED BY <1>1, <1>3, <2>1, <2>4
  <1>4. ASSUME Undisturbed(j), Step(j)
        PROVE  /\ pc'[j] \in {"dump", "archive", "prune"}
               /\ cmd'[j] = "backup files" => pc'[j] = "archive"
               /\ before'[j].uploads <= vol'[Uploads]
               /\ type' = "custom" =>
                    \/ App \in todo'[j]
                    \/ snap'[j].tar[App] \in before'[j].uploads .. vol'[Uploads] \ {Absent}
               /\ pc'[j] = "prune" => todo'[j] = {}
    <2>1. UNCHANGED <<type, dumps, cmd, before>>
      BY <1>4, StepMoves
    <2>2. pc[j] \in {"dump", "archive", "prune"} /\ before[j].uploads <= vol[Uploads]
      BY <1>1, <1>4, <2>1
    <2>3. Backup(j)
      BY <1>4, <2>2 DEF Step, Deploy, Restore, Up, Stop, Down, Ps, Generate, WriteFile, Check, Pull,
         Halt, Database, Drop, Load, Extract, Extracted, Start
    <2>4. vol[Uploads] <= vol[Uploads]
      BY <1>0, Reflexive
    <2>5. CASE Dump(j)
      <3>1. pc[j] = "dump" /\ pc'[j] = "archive" /\ vol' = vol /\ todo' = todo
        BY <2>1, <2>5 DEF Dump, Goto, TypeOK, Undisturbed, UnderWay, Ended, dockerVars, loopVars
      <3>2. snap' = snap \/ snap' = [snap EXCEPT ![j].dump = vol[Dumped]]
            \/ snap' = [snap EXCEPT ![j].dump = Blank]
        BY <2>5 DEF Dump
      <3>3. snap'[j].tar = snap[j].tar
        BY BackupNumbers, <3>2 DEF Directories
      <3>. QED BY <1>2, <1>4, <2>1, <2>4, <3>1, <3>3
    <2>6. CASE Archive(j)
      <3>1. pc'[j] # "failed" /\ App \in Services
        BY DEF Undisturbed, UnderWay, Ended, Services
      <3>2. pc'[j] = pc[j] /\ pc[j] = "archive" /\ vol[Uploads] <= vol'[Uploads]
        BY <1>0, <2>6, <3>1, ArchiveMoves
      <3>3. \/ snap'[j].tar[App] = snap[j].tar[App] /\ (App \in todo[j] => App \in todo'[j])
            \/ type = "image"
            \/ snap'[j].tar[App] = vol'[Uploads] /\ vol'[Uploads] # Absent
        BY <2>6, <3>1, ArchiveMoves DEF Uploads
      <3>4. before[j].uploads <= vol'[Uploads]
        BY <1>0, <2>2, <3>2, StillCurrent
      <3>5. CASE snap'[j].tar[App] = snap[j].tar[App] /\ (App \in todo[j] => App \in todo'[j])
        BY <1>2, <1>4, <2>1, <3>2, <3>5
      <3>6. CASE type = "image"
        BY <2>1, <3>2, <3>4, <3>6
      <3>7. CASE snap'[j].tar[App] = vol'[Uploads] /\ vol'[Uploads] # Absent
        <4>1. snap'[j].tar[App] \in before[j].uploads .. vol'[Uploads] \ {Absent}
          BY <1>0, <3>4, <3>7, EndsIn
        <4>. QED BY <2>1, <3>2, <3>4, <4>1
      <3>. QED BY <3>3, <3>5, <3>6, <3>7
    <2>7. CASE Archives(j)
      <3>1. /\ pc[j] = "archive" /\ todo[j] = {} /\ vol' = vol /\ snap' = snap /\ todo' = todo
            /\ pc'[j] \in {"failed", "ok", "prune"} /\ (cmd[j] = "backup files" => pc'[j] # "prune")
        BY <2>7 DEF Archives, Goto, TypeOK, dockerVars, loopVars
      <3>2. pc'[j] = "prune" /\ cmd[j] # "backup files"
        BY <3>1 DEF Undisturbed, UnderWay, Ended
      <3>. QED BY <1>1, <1>4, <2>1, <3>1, <3>2
    <2>8. CASE Prune(j)
      BY <2>8 DEF Prune, Goto, TypeOK, Undisturbed, UnderWay, Ended
    <2>. QED BY <2>3, <2>5, <2>6, <2>7, <2>8 DEF Backup
  <1>5. CASE \E c \in Asked : Begin(j, c)
    <2>1. pc'[j] # "failed"
      BY DEF Undisturbed, UnderWay, Ended
    <2>2. /\ pc'[j] = IF cmd'[j] = "backup files" THEN "archive" ELSE "dump"
          /\ before'[j].uploads = vol'[Uploads] /\ App \in todo'[j]
      BY <1>5, <2>1, BackupBegins
    <2>3. before'[j].uploads <= vol'[Uploads]
      BY <1>0, <2>2, Reflexive
    <2>. QED BY <2>2, <2>3
  <1>. QED BY <1>3, <1>4, <1>5, LoneMoves

(* LoneRestore is inductive: extract takes a service off the list and fills   *)
(* its volume in one step, and only a running container writes to it again.   *)
LEMMA ExtractStep ==
  TypeOK /\ MadeFirst /\ Alone /\ LoneRestore /\ [Next]_vars => LoneRestore'
  <1>. SUFFICES ASSUME TypeOK, MadeFirst, Alone, LoneRestore, [Next]_vars, NEW j \in Jobs, NEW s \in Services,
                       lone'[j], pc'[j] = "extract"
       PROVE  \/ s \in todo'[j] \/ snap'[from'[j]].tar[s] = Absent
              \/ vol'[<<"bare", s>>] = Absent \/ run'[<<"bare", s>>] = "running"
              \/ vol'[<<"bare", s>>] = snap'[from'[j]].tar[s]
    BY DEF LoneRestore
  <1>1. Undisturbed(j)'
    BY DEF Undisturbed, UnderWay, Ended
  <1>2. ASSUME NEW c \in Asked, Begin(j, c) PROVE FALSE
    BY <1>2, BeginEntry DEF Entry, Commands, Regenerate
  <1>3. /\ <<"bare", s>> \in Keys /\ from[j] \in Snapshots /\ todo[j] \subseteq Services
        /\ vol \in [Keys -> Content]
    BY ContentFacts DEF TypeOK
  <1>4. ASSUME Undisturbed(j), World
        PROVE  \/ s \in todo'[j] \/ snap'[from'[j]].tar[s] = Absent
               \/ vol'[<<"bare", s>>] = Absent \/ run'[<<"bare", s>>] = "running"
               \/ vol'[<<"bare", s>>] = snap'[from'[j]].tar[s]
    <2>1. UNCHANGED <<run, snap, pc, from, todo>>
      BY <1>4, WorldMoves
    <2>2. vol'[<<"bare", s>>] = vol[<<"bare", s>>] \/ run[<<"bare", s>>] = "running"
      BY <1>3, <1>4, WorldMoves
    <2>. QED BY <1>4, <2>1, <2>2 DEF LoneRestore, Undisturbed
  <1>5. ASSUME Undisturbed(j), Step(j)
        PROVE  \/ s \in todo'[j] \/ snap'[from'[j]].tar[s] = Absent
               \/ vol'[<<"bare", s>>] = Absent \/ run'[<<"bare", s>>] = "running"
               \/ vol'[<<"bare", s>>] = snap'[from'[j]].tar[s]
    <2>1. Database(j) \/ Load(j) \/ Extract(j)
      BY <1>5 DEF TypeOK, Step, Deploy, Backup, Restore, Up, Stop, Down, Ps, Generate, WriteFile, Check, Pull,
         Dump, Archive, Archives, Prune, Halt, Drop, Extracted, Start, Goto
    <2>2. CASE Database(j) \/ Load(j)
      <3>1. snap' = snap /\ from' = from
        BY <2>2 DEF Database, Load
      <3>2. todo'[j] = {x \in Services : snap[from[j]].tar[x] # Absent}
        BY <2>2 DEF TypeOK, Database, Load, Goto
      <3>. QED BY <3>1, <3>2
    <2>3. CASE Extract(j)
      <3>1. UNCHANGED <<snap, from, run>> /\ pc[j] = "extract"
        BY <2>3 DEF Extract
      <3>2. PICK x \in todo[j] :
              /\ todo' = [todo EXCEPT ![j] = @ \ {x}]
              /\ \/ vol' = IF ~snap[from[j]].made \/ vol[<<"bare", x>>] = Absent THEN vol
                           ELSE [vol EXCEPT ![<<"bare", x>>] = snap[from[j]].tar[x]]
                 \/ pc' = [pc EXCEPT ![j] = "failed"]
        BY <2>3 DEF Extract, Goto
      <3>3. /\ todo'[j] = todo[j] \ {x} /\ x \in Services /\ <<"bare", x>> \in Keys
            /\ vol' = IF ~snap[from[j]].made \/ vol[<<"bare", x>>] = Absent THEN vol
                      ELSE [vol EXCEPT ![<<"bare", x>>] = snap[from[j]].tar[x]]
        BY <1>3, <3>2, ContentFacts DEF TypeOK
      <3>4. CASE x # s
        <4>1. vol'[<<"bare", s>>] = vol[<<"bare", s>>]
          BY <1>3, <3>3, <3>4
        <4>. QED BY <1>5, <3>1, <3>3, <3>4, <4>1 DEF LoneRestore, Undisturbed
      <3>5. CASE x = s
        <4>1. ~snap[from[j]].made => snap[from[j]].tar[s] = Absent
          BY <1>3 DEF MadeFirst
        <4>2. \/ ~snap[from[j]].made
              \/ vol[<<"bare", s>>] = Absent /\ vol' = vol
              \/ vol'[<<"bare", s>>] = snap[from[j]].tar[s]
          BY <1>3, <3>3, <3>5
        <4>. QED BY <3>1, <4>1, <4>2
      <3>. QED BY <3>4, <3>5
    <2>. QED BY <2>1, <2>2, <2>3
  <1>. QED BY <1>1, <1>2, <1>4, <1>5, LoneMoves

-----------------------------------------------------------------------------
(* The inductive invariant of the commands nobody overlaps.                *)
LoneInv == /\ IInv /\ Alone /\ MadeFirst /\ Sources /\ InUse
           /\ LoneUpdate /\ LoneBackup /\ LoneArchive /\ LoneRestore

LEMMA LoneStarts == Init => LoneInv
  <1>. SUFFICES ASSUME Init PROVE LoneInv
    OBVIOUS
  <1>1. \A j \in Jobs : pc[j] = "idle" /\ ~UnderWay(j)
    BY DEF Init, UnderWay, Ended
  <1>2. Alone /\ LoneUpdate /\ LoneBackup /\ LoneArchive /\ LoneRestore
    BY <1>1 DEF Alone, Undisturbed, LoneUpdate, LoneBackup, LoneArchive, LoneRestore
  <1>3. MadeFirst
    <2>1. \A i \in Snapshots : snap[i] = NoSnapshot \/ snap[i].made
      BY DEF Init
    <2>2. NoSnapshot.dump = Absent /\ \A s \in Services : NoSnapshot.tar[s] = Absent
      BY DEF NoSnapshot
    <2>. QED BY <1>1, <2>1, <2>2 DEF MadeFirst
  <1>4. Sources
    BY <1>1 DEF Sources
  <1>5. InUse
    BY DEF Init, InUse, Absent
  <1>. QED BY <1>2, <1>3, <1>4, <1>5, InitInv DEF LoneInv

LEMMA LoneStep == LoneInv /\ [Next]_vars => LoneInv'
  <1>. SUFFICES ASSUME LoneInv, [Next]_vars PROVE LoneInv'
    OBVIOUS
  <1>1. TypeOK /\ TypeOK' /\ IInv' /\ GenInv
    BY StepInv DEF LoneInv, IInv
  <1>2. SnapMoves
    BY <1>1, SnapStep DEF LoneInv
  <1>. QED BY <1>1, <1>2, AloneStep, MadeStep, SourcesStep, InUseStep, UpdateStep, BackupStep, ArchiveStep, ExtractStep
           DEF LoneInv

LEMMA LoneAlways == Spec => []LoneInv
  <1>. QED BY LoneStarts, LoneStep, PTL DEF Spec

(* An update (deploy.sh:52-53) that no other command overlaps and that succeeds*)
(* leaves a stopped stack stopped and takes down nothing the file defines and *)
(* that ran when it began, whatever commands ran before it.                *)
THEOREM UpdateKeeps == Spec => LoneUpdateKeepsRunState
  <1>1. ASSUME LoneInv, [Next]_vars
        PROVE  \A j \in Jobs : Finishes(j, "update") /\ lone[j] =>
                 /\ before[j].running = {} => Running' = {}
                 /\ before[j].running \cap file \subseteq Running'
    <2>. SUFFICES ASSUME NEW j \in Jobs, Finishes(j, "update"), lone[j]
                  PROVE  /\ before[j].running = {} => Running' = {}
                         /\ before[j].running \cap file \subseteq Running'
      OBVIOUS
    <2>1. cmd[j] = "update" /\ Undisturbed(j) /\ UnderWay(j) /\ pc'[j] = "ok" /\ pc'[j] # pc[j] /\ TypeOK
      BY <1>1 DEF Finishes, Undisturbed, UnderWay, Ended, LoneInv, IInv
    <2>2. Step(j)
      BY <1>1, <2>1, LoneFinish
    <2>3. /\ pc[j] \in {"check", "pull", "up"} /\ Running = before[j].running
          /\ pc[j] \in {"pull", "up"} /\ was[j] => Running # {}
          /\ pc[j] = "up" => was[j]
      BY <1>1, <2>1 DEF LoneInv, LoneUpdate
    <2>4. Check(j) \/ Pull(j) \/ Up(j)
      BY <2>2, <2>3 DEF Step, Deploy, Backup, Restore, Up, Stop, Down, Ps, Generate, WriteFile,
         Dump, Archive, Archives, Prune, Halt, Database, Drop, Load, Extract, Extracted, Start
    <2>5. CASE Check(j) \/ Pull(j)
      <3>1. run' = run
        BY <2>5 DEF Check, Pull, dockerVars
      <3>. QED BY <2>3, <3>1 DEF Running
    <2>6. CASE Up(j)
      <3>1. pc[j] = "up"
        BY <2>6 DEF Up
      <3>2. ComposeUp(TRUE) /\ file \subseteq Keys
        BY <2>1, <2>6 DEF Up, Goto, TypeOK
      <3>3. file \subseteq Running'
        BY <3>2 DEF ComposeUp, Running
      <3>. QED BY <2>3, <3>1, <3>3
    <2>. QED BY <2>4, <2>5, <2>6
  <1>. QED BY <1>1, LoneAlways, PTL DEF Spec, LoneUpdateKeepsRunState

(* A backup (backup.sh) that no other command overlaps and that succeeds holds*)
(* the database, and the volume it calls the uploads of a custom stack, as they*)
(* were at some moment of the run: though a failed compose exec leaves an empty*)
(* dump behind, it is never what a successful backup has.                  *)
THEOREM BackupHolds == Spec => LoneBackupIsCurrent
  <1>1. ASSUME LoneInv, [Next]_vars
        PROVE  \A j \in Jobs :
                 lone[j] =>
                   /\ (Finishes(j, "backup") \/ Finishes(j, "backup db")) /\ dumps =>
                        snap'[j].dump \in before[j].rows .. vol[Dumped] \ {Absent}
                   /\ (Finishes(j, "backup") \/ Finishes(j, "backup files")) /\ type = "custom" =>
                        snap'[j].tar[App] \in before[j].uploads .. vol[Uploads] \ {Absent}
    <2>. SUFFICES ASSUME NEW j \in Jobs, lone[j], UnderWay(j), pc'[j] = "ok",
                         cmd[j] \in {"backup", "backup db", "backup files"}
                  PROVE  /\ cmd[j] \in {"backup", "backup db"} /\ dumps =>
                              snap'[j].dump \in before[j].rows .. vol[Dumped] \ {Absent}
                         /\ cmd[j] \in {"backup", "backup files"} /\ type = "custom" =>
                              snap'[j].tar[App] \in before[j].uploads .. vol[Uploads] \ {Absent}
      BY DEF Finishes
    <2>1. Undisturbed(j) /\ pc'[j] # pc[j] /\ TypeOK /\ TypeOK' /\ GenInv /\ InUse
      BY <1>1, StepInv DEF Undisturbed, UnderWay, Ended, LoneInv, IInv
    <2>2. Step(j)
      BY <1>1, <2>1, LoneFinish
    <2>3. /\ pc[j] \in {"dump", "archive", "prune"}
          /\ cmd[j] \in {"backup", "backup db"} =>
               /\ cmd[j] = "backup db" => pc[j] = "dump"
               /\ before[j].rows <= vol[Dumped]
               /\ pc[j] # "dump" /\ dumps => snap[j].dump \in before[j].rows .. vol[Dumped] \ {Absent}
          /\ cmd[j] \in {"backup", "backup files"} =>
               /\ cmd[j] = "backup files" => pc[j] = "archive"
               /\ type = "custom" =>
                    \/ App \in todo[j]
                    \/ snap[j].tar[App] \in before[j].uploads .. vol[Uploads] \ {Absent}
               /\ pc[j] = "prune" => todo[j] = {}
      BY <1>1, <2>1 DEF LoneInv, LoneBackup, LoneArchive
    <2>4. Backup(j)
      BY <2>2, <2>3 DEF Step, Deploy, Restore, Up, Stop, Down, Ps, Generate, WriteFile, Check, Pull,
         Halt, Database, Drop, Load, Extract, Extracted, Start
    <2>5. /\ j \in Snapshots /\ j # Earlier /\ snap \in [Snapshots -> Directories]
          /\ Dumped \in Keys /\ vol[Dumped] \in Int /\ before[j].rows \in Int
          /\ snap[j] \in Directories
      BY <2>1, BackupNumbers, StackAssumption
    <2>6. CASE Dump(j)
      <3>1. cmd[j] = "backup db"
        BY <2>1, <2>6 DEF Dump, Goto, TypeOK
      <3>2. dumps => CanExec(Dumped) /\ snap' = [snap EXCEPT ![j].dump = vol[Dumped]]
        BY <2>1, <2>6 DEF Dump, Goto, TypeOK
      <3>3. CanExec(Dumped) => vol[Dumped] # Absent
        BY <2>1, <2>5 DEF CanExec, InUse
      <3>4. dumps => snap'[j] = [snap[j] EXCEPT !.dump = vol[Dumped]]
        BY <2>5, <3>2
      <3>5. dumps => snap'[j].dump = vol[Dumped]
        BY <2>5, <3>4 DEF Directories
      <3>6. before[j].rows <= vol[Dumped]
        BY <2>3, <3>1
      <3>7. dumps => snap'[j].dump \in before[j].rows .. vol[Dumped] \ {Absent}
        BY <2>5, <3>2, <3>3, <3>5, <3>6, EndsIn
      <3>. QED BY <3>1, <3>7
    <2>7. CASE Archive(j)
      <3>1. pc'[j] \in {pc[j], "failed"}
        BY <2>1, <2>7 DEF Archive, Goto, TypeOK
      <3>. QED BY <2>1, <3>1
    <2>8. CASE Archives(j)
      <3>1. todo[j] = {} /\ snap' = snap /\ pc[j] = "archive" /\ cmd[j] # "backup"
        BY <2>1, <2>8 DEF Archives, Goto, TypeOK
      <3>. QED BY <2>3, <3>1
    <2>9. CASE Prune(j)
      <3>1. pc[j] = "prune" /\ snap'[j] = snap[j]
        BY <2>5, <2>9 DEF Prune
      <3>. QED BY <2>3, <3>1
    <2>. QED BY <2>4, <2>6, <2>7, <2>8, <2>9 DEF Backup
  <1>. QED BY <1>1, LoneAlways, PTL DEF Spec, LoneBackupIsCurrent

(* When a restore (restore.sh) that no other command overlaps has gone through*)
(* its archives, every volume it has an archive for, that exists and that nobody*)
(* writes to holds what was archived.                                      *)
THEOREM RestoreHolds == Spec => RestoredVolumesMatch
  <1>1. ASSUME LoneInv
        PROVE  \A j \in Jobs, s \in Services :
                 LET k == <<"bare", s>> IN
                   /\ pc[j] = "extract" /\ todo[j] = {} /\ pc'[j] # pc[j] /\ lone[j]
                   /\ snap[from[j]].tar[s] # Absent
                   /\ vol[k] # Absent /\ run[k] # "running"
                   => vol[k] = snap[from[j]].tar[s]
    BY <1>1 DEF LoneInv, LoneRestore
  <1>. QED BY <1>1, LoneAlways, PTL DEF Spec, RestoredVolumesMatch
=============================================================================
