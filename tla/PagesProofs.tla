----------------------------- MODULE PagesProofs -----------------------------
(***************************************************************************)
(* What holds on the pages for whatever is filled in and whatever there is *)
(* to be ticked, edited or saved: the wizard's payload, the names a purge  *)
(* sends, what the editor of config.json and the settings write, and the   *)
(* type invariant of all of them.  The service cards have a module of      *)
(* their own, CardsProofs.                                                 *)
(***************************************************************************)
EXTENDS CardsProofs

(* What Continue has seen of the form, said of every step behind the one shown: *)
(* each conjunct holds because no way back over a step leads round its check.   *)
StepsBehind ==
    /\ step \in 0..7
    /\ data \in W!Forms
    /\ step >= 2 => data.name /\ data.registry
    /\ step >= 3 => /\ data.stackType = "prebuilt" => data.template
                    /\ data.stackType = "image" => data.services
    /\ step >= 4 => data.envs
    /\ step >= 5 => data.volumes

(* Every name the page keeps is one the list once held. *)
NamesKnown ==
    /\ post \in [sent : BOOLEAN, names : SUBSET Things]
    /\ offered \subseteq Things
    /\ shown \subseteq offered
    /\ ticked \subseteq offered
    /\ post.names \subseteq offered

-----------------------------------------------------------------------------
LEMMA WizardStarts == W!Init \/ W!Unused => StepsBehind
<1>1. W!DEFAULT_DATA \in W!Forms
  BY Zenon DEF W!DEFAULT_DATA, W!Forms, W!Kinds
<1>2. W!Init \/ W!Unused => step \in {0, 1} /\ data = W!DEFAULT_DATA
  BY DEF W!Init, W!Unused
<1>3. QED
  BY <1>1, <1>2 DEF StepsBehind

(* A step that touches neither the form nor the place in it. *)
LEMMA WizardStays == StepsBehind /\ UNCHANGED <<step, data>> => StepsBehind'
BY DEF StepsBehind

LEMMA WizardKeeps == StepsBehind /\ W!Next => StepsBehind'
<1> SUFFICES ASSUME StepsBehind, W!Next PROVE StepsBehind'
  OBVIOUS
<1>1. CASE W!EditProject
  <2>1. PICK n \in BOOLEAN, r \in BOOLEAN : data' = [data EXCEPT !.name = n, !.registry = r]
    BY <1>1, Zenon DEF W!EditProject, W!Enter
  <2>2. step = 1 /\ step' = step
    BY <1>1 DEF W!EditProject, W!Enter
  <2>3. data' \in W!Forms
    BY <2>1 DEF StepsBehind, W!Forms
  <2>4. QED
    BY <2>2, <2>3 DEF StepsBehind
<1>2. CASE \E k \in W!Kinds : W!ChooseType(k)
  BY <1>2 DEF W!ChooseType, W!Enter, StepsBehind, W!Forms
<1>3. CASE W!PickTemplate
  BY <1>3 DEF W!PickTemplate, StepsBehind, W!Forms
<1>4. CASE W!DetailsArrive
  BY <1>4 DEF W!DetailsArrive, StepsBehind, W!Forms
<1>5. CASE W!EditServices \/ W!EditEnvironments \/ W!EditVolumes
  BY <1>5 DEF W!EditServices, W!EditEnvironments, W!EditVolumes, W!Enter, StepsBehind, W!Forms
<1>6. CASE W!Continue
  BY <1>6 DEF W!Continue, W!validate, StepsBehind, W!Forms
<1>7. CASE W!Back
  BY <1>7 DEF W!Back, StepsBehind
<1>8. CASE W!Create
  BY <1>8 DEF W!Create, W!validate, StepsBehind
<1>9. CASE W!Leave
  BY <1>9 DEF W!Leave, W!DEFAULT_DATA, StepsBehind, W!Forms, W!Kinds
<1>10. CASE \/ W!Refuse \/ W!Check \/ W!WriteConfig \/ W!WriteFails \/ W!Bootstrap
            \/ W!Ready \/ W!Lost \/ W!CloseArrives \/ W!Others
  <2>1. UNCHANGED <<step, data>>
    BY <1>10 DEF W!Refuse, W!Check, W!WriteConfig, W!WriteFails, W!Bootstrap,
                 W!Ready, W!Lost, W!CloseArrives, W!Others, W!Serve
  <2>2. QED
    BY <2>1, WizardStays
<1>11. QED
  BY <1>1, <1>2, <1>3, <1>4, <1>5, <1>6, <1>7, <1>8, <1>9, <1>10 DEF W!Next

(* PayloadComplete: what the wizard sends is complete, whichever way the user *)
(* took through its steps (validate, Continue and Back in NewWorkspacePage).  *)
THEOREM SentComplete == Spec => []PayloadComplete
<1>1. Init => StepsBehind
  BY WizardStarts DEF Init
<1>2. StepsBehind /\ [Next]_vars => StepsBehind'
  <2> SUFFICES ASSUME StepsBehind, [Next]_vars PROVE StepsBehind'
    OBVIOUS
  <2>1. CASE W!Next
    BY <2>1, WizardKeeps
  <2>2. CASE UNCHANGED wizard
    BY <2>2, WizardStays DEF wizard
  <2>3. QED
    BY <2>1, <2>2 DEF Next, vars
<1>3. StepsBehind => PayloadComplete
  BY DEF StepsBehind, PayloadComplete, W!PayloadComplete
<1>4. QED
  BY <1>1, <1>2, <1>3, PTL DEF Spec

-----------------------------------------------------------------------------
LEMMA SafetyStarts == H!Init \/ H!Unused => NamesKnown
<1>1. H!NoPost \in [sent : BOOLEAN, names : SUBSET Things] /\ H!NoPost.names = {}
  BY DEF H!NoPost
<1>2. H!Init \/ H!Unused => shown = {} /\ offered = {} /\ ticked = {} /\ post = H!NoPost
  BY DEF H!Init, H!Unused, H!Folded
<1>3. QED
  BY <1>1, <1>2 DEF NamesKnown

LEMMA SelectedIsTicked == H!Selected \subseteq ticked
BY DEF H!Selected

(* A request is made of what is selected. *)
LEMMA SendKeeps == NamesKnown /\ H!Send => NamesKnown'
BY SelectedIsTicked DEF NamesKnown, H!Send

(* What changes neither the lists nor the request. *)
LEMMA SafetyStays == NamesKnown /\ UNCHANGED <<post, shown, ticked, offered>> => NamesKnown'
BY DEF NamesKnown

LEMMA SafetyKeeps == NamesKnown /\ H!Next => NamesKnown'
<1> SUFFICES ASSUME NamesKnown, H!Next PROVE NamesKnown'
  OBVIOUS
<1>1. CASE H!PurgeImages \/ H!PurgeContainers \/ H!ConfirmKernels \/ H!HoldEnds
  BY <1>1, SendKeeps DEF H!PurgeImages, H!PurgeContainers, H!ConfirmKernels, H!HoldEnds
<1>2. CASE H!Refetch
  BY <1>2 DEF H!Refetch, H!Show, H!Listed, NamesKnown
<1>3. CASE H!Tick
  <2>1. UNCHANGED <<post, shown, offered>>
    BY <1>3 DEF H!Tick
  <2>2. ticked' \subseteq offered
    BY <1>3 DEF H!Tick, NamesKnown
  <2>3. QED
    BY <2>1, <2>2 DEF NamesKnown
<1>4. CASE H!Purge
  <2>1. post' = H!NoPost /\ UNCHANGED ticked
    BY <1>4 DEF H!Purge
  <2>2. \/ UNCHANGED <<shown, offered>>
        \/ shown' \subseteq Things /\ offered' = offered \union shown'
    BY <1>4 DEF H!Purge, H!Show, H!Listed
  <2>3. post'.names = {} /\ post' \in [sent : BOOLEAN, names : SUBSET Things]
    BY <2>1 DEF H!NoPost
  <2>4. QED
    BY <2>1, <2>2, <2>3 DEF NamesKnown
<1>5. CASE H!PurgeFails
  BY <1>5 DEF H!PurgeFails, H!NoPost, NamesKnown
<1>6. CASE \/ H!Unfold \/ H!TypeWord \/ H!AskKernels \/ H!CancelKernels
           \/ H!startHold \/ H!stopHold
           \/ \E x \in Things, s \in H!States : H!Others(x, s)
  <2>1. UNCHANGED <<post, shown, ticked, offered>>
    BY <1>6 DEF H!Unfold, H!TypeWord, H!AskKernels, H!CancelKernels, H!Choose,
                H!startHold, H!stopHold, H!Others
  <2>2. QED
    BY <2>1, SafetyStays
<1>7. QED
  BY <1>1, <1>2, <1>3, <1>4, <1>5, <1>6 DEF H!Next

(* What a purge of named things takes is among the names. *)
LEMMA TakenIsNamed ==
  ASSUME NEW t \in H!Taken, section # "containers", post.names # {}
  PROVE  t \subseteq post.names
<1>1. CASE section = "images"
  BY <1>1 DEF H!Taken
<1>2. CASE section = "volumes"
  BY <1>2 DEF H!Taken
<1>3. CASE section \notin {"images", "volumes"}
  BY <1>3 DEF H!Taken
<1>4. QED
  BY <1>1, <1>2, <1>3

(* NamesWereOffered: a purge that names things takes none but those the user    *)
(* was shown, for any set of things and any order of lists, ticks and timers    *)
(* (the sections of HousekeepingPage and the handlers behind them).             *)
THEOREM TakenWereOffered == Spec => NamesWereOffered
<1>1. Init => NamesKnown
  BY SafetyStarts DEF Init
<1>2. NamesKnown /\ [Next]_vars => NamesKnown'
  <2> SUFFICES ASSUME NamesKnown, [Next]_vars PROVE NamesKnown'
    OBVIOUS
  <2>1. CASE H!Next
    BY <2>1, SafetyKeeps
  <2>2. CASE UNCHANGED safety
    BY <2>2, SafetyStays DEF safety
  <2>3. QED
    BY <2>1, <2>2 DEF Next, vars
<1>3. ASSUME NamesKnown
      PROVE  \A x \in Things :
                H!Purge /\ section # "containers" /\ post.names # {} /\ real[x] # "gone" /\ real'[x] = "gone"
                   => x \in post.names \intersect offered
  <2> SUFFICES ASSUME NEW x \in Things, H!Purge, section # "containers", post.names # {},
                      real[x] # "gone", real'[x] = "gone"
               PROVE  x \in post.names \intersect offered
    OBVIOUS
  <2>1. PICK t \in H!Taken : real' = [y \in Things |-> IF y \in t THEN "gone" ELSE real[y]]
    BY Zenon DEF H!Purge
  <2>2. x \in t
    BY <2>1
  <2>3. t \subseteq post.names
    BY TakenIsNamed
  <2>4. QED
    BY <1>3, <2>2, <2>3 DEF NamesKnown
<1>4. QED
  BY <1>1, <1>2, <1>3, PTL DEF Spec, NamesWereOffered, H!NamesWereOffered

-----------------------------------------------------------------------------
(* The editor: an object with the user's edits over it, and without what the user *)
(* has removed.                                                                   *)
Ed(e, t) == LET f == E!Spread(e, t) IN E!Restrict(f, {n \in DOMAIN f : f[n] # "gone"})

IsFcn(f) == f = [n \in DOMAIN f |-> f[n]]

FormLike(f) == /\ IsFcn(f)
               /\ E!Fixed \subseteq DOMAIN f /\ DOMAIN f \subseteq EnvNames \union E!Fixed
               /\ \E e \in EnvNames : e \in DOMAIN f
               /\ \A n \in DOMAIN f : f[n] \in Settings
LEMMA EdShape ==
  ASSUME NEW e, NEW t
  PROVE  /\ IsFcn(Ed(e, t))
         /\ DOMAIN Ed(e, t) = {n \in DOMAIN e \union DOMAIN t : n \in DOMAIN t => t[n] # "gone"}
                                 \ {n \in DOMAIN e \ DOMAIN t : e[n] = "gone"}
         /\ \A n \in DOMAIN Ed(e, t) : Ed(e, t)[n] = IF n \in DOMAIN t THEN t[n] ELSE e[n]
BY DEF Ed, IsFcn, E!Spread, E!Restrict

LEMMA SameFcn ==
  ASSUME NEW f, NEW g, IsFcn(f), IsFcn(g), DOMAIN f = DOMAIN g, \A n \in DOMAIN f : f[n] = g[n]
  PROVE  f = g
BY DEF IsFcn

LEMMA SpreadShape ==
  ASSUME NEW f, NEW g
  PROVE  /\ IsFcn(E!Spread(f, g))
         /\ DOMAIN E!Spread(f, g) = DOMAIN f \union DOMAIN g
         /\ \A n \in DOMAIN f \union DOMAIN g :
               E!Spread(f, g)[n] = IF n \in DOMAIN g THEN g[n] ELSE f[n]
BY DEF E!Spread, IsFcn

LEMMA OnlyShape ==
  ASSUME NEW n, NEW s
  PROVE  DOMAIN E!Only(n, s) = {n} /\ E!Only(n, s)[n] = s /\ IsFcn(E!Only(n, s))
BY DEF E!Only, IsFcn

LEMMA WithoutShape ==
  ASSUME NEW f, NEW n
  PROVE  /\ IsFcn(E!Without(f, n))
         /\ DOMAIN E!Without(f, n) = DOMAIN f \ {n}
         /\ \A m \in DOMAIN f \ {n} : E!Without(f, n)[m] = f[m]
BY DEF E!Without, E!Restrict, IsFcn

LEMMA FormsAre == ASSUME NEW f PROVE f \in E!Forms <=> FormLike(f)
<1>1. ASSUME f \in E!Forms PROVE FormLike(f)
  <2>1. PICK D \in SUBSET EnvNames : D # {} /\ f \in [D \union E!Fixed -> Settings]
    BY <1>1 DEF E!Forms
  <2>2. DOMAIN f = D \union E!Fixed /\ IsFcn(f) /\ \A n \in DOMAIN f : f[n] \in Settings
    BY <2>1 DEF IsFcn
  <2>3. \E e \in EnvNames : e \in D
    BY <2>1
  <2>4. QED
    BY <2>1, <2>2, <2>3 DEF FormLike
<1>2. ASSUME FormLike(f) PROVE f \in E!Forms
  <2> DEFINE D == DOMAIN f \intersect EnvNames
  <2>1. D \in (SUBSET EnvNames) \ {{}} /\ DOMAIN f = D \union E!Fixed
    BY <1>2 DEF FormLike
  <2>2. f \in [DOMAIN f -> Settings]
    BY <1>2 DEF FormLike, IsFcn
  <2>3. f \in [D \union E!Fixed -> Settings]
    BY <2>1, <2>2
  <2> HIDE DEF D
  <2>4. QED
    BY <2>1, <2>3 DEF E!Forms
<1>3. QED
  BY <1>1, <1>2, Zenon

LEMMA EditsAre ==
  ASSUME NEW f
  PROVE  f \in E!Edits <=> /\ IsFcn(f) /\ DOMAIN f \subseteq EnvNames \union E!Fixed
                         /\ \A n \in DOMAIN f : f[n] \in Settings \union {"gone"}
<1>1. ASSUME f \in E!Edits
      PROVE  /\ IsFcn(f) /\ DOMAIN f \subseteq EnvNames \union E!Fixed
             /\ \A n \in DOMAIN f : f[n] \in Settings \union {"gone"}
  <2>1. PICK D \in SUBSET (EnvNames \union E!Fixed) : f \in [D -> Settings \union {"gone"}]
    BY <1>1 DEF E!Edits
  <2>2. QED
    BY <2>1 DEF IsFcn
<1>2. ASSUME IsFcn(f), DOMAIN f \subseteq EnvNames \union E!Fixed, \A n \in DOMAIN f : f[n] \in Settings \union {"gone"}
      PROVE  f \in E!Edits
  <2>1. DOMAIN f \in SUBSET (EnvNames \union E!Fixed) /\ f \in [DOMAIN f -> Settings \union {"gone"}]
    BY <1>2 DEF IsFcn
  <2>2. QED
    BY <2>1 DEF E!Edits
<1>3. QED
  BY <1>1, <1>2

LEMMA NothingGone ==
  ASSUME NEW f \in E!Forms
  PROVE  \A n \in DOMAIN f : f[n] # "gone"
BY FormsAre, PagesAssumption DEF FormLike

(* E!Edits made after edits are the two together; edits made again are as before. *)
LEMMA EdTwice ==
  ASSUME NEW e, NEW t, NEW u
  PROVE  Ed(Ed(e, t), u) = Ed(e, E!Spread(t, u))
<1> DEFINE b == Ed(e, t)  c == E!Spread(t, u)  l == Ed(b, u)  r == Ed(e, c)
<1>1. /\ DOMAIN c = DOMAIN t \union DOMAIN u
      /\ \A n \in DOMAIN t \union DOMAIN u : c[n] = IF n \in DOMAIN u THEN u[n] ELSE t[n]
  BY SpreadShape
<1>2. /\ DOMAIN b = {n \in DOMAIN e \union DOMAIN t : n \in DOMAIN t => t[n] # "gone"}
                       \ {n \in DOMAIN e \ DOMAIN t : e[n] = "gone"}
      /\ \A n \in DOMAIN b : b[n] = IF n \in DOMAIN t THEN t[n] ELSE e[n]
  BY EdShape
<1>3. /\ IsFcn(l)
      /\ DOMAIN l = {n \in DOMAIN b \union DOMAIN u : n \in DOMAIN u => u[n] # "gone"}
                       \ {n \in DOMAIN b \ DOMAIN u : b[n] = "gone"}
      /\ \A n \in DOMAIN l : l[n] = IF n \in DOMAIN u THEN u[n] ELSE b[n]
  BY EdShape
<1>4. /\ IsFcn(r)
      /\ DOMAIN r = {n \in DOMAIN e \union DOMAIN c : n \in DOMAIN c => c[n] # "gone"}
                       \ {n \in DOMAIN e \ DOMAIN c : e[n] = "gone"}
      /\ \A n \in DOMAIN r : r[n] = IF n \in DOMAIN c THEN c[n] ELSE e[n]
  BY EdShape
<1> HIDE DEF b, c, l, r
<1>5. DOMAIN l = DOMAIN r
  <2>1. ASSUME NEW n PROVE n \in DOMAIN l <=> n \in DOMAIN r
    BY <1>1, <1>2, <1>3, <1>4
  <2>2. DOMAIN l \subseteq DOMAIN r /\ DOMAIN r \subseteq DOMAIN l
    BY <2>1
  <2>3. QED
    BY <2>2
<1>6. ASSUME NEW n \in DOMAIN l PROVE l[n] = r[n]
  BY <1>1, <1>2, <1>3, <1>4, <1>5
<1>7. l = r
  BY <1>3, <1>4, <1>5, <1>6, SameFcn
<1>8. QED
  BY <1>7 DEF l, r, b, c

-----------------------------------------------------------------------------
(* Each thing the user can do to the form is an edit of it. *)
LEMMA Rewritten ==
  ASSUME NEW f \in E!Forms, NEW e \in DOMAIN f, NEW s \in Settings
  PROVE  [f EXCEPT ![e] = s] = Ed(f, E!Only(e, s)) /\ [f EXCEPT ![e] = s] \in E!Forms
<1> DEFINE g == [f EXCEPT ![e] = s]  r == Ed(f, E!Only(e, s))
<1>1. FormLike(f)
  BY FormsAre
<1>2. /\ IsFcn(g) /\ DOMAIN g = DOMAIN f
      /\ \A n \in DOMAIN f : g[n] = IF n = e THEN s ELSE f[n]
  BY <1>1 DEF FormLike, IsFcn
<1>3. /\ IsFcn(r)
      /\ DOMAIN r = {n \in DOMAIN f \union {e} : n \in {e} => E!Only(e, s)[n] # "gone"}
                       \ {n \in DOMAIN f \ {e} : f[n] = "gone"}
      /\ \A n \in DOMAIN r : r[n] = IF n \in {e} THEN E!Only(e, s)[n] ELSE f[n]
  <2>1. DOMAIN E!Only(e, s) = {e}
    BY OnlyShape
  <2>2. QED
    BY <2>1, EdShape
<1>4. E!Only(e, s)[e] = s /\ s # "gone" /\ \A n \in DOMAIN f : f[n] # "gone"
  BY OnlyShape, PagesAssumption, NothingGone
<1> HIDE DEF g, r
<1>5. DOMAIN r = DOMAIN f
  BY <1>3, <1>4
<1>6. g = r
  BY <1>2, <1>3, <1>4, <1>5, SameFcn
<1>7. g \in E!Forms
  BY <1>1, <1>2, FormsAre DEF FormLike
<1>8. QED
  BY <1>6, <1>7 DEF g, r

LEMMA Removed ==
  ASSUME NEW f \in E!Forms, NEW e \in DOMAIN f
  PROVE  E!Without(f, e) = Ed(f, E!Only(e, "gone"))
<1> DEFINE g == E!Without(f, e)  r == Ed(f, E!Only(e, "gone"))
<1>1. /\ IsFcn(g) /\ DOMAIN g = DOMAIN f \ {e}
      /\ \A n \in DOMAIN g : g[n] = f[n]
  BY WithoutShape
<1>2. DOMAIN E!Only(e, "gone") = {e} /\ E!Only(e, "gone")[e] = "gone" /\ \A n \in DOMAIN f : f[n] # "gone"
  BY OnlyShape, NothingGone
<1>3. /\ IsFcn(r)
      /\ DOMAIN r = {n \in DOMAIN f \union {e} : n \in {e} => E!Only(e, "gone")[n] # "gone"}
                       \ {n \in DOMAIN f \ {e} : f[n] = "gone"}
      /\ \A n \in DOMAIN r : r[n] = IF n \in {e} THEN E!Only(e, "gone")[n] ELSE f[n]
  BY <1>2, EdShape
<1> HIDE DEF g, r
<1>4. DOMAIN r = DOMAIN g
  BY <1>1, <1>2, <1>3
<1>5. g = r
  BY <1>1, <1>2, <1>3, <1>4, SameFcn
<1>6. QED
  BY <1>5 DEF g, r

LEMMA WithoutIsForm ==
  ASSUME NEW f \in E!Forms, NEW e \in EnvNames, DOMAIN f # {e} \union E!Fixed
  PROVE  E!Without(f, e) \in E!Forms
<1> DEFINE g == E!Without(f, e)
<1>1. /\ IsFcn(g) /\ DOMAIN g = DOMAIN f \ {e}
      /\ \A n \in DOMAIN g : g[n] = f[n]
  BY WithoutShape
<1>2. FormLike(f)
  BY FormsAre
<1> HIDE DEF g
<1>3. e \notin E!Fixed
  BY PagesAssumption DEF E!Fixed
<1>4. g \in E!Forms
  <2>1. E!Fixed \subseteq DOMAIN g /\ DOMAIN g \subseteq EnvNames \union E!Fixed
    BY <1>1, <1>2, <1>3 DEF FormLike
  <2>2. \E m \in EnvNames : m \in DOMAIN g
    <3>1. CASE e \notin DOMAIN f
      BY <1>1, <1>2, <3>1 DEF FormLike
    <3>2. CASE e \in DOMAIN f
      <4>1. PICK m \in DOMAIN f : m \notin {e} \union E!Fixed
        BY <1>2, <3>2 DEF FormLike
      <4>2. QED
        BY <1>1, <1>2, <4>1 DEF FormLike
    <3>3. QED
      BY <3>1, <3>2
  <2>3. \A n \in DOMAIN g : g[n] \in Settings
    BY <1>1, <1>2 DEF FormLike
  <2>4. QED
    BY <1>1, <2>1, <2>2, <2>3, FormsAre DEF FormLike
<1>5. QED
  BY <1>4 DEF g

LEMMA Added ==
  ASSUME NEW f \in E!Forms, NEW n \in EnvNames \union E!Fixed, NEW s \in Settings
  PROVE  /\ E!Spread(f, E!Only(n, s)) = Ed(f, E!Only(n, s))
         /\ E!Spread(f, E!Only(n, s)) \in E!Forms
<1> DEFINE o == E!Only(n, s)  g == E!Spread(f, o)  r == Ed(f, o)
<1>1. FormLike(f)
  BY FormsAre
<1>2. DOMAIN o = {n} /\ o[n] = s /\ s # "gone" /\ \A m \in DOMAIN f : f[m] # "gone"
  BY OnlyShape, NothingGone, PagesAssumption
<1>3. /\ IsFcn(g) /\ DOMAIN g = DOMAIN f \union DOMAIN o
      /\ \A m \in DOMAIN f \union DOMAIN o : g[m] = IF m \in DOMAIN o THEN o[m] ELSE f[m]
  BY SpreadShape
<1>4. /\ IsFcn(r)
      /\ DOMAIN r = {m \in DOMAIN f \union DOMAIN o : m \in DOMAIN o => o[m] # "gone"}
                       \ {m \in DOMAIN f \ DOMAIN o : f[m] = "gone"}
      /\ \A m \in DOMAIN r : r[m] = IF m \in DOMAIN o THEN o[m] ELSE f[m]
  BY EdShape
<1> HIDE DEF o, g, r
<1>5. DOMAIN r = DOMAIN g
  BY <1>2, <1>3, <1>4
<1>6. g = r
  BY <1>3, <1>4, <1>5, SameFcn
<1>7. g \in E!Forms
  BY <1>1, <1>2, <1>3, FormsAre DEF FormLike
<1>8. QED
  BY <1>6, <1>7 DEF o, g, r

(* A renaming is a removal and then an addition. *)
LEMMA Renamed ==
  ASSUME NEW f \in E!Forms, NEW e \in DOMAIN f \intersect EnvNames, NEW n \in EnvNames, n # e, NEW s \in Settings
  PROVE  /\ E!Spread(E!Without(f, e), E!Only(n, s)) = Ed(f, E!Spread(E!Only(e, "gone"), E!Only(n, s)))
         /\ E!Spread(E!Without(f, e), E!Only(n, s)) \in E!Forms
<1> DEFINE w == E!Without(f, e)  o == E!Only(n, s)  g == E!Spread(w, o)
           x == E!Only(e, "gone")  r == Ed(w, o)
<1>1. FormLike(f)
  BY FormsAre
<1>2. DOMAIN o = {n} /\ o[n] = s /\ s # "gone" /\ \A m \in DOMAIN f : f[m] # "gone"
  BY OnlyShape, NothingGone, PagesAssumption
<1>3. /\ IsFcn(w) /\ DOMAIN w = DOMAIN f \ {e}
      /\ \A m \in DOMAIN f \ {e} : w[m] = f[m]
  BY WithoutShape
<1>4. /\ IsFcn(g) /\ DOMAIN g = DOMAIN w \union DOMAIN o
      /\ \A m \in DOMAIN w \union DOMAIN o : g[m] = IF m \in DOMAIN o THEN o[m] ELSE w[m]
  BY SpreadShape
<1>5. /\ IsFcn(r)
      /\ DOMAIN r = {m \in DOMAIN w \union DOMAIN o : m \in DOMAIN o => o[m] # "gone"}
                       \ {m \in DOMAIN w \ DOMAIN o : w[m] = "gone"}
      /\ \A m \in DOMAIN r : r[m] = IF m \in DOMAIN o THEN o[m] ELSE w[m]
  BY EdShape
<1>6. r = Ed(f, E!Spread(x, o))
  BY Removed, EdTwice
<1> HIDE DEF w, o, g, x, r
<1>7. DOMAIN r = DOMAIN g
  BY <1>2, <1>3, <1>4, <1>5
<1>8. g = r
  BY <1>4, <1>5, <1>7, SameFcn
<1>9. e \notin E!Fixed
  BY PagesAssumption DEF E!Fixed
<1>10. g \in E!Forms
  BY <1>1, <1>2, <1>3, <1>4, <1>9, FormsAre DEF FormLike
<1>11. QED
  BY <1>6, <1>8, <1>10 DEF w, o, g, x

LEMMA OnlyIsEdit ==
  ASSUME NEW n \in EnvNames \union E!Fixed, NEW s \in Settings \union {"gone"}
  PROVE  E!Only(n, s) \in E!Edits
<1>1. DOMAIN E!Only(n, s) = {n} /\ E!Only(n, s)[n] = s /\ IsFcn(E!Only(n, s))
  BY OnlyShape
<1>2. QED
  BY <1>1, EditsAre

LEMMA SpreadIsEdit ==
  ASSUME NEW t \in E!Edits, NEW u \in E!Edits
  PROVE  E!Spread(t, u) \in E!Edits
<1> DEFINE g == E!Spread(t, u)
<1>1. /\ IsFcn(g) /\ DOMAIN g = DOMAIN t \union DOMAIN u
      /\ \A m \in DOMAIN t \union DOMAIN u : g[m] = IF m \in DOMAIN u THEN u[m] ELSE t[m]
  BY SpreadShape
<1>2. /\ DOMAIN t \subseteq EnvNames \union E!Fixed /\ \A n \in DOMAIN t : t[n] \in Settings \union {"gone"}
      /\ DOMAIN u \subseteq EnvNames \union E!Fixed /\ \A n \in DOMAIN u : u[n] \in Settings \union {"gone"}
  BY EditsAre
<1> HIDE DEF g
<1>3. DOMAIN g \subseteq EnvNames \union E!Fixed /\ \A n \in DOMAIN g : g[n] \in Settings \union {"gone"}
  BY <1>1, <1>2
<1>4. g \in E!Edits
  BY <1>1, <1>3, EditsAre
<1>5. QED
  BY <1>4 DEF g

LEMMA NoEdits ==
  ASSUME NEW f \in E!Forms
  PROVE  <<>> \in E!Edits /\ Ed(f, <<>>) = f
<1>1. IsFcn(<<>>) /\ DOMAIN <<>> = {}
  BY DEF IsFcn
<1>2. <<>> \in E!Edits
  BY <1>1, EditsAre
<1>3. IsFcn(f) /\ \A n \in DOMAIN f : f[n] # "gone"
  BY FormsAre, NothingGone DEF FormLike
<1> DEFINE o == <<>>  r == Ed(f, o)
<1>4. /\ IsFcn(r)
      /\ DOMAIN r = {m \in DOMAIN f \union DOMAIN o : m \in DOMAIN o => o[m] # "gone"}
                       \ {m \in DOMAIN f \ DOMAIN o : f[m] = "gone"}
      /\ \A m \in DOMAIN r : r[m] = IF m \in DOMAIN o THEN o[m] ELSE f[m]
  BY EdShape
<1>5. DOMAIN o = {}
  BY <1>1
<1> HIDE DEF o, r
<1>6. DOMAIN r = DOMAIN f
  BY <1>3, <1>4, <1>5
<1>7. r = f
  BY <1>3, <1>4, <1>5, <1>6, SameFcn
<1>8. QED
  BY <1>2, <1>7 DEF r, o

-----------------------------------------------------------------------------
(* The form is the copy it was filled from with the user's edits made. *)
EditorInv == E!TypeOK /\ (at = "filled" => form = Ed(base.parts, typed))

LEMMA ConfigsAre ==
  /\ \A c : c \in E!Configs <=> c = [parts |-> c.parts, rest |-> c.rest] /\ c.parts \in E!Forms /\ c.rest \in BOOLEAN
  /\ E!None \notin E!Configs /\ E!None.rest \in BOOLEAN
<1>1. \A c : c \in E!Configs <=> c = [parts |-> c.parts, rest |-> c.rest] /\ c.parts \in E!Forms /\ c.rest \in BOOLEAN
  BY DEF E!Configs
<1>2. E!None.parts = <<>> /\ DOMAIN <<>> = {} /\ E!None.rest = FALSE
  BY DEF E!None
<1>3. E!None.parts \notin E!Forms
  BY <1>2, FormsAre DEF FormLike
<1>4. QED
  BY <1>1, <1>2, <1>3

LEMMA NoEditYet == <<>> \in E!Edits
<1>1. IsFcn(<<>>) /\ DOMAIN <<>> = {}
  BY DEF IsFcn
<1>2. QED
  BY <1>1, EditsAre

LEMMA PutsAre ==
  /\ \A t \in {"none", "written", "failed"} :
        E!Put(t) \in [state : {"none", "sent", "written", "failed"}, what : E!Configs \union {E!None}]
  /\ E!NoPut \in [state : {"none", "sent", "written", "failed"}, what : E!Configs \union {E!None}]
  /\ E!NoGet \in [busy : BOOLEAN, read : E!Configs \union {E!None}]
BY DEF E!Put, E!NoPut, E!NoGet

LEMMA EditorStarts == E!Init \/ E!Unused => EditorInv
<1> SUFFICES ASSUME E!Init \/ E!Unused PROVE EditorInv
  OBVIOUS
<1>1. E!Idle /\ (disk \in E!Configs \union {E!None})
  BY DEF E!Init, E!Unused, E!Made
<1>2. 0 \in 0..MaxWrites
  BY PagesAssumption
<1>3. E!TypeOK
  BY <1>1, <1>2, NoEditYet, PutsAre DEF E!Idle, E!TypeOK
<1>4. QED
  BY <1>1, <1>3 DEF E!Idle, EditorInv

LEMMA EditorStays ==
  EditorInv /\ UNCHANGED <<disk, cache, get, at, form, put, danger, base, typed, writes>> => EditorInv'
BY DEF EditorInv, E!TypeOK

(* An edit takes the form on from every copy it came from. *)
LEMMA EditKeeps ==
  ASSUME EditorInv, NEW f \in E!Forms, NEW t \in E!Edits, f = Ed(form, t), E!Edit(f, t)
  PROVE  EditorInv'
<1>1. /\ at = "filled" /\ form' = f /\ typed' = E!Spread(typed, t)
      /\ UNCHANGED <<disk, cache, get, at, put, danger, base, writes>>
  BY DEF E!Edit
<1>2. typed' \in E!Edits
  BY <1>1, SpreadIsEdit DEF EditorInv, E!TypeOK
<1>3. E!TypeOK'
  BY <1>1, <1>2 DEF EditorInv, E!TypeOK
<1>4. form' = Ed(base'.parts, typed')
  <2>1. form = Ed(base.parts, typed)
    BY <1>1 DEF EditorInv
  <2>2. form' = Ed(Ed(base.parts, typed), t)
    BY <1>1, <2>1
  <2>3. QED
    BY <1>1, <2>2, EdTwice
<1>5. QED
  BY <1>3, <1>4 DEF EditorInv

LEMMA UserEdits ==
  ASSUME EditorInv, at = "filled",
         \/ \E e \in EnvNames : \/ \E s \in Settings : E!updateEnv(e, s)
                                \/ \E n \in EnvNames : E!renameEnv(e, n)
                                \/ E!removeEnv(e)
         \/ E!addEnv \/ \E s \in Settings : E!updateProject(s)
  PROVE  EditorInv'
<1>1. form \in E!Forms
  BY DEF EditorInv, E!TypeOK
<1>2. ASSUME NEW e \in EnvNames, NEW s \in Settings, E!updateEnv(e, s) PROVE EditorInv'
  <2>1. e \in DOMAIN form /\ E!Edit([form EXCEPT ![e] = s], E!Only(e, s))
    BY <1>2 DEF E!updateEnv
  <2>2. [form EXCEPT ![e] = s] = Ed(form, E!Only(e, s)) /\ [form EXCEPT ![e] = s] \in E!Forms
    BY <1>1, <2>1, Rewritten
  <2>3. E!Only(e, s) \in E!Edits
    BY OnlyIsEdit
  <2>4. QED
    BY <2>1, <2>2, <2>3, EditKeeps
<1>3. ASSUME NEW e \in EnvNames, NEW n \in EnvNames, E!renameEnv(e, n) PROVE EditorInv'
  <2>1. PICK s \in {form[x] : x \in {e, n} \intersect DOMAIN form} :
           E!Edit(E!Spread(E!Without(form, e), E!Only(n, s)), E!Spread(E!Only(e, "gone"), E!Only(n, s)))
    BY <1>3, Zenon DEF E!renameEnv
  <2>2. e \in DOMAIN form /\ n # e
    BY <1>3 DEF E!renameEnv
  <2>3. s \in Settings
    BY <1>1, FormsAre DEF FormLike
  <2>4. /\ E!Spread(E!Without(form, e), E!Only(n, s)) = Ed(form, E!Spread(E!Only(e, "gone"), E!Only(n, s)))
        /\ E!Spread(E!Without(form, e), E!Only(n, s)) \in E!Forms
    BY <1>1, <2>2, <2>3, Renamed
  <2>5. E!Only(e, "gone") \in E!Edits /\ E!Only(n, s) \in E!Edits
    BY <2>3, OnlyIsEdit
  <2>6. E!Spread(E!Only(e, "gone"), E!Only(n, s)) \in E!Edits
    BY <2>5, SpreadIsEdit
  <2>7. QED
    BY <2>1, <2>4, <2>6, EditKeeps
<1>4. ASSUME NEW e \in EnvNames, E!removeEnv(e) PROVE EditorInv'
  <2>1. e \in DOMAIN form /\ DOMAIN form # {e} \union E!Fixed /\ E!Edit(E!Without(form, e), E!Only(e, "gone"))
    BY <1>4 DEF E!removeEnv
  <2>2. E!Without(form, e) = Ed(form, E!Only(e, "gone")) /\ E!Without(form, e) \in E!Forms
    BY <1>1, <2>1, Removed, WithoutIsForm
  <2>3. E!Only(e, "gone") \in E!Edits
    BY OnlyIsEdit
  <2>4. QED
    BY <2>1, <2>2, <2>3, EditKeeps
<1>5. CASE E!addEnv
  <2>1. NewName \in EnvNames /\ Blank \in Settings
    BY PagesAssumption
  <2>2. E!Edit(E!Spread(form, E!Only(NewName, Blank)), E!Only(NewName, Blank))
    BY <1>5 DEF E!addEnv
  <2>3. /\ E!Spread(form, E!Only(NewName, Blank)) = Ed(form, E!Only(NewName, Blank))
        /\ E!Spread(form, E!Only(NewName, Blank)) \in E!Forms
    BY <1>1, <2>1, Added
  <2>4. E!Only(NewName, Blank) \in E!Edits
    BY <2>1, OnlyIsEdit
  <2>5. QED
    BY <2>2, <2>3, <2>4, EditKeeps
<1>6. ASSUME NEW s \in Settings, E!updateProject(s) PROVE EditorInv'
  <2>1. E!Edit([form EXCEPT !["project"] = s], E!Only("project", s)) /\ "project" \in DOMAIN form
    BY <1>6 DEF E!updateProject, E!updateEnv
  <2>2. /\ [form EXCEPT !["project"] = s] = Ed(form, E!Only("project", s))
        /\ [form EXCEPT !["project"] = s] \in E!Forms
    BY <1>1, <2>1, Rewritten
  <2>3. E!Only("project", s) \in E!Edits
    BY OnlyIsEdit DEF E!Fixed
  <2>4. QED
    BY <2>1, <2>2, <2>3, EditKeeps
<1>7. QED
  BY <1>2, <1>3, <1>4, <1>5, <1>6

(* The first copy fills the form; nothing is edited yet. *)
LEMMA FillKeeps ==
  ASSUME EditorInv, NEW c \in E!Configs, E!FillWith(c), cache' \in E!Configs \union {E!None},
         get' \in [busy : BOOLEAN, read : E!Configs \union {E!None}], UNCHANGED <<disk, put, danger, writes>>
  PROVE  EditorInv'
<1>1. at' = "filled" /\ form' = c.parts /\ base' = c /\ typed' = <<>>
  BY DEF E!FillWith
<1>2. c.parts \in E!Forms
  BY ConfigsAre
<1>3. E!TypeOK'
  BY <1>1, <1>2, NoEditYet DEF EditorInv, E!TypeOK
<1>4. form' = Ed(base'.parts, typed')
  BY <1>1, <1>2, NoEdits
<1>5. QED
  BY <1>3, <1>4 DEF EditorInv

(* The page is left, by its user or by an answer. *)
LEMMA VanishKeeps ==
  ASSUME EditorInv, E!Vanish, disk' \in E!Configs \union {E!None},
         get' \in [busy : BOOLEAN, read : E!Configs \union {E!None}], put' \in {put, E!NoPut},
         danger' \in {danger, "closed"}, UNCHANGED <<cache, writes>>
  PROVE  EditorInv'
<1>1. at' = "away" /\ form' = <<>> /\ base' = E!None /\ typed' = <<>>
  BY DEF E!Vanish
<1>2. E!TypeOK'
  BY <1>1, NoEditYet, PutsAre DEF EditorInv, E!TypeOK
<1>3. QED
  BY <1>1, <1>2 DEF EditorInv

(* The form stays as it is. *)
LEMMA FormStays ==
  ASSUME EditorInv, UNCHANGED <<at, form, base, typed>>, disk' \in E!Configs \union {E!None},
         cache' \in E!Configs \union {E!None},
         get' \in [busy : BOOLEAN, read : E!Configs \union {E!None}],
         put' \in [state : {"none", "sent", "written", "failed"}, what : E!Configs \union {E!None}],
         danger' \in {"closed", "asked"}, writes' \in 0..MaxWrites
  PROVE  EditorInv'
BY DEF EditorInv, E!TypeOK

LEMMA EditorKeeps == EditorInv /\ E!Next => EditorInv'
<1> SUFFICES ASSUME EditorInv, E!Next PROVE EditorInv'
  OBVIOUS
<1>t. E!TypeOK
  BY DEF EditorInv
<1>1. CASE E!Open
  <2>1. at = "away" /\ UNCHANGED <<disk, cache, get, put, danger, writes>>
    BY <1>1 DEF E!Open
  <2>2. CASE cache = E!None
    <3>1. at' = "empty" /\ UNCHANGED <<form, base, typed>>
      BY <1>1, <2>2 DEF E!Open
    <3>2. QED
      BY <2>1, <3>1 DEF EditorInv, E!TypeOK
  <2>3. CASE cache # E!None
    <3>1. cache \in E!Configs /\ E!FillWith(cache)
      BY <1>1, <1>t, <2>1, <2>3 DEF E!Open, E!Fill, E!TypeOK
    <3>2. QED
      BY <1>t, <2>1, <3>1, FillKeeps DEF E!TypeOK
  <2>4. QED
    BY <2>2, <2>3
<1>2. CASE E!Leave
  BY <1>2, <1>t, VanishKeeps DEF E!Leave, E!TypeOK
<1>3. CASE E!Ask
  BY <1>3, <1>t, FormStays DEF E!Ask, E!fills, E!TypeOK
<1>4. CASE E!Arrives
  <2>1. get.read # E!None /\ cache' = get.read /\ get' = E!NoGet /\ UNCHANGED <<disk, put, danger, writes>>
    BY <1>4 DEF E!Arrives
  <2>2. get.read \in E!Configs
    BY <1>t, <2>1 DEF E!TypeOK
  <2>3. CASE at = "empty"
    <3>1. E!FillWith(get.read)
      BY <1>4, <2>3 DEF E!Arrives, E!Fill
    <3>2. QED
      BY <2>1, <2>2, <3>1, PutsAre, FillKeeps
  <2>4. CASE at # "empty"
    <3>1. UNCHANGED <<at, form, base, typed>>
      BY <1>4, <1>t, <2>4 DEF E!Arrives, E!Fill, E!fills, E!TypeOK
    <3>2. QED
      BY <1>t, <2>1, <2>2, <3>1, PutsAre, FormStays DEF E!TypeOK
  <2>5. QED
    BY <2>3, <2>4
<1>5. CASE E!AskFails
  BY <1>5, <1>t, PutsAre, FormStays DEF E!AskFails, E!fills, E!TypeOK
<1>6. CASE E!Forget
  BY <1>6, <1>t, FormStays DEF E!Forget, E!fills, E!TypeOK
<1>7. CASE \/ \E e \in EnvNames : \/ \E s \in Settings : E!updateEnv(e, s)
                                  \/ \E n \in EnvNames : E!renameEnv(e, n)
                                  \/ E!removeEnv(e)
           \/ E!addEnv \/ \E s \in Settings : E!updateProject(s)
  <2>1. at = "filled"
    BY <1>7 DEF E!updateEnv, E!updateProject, E!renameEnv, E!removeEnv, E!addEnv, E!Edit
  <2>2. QED
    BY <1>7, <2>1, UserEdits
<1>8. CASE E!Save
  <2>1. /\ at = "filled" /\ writes < MaxWrites /\ writes' = writes + 1
        /\ put' = [state |-> "sent", what |-> E!Payload]
        /\ UNCHANGED <<disk, cache, get, danger, at, form, base, typed>>
    BY <1>8 DEF E!Save, E!fills
  <2>2. form \in E!Forms /\ cache.rest \in BOOLEAN
    BY <1>t, <2>1, ConfigsAre DEF E!TypeOK
  <2>3. E!Payload \in E!Configs
    BY <2>2 DEF E!Payload, E!Configs
  <2>4. writes' \in 0..MaxWrites
    BY <1>t, <2>1, PagesAssumption DEF E!TypeOK
  <2>5. QED
    BY <1>t, <2>1, <2>3, <2>4, FormStays DEF E!TypeOK
<1>9. CASE E!PutConfig
  <2>1. /\ disk' = IF disk = E!None THEN E!None ELSE put.what
        /\ put' = E!Put(IF disk = E!None THEN "failed" ELSE "written")
        /\ UNCHANGED <<cache, get, danger, at, form, base, typed, writes>>
    BY <1>9 DEF E!PutConfig, E!fills
  <2>2. disk' \in E!Configs \union {E!None}
    BY <1>t, <2>1 DEF E!TypeOK
  <2>3. put' = E!Put("failed") \/ put' = E!Put("written")
    BY <2>1
  <2>4. QED
    BY <1>t, <2>1, <2>2, <2>3, PutsAre, FormStays DEF E!TypeOK
<1>10. CASE E!Saved
  <2>1. /\ E!Vanish /\ put' = E!NoPut /\ UNCHANGED <<disk, cache, danger, writes>>
        /\ get' = get \/ get' = [busy |-> TRUE, read |-> disk]
    BY <1>10 DEF E!Saved
  <2>2. get' \in [busy : BOOLEAN, read : E!Configs \union {E!None}]
    <3>1. get \in [busy : BOOLEAN, read : E!Configs \union {E!None}] /\ disk \in E!Configs \union {E!None}
      BY <1>t DEF E!TypeOK
    <3>2. [busy |-> TRUE, read |-> disk] \in [busy : BOOLEAN, read : E!Configs \union {E!None}]
      BY <3>1
    <3>3. QED
      BY <2>1, <3>1, <3>2, Zenon
  <2>3. disk' \in E!Configs \union {E!None} /\ danger' \in {danger, "closed"} /\ put' \in {put, E!NoPut}
        /\ UNCHANGED <<cache, writes>> /\ E!Vanish
    BY <1>t, <2>1 DEF E!TypeOK
  <2>4. QED
    BY <2>2, <2>3, VanishKeeps
<1>11. CASE E!SaveFails
  BY <1>11, <1>t, PutsAre, FormStays DEF E!SaveFails, E!fills, E!TypeOK
<1>12. CASE E!Delete
  BY <1>12, <1>t, FormStays DEF E!Delete, E!fills, E!TypeOK
<1>13. CASE E!Deleted
  <2>1. /\ disk' = E!None /\ danger' = "closed" /\ UNCHANGED <<cache, get, put, writes>>
        /\ E!Vanish \/ UNCHANGED <<at, form, base, typed>>
    BY <1>13 DEF E!Deleted, E!fills
  <2>2. QED
    BY <1>t, <2>1, VanishKeeps, FormStays DEF E!TypeOK
<1>14. CASE E!Elsewhere
  <2>1. writes < MaxWrites /\ writes' = writes + 1 /\ UNCHANGED <<cache, get, at, form, put, danger, base, typed>>
    BY <1>14 DEF E!Elsewhere
  <2>2. writes' \in 0..MaxWrites
    BY <1>t, <2>1, PagesAssumption DEF E!TypeOK
  <2>3. disk' \in E!Configs \union {E!None}
    <3>1. CASE disk' = E!None \/ disk' \in E!Made
      BY <3>1 DEF E!Made
    <3>2. CASE disk # E!None /\ \/ \E f \in E!Forms : disk' = [disk EXCEPT !.parts = f]
                                \/ disk' = [disk EXCEPT !.rest = ~@]
      <4>1. disk \in E!Configs
        BY <1>t, <3>2 DEF E!TypeOK
      <4>2. QED
        BY <3>2, <4>1 DEF E!Configs
    <3>3. CASE disk # E!None /\ \E n \in EnvNames \union E!Fixed, s \in Settings :
                                   disk' = [disk EXCEPT !.parts = E!Spread(@, E!Only(n, s))]
      <4>1. disk.parts \in E!Forms
        BY <1>t, <3>3, ConfigsAre DEF E!TypeOK
      <4>2. \A n \in EnvNames \union E!Fixed, s \in Settings : E!Spread(disk.parts, E!Only(n, s)) \in E!Forms
        BY <4>1, Added
      <4>3. QED
        BY <3>2, <3>3, <4>2
    <3>4. CASE disk # E!None /\ \E e \in EnvNames : /\ DOMAIN disk.parts # {e} \union E!Fixed
                                                     /\ disk' = [disk EXCEPT !.parts = E!Without(@, e)]
      <4>1. disk.parts \in E!Forms
        BY <1>t, <3>4, ConfigsAre DEF E!TypeOK
      <4>2. \A e \in EnvNames : DOMAIN disk.parts # {e} \union E!Fixed => E!Without(disk.parts, e) \in E!Forms
        BY <4>1, WithoutIsForm
      <4>3. QED
        BY <3>2, <3>4, <4>2
    <3>5. QED
      BY <1>14, <3>1, <3>2, <3>3, <3>4, Zenon DEF E!Elsewhere
  <2>4. QED
    BY <1>t, <2>1, <2>2, <2>3, FormStays DEF E!TypeOK
<1>15. QED
  BY <1>1, <1>2, <1>3, <1>4, <1>5, <1>6, <1>7, <1>8, <1>9, <1>10, <1>11, <1>12, <1>13, <1>14 DEF E!Next

(* What a copy with edits made says of a part. *)
LEMMA SaysEdited ==
  ASSUME NEW c \in E!Configs, NEW t \in E!Edits, NEW d, d.parts = Ed(c.parts, t), NEW n
  PROVE  E!Says(d, n) = IF n \in DOMAIN t THEN t[n] ELSE E!Says(c, n)
<1> DEFINE b == c.parts  l == Ed(b, t)
<1>1. /\ DOMAIN l = {m \in DOMAIN b \union DOMAIN t : m \in DOMAIN t => t[m] # "gone"}
                       \ {m \in DOMAIN b \ DOMAIN t : b[m] = "gone"}
      /\ \A m \in DOMAIN l : l[m] = IF m \in DOMAIN t THEN t[m] ELSE b[m]
  BY EdShape
<1>2. b \in E!Forms
  BY ConfigsAre
<1>3. \A m \in DOMAIN b : b[m] # "gone"
  BY <1>2, NothingGone
<1>4. E!Says(d, n) = IF n \in DOMAIN l THEN l[n] ELSE "gone"
  BY DEF E!Says
<1>5. E!Says(c, n) = IF n \in DOMAIN b THEN b[n] ELSE "gone"
  BY DEF E!Says
<1> HIDE DEF l, b
<1>6. QED
  BY <1>1, <1>3, <1>4, <1>5

(* SaveKeepsTheRest: for any environments and settings, and whatever refetches, *)
(* failed saves and visits went before, a save sends every edit of the user and *)
(* undoes nothing but what was changed in the file since the copy was read that *)
(* filled the form (the effect and the mutation of EditWorkspacePage).          *)
THEOREM SavesKeepTheRest == Spec => SaveKeepsTheRest
<1>1. Init => EditorInv
  BY EditorStarts DEF Init
<1>2. EditorInv /\ [Next]_vars => EditorInv'
  <2> SUFFICES ASSUME EditorInv, [Next]_vars PROVE EditorInv'
    OBVIOUS
  <2>1. CASE E!Next
    BY <2>1, EditorKeeps
  <2>2. CASE UNCHANGED editor
    BY <2>2, EditorStays DEF editor
  <2>3. QED
    BY <2>1, <2>2 DEF Next, vars
<1>3. ASSUME EditorInv
      PROVE  \A n \in EnvNames \union E!Fixed :
                E!Save /\ disk # E!None =>
                   /\ n \in DOMAIN typed => E!Says(put'.what, n) = typed[n]
                   /\ n \notin DOMAIN typed /\ E!Says(disk, n) = E!Says(base, n)
                         => E!Says(put'.what, n) = E!Says(disk, n)
  <2> SUFFICES ASSUME NEW n \in EnvNames \union E!Fixed, E!Save, disk # E!None
      PROVE  /\ n \in DOMAIN typed => E!Says(put'.what, n) = typed[n]
             /\ n \notin DOMAIN typed /\ E!Says(disk, n) = E!Says(base, n)
                   => E!Says(put'.what, n) = E!Says(disk, n)
    OBVIOUS
  <2>1. at = "filled" /\ put'.what = E!Payload /\ E!Payload.parts = form
    BY DEF E!Save, E!Payload
  <2>2. base \in E!Configs /\ typed \in E!Edits /\ form = Ed(base.parts, typed)
    BY <1>3, <2>1 DEF EditorInv, E!TypeOK
  <2>3. E!Says(put'.what, n) = IF n \in DOMAIN typed THEN typed[n] ELSE E!Says(base, n)
    BY <2>1, <2>2, SaysEdited
  <2>4. QED
    BY <2>3
<1>4. QED
  BY <1>1, <1>2, <1>3, PTL DEF Spec, SaveKeepsTheRest, E!SaveKeepsTheRest

-----------------------------------------------------------------------------
(* What fields or a body hold of row i: what the user typed, what the row holds, *)
(* or, of a registry's password, nothing.                                        *)
KeptFrom(b, i) ==
    \A p \in T!Parts : \/ b[p] = "typed"
                       \/ b[p] = rows[i][p]
                       \/ tab = "registries" /\ p = "secret" /\ b[p] = T!Nothing

(* A form that is intact holds its row but for what was typed, and so does a save *)
(* that was made of it; the one row of the general tab is always there.           *)
FormsKeep ==
    /\ intact /\ modal \in T!Ids => KeptFrom(fields, modal)
    /\ save.intact /\ save.to \in T!Ids => KeptFrom(save.body, save.to)

GeneralTab ==
    tab = "general" => /\ modal \in {T!Null, T!General} /\ save.to \in {T!Null, T!General}
                       /\ rows[T!General] \in T!Row

SettingsInv == T!TypeOK /\ FormsKeep /\ (page = "settings" => GeneralTab)

LEMMA RowFacts ==
  /\ T!General \in T!Ids /\ T!Null \notin T!Ids /\ T!New \notin T!Ids
  /\ T!Ids \subseteq 0..T!New /\ T!Null \in 0..T!New /\ T!New \in 0..T!New
  /\ T!New # T!General /\ T!New # T!Null /\ T!Null # T!General
  /\ T!Empty \in T!Row
  /\ T!NoSave \in [to : 0..T!New, body : T!Row, intact : BOOLEAN]
  /\ T!NoSave.intact = FALSE /\ T!NoSave.to = T!Null
<1>1. MaxId \in Nat \ {0}
  BY PagesAssumption
<1>2. /\ T!General \in T!Ids /\ T!Null \notin T!Ids /\ T!New \notin T!Ids
      /\ T!Ids \subseteq 0..T!New /\ T!Null \in 0..T!New /\ T!New \in 0..T!New
      /\ T!New # T!General /\ T!New # T!Null /\ T!Null # T!General
  BY <1>1 DEF T!General, T!Ids, T!Null, T!New
<1>3. T!Empty \in T!Row
  BY DEF T!Empty, T!Row, T!Values, T!Nothing
<1>4. T!NoSave.intact = FALSE /\ T!NoSave.to = T!Null
  BY DEF T!NoSave
<1>5. T!NoSave \in [to : 0..T!New, body : T!Row, intact : BOOLEAN]
  BY <1>2, <1>3 DEF T!NoSave
<1>6. QED
  BY <1>2, <1>3, <1>4, <1>5

LEMMA RowsOrNot == \A row : row \in T!Row => row \notin T!Absent
<1>1. "public" \in T!Parts
  BY DEF T!Parts
<1>2. T!NoRow["public"] = "none" /\ T!Gone["public"] = "gone"
  BY <1>1 DEF T!NoRow, T!Gone
<1>3. ASSUME NEW row \in T!Row PROVE row["public"] \notin {"none", "gone"}
  BY <1>1 DEF T!Row, T!Values, T!Nothing
<1>4. QED
  BY <1>2, <1>3 DEF T!Absent

LEMMA SettingsStart ==
  \/ page = "settings" /\ T!Init
  \/ page # "settings" /\ T!Unused
  => SettingsInv
<1> SUFFICES ASSUME (page = "settings" /\ T!Init) \/ (page # "settings" /\ T!Unused)
             PROVE  SettingsInv
  OBVIOUS
<1>1. T!Shut /\ tab \in {"general", "registries", "backup-targets"}
  BY DEF T!Init, T!Unused
<1>2. rows \in [T!Ids -> T!Row \union T!Absent]
  <2>1. CASE T!Unused
    BY <2>1 DEF T!Unused, T!Absent
  <2>2. CASE T!Init
    <3>1. PICK n \in 0..MaxId : rows = [i \in T!Ids |-> IF i <= n THEN [p \in T!Parts |-> "old"] ELSE T!NoRow]
      BY <2>2, Zenon DEF T!Init
    <3>2. [p \in T!Parts |-> "old"] \in T!Row /\ T!NoRow \in T!Absent
      BY DEF T!Row, T!Values, T!Absent
    <3>3. QED
      BY <3>1, <3>2
  <2>3. QED
    BY <2>1, <2>2
<1>3. T!TypeOK
  <2>1. 0 \in 0..MaxWrites /\ T!Null \in 0..T!New
    BY RowFacts, PagesAssumption
  <2>2. QED
    BY <1>1, <1>2, <2>1, RowFacts DEF T!Shut, T!TypeOK
<1>4. FormsKeep
  BY <1>1, RowFacts DEF T!Shut, FormsKeep
<1>5. page = "settings" => GeneralTab
  <2>1. SUFFICES ASSUME page = "settings", tab = "general"
                 PROVE  rows[T!General] \in T!Row
    BY <1>1, RowFacts DEF GeneralTab, T!Shut
  <2>2. T!Init
    BY <2>1
  <2>3. PICK n \in 0..MaxId : rows = [i \in T!Ids |-> IF i <= n THEN [p \in T!Parts |-> "old"] ELSE T!NoRow]
    BY <2>2, Zenon DEF T!Init
  <2>4. rows[T!General] # T!NoRow
    BY <2>1, <2>2 DEF T!Init
  <2>5. [p \in T!Parts |-> "old"] \in T!Row
    BY DEF T!Row, T!Values
  <2>6. QED
    BY <2>3, <2>4, <2>5, RowFacts
<1>6. QED
  BY <1>3, <1>4, <1>5 DEF SettingsInv

LEMMA SettingsStay ==
  SettingsInv /\ UNCHANGED <<page, tab, rows, seen, modal, fields, synced, save, intact, changes>>
     => SettingsInv'
BY DEF SettingsInv, T!TypeOK, FormsKeep, KeptFrom, GeneralTab

(* A row that changes leaves what is intact elsewhere intact. *)
LEMMA RowChanges ==
  ASSUME SettingsInv, NEW i \in T!Ids, NEW row \in T!Row \union T!Absent, T!Change(i, row)
  PROVE  /\ rows' \in [T!Ids -> T!Row \union T!Absent] /\ changes' \in 0..MaxWrites
         /\ rows'[i] = row
         /\ \A j \in T!Ids : j # i => rows'[j] = rows[j]
<1>1. changes < MaxWrites /\ changes' = changes + 1 /\ rows' = [rows EXCEPT ![i] = row]
  BY DEF T!Change
<1>2. rows \in [T!Ids -> T!Row \union T!Absent] /\ changes \in 0..MaxWrites
  BY DEF SettingsInv, T!TypeOK
<1>3. QED
  BY <1>1, <1>2, PagesAssumption

LEMMA MarkedChange ==
  ASSUME SettingsInv, page = "settings", page' = page,
         NEW i \in T!Ids, NEW row \in T!Row \union T!Absent, T!Change(i, row), T!Mark(i),
         tab = "general" => row \in T!Row,
         UNCHANGED <<tab, seen, modal, fields, synced>>
  PROVE  SettingsInv'
<1>1. /\ rows' \in [T!Ids -> T!Row \union T!Absent] /\ changes' \in 0..MaxWrites
      /\ rows'[i] = row
      /\ \A j \in T!Ids : j # i => rows'[j] = rows[j]
  BY RowChanges
<1>2. /\ intact' = (intact /\ modal # i)
      /\ save' = [save EXCEPT !.intact = @ /\ save.to # i]
  BY DEF T!Mark, T!Ages
<1>3. T!TypeOK /\ FormsKeep /\ GeneralTab
  BY DEF SettingsInv
<1>4. save'.to = save.to /\ save'.body = save.body /\ save'.intact = (save.intact /\ save.to # i)
  BY <1>2, <1>3 DEF T!TypeOK
<1>5. T!TypeOK'
  <2>1. save' \in [to : 0..T!New, body : T!Row, intact : BOOLEAN]
    BY <1>2, <1>3 DEF T!TypeOK
  <2>2. intact' \in BOOLEAN
    BY <1>2
  <2>3. QED
    BY <1>1, <1>3, <2>1, <2>2 DEF T!TypeOK
<1>6. ASSUME NEW b, NEW j \in T!Ids, j # i, KeptFrom(b, j)
      PROVE  KeptFrom(b, j)'
  BY <1>1, <1>6 DEF KeptFrom
<1>7. FormsKeep'
  <2>1. ASSUME intact', modal' \in T!Ids PROVE KeptFrom(fields, modal)'
    BY <1>1, <1>2, <1>3, <2>1 DEF FormsKeep, KeptFrom
  <2>2. ASSUME save'.intact, save'.to \in T!Ids PROVE KeptFrom(save.body, save.to)'
    BY <1>1, <1>3, <1>4, <2>2 DEF FormsKeep, KeptFrom
  <2>3. QED
    BY <2>1, <2>2 DEF FormsKeep, T!Ids
<1>8. GeneralTab'
  <2>1. tab = "general" => rows'[T!General] \in T!Row
    BY <1>1, <1>3, RowFacts DEF GeneralTab
  <2>2. QED
    BY <1>3, <1>4, <2>1 DEF GeneralTab, T!General, T!Null, T!Row, T!Values, T!Nothing, T!Parts
<1>9. QED
  BY <1>5, <1>7, <1>8 DEF SettingsInv

LEMMA StoredRow ==
  ASSUME NEW old \in T!Row, NEW body \in T!Row
  PROVE  /\ T!Stored(old, body) \in T!Row
         /\ tab = "general" => T!Stored(old, body) = body
         /\ \A p \in T!Parts : \/ T!Stored(old, body)[p] = body[p]
                               \/ tab = "registries" /\ p = "secret" /\ T!Stored(old, body)[p] = old[p]
         /\ tab = "registries" /\ body["secret"] = T!Nothing
               => T!Stored(old, body)["secret"] = old["secret"]
BY DEF T!Stored, T!Row, T!Parts, T!Values, T!Nothing

(* A save touches one row, and the form of another is as intact as it was; the   *)
(* form of the general tab is afterwards intact if it holds what was saved.      *)
LEMMA StoreKeeps ==
  ASSUME SettingsInv, page = "settings", page' = page, T!Store
  PROVE  SettingsInv'
<1>t. T!TypeOK /\ FormsKeep /\ GeneralTab
  BY DEF SettingsInv
<1>f. /\ rows \in [T!Ids -> T!Row \union T!Absent]
      /\ modal \in 0..T!New /\ fields \in T!Row /\ intact \in BOOLEAN
      /\ save \in [to : 0..T!New, body : T!Row, intact : BOOLEAN]
  BY <1>t DEF T!TypeOK
<1>1. save' = T!NoSave /\ UNCHANGED <<tab, seen, synced>>
  BY DEF T!Store
<1>2. \E i \in T!Ids, row \in T!Row :
         /\ T!Change(i, row) /\ T!CloseForm(i)
         /\ tab = "general" => i = T!General /\ row = save.body
  <2>1. CASE /\ save.to \in T!Ids /\ rows[save.to] \notin T!Absent
             /\ T!Change(save.to, T!Stored(rows[save.to], save.body)) /\ T!CloseForm(save.to)
    <3>1. rows[save.to] \in T!Row /\ save.body \in T!Row
      BY <1>f, <2>1
    <3>2. /\ T!Stored(rows[save.to], save.body) \in T!Row
          /\ tab = "general" => T!Stored(rows[save.to], save.body) = save.body
      BY <3>1, StoredRow
    <3>3. tab = "general" => save.to = T!General
      BY <1>t, <2>1, RowFacts DEF GeneralTab
    <3>4. QED
      BY <2>1, <3>2, <3>3
  <2>2. CASE save.to = T!New /\ \E i \in T!Ids : T!NextId(i) /\ T!Change(i, save.body) /\ T!CloseForm(i)
    <3>1. save.body \in T!Row
      BY <1>f
    <3>2. tab # "general"
      BY <1>t, <2>2, RowFacts DEF GeneralTab
    <3>3. QED
      BY <2>2, <3>1, <3>2
  <2>3. QED
    BY <2>1, <2>2, Zenon DEF T!Store
<1>3. PICK i \in T!Ids, row \in T!Row :
         /\ T!Change(i, row) /\ T!CloseForm(i)
         /\ tab = "general" => i = T!General /\ row = save.body
  BY <1>2, Zenon
<1>4. /\ rows' \in [T!Ids -> T!Row \union T!Absent] /\ changes' \in 0..MaxWrites
      /\ rows'[i] = row
      /\ \A j \in T!Ids : j # i => rows'[j] = rows[j]
  BY <1>3, RowChanges
<1>5. \/ tab # "general" /\ modal' = T!Null /\ fields' = T!Empty /\ intact' = FALSE
      \/ tab # "general" /\ intact' = (intact /\ modal # i) /\ UNCHANGED <<modal, fields>>
      \/ tab = "general" /\ UNCHANGED <<modal, fields>>
         /\ intact' = \A p \in T!Parts : fields[p] \in {"typed", save.body[p]}
  BY <1>3 DEF T!CloseForm, T!Ages
<1>6. T!TypeOK'
  <2>1. modal' \in 0..T!New /\ fields' \in T!Row
    BY <1>f, <1>5, RowFacts
  <2>2. intact' \in BOOLEAN
    BY <1>5
  <2>3. save' \in [to : 0..T!New, body : T!Row, intact : BOOLEAN]
    BY <1>1, RowFacts
  <2>4. QED
    BY <1>t, <1>1, <1>4, <2>1, <2>2, <2>3 DEF T!TypeOK
<1>7. FormsKeep'
  <2>1. SUFFICES ASSUME intact', modal' \in T!Ids PROVE KeptFrom(fields, modal)'
    BY <1>1, RowFacts DEF FormsKeep, T!Ids
  <2>2. CASE tab # "general"
    <3>1. intact /\ modal # i /\ UNCHANGED <<modal, fields>>
      BY <1>5, <2>1, <2>2
    <3>2. KeptFrom(fields, modal) /\ rows'[modal] = rows[modal]
      BY <1>t, <1>4, <2>1, <3>1 DEF FormsKeep
    <3>3. QED
      BY <1>1, <3>1, <3>2 DEF KeptFrom
  <2>3. CASE tab = "general"
    <3>1. UNCHANGED <<modal, fields>> /\ \A p \in T!Parts : fields[p] \in {"typed", save.body[p]}
      BY <1>5, <2>1, <2>3
    <3>2. modal = T!General /\ rows'[T!General] = save.body
      BY <1>t, <1>3, <1>4, <2>1, <2>3, <3>1, RowFacts DEF GeneralTab
    <3>3. QED
      BY <1>1, <3>1, <3>2 DEF KeptFrom
  <2>4. QED
    BY <2>2, <2>3
<1>8. GeneralTab'
  BY <1>t, <1>1, <1>3, <1>4, <1>5, RowFacts DEF GeneralTab, T!General, T!Null, T!Row, T!Values, T!Nothing, T!Parts
<1>9. QED
  BY <1>6, <1>7, <1>8 DEF SettingsInv

LEMMA SettingsKeep ==
  ASSUME SettingsInv, page = "settings", page' = page, T!Next
  PROVE  SettingsInv'
<1>t. T!TypeOK /\ FormsKeep /\ GeneralTab
  BY DEF SettingsInv
<1>f. /\ rows \in [T!Ids -> T!Row \union T!Absent] /\ seen \in [T!Ids -> T!Row \union T!Absent]
      /\ modal \in 0..T!New /\ fields \in T!Row /\ synced \in BOOLEAN /\ intact \in BOOLEAN
      /\ save \in [to : 0..T!New, body : T!Row, intact : BOOLEAN]
  BY <1>t DEF T!TypeOK
<1>1. CASE T!Refetch
  <2>1. seen' = rows /\ UNCHANGED <<tab, rows, save, changes>>
    BY <1>1 DEF T!Refetch
  <2>2. CASE tab = "general" /\ ~synced
    <3>1. synced' = TRUE /\ modal' = T!General /\ fields' = rows[T!General] /\ intact' = TRUE
      BY <1>1, <2>2 DEF T!Refetch, T!Fill
    <3>2. rows[T!General] \in T!Row
      BY <1>t, <2>2 DEF GeneralTab
    <3>3. T!TypeOK'
      BY <1>t, <2>1, <3>1, <3>2, RowFacts DEF T!TypeOK
    <3>4. FormsKeep'
      BY <1>t, <2>1, <3>1 DEF FormsKeep, KeptFrom
    <3>5. GeneralTab'
      BY <1>t, <2>1, <3>1 DEF GeneralTab
    <3>6. QED
      BY <3>3, <3>4, <3>5 DEF SettingsInv
  <2>3. CASE ~(tab = "general" /\ ~synced)
    <3>1. UNCHANGED <<modal, fields, synced, intact>>
      BY <1>1, <2>3 DEF T!Refetch
    <3>2. QED
      BY <1>t, <2>1, <3>1 DEF SettingsInv, T!TypeOK, FormsKeep, KeptFrom, GeneralTab
  <2>4. QED
    BY <2>2, <2>3
<1>2. CASE T!LoadFails
  <2>1. /\ modal' = T!General /\ fields' = T!Empty /\ intact' = FALSE
        /\ UNCHANGED <<tab, rows, seen, synced, save, changes>>
    BY <1>2 DEF T!LoadFails, T!Fill
  <2>2. T!TypeOK'
    BY <1>t, <2>1, RowFacts DEF T!TypeOK
  <2>3. FormsKeep' /\ GeneralTab'
    BY <1>t, <2>1 DEF FormsKeep, KeptFrom, GeneralTab
  <2>4. QED
    BY <2>2, <2>3 DEF SettingsInv
<1>3. CASE \E i \in T!Ids \union {T!New} : T!Edit(i)
  <2>1. PICK i \in T!Ids \union {T!New} : T!Edit(i)
    BY <1>3, Zenon
  <2>2. tab # "general" /\ (T!There(i) \/ i = T!New) /\ UNCHANGED <<tab, rows, seen, synced, save, changes>>
    BY <2>1 DEF T!Edit
  <2>3. i \in 0..T!New
    BY RowFacts
  <2>4. CASE modal # T!Null
    <3>1. modal' = i /\ intact' = (intact /\ modal = i) /\ UNCHANGED fields
      BY <2>1, <2>4 DEF T!Edit
    <3>2. T!TypeOK'
      BY <1>t, <2>2, <2>3, <3>1 DEF T!TypeOK
    <3>3. FormsKeep' /\ GeneralTab'
      BY <1>t, <2>2, <3>1 DEF FormsKeep, KeptFrom, GeneralTab
    <3>4. QED
      BY <3>2, <3>3 DEF SettingsInv
  <2>5. CASE modal = T!Null /\ i = T!New
    <3>1. modal' = i /\ fields' = T!Empty
      BY <2>1, <2>5 DEF T!Edit, T!Fill
    <3>2. intact' = TRUE
      BY <2>1, <2>5 DEF T!Edit, T!Fill
    <3>3. T!TypeOK'
      BY <1>t, <2>2, <2>3, <3>1, <3>2, RowFacts DEF T!TypeOK
    <3>4. FormsKeep' /\ GeneralTab'
      BY <1>t, <2>2, <2>5, <3>1, RowFacts DEF FormsKeep, KeptFrom, GeneralTab
    <3>5. QED
      BY <3>3, <3>4 DEF SettingsInv
  <2>6. CASE modal = T!Null /\ i # T!New
    <3>1. i \in T!Ids /\ seen[i] \in T!Row
      BY <1>f, <2>2, <2>6 DEF T!There
    <3>2. /\ modal' = i /\ intact' = (seen[i] = rows[i])
          /\ fields' = IF tab = "registries" THEN [seen[i] EXCEPT !["secret"] = T!Nothing] ELSE seen[i]
      BY <2>1, <2>6 DEF T!Edit, T!Fill
    <3>3. /\ fields' \in T!Row
          /\ \A p \in T!Parts : \/ fields'[p] = seen[i][p]
                                \/ tab = "registries" /\ p = "secret" /\ fields'[p] = T!Nothing
      BY <3>1, <3>2 DEF T!Row, T!Values
    <3>4. T!TypeOK'
      BY <1>t, <2>2, <2>3, <3>2, <3>3 DEF T!TypeOK
    <3>5. FormsKeep'
      <4>1. intact' => KeptFrom(fields, modal)'
        BY <2>2, <3>2, <3>3 DEF KeptFrom
      <4>2. QED
        BY <1>t, <2>2, <4>1 DEF FormsKeep, KeptFrom
    <3>6. GeneralTab'
      BY <2>2 DEF GeneralTab
    <3>7. QED
      BY <3>4, <3>5, <3>6 DEF SettingsInv
  <2>7. QED
    BY <2>4, <2>5, <2>6
<1>4. CASE T!Cancel
  <2>1. tab # "general" /\ modal' = T!Null /\ fields' = T!Empty /\ intact' = FALSE
        /\ UNCHANGED <<tab, rows, seen, synced, save, changes>>
    BY <1>4 DEF T!Cancel
  <2>2. T!TypeOK'
    BY <1>t, <2>1, RowFacts DEF T!TypeOK
  <2>3. FormsKeep' /\ GeneralTab'
    BY <1>t, <2>1 DEF FormsKeep, KeptFrom, GeneralTab
  <2>4. QED
    BY <2>2, <2>3 DEF SettingsInv
<1>5. CASE T!submit
  <2>1. /\ modal # T!Null /\ save' = [to |-> modal, body |-> fields, intact |-> intact]
        /\ UNCHANGED <<tab, rows, seen, modal, fields, synced, intact, changes>>
    BY <1>5 DEF T!submit, T!windows
  <2>2. T!TypeOK'
    BY <1>t, <2>1 DEF T!TypeOK
  <2>3. FormsKeep' /\ GeneralTab'
    BY <1>t, <2>1 DEF FormsKeep, KeptFrom, GeneralTab
  <2>4. QED
    BY <2>2, <2>3 DEF SettingsInv
<1>6. CASE \E p \in T!Parts : T!Type(p)
  <2>1. PICK p \in T!Parts : T!Type(p)
    BY <1>6, Zenon
  <2>2. fields' = [fields EXCEPT ![p] = "typed"]
        /\ UNCHANGED <<tab, rows, seen, modal, synced, save, intact, changes>>
    BY <2>1 DEF T!Type
  <2>3. fields' \in T!Row /\ \A q \in T!Parts : fields'[q] \in {"typed", fields[q]}
    BY <1>f, <2>2 DEF T!Row, T!Values
  <2>4. T!TypeOK'
    BY <1>t, <2>2, <2>3 DEF T!TypeOK
  <2>5. FormsKeep' /\ GeneralTab'
    BY <1>t, <2>2, <2>3 DEF FormsKeep, KeptFrom, GeneralTab
  <2>6. QED
    BY <2>4, <2>5 DEF SettingsInv
<1>7. CASE \E i \in T!Ids : T!Delete(i)
  <2>1. PICK i \in T!Ids : T!Delete(i)
    BY <1>7, Zenon
  <2>2. /\ tab # "general" /\ T!Change(i, T!Gone) /\ T!Mark(i)
        /\ UNCHANGED <<tab, seen, modal, fields, synced>>
    BY <2>1 DEF T!Delete
  <2>3. T!Gone \in T!Row \union T!Absent
    BY DEF T!Absent
  <2>4. QED
    BY <2>2, <2>3, MarkedChange
<1>8. CASE \E i \in T!Ids : T!Others(i)
  <2>1. PICK i \in T!Ids : T!Others(i)
    BY <1>8, Zenon
  <2>2. /\ rows[i] \notin T!Absent /\ T!Mark(i) /\ UNCHANGED <<tab, seen, modal, fields, synced>>
        /\ \/ T!Change(i, [rows[i] EXCEPT !["public"] = "other"])
           \/ tab # "general" /\ T!Change(i, T!Gone)
    BY <2>1 DEF T!Others
  <2>3. T!Gone \in T!Row \union T!Absent
    BY DEF T!Absent
  <2>4. [rows[i] EXCEPT !["public"] = "other"] \in T!Row
    BY <1>f, <2>2 DEF T!Row, T!Values
  <2>5. QED
    BY <2>2, <2>3, <2>4, MarkedChange
<1>9. CASE T!SaveFails
  <2>1. save' = T!NoSave /\ UNCHANGED <<tab, rows, seen, modal, fields, synced, intact, changes>>
    BY <1>9 DEF T!SaveFails, T!windows
  <2>2. T!TypeOK'
    BY <1>t, <2>1, RowFacts DEF T!TypeOK
  <2>3. FormsKeep' /\ GeneralTab'
    BY <1>t, <2>1, RowFacts DEF FormsKeep, KeptFrom, GeneralTab
  <2>4. QED
    BY <2>2, <2>3 DEF SettingsInv
<1>10. CASE T!Store
  BY <1>10, StoreKeeps
<1>11. QED
  BY <1>1, <1>2, <1>3, <1>4, <1>5, <1>6, <1>7, <1>8, <1>9, <1>10, Zenon DEF T!Next

(* SaveStaysInItsRow: a save of a form that is intact changes the row it was     *)
(* filled from, in the parts the user typed and in no other, for tables and      *)
(* visits of any length (the three tabs and the update handlers behind them).    *)
THEOREM SavesStay == Spec => SaveStaysInItsRow
<1>1. Init => SettingsInv
  BY SettingsStart DEF Init
<1>2. SettingsInv /\ [Next]_vars => SettingsInv'
  <2> SUFFICES ASSUME SettingsInv, [Next]_vars PROVE SettingsInv'
    OBVIOUS
  <2>1. CASE page = "settings" /\ T!Next /\ UNCHANGED page
    BY <2>1, SettingsKeep
  <2>2. CASE UNCHANGED <<settings, page>>
    BY <2>2, SettingsStay DEF settings
  <2>3. QED
    BY <2>1, <2>2 DEF Next, vars
<1>3. ASSUME SettingsInv
      PROVE  T!Store /\ save.to \in T!Ids /\ save.intact =>
                \A i \in T!Ids : rows'[i] # rows[i] =>
                   /\ i = save.to
                   /\ \A p \in T!Parts : rows'[i][p] # rows[i][p] => save.body[p] = "typed"
  <2> SUFFICES ASSUME T!Store, save.to \in T!Ids, save.intact,
                      NEW i \in T!Ids, rows'[i] # rows[i]
               PROVE  /\ i = save.to
                      /\ \A p \in T!Parts : rows'[i][p] # rows[i][p] => save.body[p] = "typed"
    OBVIOUS
  <2>1. /\ rows[save.to] \notin T!Absent
        /\ rows' = [rows EXCEPT ![save.to] = T!Stored(rows[save.to], save.body)]
    BY RowFacts DEF T!Store, T!Change
  <2>2. rows \in [T!Ids -> T!Row \union T!Absent] /\ save.body \in T!Row
    BY <1>3 DEF SettingsInv, T!TypeOK
  <2>3. i = save.to /\ rows'[i] = T!Stored(rows[i], save.body) /\ rows[i] \in T!Row
    BY <2>1, <2>2
  <2>4. KeptFrom(save.body, i)
    BY <1>3, <2>3 DEF SettingsInv, FormsKeep
  <2>5. ASSUME NEW p \in T!Parts, rows'[i][p] # rows[i][p] PROVE save.body[p] = "typed"
    BY <2>2, <2>3, <2>4, <2>5, StoredRow DEF KeptFrom
  <2>6. QED
    BY <2>3, <2>5
<1>4. QED
  BY <1>1, <1>2, <1>3, PTL DEF Spec, SaveStaysInItsRow, T!SaveStaysInItsRow

-----------------------------------------------------------------------------
LEMMA WizardTypes ==
  /\ W!Init \/ W!Unused => W!TypeOK
  /\ W!TypeOK /\ UNCHANGED wizard => W!TypeOK'
  /\ StepsBehind /\ W!TypeOK /\ W!Next => W!TypeOK'
<1>1. ASSUME W!Init \/ W!Unused PROVE W!TypeOK
  <2>1. StepsBehind
    BY <1>1, WizardStarts
  <2>2. QED
    BY <1>1, <2>1 DEF W!Init, W!Unused, W!TypeOK, StepsBehind
<1>2. ASSUME W!TypeOK, UNCHANGED wizard PROVE W!TypeOK'
  BY <1>2 DEF wizard, W!TypeOK
<1>3. ASSUME StepsBehind, W!TypeOK, W!Next PROVE W!TypeOK'
  <2>1. step' \in 0..7 /\ data' \in W!Forms
    BY <1>3, WizardKeeps DEF StepsBehind
  <2>2. /\ details' \in BOOLEAN
        /\ socket' \in {"none", "open", "closed"}
        /\ server' \in {"none", "asked", "checked", "written", "bootstrapped"}
        /\ made' \in BOOLEAN /\ done' \in BOOLEAN
    <3>1. CASE \/ W!EditProject \/ W!PickTemplate \/ W!DetailsArrive \/ W!EditServices \/ W!EditEnvironments
               \/ W!EditVolumes \/ W!Continue \/ W!Back \/ \E k \in W!Kinds : W!ChooseType(k)
      BY <1>3, <3>1 DEF W!EditProject, W!PickTemplate, W!DetailsArrive, W!EditServices, W!EditEnvironments,
            W!EditVolumes, W!Continue, W!Back, W!ChooseType, W!Enter, W!work, W!TypeOK
    <3>2. CASE W!Create \/ W!Leave
      BY <1>3, <3>2 DEF W!Create, W!Leave, W!TypeOK
    <3>3. CASE W!Refuse \/ W!Check \/ W!WriteConfig \/ W!WriteFails \/ W!Bootstrap
      BY <1>3, <3>3 DEF W!Refuse, W!Check, W!WriteConfig, W!WriteFails, W!Bootstrap, W!Serve, W!HangUp, W!TypeOK
    <3>4. CASE W!Ready
      <4>1. done' = (done \/ socket = "open")
        BY <3>4 DEF W!Ready
      <4>2. done' \in BOOLEAN
        BY <4>1
      <4>3. QED
        BY <1>3, <3>4, <4>2 DEF W!Ready, W!HangUp, W!TypeOK
    <3>5. CASE W!Lost \/ W!CloseArrives
      BY <1>3, <3>5 DEF W!Lost, W!CloseArrives, W!TypeOK
    <3>6. CASE W!Others
      <4>1. made' \in BOOLEAN
        BY <3>6 DEF W!Others
      <4>2. QED
        BY <1>3, <3>6, <4>1 DEF W!Others, W!TypeOK
    <3>7. QED
      BY <1>3, <3>1, <3>2, <3>3, <3>4, <3>5, <3>6 DEF W!Next
  <2>3. QED
    BY <2>1, <2>2 DEF W!TypeOK
<1>4. QED
  BY <1>1, <1>2, <1>3

(* A word is typed or it is not; only the kernels are asked about twice. *)
SafetyOK == H!TypeOK /\ (section = "containers" => gate \in {0, 1})

LEMMA SafetyTypes ==
  /\ H!Init \/ H!Unused => SafetyOK
  /\ SafetyOK /\ UNCHANGED safety => SafetyOK'
  /\ NamesKnown /\ SafetyOK /\ H!Next => SafetyOK'
<1>1. ASSUME H!Init \/ H!Unused PROVE SafetyOK
  <2>1. NamesKnown
    BY <1>1, SafetyStarts
  <2>2. real \in [Things -> H!States] /\ section \in H!Sections
    BY <1>1 DEF H!Init, H!Unused, H!States, H!Sections
  <2>3. open = FALSE /\ gate = 0 /\ hold = FALSE /\ stray = FALSE
    BY <1>1 DEF H!Init, H!Unused, H!Folded
  <2>4. /\ shown \subseteq Things /\ ticked \subseteq Things /\ offered \subseteq Things
        /\ post \in [sent : BOOLEAN, names : SUBSET Things]
    BY <2>1 DEF NamesKnown
  <2>5. gate \in 0..2 /\ gate \in {0, 1}
    BY <2>3
  <2>6. open \in BOOLEAN /\ hold \in BOOLEAN /\ stray \in BOOLEAN
    BY <2>3, Zenon
  <2>7. QED
    BY <2>2, <2>4, <2>5, <2>6, Zenon DEF SafetyOK, H!TypeOK
<1>2. ASSUME SafetyOK, UNCHANGED safety PROVE SafetyOK'
  BY <1>2 DEF safety, SafetyOK, H!TypeOK
<1>3. ASSUME NamesKnown, SafetyOK, H!Next PROVE SafetyOK'
  <2>1. NamesKnown'
    BY <1>3, SafetyKeeps
  <2>2. /\ post' \in [sent : BOOLEAN, names : SUBSET Things] /\ offered' \subseteq Things
        /\ shown' \subseteq Things /\ ticked' \subseteq Things
    BY <2>1 DEF NamesKnown
  <2>3. /\ section' = section /\ gate' \in 0..2
        /\ open' \in BOOLEAN /\ hold' \in BOOLEAN /\ stray' \in BOOLEAN
        /\ real' \in [Things -> H!States]
        /\ section = "containers" => gate' \in {0, 1}
    <3>1. CASE H!Unfold
      <4>1. open' \in BOOLEAN
        BY <3>1 DEF H!Unfold
      <4>2. QED
        BY <1>3, <3>1, <4>1 DEF H!Unfold, H!buttons, SafetyOK, H!TypeOK
    <3>2. CASE H!Refetch \/ H!Tick \/ H!PurgeFails
      BY <1>3, <3>2 DEF H!Refetch, H!Tick, H!PurgeFails, H!buttons, SafetyOK, H!TypeOK
    <3>3. CASE H!PurgeImages \/ H!PurgeContainers \/ H!ConfirmKernels \/ H!HoldEnds
      <4>1. /\ UNCHANGED <<section, real, open, stray>> /\ (hold' = hold \/ hold' = FALSE)
            /\ section' = section
            /\ gate' = gate \/ (gate' = 2 /\ section = "kernels")
        BY <3>3 DEF H!PurgeImages, H!PurgeContainers, H!ConfirmKernels, H!HoldEnds, H!Send, H!buttons
      <4>2. hold \in BOOLEAN /\ open \in BOOLEAN /\ stray \in BOOLEAN
        BY <1>3, Zenon DEF SafetyOK, H!TypeOK
      <4>3. hold' \in BOOLEAN
        <5>1. CASE hold' = hold
          BY <4>2, <5>1
        <5>2. CASE hold' = FALSE
          BY <5>2
        <5>3. QED
          BY <4>1, <5>1, <5>2
      <4>4. gate' \in 0..2 /\ (section = "containers" => gate' \in {0, 1})
        BY <1>3, <4>1 DEF SafetyOK, H!TypeOK
      <4>5. real \in [Things -> H!States]
        BY <1>3 DEF SafetyOK, H!TypeOK
      <4>6. UNCHANGED section /\ real' = real /\ open' = open /\ stray' = stray
        BY <4>1
      <4>7. QED
        BY <4>2, <4>3, <4>4, <4>5, <4>6, Zenon
    <3>4. CASE H!TypeWord
      <4>1. section = "containers" /\ gate' = 1 - gate /\ UNCHANGED <<section, real, open, hold, stray>>
        BY <3>4 DEF H!TypeWord, H!Choose
      <4>2. gate \in {0, 1}
        BY <1>3, <4>1 DEF SafetyOK
      <4>3. QED
        BY <1>3, <4>1, <4>2 DEF SafetyOK, H!TypeOK
    <3>5. CASE H!AskKernels \/ H!CancelKernels
      BY <1>3, <3>5 DEF H!AskKernels, H!CancelKernels, H!Choose, SafetyOK, H!TypeOK
    <3>6. CASE H!startHold
      <4>1. stray' \in BOOLEAN
        BY <3>6 DEF H!startHold
      <4>2. QED
        BY <1>3, <3>6, <4>1 DEF H!startHold, SafetyOK, H!TypeOK
    <3>7. CASE H!stopHold
      BY <1>3, <3>7 DEF H!stopHold, SafetyOK, H!TypeOK
    <3>8. CASE H!Purge
      <4>1. PICK t \in H!Taken : real' = [x \in Things |-> IF x \in t THEN "gone" ELSE real[x]]
        BY <3>8, Zenon DEF H!Purge
      <4>2. real' \in [Things -> H!States]
        BY <1>3, <4>1 DEF SafetyOK, H!TypeOK, H!States
      <4>3. UNCHANGED <<section, open, gate, hold, stray>>
        BY <3>8 DEF H!Purge, H!buttons
      <4>4. QED
        BY <1>3, <4>2, <4>3 DEF SafetyOK, H!TypeOK
    <3>9. CASE \E x \in Things, s \in H!States : H!Others(x, s)
      BY <1>3, <3>9 DEF H!Others, H!buttons, SafetyOK, H!TypeOK
    <3>10. QED
      BY <1>3, <3>1, <3>2, <3>3, <3>4, <3>5, <3>6, <3>7, <3>8, <3>9 DEF H!Next
  <2>4. QED
    BY <1>3, <2>2, <2>3 DEF SafetyOK, H!TypeOK
<1>4. QED
  BY <1>1, <1>2, <1>3


-----------------------------------------------------------------------------
PagesInv ==
    /\ page \in {"new", "edit", "services", "housekeeping", "settings"}
    /\ StepsBehind /\ W!TypeOK
    /\ EditorInv
    /\ CardsInv
    /\ NamesKnown /\ SafetyOK
    /\ SettingsInv

(* TypeOK: every page keeps what it keeps within its type, for all lists, tables *)
(* and files the pages may show; for the settings and the safety center that     *)
(* needs to know which tab and which section the visit is to.                    *)
THEOREM TypeCorrect == Spec => []TypeOK
<1>1. Init => PagesInv
  <2> SUFFICES ASSUME Init PROVE PagesInv
    OBVIOUS
  <2>1. /\ page \in {"new", "edit", "services", "housekeeping", "settings"}
        /\ W!Init \/ W!Unused
        /\ E!Init \/ E!Unused
        /\ S!Init \/ S!Unused
        /\ H!Init \/ H!Unused
        /\ (page = "settings" /\ T!Init) \/ (page # "settings" /\ T!Unused)
    BY DEF Init
  <2>2. QED
    BY <2>1, WizardStarts, WizardTypes, EditorStarts, CardsStart, SafetyStarts, SafetyTypes, SettingsStart
       DEF PagesInv
<1>2. PagesInv /\ [Next]_vars => PagesInv'
  <2> SUFFICES ASSUME PagesInv, [Next]_vars PROVE PagesInv'
    OBVIOUS
  <2>1. /\ page' = page
        /\ W!Next \/ UNCHANGED wizard
        /\ E!Next \/ UNCHANGED editor
        /\ S!Next \/ UNCHANGED services
        /\ H!Next \/ UNCHANGED safety
        /\ (page = "settings" /\ T!Next) \/ UNCHANGED settings
    BY DEF Next, vars
  <2>2. StepsBehind' /\ W!TypeOK'
    <3>1. UNCHANGED wizard => StepsBehind'
      BY WizardStays DEF PagesInv, wizard
    <3>2. QED
      BY <2>1, <3>1, WizardKeeps, WizardTypes DEF PagesInv
  <2>3. EditorInv'
    BY <2>1, EditorKeeps, EditorStays DEF PagesInv, editor
  <2>4. CardsInv'
    BY <2>1, CardsKeep, CardsStay DEF PagesInv, services
  <2>5. NamesKnown' /\ SafetyOK'
    <3>1. UNCHANGED safety => NamesKnown'
      BY SafetyStays DEF PagesInv, safety
    <3>2. QED
      BY <2>1, <3>1, SafetyKeeps, SafetyTypes DEF PagesInv
  <2>6. SettingsInv'
    BY <2>1, SettingsKeep, SettingsStay DEF PagesInv, settings
  <2>7. QED
    BY <2>1, <2>2, <2>3, <2>4, <2>5, <2>6 DEF PagesInv
<1>3. PagesInv => TypeOK
  BY DEF PagesInv, EditorInv, CardsInv, SafetyOK, SettingsInv, TypeOK
<1>4. QED
  BY <1>1, <1>2, <1>3, PTL DEF Spec
=============================================================================
