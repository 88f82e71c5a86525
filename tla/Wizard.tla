-------------------------------- MODULE Wizard --------------------------------
(***************************************************************************)
(* The wizard that makes a workspace: six steps to fill in, in any order   *)
(* the Continue and Back buttons allow, and a seventh that shows the       *)
(* server at work.  Continue checks the step it leaves, Back checks        *)
(* nothing, and the details of a template that was picked arrive whenever  *)
(* they do and replace what later steps hold.                              *)
(*                                                                         *)
(* Of what is filled in the model keeps whether it is complete; what Step  *)
(* 5 and the variables of Steps 2 and 4 hold is sent as it is.             *)
(***************************************************************************)
EXTENDS Naturals

VARIABLES step,                 (* the step shown, 0 when the wizard is not *)
          data,                 (* the form *)
          details,              (* is a template's detail awaited? *)
          socket,               (* the WebSocket of Step 7 *)
          server,               (* how far the server is *)
          made,                 (* does a directory of that name exist? *)
          done                  (* Step 7: is the button there? *)

vars == <<step, data, details, socket, server, made, done>>

Kinds == {"prebuilt", "image", "custom"}

(* name: it is a valid one; services: one has a name and an image; envs: every *)
(* one has a name; volumes: every named one has a path.                        *)
Forms == [name : BOOLEAN, registry : BOOLEAN, stackType : Kinds, template : BOOLEAN,
          services : BOOLEAN, envs : BOOLEAN, volumes : BOOLEAN]

TypeOK == /\ step \in 0..7
          /\ data \in Forms
          /\ details \in BOOLEAN
          /\ socket \in {"none", "open", "closed"}
          /\ server \in {"none", "asked", "checked", "written", "bootstrapped"}
          /\ made \in BOOLEAN
          /\ done \in BOOLEAN

DEFAULT_DATA == [name |-> FALSE, registry |-> FALSE, stackType |-> "prebuilt", template |-> FALSE,
                 services |-> FALSE, envs |-> TRUE, volumes |-> TRUE]

Unused == /\ step = 0
        /\ data = DEFAULT_DATA
        /\ details = FALSE
        /\ socket = "none"
        /\ server = "none"
        /\ made = FALSE
        /\ done = FALSE

Init == /\ step = 1
        /\ data = DEFAULT_DATA
        /\ details = FALSE
        /\ socket = "none"
        /\ server = "none"
        /\ made \in BOOLEAN
        /\ done = FALSE

work == <<socket, server, made, done>>

-----------------------------------------------------------------------------
(* The steps *)

Enter(d) == data' = d /\ UNCHANGED <<step, details, work>>

(* Step 1: the fields, and the effect that fills in the first registry known. *)
EditProject == /\ step = 1
               /\ \E n, r \in BOOLEAN : Enter([data EXCEPT !.name = n, !.registry = r])

ChooseType(k) == step = 2 /\ Enter([data EXCEPT !.stackType = k])

PickTemplate == /\ step = 2 /\ data.stackType = "prebuilt"
                /\ data' = [data EXCEPT !.template = TRUE]
                /\ details' = TRUE
                /\ UNCHANGED <<step, work>>

(* The images and volumes of a template are complete; it may have none of either. *)
DetailsArrive == /\ details /\ step # 0
                 /\ data' \in {data, [data EXCEPT !.services = TRUE],
                               [data EXCEPT !.services = TRUE, !.volumes = TRUE]}
                 /\ details' \in BOOLEAN
                 /\ UNCHANGED <<step, work>>

EditServices == /\ step = 2 /\ data.stackType = "image"
                /\ \E s \in BOOLEAN : Enter([data EXCEPT !.services = s])

EditEnvironments == step = 3 /\ \E e \in BOOLEAN : Enter([data EXCEPT !.envs = e])

EditVolumes == step = 4 /\ \E v \in BOOLEAN : Enter([data EXCEPT !.volumes = v])

-----------------------------------------------------------------------------
(* The buttons *)

(* Mutant: the environments are checked on the review, not on their own step. *)
ValidateLoosely == /\ data.name /\ data.registry
                   /\ step = 2 /\ data.stackType = "prebuilt" => data.template
                   /\ step = 2 /\ data.stackType = "image" => data.services
                   /\ step = 4 => data.volumes

validate == /\ data.name /\ data.registry
            /\ step = 2 /\ data.stackType = "prebuilt" => data.template
            /\ step = 2 /\ data.stackType = "image" => data.services
            /\ step = 3 => data.envs
            /\ step = 4 => data.volumes

Continue == /\ step \in 1..5 /\ validate
            /\ step' = step + 1
            /\ UNCHANGED <<data, details, work>>

Back == /\ step \in 2..6
        /\ step' = step - 1
        /\ UNCHANGED <<data, details, work>>

(* Create: Step 7 opens its socket and sends what the form amounts to. *)
Create == /\ step = 6 /\ validate
          /\ step' = 7
          /\ socket' = "open" /\ server' = "asked"
          /\ UNCHANGED <<data, details, made, done>>

(* Cancel, or any way out, Step 7 closing its socket; and, of Step 7, its button. *)
Leave == /\ step \in 1..7
         /\ step' = 0
         /\ data' = DEFAULT_DATA /\ details' = FALSE /\ done' = FALSE
         /\ socket' = "none"
         /\ UNCHANGED <<server, made>>

-----------------------------------------------------------------------------
(* The server; what it writes to a socket that is gone is lost. *)

Serve(s) == server' = s /\ UNCHANGED <<step, data, details, done>>

(* Mutant: a refused creation leaves its socket open. *)
HangUpNot == UNCHANGED socket
HangUp == socket' = IF socket = "open" THEN "closed" ELSE socket

(* The request is not understood, the token has expired, the template is not *)
(* there any more, the name is taken.                                        *)
Refuse == /\ server = "asked"
          /\ HangUp /\ Serve("none")
          /\ UNCHANGED made

(* Create looks for the directory, then makes it; another's may come between. *)
Check == /\ server = "asked" /\ ~made
         /\ Serve("checked")
         /\ UNCHANGED <<socket, made>>

WriteConfig == /\ server = "checked"
               /\ made' = TRUE
               /\ Serve("written")
               /\ UNCHANGED socket

(* No run.sh.template: the directory is removed, whoever made it. *)
WriteFails == /\ server = "checked"
              /\ made' = FALSE
              /\ HangUp /\ Serve("none")

(* Each environment in turn, whether it succeeds or not. *)
Bootstrap == /\ server = "written"
             /\ Serve("bootstrapped")
             /\ UNCHANGED <<socket, made>>

(* The last words of the server are that all is ready; then it hangs up. *)
Ready == /\ server = "bootstrapped"
         /\ server' = "none"
         /\ done' = (done \/ socket = "open")
         /\ HangUp
         /\ UNCHANGED <<step, data, details, made>>

(* The connection breaks, before the request is read or after. *)
Lost == /\ socket = "open"
        /\ socket' = "closed"
        /\ server' \in {server, IF server = "asked" THEN "none" ELSE server}
        /\ UNCHANGED <<step, data, details, made, done>>

CloseArrives == /\ socket = "closed"
                /\ socket' = "none"
                /\ done' = TRUE
                /\ UNCHANGED <<step, data, details, server, made>>

(* Someone else makes or deletes a workspace of that name. *)
Others == made' = ~made /\ UNCHANGED <<step, data, details, socket, server, done>>

-----------------------------------------------------------------------------
Next == \/ EditProject \/ PickTemplate \/ DetailsArrive \/ EditServices \/ EditEnvironments \/ EditVolumes
        \/ \E k \in Kinds : ChooseType(k)
        \/ Continue \/ Back \/ Create \/ Leave
        \/ Refuse \/ Check \/ WriteConfig \/ WriteFails \/ Bootstrap \/ Ready \/ Lost \/ CloseArrives
        \/ Others

(* The server goes on with a request it has, and the browser hears of the end. *)
Fairness == /\ WF_vars(Refuse \/ Check) /\ WF_vars(WriteConfig \/ WriteFails)
            /\ WF_vars(Bootstrap) /\ WF_vars(Ready) /\ WF_vars(CloseArrives)

-----------------------------------------------------------------------------
(* Whatever is filled in, in whatever order, with whichever buttons and however *)
(* late a template's details come, what is sent has a name, a registry, a stack *)
(* to run, a name for every environment and a path for every volume (validate   *)
(* looks at one step at a time, and Back at none).                              *)
PayloadComplete ==
    step = 7 => /\ data.name /\ data.registry /\ data.envs /\ data.volumes
                /\ data.stackType = "prebuilt" => data.template
                /\ data.stackType = "image" => data.services

(* Nobody is left watching Step 7: whatever becomes of the creation and of the  *)
(* connection, the button that leads on appears.                                *)
CreationEnds == (step = 7) ~> (done \/ step = 0)
=============================================================================
