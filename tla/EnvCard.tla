------------------------------- MODULE EnvCard -------------------------------
(***************************************************************************)
(* The cards of a workspace page: what each says of the state of its       *)
(* environment, and by which of several ways it learns it.  The state is   *)
(* asked for by a timer, after the card's own commands, and whenever       *)
(* /api/events tells of a container.  A question carries its answer from   *)
(* the moment the server reads it.                                         *)
(***************************************************************************)
EXTENDS Naturals

CONSTANTS Envs,                 (* the environments on the page *)
          MaxJobs               (* bound: commands of one card at a time *)

VARIABLES real,                 (* the state of the containers *)
          docker,               (* does docker compose ps answer for the environment? *)
          card,                 (* the status a card shows *)
          fetch,                (* the status question under way *)
          stream,               (* is the EventSource connected? *)
          wire,                 (* the events on their way *)
          job                   (* the commands a card has started *)

vars == <<real, docker, card, fetch, stream, wire, job>>

States   == {"running", "partial", "stopped"}
Statuses == States \union {"unknown"}

(* A command runs until its socket closes; then two seconds remain. *)
TypeOK == /\ real \in [Envs -> States]
          /\ docker \in [Envs -> BOOLEAN]
          /\ card \in [Envs -> Statuses]
          /\ fetch \in [Envs -> Statuses \union {"none", "away"}]
          /\ stream \in BOOLEAN
          /\ wire \subseteq Envs
          /\ job \in [Envs -> [open : 0..MaxJobs, closed : 0..MaxJobs]]

NoJob == [open |-> 0, closed |-> 0]

Init == /\ real \in [Envs -> States]
        /\ docker = [e \in Envs |-> TRUE]
        /\ card = [e \in Envs |-> "unknown"]
        /\ fetch = real
        /\ stream = FALSE
        /\ wire = {}
        /\ job = [e \in Envs |-> NoJob]

(* No cards on display: nobody asks ("away"). *)
Unused == /\ real = [e \in Envs |-> "running"] /\ card = real
          /\ docker = [e \in Envs |-> TRUE]
          /\ fetch = [e \in Envs |-> "away"] /\ stream = FALSE /\ wire = {}
          /\ job = [e \in Envs |-> NoJob]

-----------------------------------------------------------------------------
(* docker events tells whoever is connected. *)
ContainersChange(e) == /\ \E s \in States \ {real[e]} : real' = [real EXCEPT ![e] = s]
                       /\ wire' = IF stream THEN wire \union {e} ELSE wire
                       /\ UNCHANGED <<docker, card, fetch, stream, job>>

(* The daemon, config.json or the compose file fails docker compose ps, or not. *)
DockerComesAndGoes(e) == /\ docker' = [docker EXCEPT ![e] = ~@]
                         /\ UNCHANGED <<real, card, fetch, stream, wire, job>>

(* GetEnvStatus answers 200 whatever becomes of docker compose ps.             *)
(* invalidateQueries and refetch drop a question under way and ask again.      *)
EnvStatus(e) == IF docker[e] THEN real[e] ELSE "unknown"
AskStatus(e) == fetch' = [fetch EXCEPT ![e] = EnvStatus(e)]

EventArrives(e) == /\ e \in wire
                   /\ wire' = wire \ {e}
                   /\ AskStatus(e)
                   /\ UNCHANGED <<real, docker, card, stream, job>>

(* An event of an older deployment bears the name of the environment only and *)
(* is taken for the first workspace that has one of that name: not this page's. *)
EventMistaken(e) == /\ e \in wire
                    /\ wire' = wire \ {e}
                    /\ UNCHANGED <<real, docker, card, fetch, stream, job>>

(* The effect of useDockerEvents: the old stream is closed, with what was on  *)
(* it, and one is opened, on each new token and workspace list; a proxy or a  *)
(* server that ends it makes the browser try again.                           *)
StreamOpens == /\ ~stream
               /\ stream' = TRUE
               /\ UNCHANGED <<real, docker, card, fetch, wire, job>>
StreamCloses == /\ stream
                /\ stream' = FALSE
                /\ wire' = {}
                /\ UNCHANGED <<real, docker, card, fetch, job>>

(* Mutant: the timer is a fallback for when the stream is down. *)
PollStatusAsFallback(e) == /\ fetch[e] = "none" /\ ~stream
                           /\ AskStatus(e)
                           /\ UNCHANGED <<real, docker, card, stream, wire, job>>

PollStatus(e) == /\ fetch[e] = "none"
                 /\ AskStatus(e)
                 /\ UNCHANGED <<real, docker, card, stream, wire, job>>

(* An answer that is lost on its way (retry: false) leaves the card as it was. *)
StatusArrives(e) == /\ fetch[e] \in Statuses
                    /\ card' = [card EXCEPT ![e] = fetch[e]]
                    /\ fetch' = [fetch EXCEPT ![e] = "none"]
                    /\ UNCHANGED <<real, docker, stream, wire, job>>
StatusLost(e) == /\ fetch[e] \in Statuses
                 /\ fetch' = [fetch EXCEPT ![e] = "none"]
                 /\ UNCHANGED <<real, docker, card, stream, wire, job>>

-----------------------------------------------------------------------------
(* Commands: one may be pressed while another runs.  What they do to the *)
(* containers is ContainersChange.                                       *)
Press(e) == /\ job[e].open + job[e].closed < MaxJobs
            /\ job' = [job EXCEPT ![e].open = @ + 1]
            /\ UNCHANGED <<real, docker, card, fetch, stream, wire>>

JobEnds(e) == /\ job[e].open > 0
              /\ job[e].closed < MaxJobs
              /\ job' = [job EXCEPT ![e] = [open |-> @.open - 1, closed |-> @.closed + 1]]
              /\ UNCHANGED <<real, docker, card, fetch, stream, wire>>

(* Two seconds after the socket closed. *)
AfterJob(e) == /\ job[e].closed > 0
               /\ AskStatus(e)
               /\ job' = [job EXCEPT ![e].closed = @ - 1]
               /\ UNCHANGED <<real, docker, card, stream, wire>>

-----------------------------------------------------------------------------
Next == \/ StreamOpens \/ StreamCloses
        \/ \E e \in Envs : \/ ContainersChange(e) \/ DockerComesAndGoes(e)
                           \/ EventArrives(e) \/ EventMistaken(e)
                           \/ PollStatus(e) \/ StatusArrives(e) \/ StatusLost(e)
                           \/ Press(e) \/ JobEnds(e) \/ AfterJob(e)

(* The page's timer goes on and not every answer is lost.  The stream of events *)
(* is owed nothing: it may be closed whenever something happens.                *)
Fairness == \A e \in Envs : WF_vars(PollStatus(e)) /\ SF_vars(StatusArrives(e))

Spec == Init /\ [][Next]_vars /\ Fairness

-----------------------------------------------------------------------------
(* A card comes to show the state its containers stay in, or that it cannot be *)
(* told, though events are lost whenever the stream is reopened, commands end  *)
(* in any order, and answers read before a change may arrive after it (EnvCard's *)
(* query, useDockerEvents and GetEnvStatus).                                   *)
CardCatchesUp ==
    \A e \in Envs : \A s \in Statuses : <>[](EnvStatus(e) = s) => <>[](card[e] = s)
=============================================================================
