---------------------------- MODULE ActionStream ----------------------------
(***************************************************************************)
(* Running a run.sh command from the browser: the RunAction handler of     *)
(* dads-ui/backend/api/handlers.go with shell.Bridge.Run beneath it.       *)
(*                                                                         *)
(* Four threads of control carry the output of one command to one          *)
(* WebSocket: the child process writes into an operating-system pipe; a    *)
(* copying goroutine of os/exec moves it into an io.Pipe; the pump         *)
(* goroutine started by the handler reads that and writes text frames; the *)
(* handler itself waits for the command, closes the io.Pipe and writes the *)
(* verdict.  An io.Pipe has no buffer: a Write returns as soon as the last *)
(* byte has been READ, which is before the pump has sent it.               *)
(*                                                                         *)
(* Output is a sequence of numbered chunks; the chunks inside the pipes    *)
(* are represented by the counters written >= copied >= taken.             *)
(***************************************************************************)
EXTENDS Integers, Sequences

CONSTANTS
  Sessions,   (* WebSocket connections, one command each                   *)
  Asked,      (* the commands clients ask for                              *)
  MaxChunks,  (* a command prints at most this many chunks                 *)
  PipeCap,    (* chunks the operating-system pipe holds                    *)
  SockCap     (* frames in flight to a client that does not read           *)

ASSUME StreamAssumption ==
  /\ MaxChunks \in Nat
  /\ PipeCap \in Nat \ {0}
  /\ SockCap \in Nat \ {0}

(* bridge.go: the commands the backend is permitted to run.                *)
allowedCommands ==
  {"start", "stop", "down", "restart", "update", "ps", "logs", "refresh",
   "backup", "restore", "init", "version"}

(* RunAction leaves no audit row for these.                                *)
Quiet == {"logs", "ps"}

(* deploy.sh follows the logs (`logs -f`): the command does not end.       *)
Endless == {"logs"}

VARIABLES
  server,   (* the backend process: "up" or "crashed"                      *)
  client,   (* the browser's end: "absent", "connected", "gone"            *)
  main,     (* the handler goroutine                                       *)
  command,  (* the command asked for                                       *)
  failed,   (* runErr # nil                                                *)
  child,    (* the child process: "none", "running", "ok", "error"         *)
  plan,     (* how many chunks the child is going to print                 *)
  written,  (* chunks the child has written                                *)
  copied,   (* chunks the copying goroutine has read                       *)
  taken,    (* chunks the pump has read from the io.Pipe                   *)
  copier,   (* the copying goroutine: "off", "reading", "handing", "done"  *)
  pump,     (* the pump: "off", "reading", "holding", "writing", "done"    *)
  pipe,     (* the write end of the io.Pipe: "open" or "closed"            *)
  spoiled,  (* two goroutines shared the connection's write buffer         *)
  socket,   (* frames written to the connection and not yet read           *)
  screen,   (* history: frames the browser has read                        *)
  audit     (* sessions that left a row in audit_log                       *)

vars == <<server, client, main, command, failed, child, plan, written, copied,
          taken, copier, pump, pipe, spoiled, socket, screen, audit>>

handlerVars == <<main, command, failed>>
childVars == <<child, plan, written>>
pipeVars == <<copied, taken, copier, pump, pipe>>
wireVars == <<spoiled, socket, screen>>

Out(n)     == [kind |-> "out", n |-> n]
Verdict(f) == [kind |-> "verdict", n |-> IF f THEN 1 ELSE 0]
Refusal    == [kind |-> "refusal", n |-> 0]
Garbled    == [kind |-> "garbled", n |-> 0]
Frames     == [kind : {"out", "verdict", "refusal", "garbled"}, n : Nat]

(* Where the handler is; "told" is after the verdict, "returning" after a   *)
(* panic in place of one, and the deferred Close is still to run in both.  *)
Stages == {"idle", "request", "run", "wait", "close", "verdict", "writing", "told",
           "returning", "closed"}

TypeOK ==
  /\ server \in {"up", "crashed"}
  /\ client \in [Sessions -> {"absent", "connected", "gone"}]
  /\ main \in [Sessions -> Stages]
  /\ command \in [Sessions -> Asked]
  /\ failed \in [Sessions -> BOOLEAN]
  /\ child \in [Sessions -> {"none", "running", "ok", "error"}]
  /\ plan \in [Sessions -> 0 .. MaxChunks]
  /\ written \in [Sessions -> 0 .. MaxChunks]
  /\ copied \in [Sessions -> 0 .. MaxChunks]
  /\ taken \in [Sessions -> 0 .. MaxChunks]
  /\ copier \in [Sessions -> {"off", "reading", "handing", "done"}]
  /\ pump \in [Sessions -> {"off", "reading", "holding", "writing", "done"}]
  /\ pipe \in [Sessions -> {"open", "closed"}]
  /\ spoiled \in [Sessions -> BOOLEAN]
  /\ socket \in [Sessions -> Seq(Frames)]
  /\ screen \in [Sessions -> Seq(Frames)]
  /\ audit \subseteq Sessions

Init ==
  /\ server = "up"
  /\ client = [s \in Sessions |-> "absent"]
  /\ main = [s \in Sessions |-> "idle"]
  /\ command \in [Sessions -> Asked]
  /\ failed = [s \in Sessions |-> FALSE]
  /\ child = [s \in Sessions |-> "none"]
  /\ plan = [s \in Sessions |-> 0]
  /\ written = [s \in Sessions |-> 0]
  /\ copied = [s \in Sessions |-> 0]
  /\ taken = [s \in Sessions |-> 0]
  /\ copier = [s \in Sessions |-> "off"]
  /\ pump = [s \in Sessions |-> "off"]
  /\ pipe = [s \in Sessions |-> "open"]
  /\ spoiled = [s \in Sessions |-> FALSE]
  /\ socket = [s \in Sessions |-> << >>]
  /\ screen = [s \in Sessions |-> << >>]
  /\ audit = {}

-----------------------------------------------------------------------------
(* The connection.  WriteMessage blocks while the client is there but does *)
(* not read; once the client is gone, or the handler has closed its end,   *)
(* it fails, and every caller ignores the error.                           *)
Dead(s) == client[s] = "gone" \/ main[s] = "closed"
CanFinishWrite(s) == Dead(s) \/ Len(socket[s]) < SockCap
Sent(s, f) ==
  IF Dead(s) THEN socket
  ELSE [socket EXCEPT ![s] = Append(@, IF spoiled[s] THEN Garbled ELSE f)]

Connect(s) ==
  /\ main[s] = "idle" /\ server = "up"
  /\ main' = [main EXCEPT ![s] = "request"]
  /\ client' = [client EXCEPT ![s] = "connected"]
  /\ UNCHANGED <<server, command, failed, childVars, pipeVars, wireVars, audit>>

(* A malformed first message, or a token that does not validate: an error  *)
(* frame, and the connection is closed; no other thread uses it yet.       *)
Refuse(s) ==
  /\ main[s] = "request" /\ server = "up"
  /\ main' = [main EXCEPT ![s] = "closed"]
  /\ socket' = Sent(s, Refusal)
  /\ UNCHANGED <<server, client, command, failed, childVars, pipeVars, spoiled,
                 screen, audit>>

(* The request is read and its token validated; the audit row is written   *)
(* unless the command is quiet (an insert that fails is ignored); the      *)
(* io.Pipe is made and the pump started.                                   *)
Accept(s) ==
  /\ main[s] = "request" /\ server = "up"
  /\ main' = [main EXCEPT ![s] = "run"]
  /\ audit' \in IF command[s] \in Quiet THEN {audit} ELSE {audit, audit \cup {s}}
  /\ pump' = [pump EXCEPT ![s] = "reading"]
  /\ UNCHANGED <<server, client, command, failed, childVars, copied, taken,
                 copier, pipe, wireVars>>

(* Bridge.Run: a command outside the allowlist is refused, and so is one   *)
(* whose process cannot be started; nothing runs.                          *)
RunFails(s) ==
  /\ main[s] = "run" /\ server = "up"
  /\ main' = [main EXCEPT ![s] = "close"]
  /\ failed' = [failed EXCEPT ![s] = TRUE]
  /\ UNCHANGED <<server, client, command, childVars, pipeVars, wireVars, audit>>

(* cmd.Start: the child and the goroutine that copies its output.          *)
RunStarts(s) ==
  /\ main[s] = "run" /\ server = "up"
  /\ command[s] \in allowedCommands
  /\ main' = [main EXCEPT ![s] = "wait"]
  /\ child' = [child EXCEPT ![s] = "running"]
  /\ \E n \in 0 .. MaxChunks : plan' = [plan EXCEPT ![s] = n]
  /\ copier' = [copier EXCEPT ![s] = "reading"]
  /\ UNCHANGED <<server, client, command, failed, written, copied, taken, pump,
                 pipe, wireVars, audit>>

\* Mutant: waits for the process but not for its output.
WaitForExitOnly(s) ==
  /\ main[s] = "wait" /\ server = "up"
  /\ child[s] \in {"ok", "error"}
  /\ main' = [main EXCEPT ![s] = "close"]
  /\ failed' = [failed EXCEPT ![s] = FALSE]
  /\ UNCHANGED <<server, client, command, childVars, pipeVars, wireVars, audit>>

(* cmd.Wait: the process has exited and its output has all been copied.    *)
WaitReturns(s) ==
  /\ main[s] = "wait" /\ server = "up"
  /\ child[s] \in {"ok", "error"} /\ copier[s] = "done"
  /\ main' = [main EXCEPT ![s] = "close"]
  /\ failed' = [failed EXCEPT ![s] = child[s] = "error"]
  /\ UNCHANGED <<server, client, command, childVars, pipeVars, wireVars, audit>>

\* Mutant: the handler returns without closing the pipe.
PipeLeftOpen(s) ==
  /\ main[s] = "close" /\ server = "up"
  /\ main' = [main EXCEPT ![s] = "verdict"]
  /\ UNCHANGED <<server, client, command, failed, childVars, pipeVars, wireVars, audit>>

(* pw.Close()                                                              *)
ClosePipe(s) ==
  /\ main[s] = "close" /\ server = "up"
  /\ main' = [main EXCEPT ![s] = "verdict"]
  /\ pipe' = [pipe EXCEPT ![s] = "closed"]
  /\ UNCHANGED <<server, client, command, failed, childVars, copied, taken,
                 copier, pump, wireVars, audit>>

(* The handler enters WriteMessage for the verdict.  If the pump is inside *)
(* it as well, the library either notices and panics (net/http recovers a  *)
(* panicking handler, whose deferred Close runs) or does not, and the two  *)
(* overwrite each other's buffer.                                          *)
BeginVerdict(s) ==
  /\ main[s] = "verdict" /\ server = "up"
  /\ \/ /\ main' = [main EXCEPT ![s] = "writing"]
        /\ spoiled' = [spoiled EXCEPT ![s] = @ \/ pump[s] = "writing"]
     \/ /\ pump[s] = "writing"
        /\ main' = [main EXCEPT ![s] = "returning"]
        /\ UNCHANGED spoiled
  /\ UNCHANGED <<server, client, command, failed, childVars, pipeVars, socket,
                 screen, audit>>

(* The verdict is written.  The connection is still open, and the pump may *)
(* yet send the chunk it holds.                                            *)
EndVerdict(s) ==
  /\ main[s] = "writing" /\ server = "up" /\ CanFinishWrite(s)
  /\ socket' = Sent(s, Verdict(failed[s]))
  /\ main' = [main EXCEPT ![s] = "told"]
  /\ UNCHANGED <<server, client, command, failed, childVars, pipeVars, spoiled,
                 screen, audit>>

(* The handler has returned: the deferred conn.Close().                    *)
Close(s) ==
  /\ main[s] \in {"told", "returning"} /\ server = "up"
  /\ main' = [main EXCEPT ![s] = "closed"]
  /\ UNCHANGED <<server, client, command, failed, childVars, pipeVars, wireVars, audit>>

-----------------------------------------------------------------------------
(* The child process: it blocks while the pipe is full, and exits when it  *)
(* has printed what it had to print.                                       *)
ChildWrite(s) ==
  /\ child[s] = "running"
  /\ written[s] < plan[s] /\ written[s] - copied[s] < PipeCap
  /\ written' = [written EXCEPT ![s] = @ + 1]
  /\ UNCHANGED <<server, client, handlerVars, child, plan, pipeVars, wireVars, audit>>

ChildExit(s) ==
  /\ child[s] = "running" /\ written[s] = plan[s]
  /\ \E code \in {"ok", "error"} : child' = [child EXCEPT ![s] = code]
  /\ UNCHANGED <<server, client, handlerVars, plan, written, pipeVars, wireVars, audit>>

\* Mutant: the end of the pipe is not noticed.
CopierReadsPastTheEnd(s) ==
  /\ copier[s] = "reading" /\ server = "up"
  /\ \/ /\ copied[s] <= written[s]
        /\ copied' = [copied EXCEPT ![s] = @ + 1]
        /\ copier' = [copier EXCEPT ![s] = "handing"]
     \/ /\ copied[s] >= written[s] /\ child[s] # "running"
        /\ copier' = [copier EXCEPT ![s] = "done"]
        /\ UNCHANGED copied
  /\ UNCHANGED <<server, client, handlerVars, childVars, taken, pump, pipe, wireVars, audit>>

(* The copying goroutine of os/exec: a chunk read from the pipe is handed  *)
(* to the io.Pipe, which blocks until the pump has read it.                *)
CopierReads(s) ==
  /\ copier[s] = "reading" /\ server = "up"
  /\ \/ /\ copied[s] < written[s]
        /\ copied' = [copied EXCEPT ![s] = @ + 1]
        /\ copier' = [copier EXCEPT ![s] = "handing"]
     \/ /\ copied[s] = written[s] /\ child[s] # "running"
        /\ copier' = [copier EXCEPT ![s] = "done"]
        /\ UNCHANGED copied
  /\ UNCHANGED <<server, client, handlerVars, childVars, taken, pump, pipe, wireVars, audit>>

-----------------------------------------------------------------------------
(* pr.Read: takes the chunk being handed over and releases the copying     *)
(* goroutine, or sees the end of the pipe.                                 *)
PumpReads(s) ==
  /\ pump[s] = "reading" /\ server = "up"
  /\ \/ /\ copier[s] = "handing"
        /\ taken' = [taken EXCEPT ![s] = copied[s]]
        /\ copier' = [copier EXCEPT ![s] = "reading"]
        /\ pump' = [pump EXCEPT ![s] = "holding"]
     \/ /\ copier[s] # "handing" /\ pipe[s] = "closed"
        /\ pump' = [pump EXCEPT ![s] = "done"]
        /\ UNCHANGED <<taken, copier>>
  /\ UNCHANGED <<server, client, handlerVars, childVars, copied, pipe, wireVars, audit>>

(* The pump enters WriteMessage.  If the handler is inside it, a panic in  *)
(* this bare goroutine takes the whole backend down, every session's child *)
(* process with it.                                                        *)
BeginSend(s) ==
  /\ pump[s] = "holding" /\ server = "up"
  /\ pump' = [pump EXCEPT ![s] = "writing"]
  /\ spoiled' = [spoiled EXCEPT ![s] = @ \/ main[s] = "writing"]
  /\ UNCHANGED <<server, client, handlerVars, childVars, copied, taken, copier,
                 pipe, socket, screen, audit>>

CrashInSend(s) ==
  /\ pump[s] = "holding" /\ server = "up" /\ main[s] = "writing"
  /\ server' = "crashed"
  /\ child' = [t \in Sessions |-> IF child[t] = "running" THEN "error" ELSE child[t]]
  /\ UNCHANGED <<client, handlerVars, plan, written, pipeVars, wireVars, audit>>

\* Mutant: the pump gives up at the first write that fails.
EndSendOrGiveUp(s) ==
  /\ pump[s] = "writing" /\ server = "up" /\ CanFinishWrite(s)
  /\ socket' = Sent(s, Out(taken[s]))
  /\ pump' = [pump EXCEPT ![s] = IF Dead(s) THEN "done" ELSE "reading"]
  /\ UNCHANGED <<server, client, handlerVars, childVars, copied, taken, copier,
                 pipe, spoiled, screen, audit>>

\* Mutant: the pump skips a chunk when the connection is busy.
EndSendOrSkip(s) ==
  /\ pump[s] = "writing" /\ server = "up"
  /\ socket' = IF CanFinishWrite(s) THEN Sent(s, Out(taken[s])) ELSE socket
  /\ pump' = [pump EXCEPT ![s] = "reading"]
  /\ UNCHANGED <<server, client, handlerVars, childVars, copied, taken, copier,
                 pipe, spoiled, screen, audit>>

(* The frame is out, or the write failed: the error is ignored and the     *)
(* pump goes on draining the pipe.                                         *)
EndSend(s) ==
  /\ pump[s] = "writing" /\ server = "up" /\ CanFinishWrite(s)
  /\ socket' = Sent(s, Out(taken[s]))
  /\ pump' = [pump EXCEPT ![s] = "reading"]
  /\ UNCHANGED <<server, client, handlerVars, childVars, copied, taken, copier,
                 pipe, spoiled, screen, audit>>

-----------------------------------------------------------------------------
(* The browser reads frames as they come, or closes the tab.               *)
ClientReads(s) ==
  /\ client[s] = "connected" /\ socket[s] # << >>
  /\ screen' = [screen EXCEPT ![s] = Append(@, Head(socket[s]))]
  /\ socket' = [socket EXCEPT ![s] = Tail(@)]
  /\ UNCHANGED <<server, client, handlerVars, childVars, pipeVars, spoiled, audit>>

ClientLeaves(s) ==
  /\ client[s] = "connected"
  /\ client' = [client EXCEPT ![s] = "gone"]
  /\ socket' = [socket EXCEPT ![s] = << >>]
  /\ UNCHANGED <<server, handlerVars, childVars, pipeVars, spoiled, screen, audit>>

Main(s) ==
  \/ Refuse(s) \/ Accept(s) \/ RunFails(s) \/ RunStarts(s) \/ WaitReturns(s)
  \/ ClosePipe(s) \/ BeginVerdict(s) \/ EndVerdict(s) \/ Close(s)
Child(s) == ChildWrite(s) \/ ChildExit(s)
Pump(s) == PumpReads(s) \/ BeginSend(s) \/ CrashInSend(s) \/ EndSend(s)

Next ==
  \E s \in Sessions :
    \/ Connect(s) \/ Main(s) \/ Child(s) \/ CopierReads(s) \/ Pump(s)
    \/ ClientReads(s) \/ ClientLeaves(s)

Spec == Init /\ [][Next]_vars

(* Goroutines and processes run; a command other than `logs` prints what   *)
(* it has to and exits.  A browser that stays connected reads; nothing     *)
(* makes it connect or leave.                                              *)
Fairness ==
  \A s \in Sessions :
    /\ WF_vars(Main(s)) /\ WF_vars(CopierReads(s)) /\ WF_vars(Pump(s))
    /\ WF_vars(command[s] \notin Endless /\ Child(s))
    /\ WF_vars(ClientReads(s))

FairSpec == Spec /\ Fairness

-----------------------------------------------------------------------------
(* Properties                                                              *)

(* Everything written to the browser so far, read or still on its way.     *)
Wire(s) == screen[s] \o socket[s]

(* The verdict stands before the i-th frame.                               *)
Told(s, i) == \E j \in 1 .. i - 1 : Wire(s)[j].kind = "verdict"

(* What the browser has seen or is about to see is the command's output    *)
(* from its first chunk on, nothing missing, repeated or swapped, through  *)
(* four threads, a client that reads late and a handler that writes while  *)
(* the pump still does.  The verdict may come before the end of the        *)
(* output, but by one chunk at most: what follows it is the last one.      *)
OutputIsAPrefix ==
  \A s \in Sessions : \A i \in 1 .. Len(Wire(s)) : Wire(s)[i].kind = "out" =>
    IF Told(s, i) THEN Wire(s)[i].n = i - 1 /\ i - 1 = plan[s]
                  ELSE Wire(s)[i].n = i

(* A verdict of success is shown only for a permitted command whose        *)
(* process has exited with status 0 and whose output has all been read.    *)
VerdictIsTrue ==
  \A s \in Sessions : \A i \in 1 .. Len(screen[s]) :
    screen[s][i] = Verdict(FALSE) =>
      child[s] = "ok" /\ taken[s] = plan[s] /\ command[s] \in allowedCommands

(* A client that closes its tab, or reads slowly, never leaves a command   *)
(* stuck half-way (a restore, say): the output keeps being drained.        *)
CommandRunsToItsEnd ==
  \A s \in Sessions :
    (child[s] = "running" /\ command[s] \notin Endless) ~> child[s] # "running"

(* No pump goroutine outlives its handler for good.                        *)
PumpEnds ==
  \A s \in Sessions :
    main[s] = "closed" ~> (pump[s] \in {"off", "done"} \/ server = "crashed")
=============================================================================
