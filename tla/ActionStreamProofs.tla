------------------------- MODULE ActionStreamProofs -------------------------
(***************************************************************************)
(* Proofs about ActionStream, for any number of connections, any length of *)
(* output and any size of the buffers: its type invariant, that output     *)
(* reaches the browser in order and complete (OutputIsAPrefix), and that a *)
(* verdict of success is true when it is shown (VerdictIsTrue).            *)
(*                                                                         *)
(* OutputIsAPrefix is about positions in the stream of frames, and the     *)
(* pump does not know them: EndSend puts chunk `taken` after whatever is   *)
(* there.  The strengthening ties the two: while the connection is alive   *)
(* and unspoiled there are exactly as many frames as chunks the pump has   *)
(* sent, and one more once the handler has told the verdict (LengthInv).   *)
(* Whether it has is read off the handler (TellInv).  That the pump misses *)
(* no chunk is CopierInv, that the chunk it still holds at the verdict is  *)
(* the last is ChildInv, and that no thread of a session is at work before *)
(* its handler has started it is HandlerInv.                               *)
(***************************************************************************)
EXTENDS ActionStream, TLAPS

(* No thread of a session is at work before its handler has started it.    *)
HandlerInv(s) ==
  /\ main[s] = "idle" => client[s] = "absent"
  /\ main[s] \in {"idle", "request"} => pump[s] = "off"
  /\ main[s] \in {"idle", "request", "run"} => copier[s] = "off"

(* The chunk being handed over is the one after those the pump has read.   *)
CopierInv(s) ==
  copied[s] = IF copier[s] = "handing" THEN taken[s] + 1 ELSE taken[s]

(* The chunks the pump has sent; the one in its hands is not.              *)
Out1(s) == IF pump[s] \in {"holding", "writing"} THEN taken[s] - 1 ELSE taken[s]

LengthInv(s) ==
  /\ pump[s] \in {"holding", "writing"} => taken[s] > 0
  /\ ~spoiled[s] /\ ~Dead(s) =>
       Len(Wire(s)) = IF main[s] = "told" THEN Out1(s) + 1 ELSE Out1(s)

(* The verdict is on the wire, if the handler's stage says so.             *)
HasVerdict(s) == \E j \in 1 .. Len(Wire(s)) : Wire(s)[j].kind = "verdict"

TellInv(s) ==
  /\ HasVerdict(s) => main[s] \in {"told", "closed"}
  /\ main[s] = "told" /\ ~spoiled[s] /\ ~Dead(s) => HasVerdict(s)

InOrder(s) ==
  \A i \in 1 .. Len(Wire(s)) : Wire(s)[i].kind = "out" =>
    IF Told(s, i) THEN Wire(s)[i].n = i - 1 /\ i - 1 = plan[s]
                  ELSE Wire(s)[i].n = i

Good(s) == HandlerInv(s) /\ CopierInv(s) /\ LengthInv(s) /\ TellInv(s) /\ InOrder(s)

(* Before the run nothing has been printed; after it, everything has been  *)
(* copied.  What each thread may conclude from the one below it.           *)
Before(s) == main[s] \in {"idle", "request", "run"}
Past(s)   == ~Before(s) /\ main[s] # "wait"

ChildInv(s) ==
  /\ Before(s) => child[s] = "none" /\ plan[s] = 0 /\ written[s] = 0 /\ copied[s] = 0
  /\ child[s] = "none" <=> copier[s] = "off"
  /\ child[s] = "ok" => written[s] = plan[s]
  /\ child[s] = "error" /\ server = "up" => written[s] = plan[s]
  /\ copier[s] = "done" => copied[s] = written[s] /\ child[s] # "running"
  /\ main[s] = "wait" => command[s] \in allowedCommands /\ child[s] # "none"
  /\ Past(s) => copied[s] = plan[s] /\ copier[s] \in {"off", "done"}

IInv == TypeOK /\ \A s \in Sessions : Good(s) /\ ChildInv(s)

-----------------------------------------------------------------------------
(* Reading a frame moves it from the socket to the screen and changes      *)
(* nothing of what is on the wire.                                         *)
LEMMA ReadKeepsWire ==
  ASSUME NEW t \in Seq(Frames), NEW u \in Seq(Frames), u # << >>
  PROVE  Append(t, Head(u)) \o Tail(u) = t \o u
  OBVIOUS

(* What is read is a frame, and what remains are frames.                   *)
LEMMA ReadTypes ==
  ASSUME NEW u \in Seq(Frames), u # << >>
  PROVE  Head(u) \in Frames /\ Tail(u) \in Seq(Frames)
  OBVIOUS

(* Writing a frame puts it at the end of the wire.                         *)
LEMMA WriteEndsWire ==
  ASSUME NEW t \in Seq(Frames), NEW u \in Seq(Frames), NEW f \in Frames
  PROVE  t \o Append(u, f) = Append(t \o u, f)
  OBVIOUS

(* The wire is a sequence of frames that begins with those on the screen.  *)
LEMMA WireIsFrames ==
  ASSUME NEW t \in Seq(Frames), NEW u \in Seq(Frames)
  PROVE  /\ t \o u \in Seq(Frames)
         /\ Len(t) <= Len(t \o u)
         /\ \A i \in 1 .. Len(t) : (t \o u)[i] = t[i]
         /\ t \o << >> = t
  OBVIOUS

(* A frame written is the last one, and leaves the others where they are.  *)
LEMMA AppendFrame ==
  ASSUME NEW w \in Seq(Frames), NEW f \in Frames
  PROVE  /\ Len(Append(w, f)) = Len(w) + 1
         /\ \A i \in 1 .. Len(w) : Append(w, f)[i] = w[i]
         /\ Append(w, f)[Len(w) + 1] = f
  OBVIOUS



(* A frame sent is added to one socket or to none.                         *)
LEMMA SentTypes ==
  ASSUME TypeOK, NEW s \in Sessions, NEW f \in Frames
  PROVE  Sent(s, f) \in [Sessions -> Seq(Frames)]
  <1>1. /\ socket \in [Sessions -> Seq(Frames)] /\ socket[s] \in Seq(Frames)
        /\ Garbled \in Frames
    BY DEF TypeOK, Garbled, Frames
  <1>2. Append(socket[s], f) \in Seq(Frames) /\ Append(socket[s], Garbled) \in Seq(Frames)
    BY <1>1
  <1>. QED BY <1>1, <1>2 DEF Sent

(* The frames the threads write are frames.                                *)
LEMMA FrameTypes ==
  ASSUME TypeOK, NEW s \in Sessions
  PROVE  /\ Out(taken[s]) \in Frames /\ Verdict(failed[s]) \in Frames
         /\ Refusal \in Frames /\ Garbled \in Frames
         /\ socket[s] \in Seq(Frames) /\ screen[s] \in Seq(Frames)
  BY StreamAssumption DEF TypeOK, Out, Verdict, Refusal, Garbled, Frames

(* The initial states satisfy the invariant.                               *)
LEMMA InitInv == Init => IInv
  <1>. SUFFICES ASSUME Init PROVE IInv
    OBVIOUS
  <1>1. TypeOK
    BY StreamAssumption DEF Init, TypeOK, Stages
  <1>2. \A s \in Sessions : Wire(s) = << >> /\ Len(Wire(s)) = 0
    <2>1. << >> \in Seq(Frames)
      OBVIOUS
    <2>2. << >> \o << >> = << >> /\ Len(<< >>) = 0
      BY <2>1, WireIsFrames
    <2>. QED BY <2>2 DEF Init, Wire
  <1>3. \A s \in Sessions : HandlerInv(s) /\ CopierInv(s) /\ ChildInv(s)
    BY DEF Init, HandlerInv, CopierInv, ChildInv, Before, Past
  <1>4. \A s \in Sessions : LengthInv(s)
    BY <1>2 DEF Init, LengthInv, Out1
  <1>5. \A s \in Sessions : InOrder(s) /\ TellInv(s)
    <2>0. 1 .. 0 = {}
      OBVIOUS
    <2>1. \A s \in Sessions : 1 .. Len(Wire(s)) = {}
      BY <1>2, <2>0, Zenon
    <2>2. \A s \in Sessions : InOrder(s) /\ ~HasVerdict(s)
      BY <2>1 DEF InOrder, HasVerdict
    <2>. QED BY <2>2 DEF Init, TellInv
  <1>. QED BY <1>1, <1>3, <1>4, <1>5 DEF IInv, Good

(* Every step keeps the types: one step per action, and under it one per   *)
(* variable the action changes.                                            *)
LEMMA TypeStep == TypeOK /\ [Next]_vars => TypeOK'
  <1>. SUFFICES ASSUME TypeOK, [Next]_vars PROVE TypeOK'
    OBVIOUS
  <1>. USE StreamAssumption DEF Stages
  <1>1. ASSUME NEW s \in Sessions, Connect(s) PROVE TypeOK'
    <2>1. UNCHANGED <<server, command, failed, child, plan, written, copied, taken, copier, pump, pipe, spoiled, socket, screen, audit>>
      BY <1>1 DEF Connect, handlerVars, childVars, pipeVars, wireVars
    <2>2. main' \in [Sessions -> Stages]
      BY <1>1 DEF Connect, TypeOK
    <2>3. client' \in [Sessions -> {"absent", "connected", "gone"}]
      BY <1>1 DEF Connect, TypeOK
    <2>. QED BY <2>1, <2>2, <2>3 DEF TypeOK
  <1>2. ASSUME NEW s \in Sessions, Refuse(s) PROVE TypeOK'
    <2>1. UNCHANGED <<server, client, command, failed, child, plan, written, copied, taken, copier, pump, pipe, spoiled, screen, audit>>
      BY <1>2 DEF Refuse, handlerVars, childVars, pipeVars, wireVars
    <2>2. main' \in [Sessions -> Stages]
      BY <1>2 DEF Refuse, TypeOK
    <2>3. socket' \in [Sessions -> Seq(Frames)]
      BY <1>2, SentTypes, FrameTypes DEF Refuse, TypeOK
    <2>. QED BY <2>1, <2>2, <2>3 DEF TypeOK
  <1>3. ASSUME NEW s \in Sessions, Accept(s) PROVE TypeOK'
    <2>1. UNCHANGED <<server, client, command, failed, child, plan, written, copied, taken, copier, pipe, spoiled, socket, screen>>
      BY <1>3 DEF Accept, handlerVars, childVars, pipeVars, wireVars
    <2>2. main' \in [Sessions -> Stages]
      BY <1>3 DEF Accept, TypeOK
    <2>3. audit' \subseteq Sessions
      BY <1>3 DEF Accept, TypeOK
    <2>4. pump' \in [Sessions -> {"off", "reading", "holding", "writing", "done"}]
      BY <1>3 DEF Accept, TypeOK
    <2>. QED BY <2>1, <2>2, <2>3, <2>4 DEF TypeOK
  <1>4. ASSUME NEW s \in Sessions, RunFails(s) PROVE TypeOK'
    <2>1. UNCHANGED <<server, client, command, child, plan, written, copied, taken, copier, pump, pipe, spoiled, socket, screen, audit>>
      BY <1>4 DEF RunFails, handlerVars, childVars, pipeVars, wireVars
    <2>2. main' \in [Sessions -> Stages]
      BY <1>4 DEF RunFails, TypeOK
    <2>3. failed' \in [Sessions -> BOOLEAN]
      BY <1>4 DEF RunFails, TypeOK
    <2>. QED BY <2>1, <2>2, <2>3 DEF TypeOK
  <1>5. ASSUME NEW s \in Sessions, RunStarts(s) PROVE TypeOK'
    <2>1. UNCHANGED <<server, client, command, failed, written, copied, taken, pump, pipe, spoiled, socket, screen, audit>>
      BY <1>5 DEF RunStarts, handlerVars, childVars, pipeVars, wireVars
    <2>2. main' \in [Sessions -> Stages]
      BY <1>5 DEF RunStarts, TypeOK
    <2>3. child' \in [Sessions -> {"none", "running", "ok", "error"}]
      BY <1>5 DEF RunStarts, TypeOK
    <2>4. plan' \in [Sessions -> 0 .. MaxChunks]
      BY <1>5 DEF RunStarts, TypeOK
    <2>5. copier' \in [Sessions -> {"off", "reading", "handing", "done"}]
      BY <1>5 DEF RunStarts, TypeOK
    <2>. QED BY <2>1, <2>2, <2>3, <2>4, <2>5 DEF TypeOK
  <1>6. ASSUME NEW s \in Sessions, WaitReturns(s) PROVE TypeOK'
    <2>1. UNCHANGED <<server, client, command, child, plan, written, copied, taken, copier, pump, pipe, spoiled, socket, screen, audit>>
      BY <1>6 DEF WaitReturns, handlerVars, childVars, pipeVars, wireVars
    <2>2. main' \in [Sessions -> Stages]
      BY <1>6 DEF WaitReturns, TypeOK
    <2>3. failed' \in [Sessions -> BOOLEAN]
      BY <1>6 DEF WaitReturns, TypeOK
    <2>. QED BY <2>1, <2>2, <2>3 DEF TypeOK
  <1>7. ASSUME NEW s \in Sessions, ClosePipe(s) PROVE TypeOK'
    <2>1. UNCHANGED <<server, client, command, failed, child, plan, written, copied, taken, copier, pump, spoiled, socket, screen, audit>>
      BY <1>7 DEF ClosePipe, handlerVars, childVars, pipeVars, wireVars
    <2>2. main' \in [Sessions -> Stages]
      BY <1>7 DEF ClosePipe, TypeOK
    <2>3. pipe' \in [Sessions -> {"open", "closed"}]
      BY <1>7 DEF ClosePipe, TypeOK
    <2>. QED BY <2>1, <2>2, <2>3 DEF TypeOK
  <1>8. ASSUME NEW s \in Sessions, BeginVerdict(s) PROVE TypeOK'
    <2>1. UNCHANGED <<server, client, command, failed, child, plan, written, copied, taken, copier, pump, pipe, socket, screen, audit>>
      BY <1>8 DEF BeginVerdict, handlerVars, childVars, pipeVars, wireVars
    <2>2. main' \in [Sessions -> Stages]
      <3>1. \E l \in {"writing", "returning"} : main' = [main EXCEPT ![s] = l]
        BY <1>8 DEF BeginVerdict
      <3>. QED BY <3>1 DEF TypeOK
    <2>3. spoiled' \in [Sessions -> BOOLEAN]
      BY <1>8 DEF BeginVerdict, TypeOK
    <2>. QED BY <2>1, <2>2, <2>3 DEF TypeOK
  <1>9. ASSUME NEW s \in Sessions, EndVerdict(s) PROVE TypeOK'
    <2>1. UNCHANGED <<server, client, command, failed, child, plan, written, copied, taken, copier, pump, pipe, spoiled, screen, audit>>
      BY <1>9 DEF EndVerdict, handlerVars, childVars, pipeVars, wireVars
    <2>2. socket' \in [Sessions -> Seq(Frames)]
      BY <1>9, SentTypes, FrameTypes DEF EndVerdict, TypeOK
    <2>3. main' \in [Sessions -> Stages]
      BY <1>9 DEF EndVerdict, TypeOK
    <2>. QED BY <2>1, <2>2, <2>3 DEF TypeOK
  <1>10. ASSUME NEW s \in Sessions, ChildWrite(s) PROVE TypeOK'
    <2>1. UNCHANGED <<server, client, main, command, failed, child, plan, copied, taken, copier, pump, pipe, spoiled, socket, screen, audit>>
      BY <1>10 DEF ChildWrite, handlerVars, childVars, pipeVars, wireVars
    <2>2. written' \in [Sessions -> 0 .. MaxChunks]
      BY <1>10 DEF ChildWrite, TypeOK
    <2>. QED BY <2>1, <2>2 DEF TypeOK
  <1>11. ASSUME NEW s \in Sessions, ChildExit(s) PROVE TypeOK'
    <2>1. UNCHANGED <<server, client, main, command, failed, plan, written, copied, taken, copier, pump, pipe, spoiled, socket, screen, audit>>
      BY <1>11 DEF ChildExit, handlerVars, childVars, pipeVars, wireVars
    <2>2. child' \in [Sessions -> {"none", "running", "ok", "error"}]
      BY <1>11 DEF ChildExit, TypeOK
    <2>. QED BY <2>1, <2>2 DEF TypeOK
  <1>12. ASSUME NEW s \in Sessions, CopierReads(s) PROVE TypeOK'
    <2>1. UNCHANGED <<server, client, main, command, failed, child, plan, written, taken, pump, pipe, spoiled, socket, screen, audit>>
      BY <1>12 DEF CopierReads, handlerVars, childVars, pipeVars, wireVars
    <2>2. copied' \in [Sessions -> 0 .. MaxChunks]
      <3>1. \/ copied' = copied
            \/ copied[s] < written[s] /\ copied' = [copied EXCEPT ![s] = copied[s] + 1]
        BY <1>12 DEF CopierReads
      <3>2. copied[s] \in 0 .. MaxChunks /\ written[s] \in 0 .. MaxChunks
        BY DEF TypeOK
      <3>3. copied \in [Sessions -> 0 .. MaxChunks] /\ MaxChunks \in Nat
        BY DEF TypeOK
      <3>4. copied[s] < written[s] => copied[s] + 1 \in 0 .. MaxChunks
        BY <3>2, <3>3
      <3>. QED BY <3>1, <3>3, <3>4
    <2>3. copier' \in [Sessions -> {"off", "reading", "handing", "done"}]
      BY <1>12 DEF CopierReads, TypeOK
    <2>. QED BY <2>1, <2>2, <2>3 DEF TypeOK
  <1>13. ASSUME NEW s \in Sessions, PumpReads(s) PROVE TypeOK'
    <2>1. UNCHANGED <<server, client, main, command, failed, child, plan, written, copied, pipe, spoiled, socket, screen, audit>>
      BY <1>13 DEF PumpReads, handlerVars, childVars, pipeVars, wireVars
    <2>2. taken' \in [Sessions -> 0 .. MaxChunks]
      <3>1. taken' = taken \/ taken' = [taken EXCEPT ![s] = copied[s]]
        BY <1>13 DEF PumpReads
      <3>2. /\ copied[s] \in 0 .. MaxChunks
            /\ taken \in [Sessions -> 0 .. MaxChunks]
        BY DEF TypeOK
      <3>. QED BY <3>1, <3>2
    <2>3. copier' \in [Sessions -> {"off", "reading", "handing", "done"}]
      <3>1. copier' = copier \/ copier' = [copier EXCEPT ![s] = "reading"]
        BY <1>13 DEF PumpReads
      <3>. QED BY <3>1 DEF TypeOK
    <2>4. pump' \in [Sessions -> {"off", "reading", "holding", "writing", "done"}]
      <3>1. \E l \in {"holding", "done"} : pump' = [pump EXCEPT ![s] = l]
        BY <1>13 DEF PumpReads
      <3>. QED BY <3>1 DEF TypeOK
    <2>. QED BY <2>1, <2>2, <2>3, <2>4 DEF TypeOK
  <1>14. ASSUME NEW s \in Sessions, BeginSend(s) PROVE TypeOK'
    <2>1. UNCHANGED <<server, client, main, command, failed, child, plan, written, copied, taken, copier, pipe, socket, screen, audit>>
      BY <1>14 DEF BeginSend, handlerVars, childVars, pipeVars, wireVars
    <2>2. pump' \in [Sessions -> {"off", "reading", "holding", "writing", "done"}]
      BY <1>14 DEF BeginSend, TypeOK
    <2>3. spoiled' \in [Sessions -> BOOLEAN]
      BY <1>14 DEF BeginSend, TypeOK
    <2>. QED BY <2>1, <2>2, <2>3 DEF TypeOK
  <1>15. ASSUME NEW s \in Sessions, CrashInSend(s) PROVE TypeOK'
    <2>1. UNCHANGED <<client, main, command, failed, plan, written, copied, taken, copier, pump, pipe, spoiled, socket, screen, audit>>
      BY <1>15 DEF CrashInSend, handlerVars, childVars, pipeVars, wireVars
    <2>2. server' \in {"up", "crashed"}
      BY <1>15 DEF CrashInSend, TypeOK
    <2>3. child' \in [Sessions -> {"none", "running", "ok", "error"}]
      BY <1>15 DEF CrashInSend, TypeOK
    <2>. QED BY <2>1, <2>2, <2>3 DEF TypeOK
  <1>16. ASSUME NEW s \in Sessions, EndSend(s) PROVE TypeOK'
    <2>1. UNCHANGED <<server, client, main, command, failed, child, plan, written, copied, taken, copier, pipe, spoiled, screen, audit>>
      BY <1>16 DEF EndSend, handlerVars, childVars, pipeVars, wireVars
    <2>2. socket' \in [Sessions -> Seq(Frames)]
      BY <1>16, SentTypes, FrameTypes DEF EndSend, TypeOK
    <2>3. pump' \in [Sessions -> {"off", "reading", "holding", "writing", "done"}]
      BY <1>16 DEF EndSend, TypeOK
    <2>. QED BY <2>1, <2>2, <2>3 DEF TypeOK
  <1>17. ASSUME NEW s \in Sessions, ClientReads(s) PROVE TypeOK'
    <2>1. UNCHANGED <<server, client, main, command, failed, child, plan, written, copied, taken, copier, pump, pipe, spoiled, audit>>
      BY <1>17 DEF ClientReads, handlerVars, childVars, pipeVars, wireVars
    <2>2. /\ socket \in [Sessions -> Seq(Frames)] /\ screen \in [Sessions -> Seq(Frames)]
          /\ socket[s] \in Seq(Frames) /\ socket[s] # << >> /\ screen[s] \in Seq(Frames)
      BY <1>17 DEF ClientReads, TypeOK
    <2>3. Head(socket[s]) \in Frames /\ Tail(socket[s]) \in Seq(Frames)
      BY <2>2, ReadTypes
    <2>4. Append(screen[s], Head(socket[s])) \in Seq(Frames)
      BY <2>2, <2>3
    <2>5. screen' \in [Sessions -> Seq(Frames)]
      BY <1>17, <2>2, <2>4 DEF ClientReads
    <2>6. socket' \in [Sessions -> Seq(Frames)]
      BY <1>17, <2>2, <2>3 DEF ClientReads
    <2>. QED BY <2>1, <2>5, <2>6 DEF TypeOK
  <1>18. ASSUME NEW s \in Sessions, ClientLeaves(s) PROVE TypeOK'
    <2>1. UNCHANGED <<server, main, command, failed, child, plan, written, copied, taken, copier, pump, pipe, spoiled, screen, audit>>
      BY <1>18 DEF ClientLeaves, handlerVars, childVars, pipeVars, wireVars
    <2>2. client' \in [Sessions -> {"absent", "connected", "gone"}]
      BY <1>18 DEF ClientLeaves, TypeOK
    <2>3. socket' \in [Sessions -> Seq(Frames)]
      BY <1>18 DEF ClientLeaves, TypeOK
    <2>. QED BY <2>1, <2>2, <2>3 DEF TypeOK
  <1>19. ASSUME NEW s \in Sessions, Close(s) PROVE TypeOK'
    <2>1. UNCHANGED <<server, client, command, failed, child, plan, written, copied, taken, copier, pump, pipe, spoiled, socket, screen, audit>>
      BY <1>19 DEF Close, handlerVars, childVars, pipeVars, wireVars
    <2>2. main' \in [Sessions -> Stages]
      BY <1>19 DEF Close, TypeOK
    <2>. QED BY <2>1, <2>2 DEF TypeOK
  <1>20. CASE UNCHANGED vars
    BY <1>20 DEF vars, TypeOK
  <1>. QED
    BY <1>1, <1>2, <1>3, <1>4, <1>5, <1>6, <1>7, <1>8, <1>9, <1>10, <1>11, <1>12, <1>13,
       <1>14, <1>15, <1>16, <1>17, <1>18, <1>19, <1>20
    DEF Next, Main, Child, Pump

-----------------------------------------------------------------------------
(* The step of one session.                                                *)
Act(s) == \/ Connect(s) \/ Main(s) \/ Child(s) \/ CopierReads(s) \/ Pump(s)
          \/ ClientReads(s) \/ ClientLeaves(s)

(* What the invariant says of a session depends on these.                  *)
Row(s) == <<main[s], client[s], pump[s], copier[s], copied[s], taken[s], spoiled[s],
            socket[s], screen[s], plan[s]>>

(* A step of one session leaves the rows of the others alone.              *)
LEMMA OtherRows ==
  ASSUME TypeOK, NEW s \in Sessions, NEW t \in Sessions, t # s, Act(s)
  PROVE  Row(t)' = Row(t)
  <1>1. CASE Connect(s)
    BY <1>1 DEF Connect, Row, TypeOK, handlerVars, childVars, pipeVars, wireVars
  <1>2. CASE Refuse(s)
    BY <1>2 DEF Refuse, Sent, Row, TypeOK, handlerVars, childVars, pipeVars, wireVars
  <1>3. CASE Accept(s)
    BY <1>3 DEF Accept, Row, TypeOK, handlerVars, childVars, pipeVars, wireVars
  <1>4. CASE RunFails(s)
    BY <1>4 DEF RunFails, Row, TypeOK, handlerVars, childVars, pipeVars, wireVars
  <1>5. CASE RunStarts(s)
    BY <1>5 DEF RunStarts, Row, TypeOK, handlerVars, childVars, pipeVars, wireVars
  <1>6. CASE WaitReturns(s)
    BY <1>6 DEF WaitReturns, Row, TypeOK, handlerVars, childVars, pipeVars, wireVars
  <1>7. CASE ClosePipe(s)
    BY <1>7 DEF ClosePipe, Row, TypeOK, handlerVars, childVars, pipeVars, wireVars
  <1>8. CASE BeginVerdict(s)
    BY <1>8 DEF BeginVerdict, Row, TypeOK, handlerVars, childVars, pipeVars, wireVars
  <1>9. CASE EndVerdict(s)
    BY <1>9 DEF EndVerdict, Sent, Row, TypeOK, handlerVars, childVars, pipeVars, wireVars
  <1>10. CASE ChildWrite(s)
    BY <1>10 DEF ChildWrite, Row, TypeOK, handlerVars, childVars, pipeVars, wireVars
  <1>11. CASE ChildExit(s)
    BY <1>11 DEF ChildExit, Row, TypeOK, handlerVars, childVars, pipeVars, wireVars
  <1>12. CASE CopierReads(s)
    BY <1>12 DEF CopierReads, Row, TypeOK, handlerVars, childVars, pipeVars, wireVars
  <1>13. CASE PumpReads(s)
    BY <1>13 DEF PumpReads, Row, TypeOK, handlerVars, childVars, pipeVars, wireVars
  <1>14. CASE BeginSend(s)
    BY <1>14 DEF BeginSend, Row, TypeOK, handlerVars, childVars, pipeVars, wireVars
  <1>15. CASE CrashInSend(s)
    BY <1>15 DEF CrashInSend, Row, TypeOK, handlerVars, childVars, pipeVars, wireVars
  <1>16. CASE EndSend(s)
    BY <1>16 DEF EndSend, Sent, Row, TypeOK, handlerVars, childVars, pipeVars, wireVars
  <1>17. CASE ClientReads(s)
    BY <1>17 DEF ClientReads, Row, TypeOK, handlerVars, childVars, pipeVars, wireVars
  <1>18. CASE ClientLeaves(s)
    BY <1>18 DEF ClientLeaves, Row, TypeOK, handlerVars, childVars, pipeVars, wireVars
  <1>19. CASE Close(s)
    BY <1>19 DEF Close, Row, TypeOK, handlerVars, childVars, pipeVars, wireVars
  <1>. QED BY <1>1, <1>2, <1>3, <1>4, <1>5, <1>6, <1>7, <1>8, <1>9, <1>10, <1>11, <1>12,
     <1>13, <1>14, <1>15, <1>16, <1>17, <1>18, <1>19 DEF Act, Main, Child, Pump

(* A session whose row is unchanged is as good as before.                  *)
LEMMA SameRow ==
  ASSUME NEW t \in Sessions, Good(t), Row(t)' = Row(t)
  PROVE  Good(t)'
  <1>1. /\ main'[t] = main[t] /\ client'[t] = client[t] /\ pump'[t] = pump[t]
        /\ copier'[t] = copier[t] /\ copied'[t] = copied[t] /\ taken'[t] = taken[t]
        /\ spoiled'[t] = spoiled[t] /\ plan'[t] = plan[t] /\ Wire(t)' = Wire(t)
    BY DEF Row, Wire
  <1>2. HandlerInv(t)' /\ CopierInv(t)'
    BY <1>1 DEF Good, HandlerInv, CopierInv
  <1>3. LengthInv(t)'
    BY <1>1 DEF Good, LengthInv, Out1, Dead
  <1>4. TellInv(t)'
    BY <1>1 DEF Good, TellInv, HasVerdict, Dead
  <1>5. InOrder(t)'
    BY <1>1 DEF Good, InOrder, Told
  <1>. QED BY <1>2, <1>3, <1>4, <1>5 DEF Good

(* A step that writes nothing, tells nothing and revives nothing.          *)
Quietly(s) ==
  /\ Wire(s)' = Wire(s)
  /\ plan'[s] = plan[s] \/ main[s] = "run"
  /\ main[s] \in {"told", "closed"} => main'[s] \in {main[s], "closed"}
  /\ main'[s] = "told" => main[s] = "told"
  /\ spoiled[s] => spoiled'[s]
  /\ Dead(s) => Dead(s)'

(* Nothing new on the wire: order is kept.                                 *)
LEMMA QuietStep ==
  ASSUME NEW s \in Sessions, InOrder(s), TellInv(s), Quietly(s)
  PROVE  InOrder(s)' /\ TellInv(s)'
  <1>1. HasVerdict(s)' <=> HasVerdict(s)
    BY DEF Quietly, HasVerdict
  <1>2. TellInv(s)'
    BY <1>1 DEF Quietly, TellInv
  <1>3. InOrder(s)'
    <2>. SUFFICES ASSUME NEW i \in 1 .. Len(Wire(s)), Wire(s)[i].kind = "out"
                  PROVE  IF Told(s, i) THEN Wire(s)[i].n = i - 1 /\ i - 1 = plan'[s]
                                       ELSE Wire(s)[i].n = i
      BY DEF InOrder, Told, Quietly
    <2>1. CASE plan'[s] = plan[s]
      BY <2>1 DEF InOrder
    <2>2. CASE main[s] = "run"
      <3>1. ~HasVerdict(s)
        BY <2>2 DEF TellInv
      <3>2. ~Told(s, i)
        BY <3>1 DEF HasVerdict, Told
      <3>. QED BY <3>2 DEF InOrder
    <2>. QED BY <2>1, <2>2 DEF Quietly
  <1>. QED BY <1>2, <1>3

(* A frame at the end of the wire that is no output, or the output that    *)
(* belongs there: order is kept.                                           *)
LEMMA LongerWire ==
  ASSUME NEW s \in Sessions, InOrder(s), Wire(s) \in Seq(Frames), NEW f \in Frames,
         Wire(s)' = Append(Wire(s), f), plan'[s] = plan[s],
         f.kind = "out" => IF HasVerdict(s) THEN f.n = Len(Wire(s)) /\ Len(Wire(s)) = plan[s]
                                            ELSE f.n = Len(Wire(s)) + 1
  PROVE  /\ InOrder(s)'
         /\ HasVerdict(s)' <=> HasVerdict(s) \/ f.kind = "verdict"
  <1>1. /\ Len(Append(Wire(s), f)) = Len(Wire(s)) + 1
        /\ \A i \in 1 .. Len(Wire(s)) : Append(Wire(s), f)[i] = Wire(s)[i]
        /\ Append(Wire(s), f)[Len(Wire(s)) + 1] = f
    BY AppendFrame
  <1>2. Len(Wire(s)) \in Nat
    OBVIOUS
  <1>3. HasVerdict(s)' <=> HasVerdict(s) \/ f.kind = "verdict"
    <2>1. \A j \in 1 .. Len(Wire(s)) + 1 : j \in 1 .. Len(Wire(s)) \/ j = Len(Wire(s)) + 1
      BY <1>2
    <2>2. \A j \in 1 .. Len(Wire(s)) : j \in 1 .. Len(Wire(s)) + 1
      BY <1>2
    <2>3. Len(Wire(s)) + 1 \in 1 .. Len(Wire(s)) + 1
      BY <1>2
    <2>. QED BY <1>1, <2>1, <2>2, <2>3 DEF HasVerdict
  <1>4. InOrder(s)'
    <2>. SUFFICES ASSUME NEW i \in 1 .. Len(Wire(s)'), Wire(s)'[i].kind = "out"
                  PROVE  IF Told(s, i)' THEN Wire(s)'[i].n = i - 1 /\ i - 1 = plan[s]
                                        ELSE Wire(s)'[i].n = i
      BY DEF InOrder
    <2>1. i \in 1 .. Len(Wire(s)) \/ i = Len(Wire(s)) + 1
      BY <1>1, <1>2
    <2>2. \A j \in 1 .. i - 1 : j \in 1 .. Len(Wire(s)) /\ Wire(s)'[j] = Wire(s)[j]
      BY <1>1, <1>2, <2>1
    <2>3. Told(s, i)' <=> Told(s, i)
      BY <2>2 DEF Told
    <2>4. CASE i \in 1 .. Len(Wire(s))
      BY <1>1, <2>3, <2>4 DEF InOrder
    <2>5. CASE i = Len(Wire(s)) + 1
      <3>1. i - 1 = Len(Wire(s)) /\ Wire(s)'[i] = f
        BY <1>1, <1>2, <2>5
      <3>2. Told(s, i) <=> HasVerdict(s)
        BY <3>1 DEF Told, HasVerdict
      <3>. QED BY <2>3, <2>5, <3>1, <3>2
    <2>. QED BY <2>1, <2>4, <2>5
  <1>. QED BY <1>3, <1>4

(* What Sent does to the wire of its session.                              *)
LEMMA SentOnWire ==
  ASSUME TypeOK, NEW s \in Sessions, NEW f \in Frames, socket' = Sent(s, f), screen' = screen
  PROVE  IF Dead(s) THEN Wire(s)' = Wire(s)
         ELSE Wire(s)' = Append(Wire(s), IF spoiled[s] THEN Garbled ELSE f)
  <1>1. /\ socket[s] \in Seq(Frames) /\ screen[s] \in Seq(Frames) /\ Garbled \in Frames
        /\ socket \in [Sessions -> Seq(Frames)]
    BY FrameTypes DEF TypeOK
  <1>2. CASE Dead(s)
    BY <1>2 DEF Sent, Wire
  <1>3. CASE ~Dead(s)
    <2>. DEFINE g == IF spoiled[s] THEN Garbled ELSE f
    <2>1. g \in Frames
      BY <1>1
    <2>2. socket'[s] = Append(socket[s], g)
      BY <1>1, <1>3 DEF Sent
    <2>3. screen[s] \o Append(socket[s], g) = Append(screen[s] \o socket[s], g)
      BY <1>1, <2>1, WriteEndsWire
    <2>4. Wire(s)' = Append(Wire(s), g)
      BY <2>2, <2>3 DEF Wire
    <2>. QED BY <1>3, <2>4
  <1>. QED BY <1>2, <1>3

(* What a session's row of variables can be.                               *)
LEMMA SessionTypes ==
  ASSUME TypeOK, NEW s \in Sessions
  PROVE  /\ main[s] \in Stages
         /\ child[s] \in {"none", "running", "ok", "error"}
         /\ copier[s] \in {"off", "reading", "handing", "done"}
         /\ failed[s] \in BOOLEAN
         /\ plan[s] \in Nat /\ written[s] \in Nat /\ copied[s] \in Nat /\ taken[s] \in Nat
         /\ written[s] \in Int /\ copied[s] \in Int
  BY StreamAssumption DEF TypeOK

(* A step keeps what the threads may conclude, of its own session and of   *)
(* the others.                                                             *)
LEMMA ChildStep ==
  ASSUME TypeOK, NEW s \in Sessions, NEW t \in Sessions, Act(s), HandlerInv(t), CopierInv(t),
         ChildInv(t)
  PROVE  ChildInv(t)'
  <1>. USE SessionTypes DEF ChildInv, Before, Past, HandlerInv, CopierInv, TypeOK
  <1>1. CASE Connect(s)
    BY <1>1 DEF Connect, handlerVars, childVars, pipeVars, wireVars
  <1>2. CASE Refuse(s)
    BY <1>2 DEF Refuse, handlerVars, childVars, pipeVars, wireVars
  <1>3. CASE Accept(s)
    BY <1>3 DEF Accept, handlerVars, childVars, pipeVars, wireVars
  <1>4. CASE RunFails(s)
    BY <1>4 DEF RunFails, handlerVars, childVars, pipeVars, wireVars
  <1>5. CASE RunStarts(s)
    BY <1>5 DEF RunStarts, handlerVars, childVars, pipeVars, wireVars
  <1>6. CASE WaitReturns(s)
    BY <1>6 DEF WaitReturns, handlerVars, childVars, pipeVars, wireVars
  <1>7. CASE ClosePipe(s)
    BY <1>7 DEF ClosePipe, handlerVars, childVars, pipeVars, wireVars
  <1>8. CASE BeginVerdict(s)
    BY <1>8 DEF BeginVerdict, handlerVars, childVars, pipeVars, wireVars
  <1>9. CASE EndVerdict(s)
    BY <1>9 DEF EndVerdict, handlerVars, childVars, pipeVars, wireVars
  <1>10. CASE ChildWrite(s)
    BY <1>10 DEF ChildWrite, handlerVars, childVars, pipeVars, wireVars
  <1>11. CASE ChildExit(s)
    BY <1>11 DEF ChildExit, handlerVars, childVars, pipeVars, wireVars
  <1>12. CASE CopierReads(s)
    BY <1>12 DEF CopierReads, handlerVars, childVars, pipeVars, wireVars
  <1>13. CASE PumpReads(s)
    BY <1>13 DEF PumpReads, handlerVars, childVars, pipeVars, wireVars
  <1>14. CASE BeginSend(s)
    BY <1>14 DEF BeginSend, handlerVars, childVars, pipeVars, wireVars
  <1>15. CASE CrashInSend(s)
    BY <1>15 DEF CrashInSend, handlerVars, childVars, pipeVars, wireVars
  <1>16. CASE EndSend(s)
    BY <1>16 DEF EndSend, handlerVars, childVars, pipeVars, wireVars
  <1>17. CASE ClientReads(s)
    BY <1>17 DEF ClientReads, handlerVars, childVars, pipeVars, wireVars
  <1>18. CASE ClientLeaves(s)
    BY <1>18 DEF ClientLeaves, handlerVars, childVars, pipeVars, wireVars
  <1>19. CASE Close(s)
    BY <1>19 DEF Close, handlerVars, childVars, pipeVars, wireVars
  <1>. QED BY <1>1, <1>2, <1>3, <1>4, <1>5, <1>6, <1>7, <1>8, <1>9, <1>10, <1>11, <1>12,
     <1>13, <1>14, <1>15, <1>16, <1>17, <1>18, <1>19 DEF Act, Main, Child, Pump

(* A step of a session keeps it good.                                      *)
LEMMA OwnRow ==
  ASSUME TypeOK, NEW s \in Sessions, Good(s), ChildInv(s), Act(s)
  PROVE  Good(s)'
  <1>. USE DEF Good
  <1>0. /\ taken[s] \in Nat /\ copied[s] \in Nat /\ plan[s] \in Nat
        /\ Wire(s) \in Seq(Frames) /\ Len(Wire(s)) \in Nat
        /\ screen[s] \in Seq(Frames) /\ socket[s] \in Seq(Frames)
    <2>1. taken[s] \in Nat /\ copied[s] \in Nat /\ plan[s] \in Nat
      BY StreamAssumption DEF TypeOK
    <2>2. screen[s] \in Seq(Frames) /\ socket[s] \in Seq(Frames)
      BY DEF TypeOK
    <2>3. Wire(s) \in Seq(Frames)
      BY <2>2, WireIsFrames DEF Wire
    <2>. QED BY <2>1, <2>2, <2>3
  <1>1. CASE Connect(s)
    <2>1. HandlerInv(s)'
      BY <1>1 DEF Connect, handlerVars, childVars, pipeVars, wireVars, TypeOK, HandlerInv
    <2>2. CopierInv(s)'
      BY <1>1, <1>0
         DEF Connect, handlerVars, childVars, pipeVars, wireVars, TypeOK, HandlerInv, CopierInv
    <2>3. Wire(s)' = Wire(s)
      BY <1>1 DEF Connect, wireVars, Wire
    <2>4. LengthInv(s)'
      BY <1>1, <1>0, <2>3
         DEF Connect, handlerVars, childVars, pipeVars, wireVars, TypeOK, HandlerInv,
         CopierInv, LengthInv, Out1, Dead
    <2>5. Quietly(s)
      BY <1>1, <2>3 DEF Connect, handlerVars, childVars, pipeVars, wireVars, TypeOK, HandlerInv, Quietly, Dead
    <2>6. InOrder(s)' /\ TellInv(s)'
      BY <2>5, QuietStep
    <2>. QED BY <2>1, <2>2, <2>4, <2>6
  <1>2. CASE Refuse(s)
    <2>1. HandlerInv(s)'
      BY <1>2 DEF Refuse, handlerVars, childVars, pipeVars, wireVars, TypeOK, HandlerInv
    <2>2. CopierInv(s)'
      BY <1>2, <1>0
         DEF Refuse, handlerVars, childVars, pipeVars, wireVars, TypeOK, HandlerInv, CopierInv
    <2>3. Refusal \in Frames /\ Garbled \in Frames /\ Refusal.kind # "out" /\ Garbled.kind # "out"
          /\ Garbled.kind # "verdict"
      BY FrameTypes DEF Refusal, Verdict, Garbled
    <2>4. IF Dead(s) THEN Wire(s)' = Wire(s)
          ELSE Wire(s)' = Append(Wire(s), IF spoiled[s] THEN Garbled ELSE Refusal)
      BY <1>2, <2>3, SentOnWire DEF Refuse
    <2>5. plan'[s] = plan[s] /\ spoiled'[s] = spoiled[s]
      BY <1>2 DEF Refuse, childVars
    <2>6. main[s] = "request" /\ main'[s] = "closed" /\ Dead(s)'
      BY <1>2 DEF Refuse, TypeOK, Dead
    <2>7. Refusal.kind # "verdict"
      BY DEF Refusal
    <2>8. LengthInv(s)'
      BY <1>2, <2>6 DEF Refuse, handlerVars, childVars, pipeVars, wireVars, TypeOK, LengthInv
    <2>9. InOrder(s)' /\ (HasVerdict(s)' => HasVerdict(s))
      <3>1. CASE Dead(s)
        <4>1. Wire(s)' = Wire(s)
          BY <2>4, <3>1
        <4>. QED BY <2>5, <4>1 DEF InOrder, Told, HasVerdict
      <3>2. CASE ~Dead(s)
        BY <1>0, <2>3, <2>4, <2>5, <2>7, <3>2, LongerWire
      <3>. QED BY <3>1, <3>2
    <2>10. TellInv(s)'
      BY <2>6, <2>9 DEF TellInv
    <2>. QED BY <2>1, <2>2, <2>8, <2>9, <2>10
  <1>3. CASE Accept(s)
    <2>1. HandlerInv(s)'
      BY <1>3 DEF Accept, handlerVars, childVars, pipeVars, wireVars, TypeOK, HandlerInv
    <2>2. CopierInv(s)'
      BY <1>3, <1>0
         DEF Accept, handlerVars, childVars, pipeVars, wireVars, TypeOK, HandlerInv, CopierInv
    <2>3. Wire(s)' = Wire(s)
      BY <1>3 DEF Accept, wireVars, Wire
    <2>4. LengthInv(s)'
      BY <1>3, <1>0, <2>3
         DEF Accept, handlerVars, childVars, pipeVars, wireVars, TypeOK, HandlerInv,
         CopierInv, LengthInv, Out1, Dead
    <2>5. Quietly(s)
      BY <1>3, <2>3 DEF Accept, handlerVars, childVars, pipeVars, wireVars, TypeOK, HandlerInv, Quietly, Dead
    <2>6. InOrder(s)' /\ TellInv(s)'
      BY <2>5, QuietStep
    <2>. QED BY <2>1, <2>2, <2>4, <2>6
  <1>4. CASE RunFails(s)
    <2>1. HandlerInv(s)'
      BY <1>4 DEF RunFails, handlerVars, childVars, pipeVars, wireVars, TypeOK, HandlerInv
    <2>2. CopierInv(s)'
      BY <1>4, <1>0
         DEF RunFails, handlerVars, childVars, pipeVars, wireVars, TypeOK, HandlerInv, CopierInv
    <2>3. Wire(s)' = Wire(s)
      BY <1>4 DEF RunFails, wireVars, Wire
    <2>4. LengthInv(s)'
      BY <1>4, <1>0, <2>3
         DEF RunFails, handlerVars, childVars, pipeVars, wireVars, TypeOK, HandlerInv,
         CopierInv, LengthInv, Out1, Dead
    <2>5. Quietly(s)
      BY <1>4, <2>3 DEF RunFails, handlerVars, childVars, pipeVars, wireVars, TypeOK, HandlerInv, Quietly, Dead
    <2>6. InOrder(s)' /\ TellInv(s)'
      BY <2>5, QuietStep
    <2>. QED BY <2>1, <2>2, <2>4, <2>6
  <1>5. CASE RunStarts(s)
    <2>1. HandlerInv(s)'
      BY <1>5 DEF RunStarts, handlerVars, childVars, pipeVars, wireVars, TypeOK, HandlerInv
    <2>2. CopierInv(s)'
      BY <1>5, <1>0
         DEF RunStarts, handlerVars, childVars, pipeVars, wireVars, TypeOK, HandlerInv, CopierInv
    <2>3. Wire(s)' = Wire(s)
      BY <1>5 DEF RunStarts, wireVars, Wire
    <2>4. LengthInv(s)'
      BY <1>5, <1>0, <2>3
         DEF RunStarts, handlerVars, childVars, pipeVars, wireVars, TypeOK, HandlerInv,
         CopierInv, LengthInv, Out1, Dead
    <2>5. Quietly(s)
      BY <1>5, <2>3 DEF RunStarts, handlerVars, childVars, pipeVars, wireVars, TypeOK, HandlerInv, Quietly, Dead
    <2>6. InOrder(s)' /\ TellInv(s)'
      BY <2>5, QuietStep
    <2>. QED BY <2>1, <2>2, <2>4, <2>6
  <1>6. CASE WaitReturns(s)
    <2>1. HandlerInv(s)'
      BY <1>6 DEF WaitReturns, handlerVars, childVars, pipeVars, wireVars, TypeOK, HandlerInv
    <2>2. CopierInv(s)'
      BY <1>6, <1>0
         DEF WaitReturns, handlerVars, childVars, pipeVars, wireVars, TypeOK, HandlerInv, CopierInv
    <2>3. Wire(s)' = Wire(s)
      BY <1>6 DEF WaitReturns, wireVars, Wire
    <2>4. LengthInv(s)'
      BY <1>6, <1>0, <2>3
         DEF WaitReturns, handlerVars, childVars, pipeVars, wireVars, TypeOK, HandlerInv,
         CopierInv, LengthInv, Out1, Dead
    <2>5. Quietly(s)
      BY <1>6, <2>3 DEF WaitReturns, handlerVars, childVars, pipeVars, wireVars, TypeOK, HandlerInv, Quietly, Dead
    <2>6. InOrder(s)' /\ TellInv(s)'
      BY <2>5, QuietStep
    <2>. QED BY <2>1, <2>2, <2>4, <2>6
  <1>7. CASE ClosePipe(s)
    <2>1. HandlerInv(s)'
      BY <1>7 DEF ClosePipe, handlerVars, childVars, pipeVars, wireVars, TypeOK, HandlerInv
    <2>2. CopierInv(s)'
      BY <1>7, <1>0
         DEF ClosePipe, handlerVars, childVars, pipeVars, wireVars, TypeOK, HandlerInv, CopierInv
    <2>3. Wire(s)' = Wire(s)
      BY <1>7 DEF ClosePipe, wireVars, Wire
    <2>4. LengthInv(s)'
      BY <1>7, <1>0, <2>3
         DEF ClosePipe, handlerVars, childVars, pipeVars, wireVars, TypeOK, HandlerInv,
         CopierInv, LengthInv, Out1, Dead
    <2>5. Quietly(s)
      BY <1>7, <2>3 DEF ClosePipe, handlerVars, childVars, pipeVars, wireVars, TypeOK, HandlerInv, Quietly, Dead
    <2>6. InOrder(s)' /\ TellInv(s)'
      BY <2>5, QuietStep
    <2>. QED BY <2>1, <2>2, <2>4, <2>6
  <1>8. CASE BeginVerdict(s)
    <2>1. HandlerInv(s)'
      BY <1>8 DEF BeginVerdict, handlerVars, childVars, pipeVars, wireVars, TypeOK, HandlerInv
    <2>2. CopierInv(s)'
      BY <1>8, <1>0
         DEF BeginVerdict, handlerVars, childVars, pipeVars, wireVars, TypeOK, HandlerInv, CopierInv
    <2>3. Wire(s)' = Wire(s)
      BY <1>8 DEF BeginVerdict, wireVars, Wire
    <2>4. LengthInv(s)'
      BY <1>8, <1>0, <2>3
         DEF BeginVerdict, handlerVars, childVars, pipeVars, wireVars, TypeOK, HandlerInv,
         CopierInv, LengthInv, Out1, Dead
    <2>5. Quietly(s)
      BY <1>8, <2>3 DEF BeginVerdict, handlerVars, childVars, pipeVars, wireVars, TypeOK, HandlerInv, Quietly, Dead
    <2>6. InOrder(s)' /\ TellInv(s)'
      BY <2>5, QuietStep
    <2>. QED BY <2>1, <2>2, <2>4, <2>6
  <1>9. CASE EndVerdict(s)
    <2>1. HandlerInv(s)'
      BY <1>9 DEF EndVerdict, handlerVars, childVars, pipeVars, wireVars, TypeOK, HandlerInv
    <2>2. CopierInv(s)'
      BY <1>9, <1>0
         DEF EndVerdict, handlerVars, childVars, pipeVars, wireVars, TypeOK, HandlerInv, CopierInv
    <2>3. Verdict(failed[s]) \in Frames /\ Garbled \in Frames /\ Verdict(failed[s]).kind # "out" /\ Garbled.kind # "out"
          /\ Garbled.kind # "verdict"
      BY FrameTypes DEF Refusal, Verdict, Garbled
    <2>4. IF Dead(s) THEN Wire(s)' = Wire(s)
          ELSE Wire(s)' = Append(Wire(s), IF spoiled[s] THEN Garbled ELSE Verdict(failed[s]))
      BY <1>9, <2>3, SentOnWire DEF EndVerdict
    <2>5. plan'[s] = plan[s] /\ spoiled'[s] = spoiled[s]
      BY <1>9 DEF EndVerdict, childVars
    <2>6. /\ main[s] = "writing" /\ main'[s] = "told" /\ (Dead(s)' <=> Dead(s))
          /\ taken'[s] = taken[s] /\ pump'[s] = pump[s]
      BY <1>9 DEF EndVerdict, handlerVars, childVars, pipeVars, wireVars, TypeOK, Dead
    <2>7. Verdict(failed[s]).kind = "verdict"
      BY DEF Verdict
    <2>8. InOrder(s)' /\ (~spoiled[s] /\ ~Dead(s) => HasVerdict(s)')
      <3>1. CASE Dead(s)
        <4>1. Wire(s)' = Wire(s)
          BY <2>4, <3>1
        <4>. QED BY <2>5, <3>1, <4>1 DEF InOrder, Told
      <3>2. CASE ~Dead(s)
        BY <1>0, <2>3, <2>4, <2>5, <2>7, <3>2, LongerWire
      <3>. QED BY <3>1, <3>2
    <2>9. TellInv(s)'
      BY <2>5, <2>6, <2>8 DEF TellInv
    <2>10. LengthInv(s)'
      <3>1. ~spoiled[s] /\ ~Dead(s) => Len(Wire(s)') = Len(Wire(s)) + 1
        BY <1>0, <2>3, <2>4, AppendFrame
      <3>2. ~spoiled[s] /\ ~Dead(s) => Len(Wire(s)) = Out1(s)
        BY <2>6 DEF LengthInv
      <3>. QED BY <2>5, <2>6, <3>1, <3>2 DEF LengthInv, Out1
    <2>. QED BY <2>1, <2>2, <2>8, <2>9, <2>10
  <1>10. CASE ChildWrite(s)
    <2>1. HandlerInv(s)'
      BY <1>10 DEF ChildWrite, handlerVars, childVars, pipeVars, wireVars, TypeOK, HandlerInv
    <2>2. CopierInv(s)'
      BY <1>10, <1>0
         DEF ChildWrite, handlerVars, childVars, pipeVars, wireVars, TypeOK, HandlerInv, CopierInv
    <2>3. Wire(s)' = Wire(s)
      BY <1>10 DEF ChildWrite, wireVars, Wire
    <2>4. LengthInv(s)'
      BY <1>10, <1>0, <2>3
         DEF ChildWrite, handlerVars, childVars, pipeVars, wireVars, TypeOK, HandlerInv,
         CopierInv, LengthInv, Out1, Dead
    <2>5. Quietly(s)
      BY <1>10, <2>3 DEF ChildWrite, handlerVars, childVars, pipeVars, wireVars, TypeOK, HandlerInv, Quietly, Dead
    <2>6. InOrder(s)' /\ TellInv(s)'
      BY <2>5, QuietStep
    <2>. QED BY <2>1, <2>2, <2>4, <2>6
  <1>11. CASE ChildExit(s)
    <2>1. HandlerInv(s)'
      BY <1>11 DEF ChildExit, handlerVars, childVars, pipeVars, wireVars, TypeOK, HandlerInv
    <2>2. CopierInv(s)'
      BY <1>11, <1>0
         DEF ChildExit, handlerVars, childVars, pipeVars, wireVars, TypeOK, HandlerInv, CopierInv
    <2>3. Wire(s)' = Wire(s)
      BY <1>11 DEF ChildExit, wireVars, Wire
    <2>4. LengthInv(s)'
      BY <1>11, <1>0, <2>3
         DEF ChildExit, handlerVars, childVars, pipeVars, wireVars, TypeOK, HandlerInv,
         CopierInv, LengthInv, Out1, Dead
    <2>5. Quietly(s)
      BY <1>11, <2>3 DEF ChildExit, handlerVars, childVars, pipeVars, wireVars, TypeOK, HandlerInv, Quietly, Dead
    <2>6. InOrder(s)' /\ TellInv(s)'
      BY <2>5, QuietStep
    <2>. QED BY <2>1, <2>2, <2>4, <2>6
  <1>12. CASE CopierReads(s)
    <2>1. HandlerInv(s)'
      BY <1>12 DEF CopierReads, handlerVars, childVars, pipeVars, wireVars, TypeOK, HandlerInv
    <2>2. CopierInv(s)'
      BY <1>12, <1>0
         DEF CopierReads, handlerVars, childVars, pipeVars, wireVars, TypeOK, HandlerInv, CopierInv
    <2>3. Wire(s)' = Wire(s)
      BY <1>12 DEF CopierReads, wireVars, Wire
    <2>4. LengthInv(s)'
      BY <1>12, <1>0, <2>3
         DEF CopierReads, handlerVars, childVars, pipeVars, wireVars, TypeOK, HandlerInv,
         CopierInv, LengthInv, Out1, Dead
    <2>5. Quietly(s)
      BY <1>12, <2>3 DEF CopierReads, handlerVars, childVars, pipeVars, wireVars, TypeOK, HandlerInv, Quietly, Dead
    <2>6. InOrder(s)' /\ TellInv(s)'
      BY <2>5, QuietStep
    <2>. QED BY <2>1, <2>2, <2>4, <2>6
  <1>13. CASE PumpReads(s)
    <2>1. HandlerInv(s)'
      BY <1>13 DEF PumpReads, handlerVars, childVars, pipeVars, wireVars, TypeOK, HandlerInv
    <2>2. CopierInv(s)'
      BY <1>13, <1>0
         DEF PumpReads, handlerVars, childVars, pipeVars, wireVars, TypeOK, HandlerInv, CopierInv
    <2>3. Wire(s)' = Wire(s)
      BY <1>13 DEF PumpReads, wireVars, Wire
    <2>4. LengthInv(s)'
      BY <1>13, <1>0, <2>3
         DEF PumpReads, handlerVars, childVars, pipeVars, wireVars, TypeOK, HandlerInv,
         CopierInv, LengthInv, Out1, Dead
    <2>5. Quietly(s)
      BY <1>13, <2>3 DEF PumpReads, handlerVars, childVars, pipeVars, wireVars, TypeOK, HandlerInv, Quietly, Dead
    <2>6. InOrder(s)' /\ TellInv(s)'
      BY <2>5, QuietStep
    <2>. QED BY <2>1, <2>2, <2>4, <2>6
  <1>14. CASE BeginSend(s)
    <2>1. HandlerInv(s)'
      BY <1>14 DEF BeginSend, handlerVars, childVars, pipeVars, wireVars, TypeOK, HandlerInv
    <2>2. CopierInv(s)'
      BY <1>14, <1>0
         DEF BeginSend, handlerVars, childVars, pipeVars, wireVars, TypeOK, HandlerInv, CopierInv
    <2>3. Wire(s)' = Wire(s)
      BY <1>14 DEF BeginSend, wireVars, Wire
    <2>4. LengthInv(s)'
      BY <1>14, <1>0, <2>3
         DEF BeginSend, handlerVars, childVars, pipeVars, wireVars, TypeOK, HandlerInv,
         CopierInv, LengthInv, Out1, Dead
    <2>5. Quietly(s)
      BY <1>14, <2>3 DEF BeginSend, handlerVars, childVars, pipeVars, wireVars, TypeOK, HandlerInv, Quietly, Dead
    <2>6. InOrder(s)' /\ TellInv(s)'
      BY <2>5, QuietStep
    <2>. QED BY <2>1, <2>2, <2>4, <2>6
  <1>15. CASE CrashInSend(s)
    <2>1. HandlerInv(s)'
      BY <1>15 DEF CrashInSend, handlerVars, childVars, pipeVars, wireVars, TypeOK, HandlerInv
    <2>2. CopierInv(s)'
      BY <1>15, <1>0
         DEF CrashInSend, handlerVars, childVars, pipeVars, wireVars, TypeOK, HandlerInv, CopierInv
    <2>3. Wire(s)' = Wire(s)
      BY <1>15 DEF CrashInSend, wireVars, Wire
    <2>4. LengthInv(s)'
      BY <1>15, <1>0, <2>3
         DEF CrashInSend, handlerVars, childVars, pipeVars, wireVars, TypeOK, HandlerInv,
         CopierInv, LengthInv, Out1, Dead
    <2>5. Quietly(s)
      BY <1>15, <2>3 DEF CrashInSend, handlerVars, childVars, pipeVars, wireVars, TypeOK, HandlerInv, Quietly, Dead
    <2>6. InOrder(s)' /\ TellInv(s)'
      BY <2>5, QuietStep
    <2>. QED BY <2>1, <2>2, <2>4, <2>6
  <1>16. CASE EndSend(s)
    <2>1. HandlerInv(s)'
      BY <1>16 DEF EndSend, handlerVars, childVars, pipeVars, wireVars, TypeOK, HandlerInv
    <2>2. CopierInv(s)'
      BY <1>16, <1>0
         DEF EndSend, handlerVars, childVars, pipeVars, wireVars, TypeOK, HandlerInv, CopierInv
    <2>3. /\ Out(taken[s]) \in Frames /\ Garbled \in Frames /\ Garbled.kind \notin {"out", "verdict"}
          /\ Out(taken[s]).n = taken[s] /\ Out(taken[s]).kind # "verdict"
      BY FrameTypes DEF Out, Garbled
    <2>4. IF Dead(s) THEN Wire(s)' = Wire(s)
          ELSE Wire(s)' = Append(Wire(s), IF spoiled[s] THEN Garbled ELSE Out(taken[s]))
      BY <1>16, <2>3, SentOnWire DEF EndSend
    <2>5. /\ spoiled'[s] = spoiled[s] /\ (Dead(s)' <=> Dead(s)) /\ taken'[s] = taken[s]
          /\ pump[s] = "writing" /\ pump'[s] = "reading" /\ main'[s] = main[s]
          /\ plan'[s] = plan[s]
      BY <1>16 DEF EndSend, handlerVars, childVars, pipeVars, wireVars, TypeOK, Dead
    <2>6. ~spoiled[s] /\ ~Dead(s) =>
            IF HasVerdict(s) THEN taken[s] = Len(Wire(s)) /\ Len(Wire(s)) = plan[s]
                             ELSE taken[s] = Len(Wire(s)) + 1
      <3>. SUFFICES ASSUME ~spoiled[s], ~Dead(s)
                    PROVE  IF HasVerdict(s) THEN taken[s] = Len(Wire(s)) /\ Len(Wire(s)) = plan[s]
                                            ELSE taken[s] = Len(Wire(s)) + 1
        OBVIOUS
      <3>1. HasVerdict(s) <=> main[s] = "told"
        BY DEF TellInv, Dead
      <3>2. Len(Wire(s)) = IF main[s] = "told" THEN taken[s] ELSE taken[s] - 1
        BY <1>0, <2>5 DEF LengthInv, Out1
      <3>3. main[s] = "told" => taken[s] = plan[s]
        BY <1>0 DEF ChildInv, Past, Before, CopierInv
      <3>. QED BY <1>0, <3>1, <3>2, <3>3
    <2>7. InOrder(s)' /\ (HasVerdict(s)' <=> HasVerdict(s))
      <3>1. CASE Dead(s)
        <4>1. Wire(s)' = Wire(s)
          BY <2>4, <3>1
        <4>. QED BY <2>5, <4>1 DEF InOrder, Told, HasVerdict
      <3>2. CASE ~Dead(s)
        BY <1>0, <2>3, <2>4, <2>5, <2>6, <3>2, LongerWire
      <3>. QED BY <3>1, <3>2
    <2>8. TellInv(s)'
      BY <2>5, <2>7 DEF TellInv
    <2>9. LengthInv(s)'
      <3>1. ~spoiled[s] /\ ~Dead(s) => Len(Wire(s)') = Len(Wire(s)) + 1
        BY <1>0, <2>3, <2>4, AppendFrame
      <3>. QED BY <1>0, <2>5, <3>1 DEF LengthInv, Out1
    <2>. QED BY <2>1, <2>2, <2>7, <2>8, <2>9
  <1>17. CASE ClientReads(s)
    <2>1. HandlerInv(s)'
      BY <1>17 DEF ClientReads, handlerVars, childVars, pipeVars, wireVars, TypeOK, HandlerInv
    <2>2. CopierInv(s)'
      BY <1>17, <1>0
         DEF ClientReads, handlerVars, childVars, pipeVars, wireVars, TypeOK, HandlerInv, CopierInv
    <2>3. Wire(s)' = Wire(s)
      <3>1. /\ screen'[s] = Append(screen[s], Head(socket[s])) /\ socket'[s] = Tail(socket[s])
            /\ socket[s] # << >>
        BY <1>17 DEF ClientReads, TypeOK
      <3>. QED BY <1>0, <3>1, ReadKeepsWire DEF Wire
    <2>4. LengthInv(s)'
      BY <1>17, <1>0, <2>3
         DEF ClientReads, handlerVars, childVars, pipeVars, wireVars, TypeOK, HandlerInv,
         CopierInv, LengthInv, Out1, Dead
    <2>5. Quietly(s)
      BY <1>17, <2>3 DEF ClientReads, handlerVars, childVars, pipeVars, wireVars, TypeOK, HandlerInv, Quietly, Dead
    <2>6. InOrder(s)' /\ TellInv(s)'
      BY <2>5, QuietStep
    <2>. QED BY <2>1, <2>2, <2>4, <2>6
  <1>18. CASE ClientLeaves(s)
    <2>1. HandlerInv(s)'
      BY <1>18 DEF ClientLeaves, handlerVars, childVars, pipeVars, wireVars, TypeOK, HandlerInv
    <2>2. CopierInv(s)'
      BY <1>18, <1>0
         DEF ClientLeaves, handlerVars, childVars, pipeVars, wireVars, TypeOK, HandlerInv, CopierInv
    <2>3. LengthInv(s)'
      BY <1>18
         DEF ClientLeaves, handlerVars, childVars, pipeVars, wireVars, TypeOK, LengthInv, Dead
    <2>4. /\ Wire(s)' = screen[s] /\ Dead(s)' /\ main'[s] = main[s]
          /\ plan'[s] = plan[s]
      <3>1. socket'[s] = << >> /\ screen'[s] = screen[s]
        BY <1>18 DEF ClientLeaves, TypeOK
      <3>2. Dead(s)' /\ main'[s] = main[s] /\ plan'[s] = plan[s]
        BY <1>18 DEF ClientLeaves, handlerVars, childVars, pipeVars, wireVars, TypeOK, Dead
      <3>. QED BY <1>0, <3>1, <3>2, WireIsFrames DEF Wire
    <2>5. /\ Len(screen[s]) <= Len(Wire(s)) /\ Len(screen[s]) \in Nat
          /\ \A i \in 1 .. Len(screen[s]) : Wire(s)[i] = screen[s][i]
      <3>1. /\ Len(screen[s]) <= Len(screen[s] \o socket[s])
            /\ \A i \in 1 .. Len(screen[s]) : (screen[s] \o socket[s])[i] = screen[s][i]
        BY <1>0, WireIsFrames
      <3>2. Len(screen[s]) \in Nat
        BY <1>0
      <3>. QED BY <3>1, <3>2, Zenon DEF Wire
    <2>6. \A i \in 1 .. Len(Wire(s)') : i \in 1 .. Len(Wire(s)) /\ Wire(s)'[i] = Wire(s)[i]
      BY <1>0, <2>4, <2>5
    <2>7. InOrder(s)'
      <3>. SUFFICES ASSUME NEW i \in 1 .. Len(Wire(s)'), Wire(s)'[i].kind = "out"
                    PROVE  IF Told(s, i)' THEN Wire(s)'[i].n = i - 1 /\ i - 1 = plan[s]
                                          ELSE Wire(s)'[i].n = i
        BY <2>4 DEF InOrder
      <3>1. i \in 1 .. Len(Wire(s)) /\ Wire(s)'[i] = Wire(s)[i]
        BY <2>6
      <3>2. \A j \in 1 .. i - 1 : j \in 1 .. Len(Wire(s)')
        BY <2>4, <2>5
      <3>3. Told(s, i)' <=> Told(s, i)
        BY <2>6, <3>2 DEF Told
      <3>. QED BY <3>1, <3>3 DEF InOrder
    <2>8. TellInv(s)'
      BY <2>4, <2>6 DEF TellInv, HasVerdict
    <2>. QED BY <2>1, <2>2, <2>3, <2>7, <2>8
  <1>19. CASE Close(s)
    <2>1. HandlerInv(s)'
      BY <1>19 DEF Close, handlerVars, childVars, pipeVars, wireVars, TypeOK, HandlerInv
    <2>2. CopierInv(s)'
      BY <1>19, <1>0
         DEF Close, handlerVars, childVars, pipeVars, wireVars, TypeOK, HandlerInv, CopierInv
    <2>3. Wire(s)' = Wire(s)
      BY <1>19 DEF Close, wireVars, Wire
    <2>4. LengthInv(s)'
      BY <1>19, <1>0, <2>3
         DEF Close, handlerVars, childVars, pipeVars, wireVars, TypeOK, HandlerInv,
         CopierInv, LengthInv, Out1, Dead
    <2>5. Quietly(s)
      BY <1>19, <2>3 DEF Close, handlerVars, childVars, pipeVars, wireVars, TypeOK, HandlerInv, Quietly, Dead
    <2>6. InOrder(s)' /\ TellInv(s)'
      BY <2>5, QuietStep
    <2>. QED BY <2>1, <2>2, <2>4, <2>6
  <1>. QED BY <1>1, <1>2, <1>3, <1>4, <1>5, <1>6, <1>7, <1>8, <1>9, <1>10, <1>11, <1>12,
     <1>13, <1>14, <1>15, <1>16, <1>17, <1>18, <1>19 DEF Act, Main, Child, Pump

(* The invariant is inductive.                                             *)
LEMMA StepInv == IInv /\ [Next]_vars => IInv'
  <1>. SUFFICES ASSUME IInv, [Next]_vars PROVE IInv'
    OBVIOUS
  <1>1. TypeOK /\ TypeOK'
    BY TypeStep DEF IInv
  <1>2. CASE Next
    <2>1. PICK s \in Sessions : Act(s)
      BY <1>2 DEF Next, Act
    <2>2. Good(s)'
      BY <1>1, <2>1, OwnRow DEF IInv
    <2>3. \A t \in Sessions : t # s => Good(t)'
      BY <1>1, <2>1, OtherRows, SameRow DEF IInv
    <2>4. \A t \in Sessions : ChildInv(t)'
      BY <1>1, <2>1, ChildStep DEF IInv, Good
    <2>. QED BY <1>1, <2>2, <2>3, <2>4 DEF IInv
  <1>3. CASE UNCHANGED vars
    <2>1. \A t \in Sessions : Row(t)' = Row(t)
      BY <1>3 DEF vars, Row
    <2>2. \A t \in Sessions : ChildInv(t)'
      BY <1>3 DEF vars, IInv, ChildInv, Before, Past
    <2>. QED BY <1>1, <2>1, <2>2, SameRow DEF IInv
  <1>. QED BY <1>2, <1>3

-----------------------------------------------------------------------------
(* Type correctness, for any number of connections and any sizes.          *)
THEOREM TypeCorrect == Spec => []TypeOK
  <1>1. IInv => TypeOK
    BY DEF IInv
  <1>. QED BY InitInv, StepInv, <1>1, PTL DEF Spec

(* Through the child, two pipes, the pump and a socket that may be slow,   *)
(* dead or shared with the verdict, the browser sees the first chunks of   *)
(* the output, each once and in order, and after the verdict no more than  *)
(* the last one.                                                           *)
THEOREM InOrderAndComplete == Spec => []OutputIsAPrefix
  <1>1. IInv => OutputIsAPrefix
    BY DEF IInv, Good, InOrder, OutputIsAPrefix
  <1>. QED BY InitInv, StepInv, <1>1, PTL DEF Spec

-----------------------------------------------------------------------------
(* VerdictIsTrue.  The verdict that arrives was decided three threads and  *)
(* a buffer earlier.  What it says stays true because, once the handler    *)
(* has seen the end of the child and of the copying goroutine, neither     *)
(* comes back: nothing the other threads, the browser or a crash started   *)
(* by another session does undoes `Through`.                               *)

(* The command was permitted, has exited with status 0, and all of its     *)
(* output has been copied.                                                 *)
Through(s) ==
  /\ child[s] = "ok" /\ copier[s] = "done" /\ copied[s] = plan[s]
  /\ command[s] \in allowedCommands

(* A verdict of success is on its way to the browser or there.             *)
Shown(s) == \E i \in 1 .. Len(Wire(s)) : Wire(s)[i] = Verdict(FALSE)

(* The handler has decided on a success, or it is shown.                   *)
VerdictInv(s) ==
  /\ main[s] \in {"close", "verdict", "writing"} /\ ~failed[s] => Through(s)
  /\ Shown(s) => Through(s)

Truth == \A s \in Sessions : VerdictInv(s)

(* Nothing undoes the end of a command.                                    *)
LEMMA ThroughStays ==
  ASSUME TypeOK, NEW s \in Sessions, NEW t \in Sessions, Act(s), ChildInv(t), Through(t)
  PROVE  Through(t)'
  <1>. USE SessionTypes DEF ChildInv, Before, Past, Through, TypeOK
  <1>1. CASE Connect(s)
    BY <1>1 DEF Connect, handlerVars, childVars, pipeVars, wireVars
  <1>2. CASE Refuse(s)
    BY <1>2 DEF Refuse, handlerVars, childVars, pipeVars, wireVars
  <1>3. CASE Accept(s)
    BY <1>3 DEF Accept, handlerVars, childVars, pipeVars, wireVars
  <1>4. CASE RunFails(s)
    BY <1>4 DEF RunFails, handlerVars, childVars, pipeVars, wireVars
  <1>5. CASE RunStarts(s)
    BY <1>5 DEF RunStarts, handlerVars, childVars, pipeVars, wireVars
  <1>6. CASE WaitReturns(s)
    BY <1>6 DEF WaitReturns, handlerVars, childVars, pipeVars, wireVars
  <1>7. CASE ClosePipe(s)
    BY <1>7 DEF ClosePipe, handlerVars, childVars, pipeVars, wireVars
  <1>8. CASE BeginVerdict(s)
    BY <1>8 DEF BeginVerdict, handlerVars, childVars, pipeVars, wireVars
  <1>9. CASE EndVerdict(s)
    BY <1>9 DEF EndVerdict, handlerVars, childVars, pipeVars, wireVars
  <1>10. CASE ChildWrite(s)
    BY <1>10 DEF ChildWrite, handlerVars, childVars, pipeVars, wireVars
  <1>11. CASE ChildExit(s)
    BY <1>11 DEF ChildExit, handlerVars, childVars, pipeVars, wireVars
  <1>12. CASE CopierReads(s)
    BY <1>12 DEF CopierReads, handlerVars, childVars, pipeVars, wireVars
  <1>13. CASE PumpReads(s)
    BY <1>13 DEF PumpReads, handlerVars, childVars, pipeVars, wireVars
  <1>14. CASE BeginSend(s)
    BY <1>14 DEF BeginSend, handlerVars, childVars, pipeVars, wireVars
  <1>15. CASE CrashInSend(s)
    BY <1>15 DEF CrashInSend, handlerVars, childVars, pipeVars, wireVars
  <1>16. CASE EndSend(s)
    BY <1>16 DEF EndSend, handlerVars, childVars, pipeVars, wireVars
  <1>17. CASE ClientReads(s)
    BY <1>17 DEF ClientReads, handlerVars, childVars, pipeVars, wireVars
  <1>18. CASE ClientLeaves(s)
    BY <1>18 DEF ClientLeaves, handlerVars, childVars, pipeVars, wireVars
  <1>19. CASE Close(s)
    BY <1>19 DEF Close, handlerVars, childVars, pipeVars, wireVars
  <1>. QED BY <1>1, <1>2, <1>3, <1>4, <1>5, <1>6, <1>7, <1>8, <1>9, <1>10, <1>11, <1>12,
     <1>13, <1>14, <1>15, <1>16, <1>17, <1>18, <1>19 DEF Act, Main, Child, Pump

(* Nothing new on the wire: no new verdict.                                *)
LEMMA SameShown ==
  ASSUME NEW s \in Sessions, Wire(s)' = Wire(s)
  PROVE  Shown(s)' => Shown(s)
  BY DEF Shown, Verdict

(* A frame at the end of the wire that is no success: no new verdict.      *)
LEMMA LongerShown ==
  ASSUME NEW s \in Sessions, Wire(s) \in Seq(Frames), NEW f \in Frames,
         Wire(s)' = Append(Wire(s), f), f # Verdict(FALSE)
  PROVE  Shown(s)' => Shown(s)
  <1>1. /\ Len(Append(Wire(s), f)) = Len(Wire(s)) + 1
        /\ \A i \in 1 .. Len(Wire(s)) : Append(Wire(s), f)[i] = Wire(s)[i]
        /\ Append(Wire(s), f)[Len(Wire(s)) + 1] = f
        /\ Len(Wire(s)) \in Nat
    BY AppendFrame
  <1>. SUFFICES ASSUME NEW i \in 1 .. Len(Wire(s)'), Wire(s)'[i] = Verdict(FALSE)
                PROVE  Shown(s)
    BY DEF Shown, Verdict
  <1>2. i \in 1 .. Len(Wire(s)) \/ i = Len(Wire(s)) + 1
    BY <1>1
  <1>3. i \in 1 .. Len(Wire(s)) /\ Wire(s)[i] = Verdict(FALSE)
    BY <1>1, <1>2
  <1>. QED BY <1>3 DEF Shown

(* Sending a frame that is no success shows no success.                    *)
LEMMA SentShown ==
  ASSUME TypeOK, NEW s \in Sessions, NEW f \in Frames, f # Verdict(FALSE),
         socket' = Sent(s, f), screen' = screen
  PROVE  Shown(s)' => Shown(s)
  <1>1. Wire(s) \in Seq(Frames)
    BY WireIsFrames DEF Wire, TypeOK
  <1>2. Garbled \in Frames /\ Garbled # Verdict(FALSE)
    BY FrameTypes DEF Garbled, Verdict
  <1>3. \/ Wire(s)' = Wire(s)
        \/ Wire(s)' = Append(Wire(s), Garbled)
        \/ Wire(s)' = Append(Wire(s), f)
    BY SentOnWire
  <1>. QED BY <1>1, <1>2, <1>3, SameShown, LongerShown

(* What is on the screen is on the wire.                                   *)
LEMMA ScreenIsShown ==
  ASSUME TypeOK, NEW s \in Sessions, NEW i \in 1 .. Len(screen[s]),
         screen[s][i] = Verdict(FALSE)
  PROVE  Shown(s)
  <1>1. screen[s] \in Seq(Frames) /\ socket[s] \in Seq(Frames)
    BY DEF TypeOK
  <1>2. /\ Wire(s) \in Seq(Frames) /\ Len(screen[s]) <= Len(Wire(s))
        /\ Wire(s)[i] = screen[s][i]
    BY <1>1, WireIsFrames DEF Wire
  <1>3. Len(Wire(s)) \in Nat /\ Len(screen[s]) \in Nat
    BY <1>1, <1>2
  <1>4. i \in 1 .. Len(Wire(s))
    BY <1>2, <1>3
  <1>. QED BY <1>2, <1>4 DEF Shown

(* Only the handler shows a success, and only of a run that did not fail.  *)
LEMMA ShownStep ==
  ASSUME TypeOK, NEW s \in Sessions, Act(s), Shown(s)', ~Shown(s)
  PROVE  main[s] = "writing" /\ ~failed[s]
  <1>1. Wire(s)' # Wire(s)
    BY SameShown
  <1>2. CASE Connect(s) \/ Accept(s) \/ RunFails(s) \/ RunStarts(s) \/ WaitReturns(s) \/ ClosePipe(s) \/ Close(s)
             \/ BeginVerdict(s) \/ ChildWrite(s) \/ ChildExit(s) \/ CopierReads(s) \/ PumpReads(s) \/ BeginSend(s) \/ CrashInSend(s)
    BY <1>1, <1>2 DEF Connect, Accept, RunFails, RunStarts, WaitReturns, ClosePipe, Close, BeginVerdict, ChildWrite, ChildExit, CopierReads, PumpReads, BeginSend, CrashInSend, wireVars, Wire
  <1>3. CASE Refuse(s)
    <2>1. Refusal \in Frames /\ Refusal # Verdict(FALSE)
      BY FrameTypes DEF Refusal, Verdict
    <2>. QED BY <1>3, <2>1, SentShown DEF Refuse
  <1>4. CASE EndVerdict(s)
    <2>1. Verdict(failed[s]) \in Frames
      BY FrameTypes
    <2>2. Verdict(failed[s]) = Verdict(FALSE)
      BY <1>4, <2>1, SentShown DEF EndVerdict
    <2>3. ~failed[s]
      BY <2>2, SessionTypes DEF Verdict
    <2>. QED BY <1>4, <2>3 DEF EndVerdict
  <1>5. CASE EndSend(s)
    <2>1. Out(taken[s]) \in Frames /\ Out(taken[s]) # Verdict(FALSE)
      BY FrameTypes DEF Out, Verdict
    <2>. QED BY <1>5, <2>1, SentShown DEF EndSend
  <1>6. CASE ClientReads(s)
    <2>1. /\ screen'[s] = Append(screen[s], Head(socket[s])) /\ socket'[s] = Tail(socket[s])
          /\ socket[s] # << >> /\ screen[s] \in Seq(Frames) /\ socket[s] \in Seq(Frames)
      BY <1>6 DEF ClientReads, TypeOK
    <2>2. Wire(s)' = Wire(s)
      BY <2>1, ReadKeepsWire DEF Wire
    <2>. QED BY <1>1, <2>2
  <1>7. CASE ClientLeaves(s)
    <2>1. /\ socket'[s] = << >> /\ screen'[s] = screen[s]
          /\ screen[s] \in Seq(Frames) /\ socket[s] \in Seq(Frames)
      BY <1>7 DEF ClientLeaves, TypeOK
    <2>2. Wire(s)' = screen[s]
      BY <2>1, WireIsFrames DEF Wire
    <2>3. PICK i \in 1 .. Len(screen[s]) : screen[s][i] = Verdict(FALSE)
      BY <2>2 DEF Shown, Verdict
    <2>. QED BY <2>3, ScreenIsShown
  <1>. QED BY <1>2, <1>3, <1>4, <1>5, <1>6, <1>7 DEF Act, Main, Child, Pump

(* The handler comes to its verdict only by WaitReturns, which has seen    *)
(* the end of the child and of the copying goroutine.                      *)
LEMMA DecidedStep ==
  ASSUME TypeOK, NEW s \in Sessions, NEW t \in Sessions, Act(s), ChildInv(t),
         main'[t] \in {"close", "verdict", "writing"}, ~failed'[t]
  PROVE  \/ main[t] \in {"close", "verdict", "writing"} /\ ~failed[t]
         \/ Through(t)'
  <1>. USE SessionTypes DEF ChildInv, Before, Past, TypeOK
  <1>1. CASE Connect(s)
    BY <1>1 DEF Connect, Through, handlerVars, childVars, pipeVars, wireVars
  <1>2. CASE Refuse(s)
    BY <1>2 DEF Refuse, Through, handlerVars, childVars, pipeVars, wireVars
  <1>3. CASE Accept(s)
    BY <1>3 DEF Accept, Through, handlerVars, childVars, pipeVars, wireVars
  <1>4. CASE RunFails(s)
    BY <1>4 DEF RunFails, Through, handlerVars, childVars, pipeVars, wireVars
  <1>5. CASE RunStarts(s)
    BY <1>5 DEF RunStarts, Through, handlerVars, childVars, pipeVars, wireVars
  <1>6. CASE WaitReturns(s)
    BY <1>6 DEF WaitReturns, Through, handlerVars, childVars, pipeVars, wireVars
  <1>7. CASE ClosePipe(s)
    BY <1>7 DEF ClosePipe, Through, handlerVars, childVars, pipeVars, wireVars
  <1>8. CASE BeginVerdict(s)
    BY <1>8 DEF BeginVerdict, Through, handlerVars, childVars, pipeVars, wireVars
  <1>9. CASE EndVerdict(s)
    BY <1>9 DEF EndVerdict, Through, handlerVars, childVars, pipeVars, wireVars
  <1>10. CASE ChildWrite(s)
    BY <1>10 DEF ChildWrite, Through, handlerVars, childVars, pipeVars, wireVars
  <1>11. CASE ChildExit(s)
    BY <1>11 DEF ChildExit, Through, handlerVars, childVars, pipeVars, wireVars
  <1>12. CASE CopierReads(s)
    BY <1>12 DEF CopierReads, Through, handlerVars, childVars, pipeVars, wireVars
  <1>13. CASE PumpReads(s)
    BY <1>13 DEF PumpReads, Through, handlerVars, childVars, pipeVars, wireVars
  <1>14. CASE BeginSend(s)
    BY <1>14 DEF BeginSend, Through, handlerVars, childVars, pipeVars, wireVars
  <1>15. CASE CrashInSend(s)
    BY <1>15 DEF CrashInSend, Through, handlerVars, childVars, pipeVars, wireVars
  <1>16. CASE EndSend(s)
    BY <1>16 DEF EndSend, Through, handlerVars, childVars, pipeVars, wireVars
  <1>17. CASE ClientReads(s)
    BY <1>17 DEF ClientReads, Through, handlerVars, childVars, pipeVars, wireVars
  <1>18. CASE ClientLeaves(s)
    BY <1>18 DEF ClientLeaves, Through, handlerVars, childVars, pipeVars, wireVars
  <1>19. CASE Close(s)
    BY <1>19 DEF Close, Through, handlerVars, childVars, pipeVars, wireVars
  <1>. QED BY <1>1, <1>2, <1>3, <1>4, <1>5, <1>6, <1>7, <1>8, <1>9, <1>10, <1>11, <1>12,
     <1>13, <1>14, <1>15, <1>16, <1>17, <1>18, <1>19 DEF Act, Main, Child, Pump

(* What a verdict says stays true.                                         *)
LEMMA TruthStep == IInv /\ Truth /\ [Next]_vars => Truth'
  <1>. SUFFICES ASSUME IInv, Truth, [Next]_vars, NEW t \in Sessions
                PROVE  VerdictInv(t)'
    BY DEF Truth
  <1>1. ChildInv(t) /\ VerdictInv(t) /\ HandlerInv(t) /\ TypeOK
    BY DEF Truth, IInv, Good
  <1>2. CASE Next
    <2>1. PICK s \in Sessions : Act(s)
      BY <1>2 DEF Next, Act
    <2>3. Shown(t)' => Through(t)'
      <3>1. CASE s = t
        BY <1>1, <2>1, <3>1, ShownStep, ThroughStays DEF VerdictInv
      <3>2. CASE s # t
        <4>1. Row(t)' = Row(t)
          BY <1>1, <2>1, <3>2, OtherRows
        <4>2. Wire(t)' = Wire(t)
          BY <4>1 DEF Row, Wire
        <4>. QED BY <1>1, <2>1, <4>2, SameShown, ThroughStays DEF VerdictInv
      <3>. QED BY <3>1, <3>2
    <2>4. main'[t] \in {"close", "verdict", "writing"} /\ ~failed'[t] => Through(t)'
      BY <1>1, <2>1, DecidedStep, ThroughStays DEF VerdictInv
    <2>. QED BY <2>3, <2>4 DEF VerdictInv
  <1>3. CASE UNCHANGED vars
    BY <1>1, <1>3 DEF vars, VerdictInv, Shown, Through, Wire, Verdict
  <1>. QED BY <1>2, <1>3

(* The verdict on the screen is about the command as it ended.             *)
LEMMA TruthShown == IInv /\ Truth => VerdictIsTrue
  <1>. SUFFICES ASSUME IInv, Truth, NEW s \in Sessions, NEW i \in 1 .. Len(screen[s]),
                       screen[s][i] = Verdict(FALSE)
                PROVE  child[s] = "ok" /\ taken[s] = plan[s] /\ command[s] \in allowedCommands
    BY DEF VerdictIsTrue
  <1>1. Shown(s)
    BY ScreenIsShown DEF IInv
  <1>2. Through(s) /\ CopierInv(s)
    BY <1>1 DEF Truth, VerdictInv, IInv, Good
  <1>. QED BY <1>2 DEF Through, CopierInv

(* A success shown in the browser is of a permitted command that exited    *)
(* with status 0 and whose output the pump has all read, for any number of *)
(* connections, whatever crashes, leaves or is slow.                       *)
THEOREM VerdictTrue == Spec => []VerdictIsTrue
  <1>1. Init => Truth
    <2>. SUFFICES ASSUME Init, NEW s \in Sessions PROVE VerdictInv(s)
      BY DEF Truth
    <2>1. << >> \o << >> = << >> /\ Len(<< >>) = 0
      OBVIOUS
    <2>2. Len(Wire(s)) = 0
      BY <2>1 DEF Init, Wire
    <2>3. ~Shown(s)
      BY <2>2 DEF Shown
    <2>. QED BY <2>3 DEF Init, VerdictInv
  <1>. QED BY <1>1, InitInv, StepInv, TruthStep, TruthShown, PTL DEF Spec
=============================================================================
