---------------------------- MODULE AskStreamProofs ----------------------------
(***************************************************************************)
(* Every invariant of AskStream holds in every reachable state, for any    *)
(* tools, limits and counters.  AskTypeOK and StreamEndsOnce come first,   *)
(* then AuditTellsOutcome, then the trail.  StreamEndsOnce speaks of the   *)
(* end of a request alone; StreamInv says what leads to it: as long as the *)
(* locals of streamAgent show neither an answer nor a failed write,        *)
(* nothing final was sent, and whoever returns without an error has set    *)
(* one of them.                                                            *)
(*                                                                         *)
(* AuditTellsOutcome compares three witnesses at the end of a request;     *)
(* OutcomeInv says what each of them knows on the way there: the database  *)
(* (TurnTells), the error of the run (ErrorTells), the client (HeardTells) *)
(* and, once there is a terminal record, the trail (RecordTells).          *)
(*                                                                         *)
(* EveryCallIsAudited and TokensSumOrSaturate compare counters with the    *)
(* whole trail; AuditInv says that they agree after every record, and      *)
(* which call the trail leaves unfinished.  The total of a trail is the    *)
(* last value of a recursive function: each step extends the function by   *)
(* one value, and what it sums up to is part of the invariant.             *)
(***************************************************************************)
EXTENDS AskStream, FiniteSetTheorems, TLAPS

Final == TerminalEvents \cup {"torn"}

Ongoing ==
    ModelEvents \cup {ToolStarted(t) : t \in Tools} \cup {ToolFinished(t) : t \in Tools}

Answers == {Event("completed"), Event("confirmation_required")}

Errors == [type : {"error"}, code : {"request_timeout", "agent_failed"}]

Frames == Ongoing \cup Answers \cup Errors \cup {Torn}

\* Nothing final was sent.
Quiet == \A k \in DOMAIN client : client[k].type \notin Final

FinalIsLast == \A k \in DOMAIN client : client[k].type \in Final => k = Len(client)

Told == client # <<>> /\ Last(client).type \in TerminalEvents

Open == ~stream.completed /\ ~stream.writeFailed

\* The locals show what was sent.
LocalsTell ==
    /\ Open /\ pc # "done" => Quiet
    /\ FinalIsLast
    /\ stream.writeFailed => lost
    /\ stream.completed /\ ~lost => Told

\* Where the locals can show what.
PhaseTells ==
    /\ pc \in {"start", "model", "calls", "calling", "called", "tell"} => Open
    /\ pc \in {"close", "finalize"} =>
         /\ stream.writeFailed => err # {}
         /\ kind = "turn" => ~stream.completed
         /\ kind = "ask" /\ err = {} => stream.completed
    /\ pc = "finalize" => kind = "turn"
    /\ pc \in {"calling", "called"} => calls # <<>>
    /\ pc \in {"end", "reply"} /\ err = {} => stream.completed

\* A request that was not rejected ends told, or cut off.
DoneTells ==
    pc = "done" => audit = <<Event("rejected")>> \/ lost \/ context # "live" \/ Told

StreamInv ==
    /\ AskTypeOK
    /\ client \in Seq(Frames)
    /\ LocalsTell
    /\ PhaseTells
    /\ DoneTells

-------------------------------------------------------------------------------
(* Frames and the callback *)

(***************************************************************************)
(* saturatingAdd stays within the counter.                                 *)
(***************************************************************************)
LEMMA SaturatingAddInRange ==
    ASSUME NEW m \in 0 .. MaxInt64, NEW n \in 0 .. MaxInt64
    PROVE  saturatingAdd(m, n) \in 0 .. MaxInt64
BY AskConstants DEF AskConstants, saturatingAdd

(***************************************************************************)
(* Appending a frame that is not final keeps the stream quiet; appending   *)
(* any frame to a quiet stream leaves at most the last one final.          *)
(***************************************************************************)
LEMMA AppendFrame ==
    ASSUME client \in Seq(Frames), Quiet, NEW frame \in Frames,
           client' = Append(client, frame)
    PROVE  /\ client' \in Seq(Frames)
           /\ frame.type \notin Final => Quiet'
           /\ FinalIsLast'
           /\ frame.type \in TerminalEvents => Told'
<1>1. /\ client' \in Seq(Frames) /\ Len(client') = Len(client) + 1
      /\ DOMAIN client = 1 .. Len(client) /\ DOMAIN client' = 1 .. Len(client) + 1
      /\ Len(client) \in Nat
  OBVIOUS
<1>2. \A k \in 1 .. Len(client) : client'[k] = client[k]
  OBVIOUS
<1>3. client'[Len(client) + 1] = frame
  OBVIOUS
<1>4. \A k \in 1 .. Len(client) : client'[k].type \notin Final
  BY <1>1, <1>2 DEF Quiet
<1>5. frame.type \notin Final => Quiet'
  <2>1. SUFFICES ASSUME frame.type \notin Final, NEW k \in 1 .. Len(client) + 1
                 PROVE  client'[k].type \notin Final
    BY <1>1 DEF Quiet, Final, TerminalEvents
  <2>2. CASE k = Len(client) + 1
    BY <1>3, <2>1, <2>2
  <2>3. CASE k # Len(client) + 1
    <3>1. k \in 1 .. Len(client)
      BY <1>1, <2>3
    <3>2. QED BY <1>4, <3>1
  <2>4. QED BY <2>2, <2>3
<1>6. FinalIsLast'
  <2>1. SUFFICES ASSUME NEW k \in 1 .. Len(client) + 1, client'[k].type \in Final
                 PROVE  k = Len(client) + 1
    BY <1>1 DEF FinalIsLast, Final, TerminalEvents
  <2>2. k \notin 1 .. Len(client)
    BY <1>4, <2>1
  <2>3. QED BY <1>1, <2>1, <2>2
<1>7. Last(client') = frame /\ client' # <<>>
  BY <1>1, <1>3 DEF Last
<1>8. frame.type \in TerminalEvents => Told'
  BY <1>7 DEF Told, TerminalEvents
<1>9. QED BY <1>1, <1>5, <1>6, <1>8


(***************************************************************************)
(* Every event is a frame, of the type it is named for.                    *)
(***************************************************************************)
LEMMA OngoingFrames ==
    ASSUME NEW event \in Ongoing
    PROVE  /\ event \in Frames
           /\ event.type \in {"text_delta", "usage", "tool_started", "tool_finished"}
           /\ event.type \notin Final
           /\ event.type = "usage" => event.tokens \in 0 .. MaxInt64
           /\ event.type = "tool_started" => event.tool \in Tools
<1>1. CASE event = Event("text_delta")
  BY <1>1 DEF Frames, Event, Final, TerminalEvents
<1>2. CASE \E n \in Tokens : event = Usage(n)
  BY <1>2, AskConstants DEF AskConstants, Frames, Usage, Final, TerminalEvents
<1>3. CASE \E t \in Tools : event = ToolStarted(t)
  BY <1>3 DEF Frames, ToolStarted, Final, TerminalEvents
<1>4. CASE \E t \in Tools : event = ToolFinished(t)
  BY <1>4 DEF Frames, ToolFinished, Final, TerminalEvents
<1>5. QED BY <1>1, <1>2, <1>3, <1>4 DEF Ongoing, ModelEvents

LEMMA AnswerFrames ==
    ASSUME NEW event \in Answers
    PROVE  /\ event \in Frames
           /\ event.type \in {"completed", "confirmation_required"}
           /\ event.type \in TerminalEvents
BY DEF Answers, Event, Frames, TerminalEvents

(***************************************************************************)
(* The locals after an assignment to one of them.                          *)
(***************************************************************************)
LEMMA TokensAssigned ==
    ASSUME NEW s \in StreamLocals, NEW n \in 0 .. MaxInt64
    PROVE  LET t == [s EXCEPT !.tokens = n]
           IN  /\ t \in StreamLocals /\ t.bytes = s.bytes
               /\ t.writeFailed = s.writeFailed /\ t.completed = s.completed
BY DEF StreamLocals

LEMMA BytesCounted ==
    ASSUME NEW s \in StreamLocals, s.bytes < MaxAskStreamBytes
    PROVE  LET t == [s EXCEPT !.bytes = s.bytes + 1]
           IN  /\ t \in StreamLocals
               /\ t.writeFailed = s.writeFailed /\ t.completed = s.completed
<1>1. s.bytes + 1 \in 0 .. MaxAskStreamBytes
  BY AskConstants DEF AskConstants, StreamLocals
<1>2. QED BY <1>1 DEF StreamLocals

LEMMA FailureNoted ==
    ASSUME NEW s \in StreamLocals
    PROVE  LET t == [s EXCEPT !.writeFailed = TRUE]
           IN  t \in StreamLocals /\ t.writeFailed /\ t.completed = s.completed
BY DEF StreamLocals

(***************************************************************************)
(* recordEvent keeps the type of the locals and tells of an answer only.   *)
(***************************************************************************)
LEMMA RecordedLocals ==
    ASSUME NEW s \in StreamLocals, NEW event \in Ongoing \cup Answers
    PROVE  /\ Recorded(s, event) \in StreamLocals
           /\ Recorded(s, event).bytes = s.bytes
           /\ Recorded(s, event).writeFailed = s.writeFailed
           /\ event \in Ongoing => Recorded(s, event).completed = s.completed
           /\ event \in Answers => Recorded(s, event).completed = TRUE
<1>1. CASE event \in Answers
  <2>1. Recorded(s, event) = [s EXCEPT !.completed = TRUE]
    BY <1>1, AnswerFrames DEF Recorded
  <2>2. event \notin Ongoing
    BY <1>1, OngoingFrames, AnswerFrames
  <2>3. QED BY <2>1, <2>2 DEF StreamLocals
<1>2. CASE event \in Ongoing
  <2>1. event \notin Answers
    BY <1>2, OngoingFrames, AnswerFrames
  <2>2. CASE event.type = "text_delta"
    BY <1>2, <2>1, <2>2 DEF Recorded
  <2>3. CASE event.type = "usage"
    <3>1. saturatingAdd(s.tokens, event.tokens) \in 0 .. MaxInt64
      BY <1>2, <2>3, OngoingFrames, SaturatingAddInRange DEF StreamLocals
    <3>2. PICK n \in 0 .. MaxInt64 : Recorded(s, event) = [s EXCEPT !.tokens = n]
      BY <2>3, <3>1 DEF Recorded
    <3>3. /\ Recorded(s, event) \in StreamLocals /\ Recorded(s, event).bytes = s.bytes
          /\ Recorded(s, event).writeFailed = s.writeFailed
          /\ Recorded(s, event).completed = s.completed
      BY <3>2, TokensAssigned
    <3>4. QED BY <2>1, <3>3
  <2>4. CASE event.type = "tool_started"
    <3>1. Recorded(s, event) =
            [s EXCEPT !.toolCalls = s.toolCalls + 1, !.active = event.tool]
      BY <2>4 DEF Recorded
    <3>2. event.tool \in Tools /\ s.toolCalls + 1 \in Nat
      BY <1>2, <2>4, OngoingFrames DEF StreamLocals
    <3>3. /\ Recorded(s, event) \in StreamLocals /\ Recorded(s, event).bytes = s.bytes
          /\ Recorded(s, event).writeFailed = s.writeFailed
          /\ Recorded(s, event).completed = s.completed
      BY <3>1, <3>2 DEF StreamLocals
    <3>4. QED BY <2>1, <3>3
  <2>5. CASE event.type = "tool_finished"
    <3>1. Recorded(s, event) = [s EXCEPT !.active = NoTool]
      BY <2>5 DEF Recorded
    <3>2. QED BY <1>2, <2>1, <3>1 DEF StreamLocals
  <2>6. QED BY <1>2, <2>2, <2>3, <2>4, <2>5, OngoingFrames
<1>3. QED BY <1>1, <1>2

(***************************************************************************)
(* An event that was written: the stream stays open and quiet, or it is    *)
(* the answer and the client was told.                                     *)
(***************************************************************************)
LEMMA Emitted ==
    ASSUME StreamInv, Open, pc # "done", NEW event \in Ongoing \cup Answers, Emit(event)
    PROVE  /\ stream' \in StreamLocals /\ client' \in Seq(Frames) /\ lost' = lost
           /\ FinalIsLast'
           /\ ~stream'.writeFailed
           /\ event \in Ongoing => ~stream'.completed /\ Quiet'
           /\ event \in Answers => stream'.completed /\ Told'
<1>1. /\ stream \in StreamLocals /\ client \in Seq(Frames) /\ Quiet
  BY DEF StreamInv, AskTypeOK, LocalsTell
<1>2. /\ stream' = [Recorded(stream, event) EXCEPT !.bytes = Recorded(stream, event).bytes + 1]
      /\ client' = Append(client, event) /\ lost' = lost
      /\ stream.bytes < MaxAskStreamBytes
  BY DEF Emit
<1>3. /\ stream' \in StreamLocals
      /\ stream'.writeFailed = Recorded(stream, event).writeFailed
      /\ stream'.completed = Recorded(stream, event).completed
  BY <1>1, <1>2, RecordedLocals, BytesCounted
<1>4. /\ stream'.writeFailed = stream.writeFailed
      /\ event \in Ongoing => stream'.completed = stream.completed
      /\ event \in Answers => stream'.completed = TRUE
  BY <1>1, <1>3, RecordedLocals
<1>5. event \in Frames
  BY OngoingFrames, AnswerFrames
<1>6. /\ client' \in Seq(Frames) /\ FinalIsLast'
      /\ event.type \notin Final => Quiet'
      /\ event.type \in TerminalEvents => Told'
  BY <1>1, <1>2, <1>5, AppendFrame
<1>7. QED BY <1>2, <1>3, <1>4, <1>6, OngoingFrames, AnswerFrames DEF Open

(***************************************************************************)
(* A write that fails on a quiet stream.                                   *)
(***************************************************************************)
LEMMA WriteFailed ==
    ASSUME client \in Seq(Frames), Quiet, FinalIsLast, WriteFails
    PROVE  client' \in Seq(Frames) /\ FinalIsLast' /\ lost'
<1>1. CASE client' = client
  BY <1>1 DEF WriteFails, FinalIsLast, Final, TerminalEvents
<1>2. CASE client' = Append(client, Torn)
  BY <1>2, AppendFrame DEF WriteFails, Frames
<1>3. QED BY <1>1, <1>2 DEF WriteFails

LEMMA EmitFailed ==
    ASSUME StreamInv, Open, pc # "done", NEW event \in Ongoing \cup Answers, EmitFails(event)
    PROVE  /\ stream' \in StreamLocals /\ client' \in Seq(Frames) /\ lost'
           /\ FinalIsLast'
           /\ stream'.writeFailed
           /\ event \in Ongoing => ~stream'.completed
<1>1. stream \in StreamLocals /\ client \in Seq(Frames) /\ Quiet /\ FinalIsLast
  BY DEF StreamInv, AskTypeOK, LocalsTell
<1>2. client' \in Seq(Frames) /\ lost' /\ FinalIsLast'
  BY <1>1, WriteFailed DEF EmitFails
<1>3. \/ stream' = [stream EXCEPT !.writeFailed = TRUE] /\ event \in Ongoing
      \/ stream' = [Recorded(stream, event) EXCEPT !.writeFailed = TRUE]
  BY AnswerFrames DEF EmitFails
<1>4. PICK s \in StreamLocals :
        /\ stream' = [s EXCEPT !.writeFailed = TRUE]
        /\ event \in Ongoing => s.completed = stream.completed
  BY <1>1, <1>3, RecordedLocals
<1>5. stream' \in StreamLocals /\ stream'.writeFailed /\ stream'.completed = s.completed
  BY <1>4, FailureNoted
<1>6. QED BY <1>2, <1>4, <1>5 DEF Open

-------------------------------------------------------------------------------
(* The steps *)

USE DEF agentVars, sentVars

LEMMA CallsTyped ==
    ASSUME NEW tools \in IterationCalls
    PROVE  tools \in Seq(Tools)
BY DEF IterationCalls

LEMMA CallTaken ==
    ASSUME NEW tools \in Seq(Tools), tools # <<>>, NEW before \in Seq(Tools)
    PROVE  /\ Head(tools) \in Tools /\ Tail(tools) \in Seq(Tools)
           /\ Append(before, Head(tools)) \in Seq(Tools)
OBVIOUS

(***************************************************************************)
(* A step that sends nothing leaves what the locals tell as it is.         *)
(***************************************************************************)
LEMMA Silent ==
    ASSUME StreamInv, pc # "done", UNCHANGED <<stream, client, lost>>
    PROVE  LocalsTell' /\ client' \in Seq(Frames) /\ stream' \in StreamLocals
BY DEF StreamInv, AskTypeOK, LocalsTell, Open, Quiet, FinalIsLast, Told, Final, TerminalEvents

LEMMA StreamInit == Init => StreamInv
<1>1. SUFFICES ASSUME Init PROVE StreamInv
  OBVIOUS
<1>2. /\ pc = "start" /\ iteration = 1 /\ ending = "none" /\ err = {}
      /\ context = "live" /\ client = <<>> /\ ran = <<>> /\ lost = FALSE
      /\ stream = [writeFailed |-> FALSE, completed |-> FALSE, active |-> NoTool,
                   toolCalls |-> 0, tokens |-> 0, bytes |-> 0]
      /\ turn = IF kind = "ask" THEN "none" ELSE "running"
  BY <1>1 DEF Init
<1>3. /\ kind \in {"ask", "turn"} /\ decision \in {"", "approve", "reject"}
      /\ calls = <<>> \/ calls \in IterationCalls
  BY <1>1 DEF Init
<1>4. AskTypeOK
  <2>1. calls \in Seq(Tools) /\ ran \in Seq(Tools)
    <3>1. <<>> \in Seq(Tools)
      OBVIOUS
    <3>2. QED BY <1>2, <1>3, <3>1, CallsTyped
  <2>2. stream \in StreamLocals
    BY <1>2, AskConstants DEF StreamLocals, AskConstants
  <2>3. iteration \in 1 .. MaxIterations
    BY <1>2, AskConstants DEF AskConstants
  <2>4. turn \in {"none", "running", "completed", "awaiting_confirmation", "failed", "canceled"}
    BY <1>2
  <2>5. QED BY <1>2, <1>3, <2>1, <2>2, <2>3, <2>4 DEF AskTypeOK
<1>5. LocalsTell /\ client \in Seq(Frames)
  BY <1>2 DEF LocalsTell, Quiet, FinalIsLast
<1>6. PhaseTells /\ DoneTells
  BY <1>2 DEF PhaseTells, DoneTells, Open
<1>7. QED BY <1>4, <1>5, <1>6 DEF StreamInv

LEMMA StepStart ==
    ASSUME StreamInv, Start PROVE StreamInv'
<1>1. LocalsTell' /\ client' \in Seq(Frames)
  BY Silent DEF Start
<1>2. AskTypeOK'
  BY DEF StreamInv, AskTypeOK, Start
<1>3. PhaseTells' /\ DoneTells'
  BY DEF StreamInv, PhaseTells, DoneTells, Open, Start
<1>4. QED BY <1>1, <1>2, <1>3 DEF StreamInv

LEMMA StepStreamingUnavailable ==
    ASSUME StreamInv, StreamingUnavailable PROVE StreamInv'
<1>1. LocalsTell' /\ client' \in Seq(Frames)
  BY Silent DEF StreamingUnavailable
<1>2. AskTypeOK'
  BY DEF StreamInv, AskTypeOK, StreamingUnavailable
<1>3. PhaseTells' /\ DoneTells'
  BY DEF StreamInv, PhaseTells, DoneTells, Open, StreamingUnavailable
<1>4. QED BY <1>1, <1>2, <1>3 DEF StreamInv

LEMMA StepModelEmits ==
    ASSUME StreamInv, NEW event \in ModelEvents, ModelEmits(event) PROVE StreamInv'
<1>1. event \in Ongoing /\ Open /\ pc # "done"
  BY DEF Ongoing, StreamInv, PhaseTells, ModelEmits
<1>2. CASE Emit(event) /\ UNCHANGED <<pc, ending, err>>
  <2>1. /\ stream' \in StreamLocals /\ client' \in Seq(Frames) /\ lost' = lost
        /\ FinalIsLast' /\ Open' /\ Quiet'
    BY <1>1, <1>2, Emitted DEF Open
  <2>2. AskTypeOK'
    BY <1>2, <2>1 DEF StreamInv, AskTypeOK, ModelEmits
  <2>3. LocalsTell' /\ PhaseTells' /\ DoneTells'
    BY <1>1, <1>2, <2>1 DEF LocalsTell, PhaseTells, DoneTells, Open, ModelEmits
  <2>4. QED BY <2>1, <2>2, <2>3 DEF StreamInv
<1>3. CASE EmitFails(event) /\ RunReturns("none", {"other"})
  <2>1. /\ stream' \in StreamLocals /\ client' \in Seq(Frames) /\ lost'
        /\ FinalIsLast' /\ stream'.writeFailed /\ ~stream'.completed
    BY <1>1, <1>3, EmitFailed
  <2>2. AskTypeOK'
    BY <1>3, <2>1 DEF StreamInv, AskTypeOK, ModelEmits, RunReturns, EmitFails, WriteFails
  <2>3. LocalsTell' /\ PhaseTells' /\ DoneTells'
    BY <1>3, <2>1 DEF LocalsTell, PhaseTells, DoneTells, Open, RunReturns
  <2>4. QED BY <2>1, <2>2, <2>3 DEF StreamInv
<1>4. QED BY <1>2, <1>3 DEF ModelEmits

LEMMA StepModelCompletes ==
    ASSUME StreamInv, ModelCompletes PROVE StreamInv'
<1>. DEFINE event == Event("completed")
<1>1. event \in Answers /\ Open /\ pc # "done"
  BY DEF Answers, StreamInv, PhaseTells, ModelCompletes
<1>2. CASE Emit(event) /\ RunReturns("completed", {}) /\ kind = "ask"
  <2>1. /\ stream' \in StreamLocals /\ client' \in Seq(Frames) /\ lost' = lost
        /\ FinalIsLast' /\ ~stream'.writeFailed /\ stream'.completed /\ Told'
    BY <1>1, <1>2, Emitted
  <2>2. AskTypeOK'
    BY <1>2, <2>1 DEF StreamInv, AskTypeOK, ModelCompletes, RunReturns
  <2>3. LocalsTell' /\ PhaseTells' /\ DoneTells'
    BY <1>2, <2>1 DEF LocalsTell, PhaseTells, DoneTells, Open, ModelCompletes, RunReturns
  <2>4. QED BY <2>1, <2>2, <2>3 DEF StreamInv
<1>3. CASE EmitFails(event) /\ RunReturns("none", {"other"}) /\ kind = "ask"
  <2>1. /\ stream' \in StreamLocals /\ client' \in Seq(Frames) /\ lost'
        /\ FinalIsLast' /\ stream'.writeFailed
    BY <1>1, <1>3, EmitFailed
  <2>2. AskTypeOK'
    BY <1>3, <2>1 DEF StreamInv, AskTypeOK, ModelCompletes, RunReturns, EmitFails, WriteFails
  <2>3. LocalsTell' /\ PhaseTells' /\ DoneTells'
    BY <1>3, <2>1 DEF LocalsTell, PhaseTells, DoneTells, Open, ModelCompletes, RunReturns
  <2>4. QED BY <2>1, <2>2, <2>3 DEF StreamInv
<1>4. CASE RunReturns("completed", {}) /\ UNCHANGED sentVars /\ kind # "ask"
  <2>1. LocalsTell' /\ client' \in Seq(Frames) /\ stream' \in StreamLocals
    BY <1>1, <1>4, Silent
  <2>2. AskTypeOK'
    BY <1>4, <2>1 DEF StreamInv, AskTypeOK, ModelCompletes, RunReturns
  <2>3. PhaseTells' /\ DoneTells'
    BY <1>1, <1>4 DEF StreamInv, AskTypeOK, PhaseTells, DoneTells, Open, ModelCompletes, RunReturns
  <2>4. QED BY <2>1, <2>2, <2>3 DEF StreamInv
<1>5. QED BY <1>2, <1>3, <1>4 DEF ModelCompletes

(***************************************************************************)
(* The steps of the agent that send nothing and end no request.            *)
(***************************************************************************)
LEMMA StepCalls ==
    ASSUME StreamInv,
           (\E tools \in IterationCalls : ModelCalls(tools)) \/ SkipCall \/ Suspend
             \/ CallTool \/ NextIteration \/ RunFails
    PROVE  StreamInv'
<1>1. /\ LocalsTell' /\ client' \in Seq(Frames) /\ stream' \in StreamLocals
      /\ Open /\ pc \in {"model", "calls", "calling"}
  <2>1. pc \in {"model", "calls", "calling"} /\ UNCHANGED <<stream, client, lost>>
    BY DEF ModelCalls, SkipCall, Suspend, CallTool, NextIteration, RunFails
  <2>2. QED BY <2>1, Silent DEF StreamInv, PhaseTells
<1>2. ASSUME NEW tools \in IterationCalls, ModelCalls(tools) PROVE StreamInv'
  <2>1. AskTypeOK'
    BY <1>1, <1>2, CallsTyped DEF StreamInv, AskTypeOK, ModelCalls
  <2>2. PhaseTells' /\ DoneTells'
    BY <1>1, <1>2 DEF PhaseTells, DoneTells, Open, ModelCalls
  <2>3. QED BY <1>1, <2>1, <2>2 DEF StreamInv
<1>3. CASE SkipCall
  <2>0. calls' \in Seq(Tools) /\ decision' = ""
    BY <1>3, CallTaken DEF StreamInv, AskTypeOK, SkipCall
  <2>1. AskTypeOK'
    BY <1>1, <1>3, <2>0 DEF StreamInv, AskTypeOK, SkipCall
  <2>2. PhaseTells' /\ DoneTells'
    BY <1>1, <1>3 DEF PhaseTells, DoneTells, Open, SkipCall
  <2>3. QED BY <1>1, <2>1, <2>2 DEF StreamInv
<1>4. CASE Suspend
  <2>1. AskTypeOK'
    BY <1>1, <1>4 DEF StreamInv, AskTypeOK, Suspend, RunReturns
  <2>2. PhaseTells' /\ DoneTells'
    BY <1>1, <1>4 DEF PhaseTells, DoneTells, Open, Suspend, RunReturns
  <2>3. QED BY <1>1, <2>1, <2>2 DEF StreamInv
<1>5. CASE CallTool
  <2>1. ran' \in Seq(Tools)
    BY <1>5, CallTaken DEF StreamInv, AskTypeOK, PhaseTells, CallTool
  <2>2. \/ pc' = "called" /\ UNCHANGED <<ending, err>>
        \/ \E e \in Failures : RunReturns("none", {e})
    BY <1>5 DEF CallTool
  <2>3. AskTypeOK'
    BY <1>1, <1>5, <2>1, <2>2 DEF StreamInv, AskTypeOK, CallTool, RunReturns, Failures
  <2>4. PhaseTells' /\ DoneTells'
    BY <1>1, <1>5, <2>2 DEF StreamInv, PhaseTells, DoneTells, Open, CallTool, RunReturns
  <2>5. QED BY <1>1, <2>3, <2>4 DEF StreamInv
<1>6. CASE NextIteration
  <2>0. iteration' \in 1 .. MaxIterations
    <3>1. iteration \in 1 .. MaxIterations /\ MaxIterations \in Nat
      BY AskConstants DEF AskConstants, StreamInv, AskTypeOK
    <3>2. \/ iteration' = iteration
          \/ iteration < MaxIterations /\ iteration' = iteration + 1
      BY <1>6 DEF NextIteration
    <3>3. QED BY <3>1, <3>2
  <2>1. AskTypeOK'
    BY <1>1, <1>6, <2>0 DEF StreamInv, AskTypeOK, NextIteration, RunReturns
  <2>2. PhaseTells' /\ DoneTells'
    BY <1>1, <1>6 DEF PhaseTells, DoneTells, Open, NextIteration, RunReturns
  <2>3. QED BY <1>1, <2>1, <2>2 DEF StreamInv
<1>7. CASE RunFails
  <2>1. AskTypeOK'
    BY <1>1, <1>7 DEF StreamInv, AskTypeOK, RunFails, RunReturns, Failures
  <2>2. PhaseTells' /\ DoneTells'
    BY <1>1, <1>7 DEF PhaseTells, DoneTells, Open, RunFails, RunReturns
  <2>3. QED BY <1>1, <2>1, <2>2 DEF StreamInv
<1>8. QED BY <1>2, <1>3, <1>4, <1>5, <1>6, <1>7

LEMMA StepStartCall ==
    ASSUME StreamInv, StartCall PROVE StreamInv'
<1>. DEFINE event == ToolStarted(Head(calls))
<1>1. event \in Ongoing /\ Open /\ pc # "done" /\ calls # <<>>
  BY CallTaken DEF Ongoing, StreamInv, AskTypeOK, PhaseTells, StartCall
<1>2. CASE Emit(event) /\ pc' = "calling" /\ UNCHANGED <<ending, err>>
  <2>1. /\ stream' \in StreamLocals /\ client' \in Seq(Frames) /\ lost' = lost
        /\ FinalIsLast' /\ Open' /\ Quiet'
    BY <1>1, <1>2, Emitted DEF Open
  <2>2. AskTypeOK'
    BY <1>2, <2>1 DEF StreamInv, AskTypeOK, StartCall
  <2>3. LocalsTell' /\ PhaseTells' /\ DoneTells'
    BY <1>1, <1>2, <2>1 DEF LocalsTell, PhaseTells, DoneTells, Open, StartCall
  <2>4. QED BY <2>1, <2>2, <2>3 DEF StreamInv
<1>3. CASE EmitFails(event) /\ RunReturns("none", {"other"})
  <2>1. /\ stream' \in StreamLocals /\ client' \in Seq(Frames) /\ lost' /\ lost' \in BOOLEAN
        /\ FinalIsLast' /\ stream'.writeFailed /\ ~stream'.completed
    BY <1>1, <1>3, EmitFailed DEF EmitFails, WriteFails
  <2>2. AskTypeOK'
    BY <1>3, <2>1 DEF StreamInv, AskTypeOK, StartCall, RunReturns
  <2>3. LocalsTell' /\ PhaseTells' /\ DoneTells'
    BY <1>3, <2>1 DEF LocalsTell, PhaseTells, DoneTells, Open, RunReturns
  <2>4. QED BY <2>1, <2>2, <2>3 DEF StreamInv
<1>4. QED BY <1>2, <1>3 DEF StartCall

LEMMA StepFinishCall ==
    ASSUME StreamInv, FinishCall PROVE StreamInv'
<1>. DEFINE event == ToolFinished(Head(calls))
<1>1. /\ event \in Ongoing /\ Open /\ pc # "done" /\ calls' \in Seq(Tools)
  BY CallTaken DEF Ongoing, StreamInv, AskTypeOK, PhaseTells, FinishCall
<1>2. CASE Emit(event) /\ pc' = "calls" /\ UNCHANGED <<ending, err>>
  <2>1. /\ stream' \in StreamLocals /\ client' \in Seq(Frames) /\ lost' = lost
        /\ FinalIsLast' /\ Open' /\ Quiet'
    BY <1>1, <1>2, Emitted DEF Open
  <2>2. AskTypeOK'
    BY <1>1, <1>2, <2>1 DEF StreamInv, AskTypeOK, FinishCall
  <2>3. LocalsTell' /\ PhaseTells' /\ DoneTells'
    BY <1>1, <1>2, <2>1 DEF LocalsTell, PhaseTells, DoneTells, Open, FinishCall
  <2>4. QED BY <2>1, <2>2, <2>3 DEF StreamInv
<1>3. CASE EmitFails(event) /\ RunReturns("none", {"other"})
  <2>1. /\ stream' \in StreamLocals /\ client' \in Seq(Frames) /\ lost' /\ lost' \in BOOLEAN
        /\ FinalIsLast' /\ stream'.writeFailed /\ ~stream'.completed
    BY <1>1, <1>3, EmitFailed DEF EmitFails, WriteFails
  <2>2. AskTypeOK'
    BY <1>1, <1>3, <2>1 DEF StreamInv, AskTypeOK, FinishCall, RunReturns
  <2>3. LocalsTell' /\ PhaseTells' /\ DoneTells'
    BY <1>3, <2>1 DEF LocalsTell, PhaseTells, DoneTells, Open, RunReturns
  <2>4. QED BY <2>1, <2>2, <2>3 DEF StreamInv
<1>4. QED BY <1>2, <1>3 DEF FinishCall

(***************************************************************************)
(* The run has returned; its session is closed and its turn finalized.     *)
(***************************************************************************)
LEMMA StepCloseSession ==
    ASSUME StreamInv, CloseSession PROVE StreamInv'
<1>1. LocalsTell' /\ client' \in Seq(Frames)
  BY Silent DEF CloseSession
<1>2. err' \subseteq {"other", "deadline", "canceled"} /\ err \subseteq err'
  BY DEF StreamInv, AskTypeOK, CloseSession
<1>3. AskTypeOK'
  BY <1>2 DEF StreamInv, AskTypeOK, CloseSession
<1>4. PhaseTells' /\ DoneTells'
  <2>1. /\ stream.writeFailed => err' # {}
        /\ kind = "turn" => ~stream.completed
        /\ kind = "ask" /\ err' = {} => stream.completed
    BY <1>2 DEF StreamInv, PhaseTells, CloseSession
  <2>2. \/ pc' = "end" /\ kind = "ask"
        \/ pc' = "finalize" /\ kind = "turn"
    <3>1. kind \in {"ask", "turn"}
      BY DEF StreamInv, AskTypeOK
    <3>2. pc' = IF kind = "ask" THEN "end" ELSE "finalize"
      BY DEF CloseSession
    <3>3. QED BY <3>1, <3>2
  <2>3. UNCHANGED <<stream, kind>>
    BY DEF CloseSession
  <2>4. QED BY <2>1, <2>2, <2>3 DEF PhaseTells, DoneTells
<1>5. QED BY <1>1, <1>3, <1>4 DEF StreamInv

LEMMA StepFinalizeFailed ==
    ASSUME StreamInv, FinalizeFailed PROVE StreamInv'
<1>1. LocalsTell' /\ client' \in Seq(Frames)
  BY Silent DEF FinalizeFailed
<1>2. err' \subseteq {"other", "deadline", "canceled"} /\ err' # {}
  BY DEF StreamInv, AskTypeOK, FinalizeFailed, failTurn
<1>3. AskTypeOK'
  BY <1>2 DEF StreamInv, AskTypeOK, FinalizeFailed, failTurn, turnFailure
<1>4. PhaseTells' /\ DoneTells'
  BY <1>2 DEF PhaseTells, DoneTells, FinalizeFailed
<1>5. QED BY <1>1, <1>3, <1>4 DEF StreamInv

LEMMA StepFinalize ==
    ASSUME StreamInv, Finalize PROVE StreamInv'
<1>1. LocalsTell' /\ client' \in Seq(Frames)
  BY Silent DEF Finalize
<1>2. CASE pc' = "tell" /\ UNCHANGED err
           /\ turn' \in {"completed", "awaiting_confirmation"}
  <2>1. AskTypeOK'
    BY <1>2 DEF StreamInv, AskTypeOK, Finalize
  <2>2. PhaseTells' /\ DoneTells'
    BY <1>2 DEF StreamInv, PhaseTells, DoneTells, Open, Finalize
  <2>3. QED BY <1>1, <2>1, <2>2 DEF StreamInv
<1>3. ASSUME NEW e \in {"other", "deadline"}, failTurn("failed", {e}), pc' = "end"
      PROVE  StreamInv'
  <2>1. err' \subseteq {"other", "deadline", "canceled"} /\ err' # {}
    BY <1>3 DEF failTurn
  <2>2. AskTypeOK'
    BY <1>3, <2>1 DEF StreamInv, AskTypeOK, Finalize, failTurn
  <2>3. PhaseTells' /\ DoneTells'
    BY <1>3, <2>1 DEF PhaseTells, DoneTells
  <2>4. QED BY <1>1, <2>2, <2>3 DEF StreamInv
<1>4. QED BY <1>2, <1>3 DEF Finalize

LEMMA StepTell ==
    ASSUME StreamInv, Tell PROVE StreamInv'
<1>. DEFINE event == Event(IF ending = "completed" THEN "completed"
                           ELSE "confirmation_required")
<1>1. event \in Answers /\ Open /\ pc # "done"
  BY DEF Answers, StreamInv, PhaseTells, Tell
<1>2. CASE Emit(event) /\ UNCHANGED err
  <2>1. /\ stream' \in StreamLocals /\ client' \in Seq(Frames) /\ lost' = lost
        /\ FinalIsLast' /\ ~stream'.writeFailed /\ stream'.completed /\ Told'
    BY <1>1, <1>2, Emitted
  <2>2. AskTypeOK'
    BY <1>2, <2>1 DEF StreamInv, AskTypeOK, Tell
  <2>3. LocalsTell' /\ PhaseTells' /\ DoneTells'
    BY <2>1 DEF LocalsTell, PhaseTells, DoneTells, Open, Tell
  <2>4. QED BY <2>1, <2>2, <2>3 DEF StreamInv
<1>3. CASE EmitFails(event) /\ err' = {"other"}
  <2>1. /\ stream' \in StreamLocals /\ client' \in Seq(Frames) /\ lost' /\ lost' \in BOOLEAN
        /\ FinalIsLast' /\ stream'.writeFailed
    BY <1>1, <1>3, EmitFailed DEF EmitFails, WriteFails
  <2>2. AskTypeOK'
    BY <1>3, <2>1 DEF StreamInv, AskTypeOK, Tell
  <2>3. LocalsTell' /\ PhaseTells' /\ DoneTells'
    BY <1>3, <2>1 DEF LocalsTell, PhaseTells, DoneTells, Open, Tell
  <2>4. QED BY <2>1, <2>2, <2>3 DEF StreamInv
<1>4. QED BY <1>2, <1>3 DEF Tell

LEMMA StepEnd ==
    ASSUME StreamInv, End PROVE StreamInv'
<1>1. LocalsTell' /\ client' \in Seq(Frames)
  BY Silent DEF End
<1>2. AskTypeOK'
  BY DEF StreamInv, AskTypeOK, End
<1>3. PhaseTells' /\ DoneTells'
  BY DEF StreamInv, PhaseTells, DoneTells, End
<1>4. QED BY <1>1, <1>2, <1>3 DEF StreamInv

(***************************************************************************)
(* The error is the last thing a quiet stream can be sent; without it the  *)
(* client was told, a write failed, or the context ended.                  *)
(***************************************************************************)
LEMMA StepReply ==
    ASSUME StreamInv, Reply PROVE StreamInv'
<1>1. /\ stream \in StreamLocals /\ client \in Seq(Frames) /\ lost \in BOOLEAN
      /\ pc = "reply" /\ pc' = "done"
      /\ UNCHANGED <<kind, decision, agentVars, turn, context, stream, audit>>
  BY DEF StreamInv, AskTypeOK, Reply
<1>2. /\ client' \in Seq(Frames) /\ FinalIsLast' /\ lost' \in BOOLEAN
      /\ stream.writeFailed => lost'
      /\ stream.completed /\ ~lost' => Told'
      /\ lost' \/ context # "live" \/ Told'
  <2>1. CASE OwesError
    <3>1. Open /\ Quiet /\ FinalIsLast
      BY <1>1, <2>1 DEF StreamInv, LocalsTell, OwesError, Open
    <3>2. CASE WriteFails
      <4>1. client' \in Seq(Frames) /\ FinalIsLast' /\ lost'
        BY <1>1, <3>1, <3>2, WriteFailed
      <4>2. lost' \in BOOLEAN
        BY <3>2 DEF WriteFails
      <4>3. QED BY <4>1, <4>2
    <3>3. CASE client' = Append(client, ErrorEvent) /\ UNCHANGED lost
      <4>1. ErrorEvent \in Frames /\ ErrorEvent.type \in TerminalEvents
        BY DEF ErrorEvent, Frames, Errors, TerminalEvents
      <4>2. client' \in Seq(Frames) /\ FinalIsLast' /\ Told'
        BY <1>1, <3>1, <3>3, <4>1, AppendFrame
      <4>3. QED BY <1>1, <3>1, <3>3, <4>2 DEF Open
    <3>4. QED BY <2>1, <3>2, <3>3 DEF Reply
  <2>2. CASE ~OwesError
    <3>1. UNCHANGED <<client, lost>>
      BY <2>2 DEF Reply
    <3>2. /\ FinalIsLast
          /\ stream.writeFailed => lost
          /\ stream.completed /\ ~lost => Told
          /\ err = {} => stream.completed
      BY <1>1 DEF StreamInv, LocalsTell, PhaseTells
    <3>3. lost \/ context # "live" \/ Told
      BY <2>2, <3>2 DEF OwesError
    <3>4. FinalIsLast' /\ (Told => Told')
      BY <3>1, <3>2 DEF FinalIsLast, Told, Final, TerminalEvents
    <3>5. QED BY <1>1, <3>1, <3>2, <3>3, <3>4
  <2>3. QED BY <2>1, <2>2
<1>3. AskTypeOK'
  BY <1>1, <1>2 DEF StreamInv, AskTypeOK
<1>4. LocalsTell'
  BY <1>1, <1>2 DEF LocalsTell
<1>5. PhaseTells' /\ DoneTells'
  BY <1>1, <1>2 DEF PhaseTells, DoneTells
<1>6. QED BY <1>2, <1>3, <1>4, <1>5 DEF StreamInv

LEMMA StepContextEnds ==
    ASSUME StreamInv, ContextEnds PROVE StreamInv'
<1>1. LocalsTell' /\ client' \in Seq(Frames)
  BY Silent DEF ContextEnds
<1>2. AskTypeOK'
  BY DEF StreamInv, AskTypeOK, ContextEnds
<1>3. PhaseTells' /\ DoneTells'
  BY DEF StreamInv, PhaseTells, DoneTells, Open, ContextEnds
<1>4. QED BY <1>1, <1>2, <1>3 DEF StreamInv

LEMMA StepStutters ==
    ASSUME StreamInv, UNCHANGED vars PROVE StreamInv'
<1>0. UNCHANGED <<kind, decision, pc, iteration, calls, ending, err, ran, turn, context,
                  stream, audit, client, lost>>
  BY DEF vars
<1>1. AskTypeOK'
  <2>1. AskTypeOK
    BY DEF StreamInv
  <2>2. /\ (calls \in Seq(Tools) /\ ran \in Seq(Tools))'
        /\ (stream \in StreamLocals)' /\ (lost \in BOOLEAN)'
        /\ (err \subseteq {"other", "deadline", "canceled"})'
    BY <1>0, <2>1 DEF AskTypeOK
  <2>3. QED BY <1>0, <2>1, <2>2 DEF AskTypeOK
<1>2. client' \in Seq(Frames)
  BY DEF StreamInv, vars
<1>3. LocalsTell' /\ PhaseTells' /\ DoneTells'
  BY DEF StreamInv, LocalsTell, PhaseTells, DoneTells, Open, Quiet, FinalIsLast, Told,
         Final, TerminalEvents, vars
<1>4. QED BY <1>1, <1>2, <1>3 DEF StreamInv

-------------------------------------------------------------------------------
(* The theorems *)

(***************************************************************************)
(* The locals of streamAgent always tell what was sent to the client.      *)
(***************************************************************************)
THEOREM StreamInvariant == Spec => []StreamInv
<1>1. StreamInv /\ [Next]_vars => StreamInv'
  <2>1. SUFFICES ASSUME StreamInv, Next \/ UNCHANGED vars PROVE StreamInv'
    OBVIOUS
  <2>2. QED
    BY <2>1, StepStart, StepStreamingUnavailable, StepModelEmits, StepModelCompletes,
       StepCalls, StepStartCall, StepFinishCall, StepCloseSession, StepFinalizeFailed,
       StepFinalize, StepTell, StepEnd, StepReply, StepContextEnds, StepStutters
       DEF Next
<1>2. QED BY <1>1, StreamInit, PTL DEF Spec

(***************************************************************************)
(* Every variable keeps its type: the stream never outgrows its size and   *)
(* the token counter never wraps, whatever the counters reported.          *)
(***************************************************************************)
THEOREM AskTyped == Spec => []AskTypeOK
<1>1. StreamInv => AskTypeOK
  BY DEF StreamInv
<1>2. QED BY <1>1, StreamInvariant, PTL

(***************************************************************************)
(* A client is told the end of its request once, as the last thing it      *)
(* receives, unless a write failed or its context ended.                   *)
(***************************************************************************)
THEOREM AskStreamEndsOnce == Spec => []StreamEndsOnce
<1>1. StreamInv => StreamEndsOnce
  <2>1. SUFFICES ASSUME StreamInv PROVE StreamEndsOnce
    OBVIOUS
  <2>2. \A k \in DOMAIN client :
          client[k].type \in TerminalEvents \cup {"torn"} => k = Len(client)
    BY <2>1 DEF StreamInv, LocalsTell, FinalIsLast, Final
  <2>3. Ended => audit # <<Event("rejected")>>
    <3>1. Last(<<Event("rejected")>>).type = "rejected"
      BY DEF Last, Event
    <3>2. QED BY <3>1 DEF Ended
  <2>4. pc = "done" /\ Ended /\ ~lost /\ context = "live" => Told
    BY <2>1, <2>3 DEF StreamInv, DoneTells
  <2>5. QED BY <2>2, <2>4 DEF StreamEndsOnce, Told
<1>2. QED BY <1>1, StreamInvariant, PTL

-------------------------------------------------------------------------------
(* What the trail, the database and the client say at the end *)


Codes == {"", "stream_write_failed", "request_timeout", "request_canceled",
          "agent_cleanup_failed", "agent_failed", "agent_incomplete"}

Terminals ==
    [type : {"request_completed", "request_failed"}, code : Codes,
     toolCalls : Nat, tokens : 0 .. MaxInt64]

Records == Frames \cup {Event("started"), Event("rejected")} \cup Terminals

Agent == {"model", "calls", "calling", "called"}

\* The client has the answer.
Answered == Told /\ Last(client).type \in {"completed", "confirmation_required"}

\* The locals show an answer that was written.
ShowsAnswer == stream.completed /\ ~stream.writeFailed

\* The turn runs until PreparedTurn.Run stores its outcome.
TurnTells ==
    /\ kind = "ask" <=> turn = "none"
    /\ pc \in Agent \cup {"start", "close", "finalize"} /\ kind = "turn" => turn = "running"
    /\ pc = "tell" =>
         /\ kind = "turn"
         /\ turn = IF ending = "completed" THEN "completed" ELSE "awaiting_confirmation"
    /\ pc \in {"end", "reply", "done"} /\ err # {} /\ Open =>
         turn \notin {"completed", "awaiting_confirmation"}

\* Whoever fails after the answer closes the session of a mere ask; whoever
\* fails without an error has finished its calls.
ErrorTells ==
    /\ "canceled" \in err => context = "canceled"
    /\ ShowsAnswer /\ err # {} => kind = "ask"
    /\ pc = "tell" => err = {}
    /\ pc \in {"start", "model", "calls", "tell"} => stream.active = NoTool
    /\ pc \in {"close", "finalize", "end"} /\ err = {} => stream.active = NoTool

\* The client has what the locals show, and nothing else but the error.
HeardTells ==
    /\ Answered <=> ShowsAnswer
    /\ Told /\ ~Answered =>
         /\ pc = "done" /\ context = "live" /\ err # {} /\ Open
         /\ Last(client) = ErrorEvent
    /\ Answered =>
         IF Last(client).type = "completed" THEN turn \in {"none", "completed"}
         ELSE turn = "awaiting_confirmation"

CodeTells(code) ==
    /\ code # "agent_incomplete"
    /\ code = "" => ShowsAnswer
    /\ ShowsAnswer =>
         \/ code = ""
         \/ code \in {"agent_cleanup_failed", "request_timeout"} /\ kind = "ask"
         \/ context # "live"
    /\ Open /\ err # {} /\ context = "live" => code = ErrorEvent.code

RecordTells ==
    /\ pc \notin {"reply", "done"} => ~Ended
    /\ Ended => CodeTells(Last(audit).code)

OutcomeInv ==
    /\ audit \in Seq(Records)
    /\ TurnTells
    /\ ErrorTells
    /\ HeardTells
    /\ RecordTells

-------------------------------------------------------------------------------
(* The trail and the client *)

(***************************************************************************)
(* Recording an event writes no terminal record.                           *)
(***************************************************************************)
LEMMA Trailing ==
    ASSUME audit \in Seq(Records), ~Ended, NEW event \in Ongoing \cup Answers,
           audit' = audit \o Trail(event)
    PROVE  audit' \in Seq(Records) /\ ~Ended'
<1>1. /\ event \in Records
      /\ event.type \notin {"request_completed", "request_failed"}
  BY OngoingFrames, AnswerFrames DEF Records
<1>2. CASE Trail(event) = <<>>
  <2>1. audit' = audit
    BY <1>2
  <2>2. QED BY <2>1 DEF Ended
<1>3. CASE Trail(event) = <<event>>
  <2>1. audit' \in Seq(Records) /\ Last(audit') = event
    BY <1>1, <1>3 DEF Last
  <2>2. QED BY <1>1, <2>1 DEF Ended
<1>4. QED BY <1>2, <1>3 DEF Trail

(***************************************************************************)
(* A quiet stream told nothing.                                            *)
(***************************************************************************)
LEMMA QuietUntold ==
    ASSUME client \in Seq(Frames), Quiet PROVE ~Told
<1>1. SUFFICES ASSUME client # <<>> PROVE Last(client).type \notin TerminalEvents
  BY DEF Told
<1>2. Len(client) \in DOMAIN client /\ Last(client) = client[Len(client)]
  BY <1>1 DEF Last
<1>3. QED BY <1>2 DEF Quiet, Final

(***************************************************************************)
(* While the stream is open the client was told nothing; an event of the   *)
(* agent leaves it so, an answer is heard, and a failed write tells        *)
(* nothing.                                                                *)
(***************************************************************************)
LEMMA OpenUntold ==
    ASSUME StreamInv, Open, pc # "done" PROVE ~Told /\ client \in Seq(Frames)
BY QuietUntold DEF StreamInv, LocalsTell

LEMMA HeardEmitted ==
    ASSUME StreamInv, Open, pc # "done", NEW event \in Ongoing \cup Answers, Emit(event)
    PROVE  /\ event \in Ongoing => ~Told' /\ Open'
           /\ event \in Answers => Answered' /\ ShowsAnswer' /\ Last(client') = event
<1>1. /\ stream' \in StreamLocals /\ client' \in Seq(Frames) /\ ~stream'.writeFailed
      /\ event \in Ongoing => ~stream'.completed /\ Quiet'
      /\ event \in Answers => stream'.completed /\ Told'
  BY Emitted
<1>2. event \in Ongoing => ~Told'
  <2>1. ASSUME client' \in Seq(Frames), Quiet' PROVE ~Told'
    <3>1. SUFFICES ASSUME client' # <<>> PROVE Last(client').type \notin TerminalEvents
      BY DEF Told, TerminalEvents
    <3>2. Len(client') \in DOMAIN client' /\ Last(client') = client'[Len(client')]
      BY <2>1, <3>1 DEF Last
    <3>3. QED BY <2>1, <3>2 DEF Quiet, Final, TerminalEvents
  <2>2. QED BY <1>1, <2>1
<1>3. event \in Answers => Last(client') = event
  <2>1. client \in Seq(Frames) /\ client' = Append(client, event)
    BY DEF StreamInv, Emit
  <2>2. event \in Frames \cup Answers
    BY OngoingFrames DEF Frames
  <2>3. QED BY <2>1, <2>2, AnswerFrames DEF Last
<1>4. QED BY <1>1, <1>2, <1>3, AnswerFrames DEF Open, ShowsAnswer, Answered

LEMMA HeardFailed ==
    ASSUME StreamInv, Open, pc # "done", NEW event \in Ongoing \cup Answers, EmitFails(event)
    PROVE  ~Told' /\ ~Open' /\ ~ShowsAnswer'
<1>1. stream'.writeFailed
  BY EmitFailed
<1>2. ~Told'
  <2>1. ~Told /\ client \in Seq(Frames)
    BY OpenUntold
  <2>2. CASE client' = client
    BY <2>1, <2>2 DEF Told, TerminalEvents
  <2>3. CASE client' = Append(client, Torn)
    <3>1. Last(client') = Torn
      BY <2>1, <2>3 DEF Last, Torn, Event
    <3>2. QED BY <3>1 DEF Told, TerminalEvents, Torn, Event
  <2>4. QED BY <2>2, <2>3 DEF EmitFails, WriteFails
<1>3. QED BY <1>1, <1>2 DEF Open, ShowsAnswer

(***************************************************************************)
(* The tool that is active after an event.                                 *)
(***************************************************************************)
LEMMA ActiveAfter ==
    ASSUME NEW s \in StreamLocals, NEW event \in Ongoing \cup Answers
    PROVE  /\ event \in ModelEvents \cup Answers => Recorded(s, event).active = s.active
           /\ event.type = "tool_finished" => Recorded(s, event).active = NoTool
<1>1. event \in ModelEvents => event.type \in {"text_delta", "usage"}
  BY DEF ModelEvents, Event, Usage
<1>2. event \in Answers => event.type \in {"completed", "confirmation_required"}
  BY AnswerFrames
<1>3. QED BY <1>1, <1>2 DEF Recorded, StreamLocals

LEMMA ActiveEmitted ==
    ASSUME StreamInv, NEW event \in Ongoing \cup Answers, Emit(event)
    PROVE  /\ event \in ModelEvents \cup Answers => stream'.active = stream.active
           /\ event.type = "tool_finished" => stream'.active = NoTool
<1>1. stream \in StreamLocals
  BY DEF StreamInv, AskTypeOK
<1>2. stream'.active = Recorded(stream, event).active
  <2>1. Recorded(stream, event) \in StreamLocals
    BY <1>1, RecordedLocals
  <2>2. QED BY <2>1 DEF Emit, StreamLocals
<1>3. QED BY <1>1, <1>2, ActiveAfter

(***************************************************************************)
(* A step that sends nothing leaves what the client heard as it is, if it  *)
(* leaves the turn, or the client has no answer.                           *)
(***************************************************************************)
LEMMA SilentHeard ==
    ASSUME HeardTells, pc # "done", UNCHANGED <<stream, client>>,
           UNCHANGED turn \/ ~ShowsAnswer
    PROVE  HeardTells'
<1>1. (Told' <=> Told) /\ (Answered' <=> Answered) /\ (ShowsAnswer' <=> ShowsAnswer)
  BY DEF Told, TerminalEvents, Answered, ShowsAnswer
<1>2. Told => Answered
  BY DEF HeardTells
<1>3. QED BY <1>1, <1>2 DEF HeardTells

(***************************************************************************)
(* A step that records nothing and does not end the request.               *)
(***************************************************************************)
LEMMA SilentTrail ==
    ASSUME RecordTells, audit \in Seq(Records), pc \notin {"reply", "done"},
           pc' \notin {"reply", "done"}, UNCHANGED audit
    PROVE  RecordTells' /\ audit' \in Seq(Records)
BY DEF RecordTells, Ended

(***************************************************************************)
(* An event of an open phase, whether it was written or not.               *)
(***************************************************************************)
LEMMA EventTrail ==
    ASSUME OutcomeInv, pc \notin {"reply", "done"}, pc' \notin {"reply", "done"},
           NEW event \in Ongoing \cup Answers, Emit(event) \/ EmitFails(event)
    PROVE  RecordTells' /\ audit' \in Seq(Records)
<1>1. audit \in Seq(Records) /\ ~Ended
  BY DEF OutcomeInv, RecordTells
<1>2. audit' = audit \o Trail(event) \/ audit' = audit
  BY DEF Emit, EmitFails
<1>3. audit' \in Seq(Records) /\ ~Ended'
  BY <1>1, <1>2, Trailing DEF Ended
<1>4. QED BY <1>3 DEF RecordTells

-------------------------------------------------------------------------------
(* The steps *)

LEMMA OutcomeInit == Init => OutcomeInv
<1>1. SUFFICES ASSUME Init PROVE OutcomeInv
  OBVIOUS
<1>2. /\ pc = "start" /\ err = {} /\ client = <<>> /\ audit = <<>>
      /\ stream.active = NoTool /\ ~stream.completed /\ ~stream.writeFailed
  BY <1>1 DEF Init
<1>3. kind \in {"ask", "turn"} /\ turn = IF kind = "ask" THEN "none" ELSE "running"
  BY <1>1 DEF Init
<1>4. audit \in Seq(Records) /\ ~Told /\ ~Ended /\ ~ShowsAnswer
  BY <1>2 DEF Told, Ended, ShowsAnswer
<1>5. TurnTells /\ ErrorTells
  BY <1>2, <1>3, <1>4 DEF TurnTells, ErrorTells
<1>6. HeardTells /\ RecordTells
  BY <1>2, <1>4 DEF HeardTells, RecordTells, Answered
<1>7. QED BY <1>4, <1>5, <1>6 DEF OutcomeInv

LEMMA OutcomeStart ==
    ASSUME StreamInv, OutcomeInv, Start PROVE OutcomeInv'
<1>1. pc = "start" /\ pc' \in Agent /\ pc' \in {"model", "calls"}
  BY DEF Start, Agent
<1>2. UNCHANGED <<kind, turn, context, err, stream, client>>
  BY DEF Start
<1>3. HeardTells'
  BY <1>1, <1>2, SilentHeard DEF OutcomeInv
<1>4. audit' \in Seq(Records) /\ ~Ended'
  <2>1. audit' = <<Event("started")>>
    BY DEF Start
  <2>2. Event("started") \in Records
    BY DEF Records
  <2>3. QED BY <2>1, <2>2 DEF Ended, Last, Event
<1>5. TurnTells' /\ ErrorTells'
  BY <1>1, <1>2 DEF OutcomeInv, TurnTells, ErrorTells, ShowsAnswer, Agent
<1>6. RecordTells'
  BY <1>1, <1>4 DEF RecordTells
<1>7. QED BY <1>3, <1>4, <1>5, <1>6 DEF OutcomeInv

LEMMA OutcomeStreamingUnavailable ==
    ASSUME StreamInv, OutcomeInv, StreamingUnavailable PROVE OutcomeInv'
<1>1. pc = "start" /\ pc' = "done" /\ Open /\ kind \in {"ask", "turn"}
  BY DEF StreamInv, AskTypeOK, PhaseTells, StreamingUnavailable
<1>2. /\ UNCHANGED <<kind, context, err, stream, client>>
      /\ turn' \in IF kind = "ask" THEN {turn} ELSE {"canceled", turn}
  BY DEF StreamingUnavailable
<1>3. HeardTells'
  BY <1>1, <1>2, SilentHeard DEF OutcomeInv, Open, ShowsAnswer
<1>4. audit' \in Seq(Records) /\ ~Ended'
  <2>1. audit' = <<Event("rejected")>>
    BY DEF StreamingUnavailable
  <2>2. Event("rejected") \in Records
    BY DEF Records
  <2>3. QED BY <2>1, <2>2 DEF Ended, Last, Event
<1>5. TurnTells' /\ ErrorTells'
  <2>1. turn = IF kind = "ask" THEN "none" ELSE "running"
    BY <1>1 DEF OutcomeInv, TurnTells
  <2>2. turn' \in {"none", "running", "canceled"} /\ (kind' = "ask" <=> turn' = "none")
    BY <1>2, <2>1
  <2>3. TurnTells'
    BY <1>1, <2>2 DEF TurnTells, Agent
  <2>4. QED BY <1>1, <1>2, <2>3 DEF OutcomeInv, ErrorTells, ShowsAnswer
<1>6. RecordTells'
  BY <1>1, <1>4 DEF RecordTells
<1>7. QED BY <1>3, <1>4, <1>5, <1>6 DEF OutcomeInv

(***************************************************************************)
(* An event of the agent or of PreparedTurn.Run, of an open phase, with    *)
(* what the phase does beside it.                                          *)
(***************************************************************************)
LEMMA AgentEmits ==
    ASSUME StreamInv, OutcomeInv, pc \in Agent, NEW event \in Ongoing,
           Emit(event), UNCHANGED <<kind, turn, context, err>>,
           pc' \in Agent,
           pc' \in {"model", "calls"} => stream'.active = NoTool
    PROVE  OutcomeInv'
<1>1. Open /\ pc # "done"
  BY DEF Agent, StreamInv, PhaseTells
<1>2. ~Told' /\ Open'
  BY <1>1, HeardEmitted
<1>3. RecordTells' /\ audit' \in Seq(Records)
  BY EventTrail DEF Agent
<1>4. TurnTells' /\ ErrorTells'
  BY <1>2 DEF OutcomeInv, TurnTells, ErrorTells, ShowsAnswer, Open, Agent
<1>5. HeardTells'
  BY <1>2 DEF HeardTells, Answered, ShowsAnswer, Open
<1>6. QED BY <1>3, <1>4, <1>5 DEF OutcomeInv

LEMMA AgentEmitFails ==
    ASSUME StreamInv, OutcomeInv, pc \in Agent, NEW event \in Ongoing \cup Answers,
           EmitFails(event), RunReturns("none", {"other"}), UNCHANGED <<kind, turn, context>>
    PROVE  OutcomeInv'
<1>1. Open /\ pc # "done" /\ pc' = "close" /\ err' = {"other"}
  BY DEF Agent, StreamInv, PhaseTells, RunReturns
<1>2. ~Told' /\ ~Open' /\ ~ShowsAnswer'
  BY <1>1, HeardFailed
<1>3. RecordTells' /\ audit' \in Seq(Records)
  BY <1>1, EventTrail DEF Agent
<1>4. TurnTells' /\ ErrorTells'
  BY <1>1, <1>2 DEF OutcomeInv, TurnTells, ErrorTells, Agent
<1>5. HeardTells'
  BY <1>2 DEF HeardTells, Answered
<1>6. QED BY <1>3, <1>4, <1>5 DEF OutcomeInv

LEMMA OutcomeModelEmits ==
    ASSUME StreamInv, OutcomeInv, NEW event \in ModelEvents, ModelEmits(event)
    PROVE  OutcomeInv'
<1>1. /\ event \in Ongoing /\ pc = "model" /\ pc \in Agent
      /\ UNCHANGED <<kind, turn, context>>
  BY DEF Ongoing, Agent, ModelEmits
<1>2. CASE Emit(event) /\ UNCHANGED <<pc, ending, err>>
  <2>1. stream'.active = NoTool
    BY <1>1, <1>2, ActiveEmitted DEF OutcomeInv, ErrorTells
  <2>2. QED BY <1>1, <1>2, <2>1, AgentEmits
<1>3. CASE EmitFails(event) /\ RunReturns("none", {"other"})
  BY <1>1, <1>3, AgentEmitFails
<1>4. QED BY <1>2, <1>3 DEF ModelEmits

LEMMA OutcomeStartCall ==
    ASSUME StreamInv, OutcomeInv, StartCall PROVE OutcomeInv'
<1>. DEFINE event == ToolStarted(Head(calls))
<1>1. event \in Ongoing /\ pc \in Agent /\ UNCHANGED <<kind, turn, context>>
  BY CallTaken DEF Ongoing, Agent, StreamInv, AskTypeOK, StartCall
<1>2. CASE Emit(event) /\ pc' = "calling" /\ UNCHANGED <<ending, err>>
  BY <1>1, <1>2, AgentEmits DEF Agent
<1>3. CASE EmitFails(event) /\ RunReturns("none", {"other"})
  BY <1>1, <1>3, AgentEmitFails
<1>4. QED BY <1>2, <1>3 DEF StartCall

LEMMA OutcomeFinishCall ==
    ASSUME StreamInv, OutcomeInv, FinishCall PROVE OutcomeInv'
<1>. DEFINE event == ToolFinished(Head(calls))
<1>1. event \in Ongoing /\ pc \in Agent /\ UNCHANGED <<kind, turn, context>>
  BY CallTaken DEF Ongoing, Agent, StreamInv, AskTypeOK, PhaseTells, FinishCall
<1>2. CASE Emit(event) /\ pc' = "calls" /\ UNCHANGED <<ending, err>>
  <2>1. event.type = "tool_finished"
    BY DEF ToolFinished
  <2>2. stream'.active = NoTool
    BY <1>1, <1>2, <2>1, ActiveEmitted
  <2>3. QED BY <1>1, <1>2, <2>2, AgentEmits DEF Agent
<1>3. CASE EmitFails(event) /\ RunReturns("none", {"other"})
  BY <1>1, <1>3, AgentEmitFails
<1>4. QED BY <1>2, <1>3 DEF FinishCall

(***************************************************************************)
(* The final answer: a mere ask sends it, a turn of a conversation keeps   *)
(* it until it is stored.                                                  *)
(***************************************************************************)
LEMMA OutcomeModelCompletes ==
    ASSUME StreamInv, OutcomeInv, ModelCompletes PROVE OutcomeInv'
<1>. DEFINE event == Event("completed")
<1>1. /\ event \in Answers /\ Open /\ pc = "model" /\ pc \in Agent
      /\ UNCHANGED <<kind, turn, context>>
      /\ stream.active = NoTool
  BY DEF Answers, Agent, StreamInv, PhaseTells, OutcomeInv, ErrorTells, ModelCompletes
<1>2. CASE Emit(event) /\ RunReturns("completed", {}) /\ kind = "ask"
  <2>1. Answered' /\ ShowsAnswer' /\ Last(client') = event
    BY <1>1, <1>2, HeardEmitted
  <2>2. stream'.active = NoTool /\ pc' = "close" /\ err' = {}
    BY <1>1, <1>2, ActiveEmitted DEF RunReturns
  <2>3. RecordTells' /\ audit' \in Seq(Records)
    BY <1>1, <1>2, <2>2, EventTrail
  <2>4. TurnTells' /\ ErrorTells'
    BY <1>1, <1>2, <2>2 DEF OutcomeInv, TurnTells, ErrorTells
  <2>5. HeardTells'
    BY <1>1, <1>2, <2>1 DEF OutcomeInv, TurnTells, HeardTells, Event
  <2>6. QED BY <2>3, <2>4, <2>5 DEF OutcomeInv
<1>3. CASE EmitFails(event) /\ RunReturns("none", {"other"})
  BY <1>1, <1>3, AgentEmitFails
<1>4. CASE RunReturns("completed", {}) /\ UNCHANGED sentVars
  <2>1. pc' = "close" /\ err' = {}
    BY <1>4 DEF RunReturns
  <2>2. HeardTells' /\ RecordTells' /\ audit' \in Seq(Records)
    BY <1>1, <1>4, <2>1, SilentHeard, SilentTrail DEF OutcomeInv
  <2>3. TurnTells' /\ ErrorTells'
    BY <1>1, <1>4, <2>1 DEF OutcomeInv, TurnTells, ErrorTells, Agent
  <2>4. QED BY <2>2, <2>3 DEF OutcomeInv
<1>5. QED BY <1>2, <1>3, <1>4 DEF ModelCompletes

(***************************************************************************)
(* The steps of the agent that send nothing: it goes on, or it returns.    *)
(***************************************************************************)
LEMMA OutcomeCalls ==
    ASSUME StreamInv, OutcomeInv,
           (\E tools \in IterationCalls : ModelCalls(tools)) \/ SkipCall \/ Suspend
             \/ CallTool \/ NextIteration \/ RunFails
    PROVE  OutcomeInv'
<1>1. /\ pc \in {"model", "calls", "calling"} /\ Open /\ ~ShowsAnswer
      /\ UNCHANGED <<kind, turn, context, sentVars>>
  <2>1. pc \in {"model", "calls", "calling"} /\ UNCHANGED <<kind, turn, context, sentVars>>
    BY DEF ModelCalls, SkipCall, Suspend, CallTool, NextIteration, RunFails
  <2>2. QED BY <2>1 DEF StreamInv, PhaseTells, Open, ShowsAnswer
<1>2. \/ pc' \in {"model", "calls"} /\ pc # "calling" /\ err' = err
      \/ pc' = "called" /\ err' = err
      \/ pc' = "close" /\ pc # "calling" /\ err' = {}
      \/ pc' = "close" /\ \E e \in Failures \cup {"other"} : err' = {e}
  <2>1. ASSUME NEW tools \in IterationCalls, ModelCalls(tools)
        PROVE  pc' \in {"model", "calls"} /\ pc # "calling" /\ err' = err
    BY <2>1 DEF ModelCalls
  <2>2. CASE SkipCall
    BY <2>2 DEF SkipCall
  <2>3. CASE Suspend
    BY <2>3 DEF Suspend, RunReturns
  <2>4. CASE CallTool
    BY <2>4 DEF CallTool, RunReturns
  <2>5. CASE NextIteration
    BY <2>5 DEF NextIteration, RunReturns
  <2>6. CASE RunFails
    BY <2>6 DEF RunFails, RunReturns
  <2>7. QED BY <2>1, <2>2, <2>3, <2>4, <2>5, <2>6
<1>3. HeardTells' /\ RecordTells' /\ audit' \in Seq(Records)
  BY <1>1, <1>2, SilentHeard, SilentTrail DEF OutcomeInv
<1>4. TurnTells'
  BY <1>1, <1>2 DEF OutcomeInv, TurnTells, Agent
<1>5. ErrorTells'
  <2>1. "canceled" \in err' => context' = "canceled"
    BY <1>1, <1>2 DEF OutcomeInv, ErrorTells, Failures
  <2>2. ~ShowsAnswer'
    BY <1>1 DEF ShowsAnswer
  <2>3. /\ pc' \in {"model", "calls", "called", "close"}
        /\ pc' \in {"model", "calls"} => stream'.active = NoTool
        /\ pc' = "close" /\ err' = {} => stream'.active = NoTool
    BY <1>1, <1>2 DEF OutcomeInv, ErrorTells
  <2>4. QED BY <2>1, <2>2, <2>3 DEF ErrorTells
<1>6. QED BY <1>3, <1>4, <1>5 DEF OutcomeInv

LEMMA OutcomeCloseSession ==
    ASSUME StreamInv, OutcomeInv, CloseSession PROVE OutcomeInv'
<1>1. /\ pc = "close" /\ kind \in {"ask", "turn"}
      /\ kind = "turn" => ~stream.completed
      /\ UNCHANGED <<kind, turn, context, sentVars>>
  BY DEF StreamInv, AskTypeOK, PhaseTells, CloseSession
<1>2. /\ pc' = IF kind = "ask" THEN "end" ELSE "finalize"
      /\ err' \in {err, err \cup {"other"}, err \cup {"deadline"}}
  BY DEF CloseSession
<1>3. HeardTells' /\ RecordTells' /\ audit' \in Seq(Records)
  BY <1>1, <1>2, SilentHeard, SilentTrail DEF OutcomeInv
<1>4. TurnTells'
  BY <1>1, <1>2 DEF OutcomeInv, TurnTells, Agent
<1>5. ErrorTells'
  <2>1. ("canceled" \in err' <=> "canceled" \in err) /\ (err' = {} => err = {})
    BY <1>2
  <2>2. QED BY <1>1, <1>2, <2>1 DEF OutcomeInv, ErrorTells, ShowsAnswer
<1>6. QED BY <1>3, <1>4, <1>5 DEF OutcomeInv

(***************************************************************************)
(* PreparedTurn.Run stores the outcome before it tells the client, and a   *)
(* turn it fails is told as neither completed nor waiting.                 *)
(***************************************************************************)
LEMMA OutcomeFails ==
    ASSUME StreamInv, OutcomeInv, pc = "finalize", pc' = "end",
           NEW status \in {"failed", "canceled"}, NEW errors, errors # {},
           "canceled" \in errors => "canceled" \in err,
           failTurn(status, errors), UNCHANGED <<kind, context, sentVars>>
    PROVE  OutcomeInv'
<1>1. kind = "turn" /\ ~stream.completed /\ turn = "running"
  BY DEF StreamInv, PhaseTells, OutcomeInv, TurnTells
<1>2. turn' \in {status, "running"} /\ err' # {} /\ ("canceled" \in err' => "canceled" \in err)
  BY <1>1 DEF failTurn
<1>3. HeardTells' /\ RecordTells' /\ audit' \in Seq(Records)
  BY <1>1, SilentHeard, SilentTrail DEF OutcomeInv, ShowsAnswer
<1>4. TurnTells'
  BY <1>1, <1>2 DEF TurnTells, Agent
<1>5. ErrorTells'
  BY <1>1, <1>2 DEF OutcomeInv, ErrorTells, ShowsAnswer
<1>6. QED BY <1>3, <1>4, <1>5 DEF OutcomeInv

LEMMA OutcomeFinalizeFailed ==
    ASSUME StreamInv, OutcomeInv, FinalizeFailed PROVE OutcomeInv'
<1>1. turnFailure \in {"failed", "canceled"} /\ err # {}
  BY DEF turnFailure, FinalizeFailed
<1>2. QED BY <1>1, OutcomeFails DEF FinalizeFailed

LEMMA OutcomeFinalize ==
    ASSUME StreamInv, OutcomeInv, Finalize PROVE OutcomeInv'
<1>1. /\ pc = "finalize" /\ err = {} /\ UNCHANGED <<kind, ending, context, sentVars>>
      /\ kind = "turn" /\ ~stream.completed
  BY DEF StreamInv, PhaseTells, Finalize
<1>2. CASE /\ turn' = IF ending = "completed" THEN "completed" ELSE "awaiting_confirmation"
           /\ pc' = "tell" /\ UNCHANGED err
  <2>1. HeardTells' /\ RecordTells' /\ audit' \in Seq(Records)
    BY <1>1, <1>2, SilentHeard, SilentTrail DEF OutcomeInv, ShowsAnswer
  <2>2. TurnTells'
    BY <1>1, <1>2 DEF TurnTells, Agent
  <2>3. ErrorTells'
    BY <1>1, <1>2 DEF OutcomeInv, ErrorTells
  <2>4. QED BY <2>1, <2>2, <2>3 DEF OutcomeInv
<1>3. ASSUME NEW e \in {"other", "deadline"}, failTurn("failed", {e}), pc' = "end"
      PROVE  OutcomeInv'
  BY <1>1, <1>3, OutcomeFails
<1>4. QED BY <1>2, <1>3 DEF Finalize

LEMMA OutcomeTell ==
    ASSUME StreamInv, OutcomeInv, Tell PROVE OutcomeInv'
<1>. DEFINE event == Event(IF ending = "completed" THEN "completed"
                           ELSE "confirmation_required")
<1>1. /\ event \in Answers /\ Open /\ pc = "tell" /\ pc' = "end"
      /\ UNCHANGED <<kind, turn, context>>
  BY DEF Answers, StreamInv, PhaseTells, Tell
<1>2. /\ kind = "turn" /\ err = {} /\ stream.active = NoTool
      /\ turn = IF ending = "completed" THEN "completed" ELSE "awaiting_confirmation"
  BY <1>1 DEF OutcomeInv, TurnTells, ErrorTells
<1>3. CASE Emit(event) /\ UNCHANGED err
  <2>1. Answered' /\ ShowsAnswer' /\ Last(client') = event
    BY <1>1, <1>3, HeardEmitted
  <2>2. stream'.active = NoTool
    BY <1>1, <1>2, <1>3, ActiveEmitted
  <2>3. RecordTells' /\ audit' \in Seq(Records)
    BY <1>1, <1>3, EventTrail
  <2>4. TurnTells' /\ ErrorTells'
    BY <1>1, <1>2, <1>3, <2>2 DEF TurnTells, ErrorTells, Agent
  <2>5. HeardTells'
    BY <1>1, <1>2, <2>1 DEF HeardTells, Event
  <2>6. QED BY <2>3, <2>4, <2>5 DEF OutcomeInv
<1>4. CASE EmitFails(event) /\ err' = {"other"}
  <2>1. ~Told' /\ ~Open' /\ ~ShowsAnswer'
    BY <1>1, <1>4, HeardFailed
  <2>2. RecordTells' /\ audit' \in Seq(Records)
    BY <1>1, <1>4, EventTrail
  <2>3. TurnTells' /\ ErrorTells'
    BY <1>1, <1>2, <1>4, <2>1 DEF TurnTells, ErrorTells, Agent
  <2>4. HeardTells'
    BY <2>1 DEF HeardTells, Answered
  <2>5. QED BY <2>2, <2>3, <2>4 DEF OutcomeInv
<1>5. QED BY <1>3, <1>4 DEF Tell

-------------------------------------------------------------------------------
(* The end of the request *)

(***************************************************************************)
(* The code of the terminal record tells what the locals show, the error   *)
(* of the run and the context.                                             *)
(***************************************************************************)
LEMMA FailureCode ==
    ASSUME StreamInv, OutcomeInv, pc = "end"
    PROVE  /\ askFailureCode \in Codes
           /\ CodeTells(askFailureCode)
           /\ stream.active # NoTool => askFailureCode # ""
<1>1. /\ err = {} => stream.completed
      /\ "canceled" \in err => context # "live"
      /\ ShowsAnswer /\ err # {} => kind = "ask"
      /\ err = {} => stream.active = NoTool
  BY DEF StreamInv, PhaseTells, OutcomeInv, ErrorTells
<1>2. CASE stream.writeFailed
  BY <1>2 DEF askFailureCode, Codes, CodeTells, ShowsAnswer, Open
<1>3. CASE ~stream.writeFailed /\ (context = "expired" \/ "deadline" \in err)
  <2>1. askFailureCode = "request_timeout"
    BY <1>3 DEF askFailureCode
  <2>2. Open /\ err # {} /\ context = "live" => ErrorEvent.code = "request_timeout"
    BY <1>3 DEF ErrorEvent
  <2>3. ShowsAnswer => kind = "ask" \/ context # "live"
    BY <1>1, <1>3
  <2>4. QED BY <2>1, <2>2, <2>3 DEF Codes, CodeTells
<1>4. CASE /\ ~stream.writeFailed /\ ~(context = "expired" \/ "deadline" \in err)
           /\ context # "live" \/ "canceled" \in err
  <2>1. askFailureCode = "request_canceled" /\ context # "live"
    BY <1>1, <1>4 DEF askFailureCode
  <2>2. QED BY <2>1 DEF Codes, CodeTells
<1>5. CASE /\ ~stream.writeFailed /\ ~(context = "expired" \/ "deadline" \in err)
           /\ ~(context # "live" \/ "canceled" \in err) /\ err # {}
  <2>1. askFailureCode = IF stream.completed THEN "agent_cleanup_failed" ELSE "agent_failed"
    BY <1>5 DEF askFailureCode
  <2>2. ErrorEvent.code = "agent_failed"
    BY <1>5 DEF ErrorEvent
  <2>3. QED BY <1>1, <1>5, <2>1, <2>2 DEF Codes, CodeTells, ShowsAnswer, Open
<1>6. CASE /\ ~stream.writeFailed /\ ~(context = "expired" \/ "deadline" \in err)
           /\ ~(context # "live" \/ "canceled" \in err) /\ err = {}
  <2>1. askFailureCode = "" /\ ShowsAnswer /\ stream.active = NoTool
    BY <1>1, <1>6 DEF askFailureCode, ShowsAnswer
  <2>2. QED BY <1>6, <2>1 DEF Codes, CodeTells
<1>7. QED BY <1>2, <1>3, <1>4, <1>5, <1>6

LEMMA OutcomeEnd ==
    ASSUME StreamInv, OutcomeInv, End PROVE OutcomeInv'
<1>. DEFINE code == IF stream.active # NoTool /\ askFailureCode = "" THEN "agent_incomplete"
                    ELSE askFailureCode
            before == IF stream.active # NoTool THEN <<ToolFinished(stream.active)>> ELSE <<>>
<1>1. /\ pc = "end" /\ pc' = "reply"
      /\ UNCHANGED <<kind, turn, context, err, stream, client>>
      /\ audit' = audit \o before \o <<Terminal(code)>>
  BY DEF End
<1>2. code = askFailureCode /\ code \in Codes /\ CodeTells(code)
  BY <1>1, FailureCode
<1>3. Terminal(code) \in Terminals /\ Terminal(code).code = code
  <2>1. stream.toolCalls \in Nat /\ stream.tokens \in 0 .. MaxInt64
    BY DEF StreamInv, AskTypeOK, StreamLocals
  <2>2. QED BY <1>2, <2>1 DEF Terminal, Terminals
<1>4. audit' \in Seq(Records) /\ Last(audit') = Terminal(code)
  <2>1. before \in Seq(Records)
    <3>1. stream.active # NoTool => ToolFinished(stream.active) \in Records
      BY DEF StreamInv, AskTypeOK, StreamLocals, Records, Frames, Ongoing
    <3>2. QED BY <3>1
  <2>2. audit \in Seq(Records)
    BY DEF OutcomeInv
  <2>3. audit \o before \in Seq(Records)
    BY <2>1, <2>2
  <2>4. Terminal(code) \in Records
    BY <1>3 DEF Records
  <2>5. ASSUME NEW trail \in Seq(Records), NEW record \in Records
        PROVE  /\ trail \o <<record>> \in Seq(Records)
               /\ Last(trail \o <<record>>) = record
    BY DEF Last
  <2>6. QED BY <1>1, <2>3, <2>4, <2>5
<1>5. RecordTells'
  <2>1. CodeTells(Last(audit').code)
    BY <1>2, <1>3, <1>4
  <2>2. pc' = "reply" /\ UNCHANGED <<kind, context, err, stream>>
    BY <1>1
  <2>3. QED BY <2>1, <2>2 DEF RecordTells, CodeTells, ShowsAnswer, Open, ErrorEvent
<1>6. HeardTells'
  BY <1>1, SilentHeard DEF OutcomeInv
<1>7. TurnTells' /\ ErrorTells'
  BY <1>1 DEF OutcomeInv, TurnTells, ErrorTells, ShowsAnswer, Open, Agent
<1>8. QED BY <1>4, <1>5, <1>6, <1>7 DEF OutcomeInv

LEMMA OutcomeReply ==
    ASSUME StreamInv, OutcomeInv, Reply PROVE OutcomeInv'
<1>1. /\ pc = "reply" /\ pc' = "done"
      /\ UNCHANGED <<kind, turn, context, err, stream, audit>>
  BY DEF Reply
<1>2. audit' \in Seq(Records) /\ TurnTells' /\ ErrorTells'
  BY <1>1 DEF OutcomeInv, TurnTells, ErrorTells, ShowsAnswer, Open, Agent
<1>3. RecordTells'
  BY <1>1 DEF OutcomeInv, RecordTells, Ended, CodeTells, ShowsAnswer, Open, ErrorEvent
<1>4. HeardTells'
  <2>1. CASE ~OwesError
    BY <1>1, <2>1 DEF Reply, OutcomeInv, HeardTells, Answered, ShowsAnswer, Told,
                      TerminalEvents
  <2>2. CASE OwesError
    <3>1. Open /\ err # {} /\ context = "live" /\ ~ShowsAnswer
      BY <2>2 DEF OwesError, Open, ShowsAnswer
    <3>2. ~Told /\ client \in Seq(Frames)
      BY <1>1, <3>1, OpenUntold
    <3>0. ~ShowsAnswer' /\ Open' /\ err' # {} /\ context' = "live" /\ pc' = "done"
      BY <1>1, <3>1 DEF ShowsAnswer, Open
    <3>3. CASE client' = Append(client, ErrorEvent)
      <4>1. Last(client') = ErrorEvent /\ ErrorEvent.type = "error"
        BY <3>2, <3>3 DEF Last, ErrorEvent
      <4>2. ErrorEvent' = ErrorEvent
        BY <1>1 DEF ErrorEvent
      <4>3. ~Answered'
        BY <4>1 DEF Answered
      <4>4. QED BY <3>0, <4>1, <4>2, <4>3 DEF HeardTells
    <3>4. CASE WriteFails
      <4>1. ~Told'
        <5>1. CASE client' = client
          BY <3>2, <5>1 DEF Told, TerminalEvents
        <5>2. CASE client' = Append(client, Torn)
          <6>1. Last(client') = Torn
            BY <3>2, <5>2 DEF Last, Torn, Event
          <6>2. QED BY <6>1 DEF Told, TerminalEvents, Torn, Event
        <5>3. QED BY <3>4, <5>1, <5>2 DEF WriteFails
      <4>2. QED BY <3>0, <4>1 DEF HeardTells, Answered
    <3>5. QED BY <2>2, <3>3, <3>4 DEF Reply
  <2>3. QED BY <2>1, <2>2
<1>5. QED BY <1>2, <1>3, <1>4 DEF OutcomeInv

LEMMA OutcomeContextEnds ==
    ASSUME StreamInv, OutcomeInv, ContextEnds PROVE OutcomeInv'
<1>1. /\ pc # "done" /\ context = "live" /\ context' # "live"
      /\ UNCHANGED <<kind, pc, ending, err, turn, stream, audit, client>>
  BY DEF ContextEnds
<1>2. HeardTells'
  BY <1>1, SilentHeard DEF OutcomeInv
<1>3. TurnTells' /\ ErrorTells'
  BY <1>1 DEF OutcomeInv, TurnTells, ErrorTells, ShowsAnswer, Open, Agent
<1>4. RecordTells' /\ audit' \in Seq(Records)
  BY <1>1 DEF OutcomeInv, RecordTells, Ended, CodeTells, ShowsAnswer
<1>5. QED BY <1>2, <1>3, <1>4 DEF OutcomeInv

LEMMA OutcomeStutters ==
    ASSUME OutcomeInv, UNCHANGED vars PROVE OutcomeInv'
<1>1. UNCHANGED <<kind, pc, ending, err, turn, context, stream, audit, client>>
  BY DEF vars
<1>2. TurnTells' /\ ErrorTells' /\ audit' \in Seq(Records)
  BY <1>1 DEF OutcomeInv, TurnTells, ErrorTells, ShowsAnswer, Open, Agent
<1>3. HeardTells'
  BY <1>1 DEF OutcomeInv, HeardTells, Answered, ShowsAnswer, Open, Told, TerminalEvents,
              ErrorEvent
<1>4. RecordTells'
  BY <1>1 DEF OutcomeInv, RecordTells, Ended, CodeTells, ShowsAnswer, Open, ErrorEvent
<1>5. QED BY <1>2, <1>3, <1>4 DEF OutcomeInv

-------------------------------------------------------------------------------
(* The theorems *)

(***************************************************************************)
(* The database, the error, the client and the trail always tell what the  *)
(* locals of streamAgent show.                                             *)
(***************************************************************************)
THEOREM OutcomeInvariant == Spec => []OutcomeInv
<1>1. StreamInv /\ OutcomeInv /\ [Next]_vars => OutcomeInv'
  <2>1. SUFFICES ASSUME StreamInv, OutcomeInv, Next \/ UNCHANGED vars PROVE OutcomeInv'
    OBVIOUS
  <2>2. QED
    BY <2>1, OutcomeStart, OutcomeStreamingUnavailable, OutcomeModelEmits,
       OutcomeModelCompletes, OutcomeCalls, OutcomeStartCall, OutcomeFinishCall,
       OutcomeCloseSession, OutcomeFinalizeFailed, OutcomeFinalize, OutcomeTell,
       OutcomeEnd, OutcomeReply, OutcomeContextEnds, OutcomeStutters
       DEF Next
<1>2. QED BY <1>1, OutcomeInit, StreamInvariant, PTL DEF Spec

(***************************************************************************)
(* The audit trail, the client and the database agree on the end of a      *)
(* request, whichever write, call, session, transaction or context failed  *)
(* in it, and no request ends as incomplete.                               *)
(***************************************************************************)
THEOREM AskAuditTellsOutcome == Spec => []AuditTellsOutcome
<1>1. StreamInv /\ OutcomeInv => AuditTellsOutcome
  <2>1. SUFFICES ASSUME StreamInv, OutcomeInv, Ended PROVE AuditTellsOutcome
    BY DEF AuditTellsOutcome
  <2>2. CodeTells(Last(audit).code) /\ HeardTells
    BY <2>1 DEF OutcomeInv, RecordTells
  <2>3. CASE Answered
    <3>1. ShowsAnswer /\ Told /\ Last(client).type \in {"completed", "confirmation_required"}
      BY <2>2, <2>3 DEF HeardTells, Answered
    <3>2. IF Last(client).type = "completed" THEN turn \in {"none", "completed"}
          ELSE turn = "awaiting_confirmation"
      BY <2>2, <2>3 DEF HeardTells
    <3>3. QED BY <2>2, <3>1, <3>2 DEF CodeTells, AuditTellsOutcome, Told
  <2>4. CASE Told /\ ~Answered
    <3>1. /\ pc = "done" /\ context = "live" /\ err # {} /\ Open
          /\ Last(client) = ErrorEvent
      BY <2>2, <2>4 DEF HeardTells
    <3>2. turn \notin {"completed", "awaiting_confirmation"}
      BY <2>1, <3>1 DEF OutcomeInv, TurnTells
    <3>3. ~ShowsAnswer /\ ErrorEvent.type = "error"
      BY <3>1 DEF ShowsAnswer, Open, ErrorEvent
    <3>4. QED BY <2>2, <2>4, <3>1, <3>2, <3>3 DEF CodeTells, AuditTellsOutcome, Told
  <2>5. CASE ~Told
    <3>1. ~ShowsAnswer
      BY <2>2, <2>5 DEF HeardTells, Answered
    <3>2. QED BY <2>2, <2>5, <3>1 DEF CodeTells, AuditTellsOutcome, Told
  <2>6. QED BY <2>3, <2>4, <2>5
<1>2. QED BY <1>1, StreamInvariant, OutcomeInvariant, PTL

-------------------------------------------------------------------------------
(* Calls in the trail *)

\* The tool whose call started last and is not finished, or NoTool.
Unfinished(trail, tool) ==
    IF tool = NoTool
    THEN /\ \A k \in Starts(trail) : \E f \in Finishes(trail) : k < f
         /\ Cardinality(Finishes(trail)) = Cardinality(Starts(trail))
    ELSE /\ \E k \in Starts(trail) :
              /\ trail[k].tool = tool
              /\ \A i \in Starts(trail) \cup Finishes(trail) : i <= k
         /\ Cardinality(Starts(trail)) = Cardinality(Finishes(trail)) + 1

(***************************************************************************)
(* A trail has finitely many starts and finishes.                          *)
(***************************************************************************)
LEMMA TrailCounts ==
    ASSUME NEW trail \in Seq(Records)
    PROVE  /\ Starts(trail) \subseteq 1 .. Len(trail) /\ Len(trail) \in Nat
           /\ Finishes(trail) \subseteq 1 .. Len(trail)
           /\ IsFiniteSet(Starts(trail)) /\ IsFiniteSet(Finishes(trail))
           /\ Cardinality(Starts(trail)) \in Nat /\ Cardinality(Finishes(trail)) \in Nat
<1>1. /\ Starts(trail) \subseteq 1 .. Len(trail) /\ Len(trail) \in Nat
      /\ Finishes(trail) \subseteq 1 .. Len(trail)
  BY DEF Starts, Finishes
<1>2. IsFiniteSet(1 .. Len(trail))
  BY <1>1, FS_Interval
<1>3. IsFiniteSet(Starts(trail)) /\ IsFiniteSet(Finishes(trail))
  BY <1>1, <1>2, FS_Subset
<1>4. QED BY <1>1, <1>3, FS_CardinalityType

(***************************************************************************)
(* What one more record adds to the starts and the finishes.               *)
(***************************************************************************)
LEMMA TrailGrows ==
    ASSUME NEW trail \in Seq(Records), NEW record \in Records
    PROVE  LET more == Append(trail, record)
               new == Len(trail) + 1
           IN  /\ \A k \in 1 .. Len(trail) : more[k] = trail[k]
               /\ more[new] = record
               /\ Starts(more) = Starts(trail) \cup
                    IF record.type = "tool_started" THEN {new} ELSE {}
               /\ Finishes(more) = Finishes(trail) \cup
                    IF record.type = "tool_finished" THEN {new} ELSE {}
<1>. DEFINE more == Append(trail, record)
            size == Len(trail)
<1>1. /\ size \in Nat /\ DOMAIN more = 1 .. size + 1 /\ DOMAIN trail = 1 .. size
      /\ more[size + 1] = record
      /\ \A k \in 1 .. size : more[k] = trail[k]
  OBVIOUS
<1>. HIDE DEF more, size
<1>2. DOMAIN more = (1 .. size) \cup {size + 1}
  BY <1>1
<1>3. \A k \in DOMAIN more :
        /\ k \in DOMAIN trail => more[k] = trail[k]
        /\ k \notin DOMAIN trail => k = size + 1 /\ more[k] = record
  BY <1>1, <1>2
<1>4. size + 1 \in DOMAIN more /\ DOMAIN trail \subseteq DOMAIN more
      /\ size + 1 \notin DOMAIN trail
  BY <1>1
<1>5. Starts(more) = Starts(trail) \cup IF record.type = "tool_started" THEN {size + 1} ELSE {}
  BY <1>3, <1>4, <1>1 DEF Starts
<1>6. Finishes(more) = Finishes(trail) \cup IF record.type = "tool_finished" THEN {size + 1} ELSE {}
  BY <1>3, <1>4, <1>1 DEF Finishes
<1>7. QED BY <1>1, <1>5, <1>6 DEF more, size

(***************************************************************************)
(* A record of no call changes nothing of this.                            *)
(***************************************************************************)
LEMMA OtherRecorded ==
    ASSUME NEW trail \in Seq(Records), NEW record \in Records,
           record.type \notin {"tool_started", "tool_finished"}
    PROVE  LET more == Append(trail, record)
           IN  /\ Starts(more) = Starts(trail) /\ Finishes(more) = Finishes(trail)
               /\ CallByCall(trail) => CallByCall(more)
               /\ \A tools : StartedInOrder(tools, trail) => StartedInOrder(tools, more)
               /\ \A tool : Unfinished(trail, tool) => Unfinished(more, tool)
<1>. DEFINE more == Append(trail, record)
<1>1. Starts(more) = Starts(trail) /\ Finishes(more) = Finishes(trail)
  <2>1. Starts(more) = Starts(trail) \cup {}
    BY TrailGrows
  <2>2. Finishes(more) = Finishes(trail) \cup {}
    BY TrailGrows
  <2>3. QED BY <2>1, <2>2
<1>2. \A k \in Starts(trail) \cup Finishes(trail) : more[k] = trail[k]
  BY TrailGrows, TrailCounts
<1>. HIDE DEF more
<1>3. CallByCall(trail) => CallByCall(more)
  BY <1>1, <1>2 DEF CallByCall
<1>4. \A tools : StartedInOrder(tools, trail) => StartedInOrder(tools, more)
  BY <1>1, <1>2 DEF StartedInOrder
<1>5. \A tool : Unfinished(trail, tool) => Unfinished(more, tool)
  BY <1>1, <1>2 DEF Unfinished
<1>6. QED BY <1>1, <1>3, <1>4, <1>5 DEF more

(***************************************************************************)
(* A start while no call is unfinished.                                    *)
(***************************************************************************)
LEMMA StartRecorded ==
    ASSUME NEW trail \in Seq(Records), NEW tool \in Tools, ToolStarted(tool) \in Records,
           CallByCall(trail), Unfinished(trail, NoTool)
    PROVE  LET more == Append(trail, ToolStarted(tool))
           IN  /\ CallByCall(more)
               /\ Unfinished(more, tool)
               /\ Cardinality(Starts(more)) = Cardinality(Starts(trail)) + 1
               /\ \A tools : StartedInOrder(tools, trail) => StartedInOrder(tools, more)
<1>. DEFINE more == Append(trail, ToolStarted(tool))
            new == Len(trail) + 1
<1>0. ToolStarted(tool).type = "tool_started" /\ ToolStarted(tool).tool = tool
  BY DEF ToolStarted
<1>1. /\ Starts(more) = Starts(trail) \cup {new} /\ Finishes(more) = Finishes(trail)
      /\ more[new] = ToolStarted(tool)
  <2>1. Starts(more) = Starts(trail) \cup {new}
    BY <1>0, TrailGrows
  <2>2. Finishes(more) = Finishes(trail) \cup {}
    BY <1>0, TrailGrows
  <2>3. more[new] = ToolStarted(tool)
    BY TrailGrows
  <2>4. QED BY <2>1, <2>2, <2>3
<1>2. \A k \in Starts(trail) \cup Finishes(trail) :
        more[k] = trail[k] /\ k < new /\ k \in Nat /\ new \in Nat
  BY TrailGrows, TrailCounts
<1>3. /\ IsFiniteSet(Starts(trail)) /\ new \notin Starts(trail)
      /\ new \in Nat /\ tool # NoTool
      /\ Cardinality(Starts(trail)) \in Nat
  BY TrailCounts, AskConstants DEF AskConstants
<1>. HIDE DEF more, new
<1>4. Cardinality(Starts(more)) = Cardinality(Starts(trail)) + 1
  BY <1>1, <1>3, FS_AddElement
<1>5. /\ \A k \in Starts(trail) : \E f \in Finishes(trail) : k < f
      /\ Cardinality(Finishes(trail)) = Cardinality(Starts(trail))
  BY DEF Unfinished
<1>6. CallByCall(more)
  <2>1. ASSUME NEW j \in Starts(more), NEW k \in Starts(more), j < k
        PROVE  \E f \in Finishes(more) : j < f /\ f < k
    <3>1. CASE k \in Starts(trail)
      <4>1. j \in Starts(trail)
        BY <1>1, <1>2, <2>1, <3>1
      <4>2. QED BY <1>1, <2>1, <3>1, <4>1 DEF CallByCall
    <3>2. CASE k = new
      <4>1. j \in Starts(trail)
        BY <1>1, <1>3, <2>1, <3>2
      <4>2. PICK f \in Finishes(trail) : j < f
        BY <1>5, <4>1
      <4>3. f < k
        BY <1>2, <3>2
      <4>4. QED BY <1>1, <4>2, <4>3
    <3>3. QED BY <1>1, <3>1, <3>2
  <2>2. ASSUME NEW f \in Finishes(more)
        PROVE  \E k \in Starts(more) :
                 /\ k < f /\ more[f] = ToolFinished(more[k].tool)
                 /\ \A i \in Starts(more) \cup Finishes(more) : i <= k \/ f <= i
    <3>1. PICK k \in Starts(trail) :
            /\ k < f /\ trail[f] = ToolFinished(trail[k].tool)
            /\ \A i \in Starts(trail) \cup Finishes(trail) : i <= k \/ f <= i
      BY <1>1 DEF CallByCall
    <3>2. more[f] = trail[f] /\ more[k] = trail[k] /\ f <= new
      BY <1>1, <1>2
    <3>3. QED BY <1>1, <3>1, <3>2
  <2>3. QED BY <2>1, <2>2 DEF CallByCall
<1>7. Unfinished(more, tool)
  <2>1. new \in Starts(more) /\ more[new].tool = tool
    BY <1>0, <1>1
  <2>2. \A i \in Starts(more) \cup Finishes(more) : i <= new
    BY <1>1, <1>2, <1>3
  <2>3. Cardinality(Starts(more)) = Cardinality(Finishes(more)) + 1
    BY <1>1, <1>4, <1>5
  <2>4. QED BY <1>3, <2>1, <2>2, <2>3 DEF Unfinished
<1>8. ASSUME NEW tools, StartedInOrder(tools, trail)
      PROVE  StartedInOrder(tools, more)
  <2>1. SUFFICES ASSUME NEW n \in DOMAIN tools
                 PROVE  \E k \in Starts(more) :
                          /\ Cardinality({j \in Starts(more) : j <= k}) = n
                          /\ more[k].tool = tools[n]
    BY DEF StartedInOrder
  <2>2. PICK k \in Starts(trail) :
          /\ Cardinality({j \in Starts(trail) : j <= k}) = n
          /\ trail[k].tool = tools[n]
    BY <1>8 DEF StartedInOrder
  <2>3. ~(new <= k)
    BY <1>2
  <2>4. {j \in Starts(more) : j <= k} = {j \in Starts(trail) : j <= k}
    BY <1>1, <2>3
  <2>5. QED BY <1>1, <1>2, <2>2, <2>4
<1>9. QED BY <1>4, <1>6, <1>7, <1>8 DEF more

(***************************************************************************)
(* The finish of the call that is unfinished.                              *)
(***************************************************************************)
LEMMA FinishRecorded ==
    ASSUME NEW trail \in Seq(Records), NEW tool \in Tools, ToolFinished(tool) \in Records,
           CallByCall(trail), Unfinished(trail, tool)
    PROVE  LET more == Append(trail, ToolFinished(tool))
           IN  /\ CallByCall(more)
               /\ Unfinished(more, NoTool)
               /\ Starts(more) = Starts(trail)
               /\ \A tools : StartedInOrder(tools, trail) => StartedInOrder(tools, more)
<1>. DEFINE more == Append(trail, ToolFinished(tool))
            new == Len(trail) + 1
<1>0. ToolFinished(tool).type = "tool_finished"
  BY DEF ToolFinished
<1>1. /\ Starts(more) = Starts(trail) /\ Finishes(more) = Finishes(trail) \cup {new}
      /\ more[new] = ToolFinished(tool)
  <2>1. Starts(more) = Starts(trail) \cup {}
    BY <1>0, TrailGrows
  <2>2. Finishes(more) = Finishes(trail) \cup {new}
    BY <1>0, TrailGrows
  <2>3. more[new] = ToolFinished(tool)
    BY TrailGrows
  <2>4. QED BY <2>1, <2>2, <2>3
<1>2. \A k \in Starts(trail) \cup Finishes(trail) :
        more[k] = trail[k] /\ k < new /\ k \in Nat /\ new \in Nat
  BY TrailGrows, TrailCounts
<1>3. /\ IsFiniteSet(Finishes(trail)) /\ new \notin Finishes(trail)
      /\ new \in Nat /\ tool # NoTool
      /\ Cardinality(Starts(trail)) \in Nat /\ Cardinality(Finishes(trail)) \in Nat
  BY TrailCounts, AskConstants DEF AskConstants
<1>. HIDE DEF more, new
<1>4. Cardinality(Finishes(more)) = Cardinality(Finishes(trail)) + 1
  BY <1>1, <1>3, FS_AddElement
<1>5. PICK last \in Starts(trail) :
        /\ trail[last].tool = tool
        /\ \A i \in Starts(trail) \cup Finishes(trail) : i <= last
  BY <1>3 DEF Unfinished
<1>6. Cardinality(Starts(trail)) = Cardinality(Finishes(trail)) + 1
  BY <1>3 DEF Unfinished
<1>7. CallByCall(more)
  <2>1. ASSUME NEW j \in Starts(more), NEW k \in Starts(more), j < k
        PROVE  \E f \in Finishes(more) : j < f /\ f < k
    BY <1>1, <2>1 DEF CallByCall
  <2>2. ASSUME NEW f \in Finishes(more)
        PROVE  \E k \in Starts(more) :
                 /\ k < f /\ more[f] = ToolFinished(more[k].tool)
                 /\ \A i \in Starts(more) \cup Finishes(more) : i <= k \/ f <= i
    <3>1. CASE f = new
      <4>1. more[f] = ToolFinished(more[last].tool) /\ last < f
        BY <1>1, <1>2, <1>5, <3>1
      <4>2. \A i \in Starts(more) \cup Finishes(more) : i <= last \/ f <= i
        BY <1>1, <1>3, <1>5, <3>1
      <4>3. QED BY <1>1, <4>1, <4>2
    <3>2. CASE f \in Finishes(trail)
      <4>1. PICK k \in Starts(trail) :
              /\ k < f /\ trail[f] = ToolFinished(trail[k].tool)
              /\ \A i \in Starts(trail) \cup Finishes(trail) : i <= k \/ f <= i
        BY <3>2 DEF CallByCall
      <4>2. more[f] = trail[f] /\ more[k] = trail[k] /\ f <= new
        BY <1>2, <3>2
      <4>3. QED BY <1>1, <4>1, <4>2
    <3>3. QED BY <1>1, <3>1, <3>2
  <2>3. QED BY <2>1, <2>2 DEF CallByCall
<1>8. Unfinished(more, NoTool)
  <2>1. \A k \in Starts(more) : \E f \in Finishes(more) : k < f
    BY <1>1, <1>2
  <2>2. Cardinality(Finishes(more)) = Cardinality(Starts(more))
    BY <1>1, <1>4, <1>6
  <2>3. QED BY <2>1, <2>2 DEF Unfinished
<1>9. ASSUME NEW tools, StartedInOrder(tools, trail)
      PROVE  StartedInOrder(tools, more)
  BY <1>1, <1>2, <1>9 DEF StartedInOrder
<1>10. QED BY <1>1, <1>7, <1>8, <1>9 DEF more

(***************************************************************************)
(* The call that started last runs.                                        *)
(***************************************************************************)
LEMMA LastStartRuns ==
    ASSUME NEW trail \in Seq(Records), NEW tool \in Tools, NEW tools \in Seq(Tools),
           Unfinished(trail, tool), StartedInOrder(tools, trail),
           Cardinality(Starts(trail)) = Len(tools) + 1
    PROVE  StartedInOrder(Append(tools, tool), trail)
<1>. DEFINE more == Append(tools, tool)
<1>1. /\ Len(tools) \in Nat /\ DOMAIN more = 1 .. Len(tools) + 1
      /\ more[Len(tools) + 1] = tool
      /\ \A n \in 1 .. Len(tools) : more[n] = tools[n] /\ n \in DOMAIN tools
  OBVIOUS
<1>2. PICK last \in Starts(trail) :
        /\ trail[last].tool = tool
        /\ \A i \in Starts(trail) : i <= last
  BY AskConstants DEF AskConstants, Unfinished
<1>3. {j \in Starts(trail) : j <= last} = Starts(trail)
  BY <1>2
<1>. HIDE DEF more
<1>4. SUFFICES ASSUME NEW n \in 1 .. Len(tools) + 1
               PROVE  \E k \in Starts(trail) :
                        /\ Cardinality({j \in Starts(trail) : j <= k}) = n
                        /\ trail[k].tool = more[n]
  BY <1>1 DEF more, StartedInOrder
<1>5. CASE n = Len(tools) + 1
  BY <1>1, <1>2, <1>3, <1>5
<1>6. CASE n # Len(tools) + 1
  <2>1. n \in 1 .. Len(tools)
    BY <1>1, <1>6
  <2>2. QED BY <1>1, <2>1 DEF StartedInOrder
<1>7. QED BY <1>5, <1>6

-------------------------------------------------------------------------------
(* Counters in the trail *)

\* The recursive function Total is defined by, without its choice.
SumsUp(sum, trail) ==
    sum = [n \in 0 .. Len(trail) |->
             IF n = 0 THEN 0 ELSE sum[n - 1] + Used(trail[n])]

\* There is such a function, and whichever is chosen ends in this total.
TotalIs(trail, total) ==
    /\ \E sum : SumsUp(sum, trail)
    /\ \A sum : SumsUp(sum, trail) => sum[Len(trail)] = total

LEMMA TotalChosen ==
    ASSUME NEW trail, NEW total, TotalIs(trail, total)
    PROVE  Total(trail) = total
<1>. DEFINE sum == CHOOSE f : SumsUp(f, trail)
<1>1. SumsUp(sum, trail)
  BY DEF TotalIs
<1>2. Total(trail) = sum[Len(trail)]
  BY DEF Total, SumsUp
<1>3. QED BY <1>1, <1>2 DEF TotalIs

LEMMA NothingUsed == TotalIs(<<>>, 0)
<1>1. SumsUp([n \in 0 .. 0 |-> 0], <<>>)
  BY DEF SumsUp
<1>2. ASSUME NEW sum, SumsUp(sum, <<>>) PROVE sum[Len(<<>>)] = 0
  BY <1>2 DEF SumsUp
<1>3. QED BY <1>1, <1>2 DEF TotalIs

(***************************************************************************)
(* One more record adds its counter to the total.                          *)
(***************************************************************************)
LEMMA TotalGrows ==
    ASSUME NEW trail \in Seq(Records), NEW record \in Records, NEW total \in Nat,
           TotalIs(trail, total), Used(record) \in Nat
    PROVE  TotalIs(Append(trail, record), total + Used(record))
<1>. DEFINE more == Append(trail, record)
            size == Len(trail)
<1>1. /\ size \in Nat /\ Len(more) = size + 1 /\ more[size + 1] = record
      /\ \A n \in 1 .. size : more[n] = trail[n]
  OBVIOUS
<1>. HIDE DEF more, size
<1>2. ASSUME NEW sum, SumsUp(sum, more)
      PROVE  sum[size + 1] = total + Used(record)
  <2>. DEFINE part == [n \in 0 .. size |-> sum[n]]
  <2>1. \A n \in 0 .. size + 1 : sum[n] = IF n = 0 THEN 0 ELSE sum[n - 1] + Used(more[n])
    BY <1>1, <1>2 DEF SumsUp
  <2>2. part = [n \in 0 .. size |-> IF n = 0 THEN 0 ELSE part[n - 1] + Used(trail[n])]
    <3>1. SUFFICES ASSUME NEW n \in 0 .. size
                   PROVE  part[n] = IF n = 0 THEN 0 ELSE part[n - 1] + Used(trail[n])
      OBVIOUS
    <3>2. CASE n = 0
      BY <1>1, <2>1, <3>2
    <3>3. CASE n # 0
      <4>1. n \in 0 .. size + 1 /\ n \in 1 .. size /\ n - 1 \in 0 .. size
        BY <1>1, <3>3
      <4>2. QED BY <1>1, <2>1, <3>3, <4>1
    <3>4. QED BY <3>2, <3>3
  <2>3. part[size] = total
    BY <2>2 DEF TotalIs, SumsUp, size
  <2>4. sum[size] = total
    BY <1>1, <2>3
  <2>5. QED BY <1>1, <2>1, <2>4
<1>3. \E sum : SumsUp(sum, more)
  <2>1. PICK part : SumsUp(part, trail)
    BY DEF TotalIs
  <2>. DEFINE sum == [n \in 0 .. size + 1 |->
                        IF n = size + 1 THEN total + Used(record) ELSE part[n]]
  <2>2. part[size] = total
    BY <2>1 DEF TotalIs, size
  <2>3. \A n \in 0 .. size : part[n] = IF n = 0 THEN 0 ELSE part[n - 1] + Used(trail[n])
    BY <2>1 DEF SumsUp, size
  <2>4. sum = [n \in 0 .. size + 1 |-> IF n = 0 THEN 0 ELSE sum[n - 1] + Used(more[n])]
    <3>1. SUFFICES ASSUME NEW n \in 0 .. size + 1
                   PROVE  sum[n] = IF n = 0 THEN 0 ELSE sum[n - 1] + Used(more[n])
      OBVIOUS
    <3>2. CASE n = size + 1
      <4>1. n # 0 /\ n - 1 = size /\ size \in 0 .. size + 1 /\ size # size + 1
        BY <1>1, <3>2
      <4>2. sum[n] = total + Used(record) /\ sum[n - 1] = part[size]
        BY <3>2, <4>1
      <4>3. QED BY <1>1, <2>2, <3>2, <4>1, <4>2
    <3>3. CASE n # size + 1
      <4>1. n \in 0 .. size
        BY <1>1, <3>3
      <4>2. n # 0 => n - 1 \in 0 .. size + 1 /\ n - 1 # size + 1 /\ n \in 1 .. size
        BY <1>1, <4>1
      <4>3. sum[n] = part[n] /\ (n # 0 => sum[n - 1] = part[n - 1] /\ more[n] = trail[n])
        BY <1>1, <3>3, <4>1, <4>2
      <4>4. QED BY <2>3, <4>1, <4>3
    <3>4. QED BY <3>2, <3>3
  <2>5. QED BY <1>1, <2>4 DEF SumsUp
<1>4. QED BY <1>1, <1>2, <1>3 DEF TotalIs, more

-------------------------------------------------------------------------------
(* What the locals and the trail have in common *)

Capped(total) == IF total > MaxInt64 THEN MaxInt64 ELSE total

\* The counters of streamAgent are those of its trail.
LocalsMatch(s, tools, trail) ==
    /\ CallByCall(trail)
    /\ StartedInOrder(tools, trail)
    /\ Cardinality(Starts(trail)) = s.toolCalls
    /\ \E total \in Nat : TotalIs(trail, total) /\ s.tokens = Capped(total)

AuditInv ==
    /\ LocalsMatch(stream, ran, audit)
    /\ pc \notin {"reply", "done"} => Unfinished(audit, stream.active)
    /\ pc = "start" => audit = <<>>
    /\ pc \in {"calling", "called"} => stream.active = Head(calls)
    /\ Len(ran) = IF pc = "calling" THEN stream.toolCalls - 1 ELSE stream.toolCalls
    /\ Ended =>
         /\ Last(audit).toolCalls = stream.toolCalls
         /\ Last(audit).tokens = stream.tokens
         /\ Cardinality(Finishes(audit)) = stream.toolCalls

(***************************************************************************)
(* recordEvent moves the locals as the trail moves.                        *)
(***************************************************************************)
LEMMA LocalsAfter ==
    ASSUME NEW s \in StreamLocals, NEW event \in Ongoing \cup Answers
    PROVE  LET t == Recorded(s, event)
           IN  /\ t.toolCalls = IF event.type = "tool_started" THEN s.toolCalls + 1
                                ELSE s.toolCalls
               /\ t.active = IF event.type = "tool_started" THEN event.tool
                             ELSE IF event.type = "tool_finished" THEN NoTool
                             ELSE s.active
               /\ t.tokens = IF event.type = "usage"
                             THEN saturatingAdd(s.tokens, event.tokens) ELSE s.tokens
<1>1. event.type \in {"text_delta", "usage", "tool_started", "tool_finished",
                      "completed", "confirmation_required"}
  BY OngoingFrames, AnswerFrames
<1>2. QED BY <1>1 DEF Recorded, StreamLocals

(***************************************************************************)
(* An event is a record, and one of three kinds.                           *)
(***************************************************************************)
LEMMA EventRecords ==
    ASSUME NEW event \in Ongoing \cup Answers
    PROVE  /\ event \in Records
           /\ Used(event) \in 0 .. MaxInt64
           /\ Trail(event) \in {<<>>, <<event>>}
           /\ Trail(event) = <<>> => event.type \in {"text_delta", "completed"}
           /\ event.type = "tool_started" =>
                event.tool \in Tools /\ event = ToolStarted(event.tool)
           /\ event.type = "tool_finished" =>
                event.tool \in Tools /\ event = ToolFinished(event.tool)
<1>1. event \in Records
  BY OngoingFrames, AnswerFrames DEF Records
<1>2. event.type = "usage" => event.tokens \in 0 .. MaxInt64
  BY OngoingFrames, AnswerFrames
<1>3. Used(event) \in 0 .. MaxInt64
  BY <1>2, AskConstants DEF AskConstants, Used
<1>4. /\ event.type = "tool_started" =>
           event.tool \in Tools /\ event = ToolStarted(event.tool)
      /\ event.type = "tool_finished" =>
           event.tool \in Tools /\ event = ToolFinished(event.tool)
  <2>1. CASE event \in Answers
    BY <2>1, AnswerFrames
  <2>2. CASE event \in ModelEvents
    BY <2>2 DEF ModelEvents, Event, Usage
  <2>3. CASE \E t \in Tools : event = ToolStarted(t)
    BY <2>3 DEF ToolStarted
  <2>4. CASE \E t \in Tools : event = ToolFinished(t)
    BY <2>4 DEF ToolFinished
  <2>5. QED BY <2>1, <2>2, <2>3, <2>4 DEF Ongoing
<1>5. /\ Trail(event) \in {<<>>, <<event>>}
      /\ Trail(event) = <<>> => event.type \in {"text_delta", "completed"}
  BY DEF Trail
<1>6. QED BY <1>1, <1>3, <1>4, <1>5

(***************************************************************************)
(* The capped sum of two counters is what saturatingAdd computes.          *)
(***************************************************************************)
LEMMA CappedAdds ==
    ASSUME NEW total \in Nat, NEW n \in 0 .. MaxInt64
    PROVE  saturatingAdd(Capped(total), n) = Capped(total + n)
BY AskConstants DEF AskConstants, saturatingAdd, Capped

LEMMA NothingAdded ==
    ASSUME NEW total \in Nat PROVE total + 0 = total
OBVIOUS

(***************************************************************************)
(* An event that is recorded, a finish only of the unfinished call and a   *)
(* start only when there is none, keeps the locals and the trail together. *)
(***************************************************************************)
LEMMA EventMatches ==
    ASSUME NEW s \in StreamLocals, NEW tools, NEW trail \in Seq(Records),
           LocalsMatch(s, tools, trail), Unfinished(trail, s.active),
           NEW event \in Ongoing \cup Answers,
           event.type = "tool_started" => s.active = NoTool,
           event.type = "tool_finished" => s.active = event.tool
    PROVE  LET t == Recorded(s, event)
               more == trail \o Trail(event)
           IN  LocalsMatch(t, tools, more) /\ Unfinished(more, t.active)
<1>. DEFINE t == Recorded(s, event)
            more == trail \o Trail(event)
<1>1. /\ event \in Records /\ Used(event) \in 0 .. MaxInt64
      /\ Trail(event) \in {<<>>, <<event>>}
      /\ Trail(event) = <<>> => event.type \in {"text_delta", "completed"}
  BY EventRecords
<1>2. /\ t.toolCalls = IF event.type = "tool_started" THEN s.toolCalls + 1 ELSE s.toolCalls
      /\ t.active = IF event.type = "tool_started" THEN event.tool
                    ELSE IF event.type = "tool_finished" THEN NoTool
                    ELSE s.active
      /\ t.tokens = IF event.type = "usage"
                    THEN saturatingAdd(s.tokens, event.tokens) ELSE s.tokens
  BY LocalsAfter
<1>3. PICK total \in Nat : TotalIs(trail, total) /\ s.tokens = Capped(total)
  BY DEF LocalsMatch
<1>4. t.tokens = Capped(total + Used(event))
  <2>1. CASE event.type = "usage"
    BY <1>1, <1>2, <1>3, <2>1, CappedAdds DEF Used
  <2>2. CASE event.type # "usage"
    BY <1>2, <1>3, <2>2, NothingAdded DEF Used
  <2>3. QED BY <2>1, <2>2
<1>. HIDE DEF t
<1>5. CASE Trail(event) = <<>>
  <2>1. more = trail /\ t.toolCalls = s.toolCalls /\ t.active = s.active /\ t.tokens = s.tokens
    BY <1>1, <1>2, <1>5
  <2>2. QED BY <2>1 DEF LocalsMatch, t
<1>6. CASE Trail(event) = <<event>>
  <2>1. more = Append(trail, event)
    BY <1>6
  <2>. HIDE DEF more
  <2>2. total + Used(event) \in Nat /\ TotalIs(more, total + Used(event))
    <3>1. Used(event) \in Nat
      BY <1>1, AskConstants DEF AskConstants
    <3>2. QED BY <1>1, <1>3, <2>1, <3>1, TotalGrows
  <2>3. /\ CallByCall(more) /\ StartedInOrder(tools, more)
        /\ Cardinality(Starts(more)) = t.toolCalls /\ Unfinished(more, t.active)
    <3>1. CallByCall(trail) /\ StartedInOrder(tools, trail)
          /\ Cardinality(Starts(trail)) = s.toolCalls
      BY DEF LocalsMatch
    <3>2. CASE event.type = "tool_started"
      <4>1. /\ event.tool \in Tools /\ more = Append(trail, ToolStarted(event.tool))
            /\ ToolStarted(event.tool) \in Records
        BY <1>1, <2>1, <3>2, EventRecords
      <4>2. Unfinished(trail, NoTool)
        BY <3>2
      <4>3. QED BY <1>2, <3>1, <3>2, <4>1, <4>2, StartRecorded
    <3>3. CASE event.type = "tool_finished"
      <4>1. /\ event.tool \in Tools /\ more = Append(trail, ToolFinished(event.tool))
            /\ ToolFinished(event.tool) \in Records
        BY <1>1, <2>1, <3>3, EventRecords
      <4>2. Unfinished(trail, event.tool)
        BY <3>3
      <4>3. /\ t.toolCalls = s.toolCalls /\ t.active = NoTool
        BY <1>2, <3>3
      <4>4. QED BY <3>1, <4>1, <4>2, <4>3, FinishRecorded
    <3>4. CASE event.type \notin {"tool_started", "tool_finished"}
      BY <1>1, <1>2, <2>1, <3>1, <3>4, OtherRecorded
    <3>5. QED BY <3>2, <3>3, <3>4
  <2>4. LocalsMatch(t, tools, more)
    BY <1>4, <2>2, <2>3 DEF LocalsMatch
  <2>5. QED BY <2>3, <2>4 DEF t, more
<1>7. QED BY <1>1, <1>5, <1>6

(***************************************************************************)
(* A record of no call and no counter.                                     *)
(***************************************************************************)
LEMMA PlainMatches ==
    ASSUME NEW s, NEW tools, NEW trail \in Seq(Records), LocalsMatch(s, tools, trail),
           NEW record \in Records,
           record.type \notin {"tool_started", "tool_finished", "usage"}
    PROVE  LET more == Append(trail, record)
           IN  /\ LocalsMatch(s, tools, more)
               /\ \A tool : Unfinished(trail, tool) => Unfinished(more, tool)
               /\ Finishes(more) = Finishes(trail)
<1>. DEFINE more == Append(trail, record)
<1>1. PICK total \in Nat : TotalIs(trail, total) /\ s.tokens = Capped(total)
  BY DEF LocalsMatch
<1>2. Used(record) = 0
  BY DEF Used
<1>3. TotalIs(more, total)
  <2>1. TotalIs(more, total + 0)
    BY <1>1, <1>2, TotalGrows
  <2>2. QED BY <2>1, NothingAdded
<1>4. /\ Starts(more) = Starts(trail) /\ Finishes(more) = Finishes(trail)
      /\ CallByCall(trail) => CallByCall(more)
      /\ \A tool : Unfinished(trail, tool) => Unfinished(more, tool)
  BY OtherRecorded
<1>5. StartedInOrder(tools, trail) => StartedInOrder(tools, more)
  BY OtherRecorded
<1>. HIDE DEF more
<1>6. LocalsMatch(s, tools, more)
  BY <1>1, <1>3, <1>4, <1>5 DEF LocalsMatch
<1>7. QED BY <1>4, <1>6 DEF more

(***************************************************************************)
(* What the callback does to the trail and to the locals that count: it    *)
(* records the event, or, when tool_started could not be written, nothing. *)
(***************************************************************************)
LEMMA CallbackRecords ==
    ASSUME StreamInv, NEW event \in Ongoing \cup Answers, Emit(event) \/ EmitFails(event)
    PROVE  /\ Emit(event) \/ event.type # "tool_started" =>
              /\ audit' = audit \o Trail(event)
              /\ stream'.toolCalls = Recorded(stream, event).toolCalls
              /\ stream'.active = Recorded(stream, event).active
              /\ stream'.tokens = Recorded(stream, event).tokens
           /\ EmitFails(event) /\ event.type = "tool_started" =>
              /\ audit' = audit
              /\ stream'.toolCalls = stream.toolCalls
              /\ stream'.active = stream.active
              /\ stream'.tokens = stream.tokens
<1>1. stream \in StreamLocals /\ Recorded(stream, event) \in StreamLocals
  BY RecordedLocals DEF StreamInv, AskTypeOK
<1>2. ASSUME NEW s \in StreamLocals, NEW n
      PROVE  LET t == [s EXCEPT !.bytes = n]
             IN  t.toolCalls = s.toolCalls /\ t.active = s.active /\ t.tokens = s.tokens
  BY DEF StreamLocals
<1>3. ASSUME NEW s \in StreamLocals
      PROVE  LET t == [s EXCEPT !.writeFailed = TRUE]
             IN  t.toolCalls = s.toolCalls /\ t.active = s.active /\ t.tokens = s.tokens
  BY DEF StreamLocals
<1>4. ASSUME Emit(event)
      PROVE  /\ audit' = audit \o Trail(event)
             /\ stream'.toolCalls = Recorded(stream, event).toolCalls
             /\ stream'.active = Recorded(stream, event).active
             /\ stream'.tokens = Recorded(stream, event).tokens
  <2>1. /\ audit' = audit \o Trail(event)
        /\ stream' = [Recorded(stream, event) EXCEPT !.bytes = Recorded(stream, event).bytes + 1]
    BY <1>4 DEF Emit
  <2>2. QED BY <1>1, <1>2, <2>1
<1>5. ASSUME EmitFails(event), event.type # "tool_started"
      PROVE  /\ audit' = audit \o Trail(event)
             /\ stream'.toolCalls = Recorded(stream, event).toolCalls
             /\ stream'.active = Recorded(stream, event).active
             /\ stream'.tokens = Recorded(stream, event).tokens
  <2>1. /\ audit' = audit \o Trail(event)
        /\ stream' = [Recorded(stream, event) EXCEPT !.writeFailed = TRUE]
    BY <1>5 DEF EmitFails
  <2>2. QED BY <1>1, <1>3, <2>1
<1>6. ASSUME EmitFails(event), event.type = "tool_started"
      PROVE  /\ audit' = audit
             /\ stream'.toolCalls = stream.toolCalls
             /\ stream'.active = stream.active
             /\ stream'.tokens = stream.tokens
  <2>1. audit' = audit /\ stream' = [stream EXCEPT !.writeFailed = TRUE]
    BY <1>6 DEF EmitFails
  <2>2. QED BY <1>1, <1>3, <2>1
<1>7. QED BY <1>4, <1>5, <1>6

LEMMA CallbackMatches ==
    ASSUME StreamInv, OutcomeInv, AuditInv, NEW event \in Ongoing \cup Answers,
           Emit(event) \/ EmitFails(event),
           pc \notin {"start", "reply", "done"}, pc' \notin {"reply", "done"},
           event.type = "tool_started" => stream.active = NoTool,
           event.type = "tool_finished" => stream.active = event.tool
    PROVE  /\ LocalsMatch(stream', ran, audit')
           /\ Unfinished(audit', stream'.active)
           /\ ~Ended'
           /\ event.type # "tool_started" => stream'.toolCalls = stream.toolCalls
           /\ event.type = "tool_started" /\ Emit(event) =>
                stream'.toolCalls = stream.toolCalls + 1 /\ stream'.active = event.tool
           /\ event.type = "tool_started" /\ EmitFails(event) =>
                stream'.toolCalls = stream.toolCalls
<1>1. /\ stream \in StreamLocals /\ audit \in Seq(Records)
      /\ LocalsMatch(stream, ran, audit) /\ Unfinished(audit, stream.active)
  BY DEF StreamInv, AskTypeOK, OutcomeInv, AuditInv
<1>2. LocalsMatch(Recorded(stream, event), ran, audit \o Trail(event))
  BY <1>1, EventMatches
<1>3. Unfinished(audit \o Trail(event), Recorded(stream, event).active)
  BY <1>1, EventMatches
<1>4. ~Ended'
  BY EventTrail DEF RecordTells
<1>5. CASE Emit(event) \/ event.type # "tool_started"
  <2>0. /\ audit' = audit \o Trail(event)
        /\ stream'.toolCalls = Recorded(stream, event).toolCalls
        /\ stream'.active = Recorded(stream, event).active
        /\ stream'.tokens = Recorded(stream, event).tokens
    BY <1>5, CallbackRecords
  <2>1. LocalsMatch(stream', ran, audit')
    BY <1>2, <2>0 DEF LocalsMatch
  <2>2. Unfinished(audit', stream'.active)
    BY <1>3, <2>0
  <2>3. /\ event.type # "tool_started" => stream'.toolCalls = stream.toolCalls
        /\ event.type = "tool_started" =>
             stream'.toolCalls = stream.toolCalls + 1 /\ stream'.active = event.tool
    BY <1>1, <2>0, LocalsAfter
  <2>4. event.type = "tool_started" /\ EmitFails(event) => stream'.toolCalls = stream.toolCalls
    BY CallbackRecords
  <2>5. QED BY <1>4, <2>1, <2>2, <2>3, <2>4
<1>6. CASE EmitFails(event) /\ event.type = "tool_started"
  <2>0. /\ audit' = audit
        /\ stream'.toolCalls = stream.toolCalls
        /\ stream'.active = stream.active
        /\ stream'.tokens = stream.tokens
    BY <1>6, CallbackRecords
  <2>1. LocalsMatch(stream', ran, audit')
    BY <1>1, <2>0 DEF LocalsMatch
  <2>2. Emit(event) => stream'.toolCalls = stream.toolCalls + 1 /\ stream'.active = event.tool
    BY <1>1, <1>6, CallbackRecords, LocalsAfter
  <2>3. QED BY <1>1, <1>4, <1>6, <2>0, <2>1, <2>2
<1>7. QED BY <1>5, <1>6

-------------------------------------------------------------------------------
(* The steps *)

LEMMA AuditInit == Init => AuditInv
<1>1. SUFFICES ASSUME Init PROVE AuditInv
  OBVIOUS
<1>2. /\ pc = "start" /\ audit = <<>> /\ ran = <<>>
      /\ stream.active = NoTool /\ stream.toolCalls = 0 /\ stream.tokens = 0
  BY <1>1 DEF Init
<1>3. Starts(<<>>) = {} /\ Finishes(<<>>) = {}
  BY DEF Starts, Finishes
<1>4. Cardinality({}) = 0
  BY FS_EmptySet
<1>5. CallByCall(<<>>) /\ StartedInOrder(<<>>, <<>>) /\ Unfinished(<<>>, NoTool)
  BY <1>3, <1>4 DEF CallByCall, StartedInOrder, Unfinished
<1>6. 0 \in Nat /\ 0 = Capped(0)
  BY AskConstants DEF AskConstants, Capped
<1>7. LocalsMatch(stream, ran, audit)
  BY <1>2, <1>3, <1>4, <1>5, <1>6, NothingUsed DEF LocalsMatch
<1>8. ~Ended /\ Len(ran) = 0
  BY <1>2 DEF Ended
<1>9. QED BY <1>2, <1>5, <1>7, <1>8 DEF AuditInv

LEMMA AuditStart ==
    ASSUME StreamInv, OutcomeInv, AuditInv, Start \/ StreamingUnavailable PROVE AuditInv'
<1>1. /\ pc = "start" /\ audit = <<>> /\ audit \in Seq(Records)
      /\ LocalsMatch(stream, ran, audit) /\ Unfinished(audit, stream.active)
      /\ Len(ran) = stream.toolCalls
  BY DEF AuditInv, OutcomeInv, Start, StreamingUnavailable
<1>2. /\ UNCHANGED <<stream, ran>> /\ pc' \in {"model", "calls", "done"}
  BY DEF Start, StreamingUnavailable
<1>3. PICK record \in {Event("started"), Event("rejected")} : audit' = <<record>>
  BY DEF Start, StreamingUnavailable
<1>4. /\ record \in Records /\ audit' = Append(audit, record)
      /\ record.type \notin {"tool_started", "tool_finished", "usage",
                             "request_completed", "request_failed"}
  BY <1>1, <1>3 DEF Records, Event
<1>5. LocalsMatch(stream, ran, audit') /\ Unfinished(audit', stream.active)
  BY <1>1, <1>4, PlainMatches
<1>6. ~Ended'
  BY <1>3, <1>4 DEF Ended, Last
<1>7. LocalsMatch(stream, ran, audit)' /\ Unfinished(audit, stream.active)'
  BY <1>2, <1>5
<1>8. QED BY <1>1, <1>2, <1>6, <1>7 DEF AuditInv

(***************************************************************************)
(* A step that records nothing and calls no tool.                          *)
(***************************************************************************)
LEMMA AuditSilent ==
    ASSUME OutcomeInv, AuditInv, UNCHANGED <<stream, audit, ran>>,
           \/ UNCHANGED <<pc, calls>>
           \/ /\ pc # "calling" /\ pc' \notin {"start", "calling", "called"}
              /\ pc \in {"reply", "done"} => pc' \in {"reply", "done"}
    PROVE  AuditInv'
<1>1. /\ LocalsMatch(stream, ran, audit)' /\ (Ended' <=> Ended)
      /\ Unfinished(audit, stream.active) => Unfinished(audit, stream.active)'
  BY DEF AuditInv, Ended
<1>2. QED BY <1>1 DEF AuditInv

(***************************************************************************)
(* An event of the agent or of PreparedTurn.Run.                           *)
(***************************************************************************)
LEMMA AuditEvent ==
    ASSUME StreamInv, OutcomeInv, AuditInv, NEW event \in Ongoing \cup Answers,
           Emit(event) \/ EmitFails(event),
           event.type # "tool_started", UNCHANGED ran,
           pc \notin {"start", "calling", "reply", "done"},
           pc' \notin {"start", "calling", "called", "reply", "done"},
           event.type = "tool_finished" => stream.active = event.tool
    PROVE  AuditInv'
<1>1. /\ LocalsMatch(stream', ran, audit') /\ Unfinished(audit', stream'.active)
      /\ ~Ended' /\ stream'.toolCalls = stream.toolCalls
  BY CallbackMatches
<1>2. LocalsMatch(stream, ran, audit)' /\ Unfinished(audit, stream.active)'
  BY <1>1
<1>3. Len(ran) = stream.toolCalls
  BY DEF AuditInv
<1>4. QED BY <1>1, <1>2, <1>3 DEF AuditInv

LEMMA AuditModel ==
    ASSUME StreamInv, OutcomeInv, AuditInv,
           (\E event \in ModelEvents : ModelEmits(event)) \/ ModelCompletes
    PROVE  AuditInv'
<1>1. ASSUME NEW event \in ModelEvents, ModelEmits(event) PROVE AuditInv'
  <2>1. event \in Ongoing /\ event.type \in {"text_delta", "usage"}
    BY DEF Ongoing, ModelEvents, Event, Usage
  <2>2. /\ pc = "model" /\ pc' \in {"model", "close"} /\ UNCHANGED ran
        /\ Emit(event) \/ EmitFails(event)
    BY <1>1 DEF ModelEmits, RunReturns
  <2>3. QED BY <2>1, <2>2, AuditEvent
<1>2. CASE ModelCompletes
  <2>1. Event("completed") \in Answers /\ Event("completed").type = "completed"
    BY DEF Answers, Event
  <2>2. pc = "model" /\ pc' = "close" /\ UNCHANGED ran
    BY <1>2 DEF ModelCompletes, RunReturns
  <2>3. CASE Emit(Event("completed")) \/ EmitFails(Event("completed"))
    BY <2>1, <2>2, <2>3, AuditEvent
  <2>4. CASE UNCHANGED sentVars
    BY <2>2, <2>4, AuditSilent
  <2>5. QED BY <1>2, <2>3, <2>4 DEF ModelCompletes
<1>3. QED BY <1>1, <1>2

LEMMA AuditTell ==
    ASSUME StreamInv, OutcomeInv, AuditInv, Tell PROVE AuditInv'
<1>. DEFINE event == Event(IF ending = "completed" THEN "completed"
                           ELSE "confirmation_required")
<1>1. event \in Answers /\ event.type \in {"completed", "confirmation_required"}
  BY DEF Answers, Event
<1>2. /\ pc = "tell" /\ pc' = "end" /\ UNCHANGED ran
      /\ Emit(event) \/ EmitFails(event)
  BY DEF Tell
<1>. HIDE DEF event
<1>3. QED BY <1>1, <1>2, AuditEvent

LEMMA AuditStartCall ==
    ASSUME StreamInv, OutcomeInv, AuditInv, StartCall PROVE AuditInv'
<1>. DEFINE event == ToolStarted(Head(calls))
<1>1. /\ pc = "calls" /\ UNCHANGED <<calls, ran>> /\ stream.active = NoTool
      /\ Len(ran) = stream.toolCalls
  BY DEF StartCall, OutcomeInv, ErrorTells, AuditInv
<1>2. /\ event \in Ongoing /\ event.type = "tool_started" /\ event.tool = Head(calls)
  <2>1. Head(calls) \in Tools
    BY CallTaken DEF StreamInv, AskTypeOK, StartCall
  <2>2. QED BY <2>1 DEF Ongoing, ToolStarted
<1>3. \/ Emit(event) /\ pc' = "calling"
      \/ EmitFails(event) /\ pc' = "close"
  BY DEF StartCall, RunReturns
<1>. HIDE DEF event
<1>4. /\ LocalsMatch(stream', ran, audit') /\ Unfinished(audit', stream'.active)
      /\ ~Ended'
  BY <1>1, <1>2, <1>3, CallbackMatches
<1>5. LocalsMatch(stream, ran, audit)' /\ Unfinished(audit, stream.active)'
  BY <1>1, <1>4
<1>6. CASE Emit(event) /\ pc' = "calling"
  <2>1. stream'.toolCalls = stream.toolCalls + 1 /\ stream'.active = Head(calls)
    BY <1>1, <1>2, <1>6, CallbackMatches
  <2>2. stream.toolCalls \in Nat
    BY DEF StreamInv, AskTypeOK, StreamLocals
  <2>3. Len(ran) = stream'.toolCalls - 1
    BY <1>1, <2>1, <2>2
  <2>4. QED BY <1>1, <1>4, <1>5, <1>6, <2>1, <2>3 DEF AuditInv
<1>7. CASE EmitFails(event) /\ pc' = "close"
  <2>1. stream'.toolCalls = stream.toolCalls
    BY <1>1, <1>2, <1>7, CallbackMatches
  <2>2. QED BY <1>1, <1>4, <1>5, <1>7, <2>1 DEF AuditInv
<1>8. QED BY <1>3, <1>6, <1>7

LEMMA AuditCallTool ==
    ASSUME StreamInv, OutcomeInv, AuditInv, CallTool PROVE AuditInv'
<1>1. /\ pc = "calling" /\ pc' \in {"called", "close"}
      /\ ran' = Append(ran, Head(calls)) /\ UNCHANGED <<calls, sentVars>>
  BY DEF CallTool, RunReturns
<1>2. Head(calls) \in Tools /\ ran \in Seq(Tools) /\ audit \in Seq(Records)
  BY <1>1, CallTaken DEF StreamInv, AskTypeOK, PhaseTells, OutcomeInv
<1>3. /\ LocalsMatch(stream, ran, audit) /\ Unfinished(audit, stream.active)
      /\ stream.active = Head(calls) /\ Len(ran) = stream.toolCalls - 1
  BY <1>1 DEF AuditInv
<1>4. stream.toolCalls \in Nat /\ Len(ran) \in Nat /\ Len(ran') = Len(ran) + 1
  <2>1. stream.toolCalls \in Nat
    BY DEF StreamInv, AskTypeOK, StreamLocals
  <2>2. QED BY <1>1, <1>2, <2>1
<1>5. Len(ran) + 1 = stream.toolCalls /\ Len(ran') = stream.toolCalls
  BY <1>3, <1>4
<1>6. StartedInOrder(ran', audit)
  <2>1. Cardinality(Starts(audit)) = Len(ran) + 1 /\ StartedInOrder(ran, audit)
    BY <1>3, <1>5 DEF LocalsMatch
  <2>2. QED BY <1>1, <1>2, <1>3, <2>1, LastStartRuns
<1>7. LocalsMatch(stream, ran', audit)
  BY <1>3, <1>6 DEF LocalsMatch
<1>8. LocalsMatch(stream, ran, audit)' /\ Unfinished(audit, stream.active)'
  BY <1>1, <1>3, <1>7
<1>9. ~Ended'
  BY <1>1 DEF OutcomeInv, RecordTells, Ended
<1>10. QED BY <1>1, <1>3, <1>5, <1>8, <1>9 DEF AuditInv

LEMMA AuditFinishCall ==
    ASSUME StreamInv, OutcomeInv, AuditInv, FinishCall PROVE AuditInv'
<1>. DEFINE event == ToolFinished(Head(calls))
<1>1. /\ pc = "called" /\ pc' \in {"calls", "close"} /\ UNCHANGED ran
      /\ Emit(event) \/ EmitFails(event)
  BY DEF FinishCall, RunReturns
<1>2. event \in Ongoing /\ event.type = "tool_finished" /\ event.tool = Head(calls)
  <2>1. Head(calls) \in Tools
    BY <1>1, CallTaken DEF StreamInv, AskTypeOK, PhaseTells
  <2>2. QED BY <2>1 DEF Ongoing, ToolFinished
<1>3. stream.active = Head(calls)
  BY <1>1 DEF AuditInv
<1>. HIDE DEF event
<1>4. QED BY <1>1, <1>2, <1>3, AuditEvent

(***************************************************************************)
(* The end finishes the call that is unfinished and copies the counters.   *)
(***************************************************************************)
LEMMA AuditEnd ==
    ASSUME StreamInv, OutcomeInv, AuditInv, End PROVE AuditInv'
<1>1. /\ pc = "end" /\ pc' = "reply" /\ UNCHANGED <<stream, ran, calls>>
  BY DEF End
<1>2. /\ audit \in Seq(Records) /\ stream \in StreamLocals
      /\ LocalsMatch(stream, ran, audit) /\ Unfinished(audit, stream.active)
      /\ Len(ran) = stream.toolCalls
  BY <1>1 DEF StreamInv, AskTypeOK, OutcomeInv, AuditInv
<1>3. PICK code :
        audit' = audit
          \o (IF stream.active # NoTool THEN <<ToolFinished(stream.active)>> ELSE <<>>)
          \o <<Terminal(code)>>
  BY DEF End
<1>. DEFINE closed == IF stream.active # NoTool
                      THEN Append(audit, ToolFinished(stream.active)) ELSE audit
<1>4. /\ closed \in Seq(Records)
      /\ audit' = Append(closed, Terminal(code))
  <2>1. stream.active # NoTool => ToolFinished(stream.active) \in Records
    BY <1>2 DEF StreamLocals, Records, Frames, Ongoing
  <2>2. closed \in Seq(Records)
    BY <1>2, <2>1
  <2>3. CASE stream.active # NoTool
    BY <1>2, <1>3, <2>1, <2>3
  <2>4. CASE stream.active = NoTool
    <3>1. audit \o <<>> = audit
      BY <1>2
    <3>2. QED BY <1>2, <1>3, <2>4, <3>1
  <2>5. QED BY <2>2, <2>3, <2>4
<1>5. LocalsMatch(stream, ran, closed) /\ Unfinished(closed, NoTool)
  <2>1. CASE stream.active = NoTool
    BY <1>2, <2>1
  <2>2. CASE stream.active # NoTool
    <3>1. stream.active \in Tools /\ ToolFinished(stream.active) \in Ongoing
      BY <1>2, <2>2 DEF StreamLocals, Ongoing
    <3>2. /\ ToolFinished(stream.active).type = "tool_finished"
          /\ ToolFinished(stream.active).tool = stream.active
          /\ Trail(ToolFinished(stream.active)) = <<ToolFinished(stream.active)>>
      BY DEF ToolFinished, Trail
    <3>3. ToolFinished(stream.active) \in Records
      BY <3>1, EventRecords
    <3>4. /\ LocalsMatch(Recorded(stream, ToolFinished(stream.active)), ran,
                        audit \o Trail(ToolFinished(stream.active)))
          /\ Unfinished(audit \o Trail(ToolFinished(stream.active)),
                        Recorded(stream, ToolFinished(stream.active)).active)
      BY <1>2, <3>1, <3>2, EventMatches
    <3>5. /\ Recorded(stream, ToolFinished(stream.active)).toolCalls = stream.toolCalls
          /\ Recorded(stream, ToolFinished(stream.active)).tokens = stream.tokens
          /\ Recorded(stream, ToolFinished(stream.active)).active = NoTool
      BY <1>2, <3>1, <3>2, LocalsAfter
    <3>6. audit \o Trail(ToolFinished(stream.active)) = closed
      BY <1>2, <2>2, <3>2, <3>3
    <3>. HIDE DEF closed
    <3>7. QED BY <3>4, <3>5, <3>6 DEF LocalsMatch
  <2>3. QED BY <2>1, <2>2
<1>6. /\ Terminal(code).type \in {"request_completed", "request_failed"}
      /\ Terminal(code).toolCalls = stream.toolCalls
      /\ Terminal(code).tokens = stream.tokens
  BY DEF Terminal
<1>7. Terminal(code) \in Records /\ Last(audit') = Terminal(code)
  <2>1. audit' \in Seq(Records)
    BY OutcomeEnd DEF OutcomeInv
  <2>2. Last(audit') = Terminal(code) /\ Len(audit') \in DOMAIN audit'
        /\ Last(audit') = audit'[Len(audit')]
    BY <1>4 DEF Last
  <2>3. QED BY <2>1, <2>2
<1>. HIDE DEF closed
<1>8. /\ LocalsMatch(stream, ran, audit') /\ Unfinished(audit', NoTool)
  BY <1>4, <1>5, <1>6, <1>7, PlainMatches
<1>9. LocalsMatch(stream, ran, audit)'
  BY <1>1, <1>8
<1>10. Cardinality(Finishes(audit')) = stream.toolCalls
  BY <1>8 DEF Unfinished, LocalsMatch
<1>11. QED BY <1>1, <1>2, <1>6, <1>7, <1>9, <1>10 DEF AuditInv

LEMMA AuditQuiet ==
    ASSUME StreamInv, OutcomeInv, AuditInv,
           \/ \E tools \in IterationCalls : ModelCalls(tools)
           \/ SkipCall \/ Suspend \/ NextIteration \/ RunFails \/ CloseSession
           \/ FinalizeFailed \/ Finalize \/ Reply \/ ContextEnds \/ UNCHANGED vars
    PROVE  AuditInv'
<1>1. UNCHANGED <<stream, audit, ran>>
  BY DEF ModelCalls, SkipCall, Suspend, NextIteration, RunFails, CloseSession,
         FinalizeFailed, Finalize, Reply, ContextEnds, vars
<1>2. CASE ContextEnds \/ UNCHANGED vars
  BY <1>1, <1>2, AuditSilent DEF ContextEnds, vars
<1>3. CASE ~(ContextEnds \/ UNCHANGED vars)
  <2>1. /\ pc \in {"model", "calls", "close", "finalize", "reply"}
        /\ pc' \in {"model", "calls", "close", "finalize", "end", "tell", "done"}
        /\ pc = "reply" => pc' = "done"
    BY <1>3 DEF ModelCalls, SkipCall, Suspend, NextIteration, RunFails, CloseSession,
                FinalizeFailed, Finalize, Reply, RunReturns
  <2>2. QED BY <1>1, <2>1, AuditSilent
<1>4. QED BY <1>2, <1>3

-------------------------------------------------------------------------------
(* The theorems *)

(***************************************************************************)
(* The counters of streamAgent, its trail and the tools that ran always    *)
(* agree.                                                                  *)
(***************************************************************************)
THEOREM AuditInvariant == Spec => []AuditInv
<1>1. StreamInv /\ OutcomeInv /\ AuditInv /\ [Next]_vars => AuditInv'
  <2>1. SUFFICES ASSUME StreamInv, OutcomeInv, AuditInv, Next \/ UNCHANGED vars
                 PROVE  AuditInv'
    OBVIOUS
  <2>2. QED
    BY <2>1, AuditStart, AuditModel, AuditTell, AuditStartCall, AuditCallTool,
       AuditFinishCall, AuditEnd, AuditQuiet
       DEF Next
<1>2. QED BY <1>1, AuditInit, StreamInvariant, OutcomeInvariant, PTL DEF Spec

(***************************************************************************)
(* No tool runs that the audit trail does not show as started before, and  *)
(* at the end every start is one call that was made and was finished, for  *)
(* any number of calls and wherever a write, a call or the run fails.      *)
(***************************************************************************)
THEOREM AskEveryCallIsAudited == Spec => []EveryCallIsAudited
<1>1. AuditInv /\ OutcomeInv => EveryCallIsAudited
  <2>1. SUFFICES ASSUME AuditInv, OutcomeInv PROVE EveryCallIsAudited
    OBVIOUS
  <2>2. CallByCall(audit) /\ StartedInOrder(ran, audit)
    BY <2>1 DEF AuditInv, LocalsMatch
  <2>3. Ended => /\ Cardinality(Starts(audit)) = Len(ran)
                 /\ Cardinality(Finishes(audit)) = Len(ran)
                 /\ Last(audit).toolCalls = Len(ran)
    BY <2>1 DEF AuditInv, LocalsMatch, OutcomeInv, RecordTells
  <2>4. QED BY <2>2, <2>3 DEF EveryCallIsAudited
<1>2. QED BY <1>1, AuditInvariant, OutcomeInvariant, PTL

(***************************************************************************)
(* The terminal record shows the sum of all the counters of its trail, or  *)
(* the largest counter: the counter never wraps, for any counters.         *)
(***************************************************************************)
THEOREM AskTokensSumOrSaturate == Spec => []TokensSumOrSaturate
<1>1. AuditInv => TokensSumOrSaturate
  <2>1. SUFFICES ASSUME AuditInv, Ended
                 PROVE  Last(audit).tokens = IF Total(audit) > MaxInt64 THEN MaxInt64
                                             ELSE Total(audit)
    BY DEF TokensSumOrSaturate
  <2>2. PICK total \in Nat : TotalIs(audit, total) /\ stream.tokens = Capped(total)
    BY <2>1 DEF AuditInv, LocalsMatch
  <2>3. Total(audit) = total
    BY <2>2, TotalChosen
  <2>4. QED BY <2>1, <2>2, <2>3 DEF AuditInv, Capped
<1>2. QED BY <1>1, AuditInvariant, PTL

===============================================================================
