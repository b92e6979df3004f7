---------------------------- MODULE AgentTurnProofs ----------------------------
(***************************************************************************)
(* Proofs about the agent, for any model, any catalog, any limits and any  *)
(* number of suspensions: its types; only confirmed calls run, each at     *)
(* most once and in order; the limits hold for the whole turn, and what a  *)
(* suspension stores is valid when it is resumed.                          *)
(*                                                                         *)
(* The argument is a mark that only moves forward: the position of the     *)
(* next call.  Whatever ran or was decided lies before it, but for a       *)
(* decision not applied yet, which lies on it; so a call that runs is new, *)
(* and if it needs a confirmation the decision on it is its own.  For the  *)
(* limits, what is left to do counts as done: the calls left to run in the *)
(* calls of the turn, and two messages for each iteration.                 *)
(*                                                                         *)
(* What the model was told stays true for the same reason: a step changes  *)
(* what ran and what was decided at the mark only, and the results, those  *)
(* in messages and those of the iteration, all lie before it.              *)
(***************************************************************************)
EXTENDS AgentTurn, TLAPS

-------------------------------------------------------------------------------
(* The inductive invariant *)

\* The run goes on, or may be resumed.
Live == pc \in Running \cup {"idle", "suspended"} \/ (pc = "close" /\ result = "suspended")

\* The position of the next call.
Mark == IF pc = "iterate" THEN <<state.iteration + 1, 1>> ELSE Position

\* Calls and results are there only while they are executed, and a decision
\* only until it is applied to a call.
RunShape ==
    /\ pc \in {"idle", "iterate", "stream"} =>
         decision = "none" /\ state.calls = <<>> /\ state.results = <<>>
    /\ pc = "suspended" \/ (pc = "close" /\ result = "suspended") =>
         decision = "none" /\ Len(state.results) < Len(state.calls)
    /\ pc = "open" /\ state.calls = <<>> => state.results = <<>>
    /\ pc = "execute" /\ decision # "none" => Len(state.results) < Len(state.calls)

\* Everything that happened to calls lies before the mark.
MarkIsAhead ==
    Live =>
      /\ \A k \in DOMAIN ran : Before(ran[k].position, Mark)
      /\ \A x \in decided : Before(x[1], Mark) \/ x = <<Mark, decision>>
      /\ decision # "none" => <<Mark, decision>> \in decided

-------------------------------------------------------------------------------
(* Types *)

\* A suspended turn keeps its type when one of its fields gets a value of its
\* own type.
LEMMA StateUpdate ==
  ASSUME NEW s \in SuspendedTurn
  PROVE  /\ \A rs \in Seq(ToolResult) : [s EXCEPT !.results = rs] \in SuspendedTurn
         /\ \A i \in Nat : [s EXCEPT !.iteration = i] \in SuspendedTurn
         /\ \A m \in Seq(Message) : [s EXCEPT !.messages = m] \in SuspendedTurn
         /\ \A n \in Nat, cs \in Seq(Call), rs \in Seq(ToolResult) :
              [s EXCEPT !.total = n, !.calls = cs, !.results = rs] \in SuspendedTurn
         /\ \A m \in Seq(Message), cs \in Seq(Call), rs \in Seq(ToolResult) :
              [s EXCEPT !.messages = m, !.calls = cs, !.results = rs]
                \in SuspendedTurn
BY DEF SuspendedTurn

\* The messages a run writes are messages.
LEMMA MessageTypes ==
  /\ UserMessage \in Message
  /\ \A cs \in Seq(Call) : AssistantMessage(cs) \in Message
  /\ \A rs \in Seq(ToolResult) : ToolMessage(rs) \in Message
BY DEF UserMessage, AssistantMessage, ToolMessage, Message

\* The call to run next, when there is one.
LEMMA PendingCallType ==
  ASSUME state \in SuspendedTurn, Len(state.results) < Len(state.calls)
  PROVE  PendingCall \in Call
<1>1. state.calls \in Seq(Call) /\ state.results \in Seq(ToolResult)
  BY DEF SuspendedTurn
<1>2. Len(state.results) + 1 \in 1 .. Len(state.calls)
  BY <1>1
<1> QED BY <1>1, <1>2 DEF PendingCall

\* A new result keeps the type of the state.
LEMMA AnswerType ==
  ASSUME state \in SuspendedTurn, Len(state.results) < Len(state.calls),
         NEW kind \in {"ran", "rejected", "unconfirmable"}, Answer(kind)
  PROVE  /\ state' \in SuspendedTurn
         /\ state'.results = Append(state.results,
                                    [id |-> PendingCall.id, kind |-> kind])
         /\ state'.calls = state.calls /\ state'.iteration = state.iteration
         /\ state'.total = state.total /\ state'.messages = state.messages
<1> DEFINE r == [id |-> PendingCall.id, kind |-> kind]
<1>1. state.results \in Seq(ToolResult)
  BY DEF SuspendedTurn
<1>2. r \in ToolResult
  BY PendingCallType DEF Call, ToolResult
<1>3. Append(state.results, r) \in Seq(ToolResult)
  BY <1>1, <1>2
<1>4. state' = [state EXCEPT !.results = Append(state.results, r)]
  BY DEF Answer
<1> HIDE DEF r
<1>5. state' \in SuspendedTurn
  BY <1>3, <1>4, StateUpdate
<1> QED BY <1>4, <1>5 DEF SuspendedTurn, r

\* The position of the next call is one.
LEMMA PositionType ==
  ASSUME state \in SuspendedTurn
  PROVE  Position \in Nat \X Nat
BY DEF SuspendedTurn, Position

\* The run starts with values of the right types.
LEMMA AgentInitType == Init => AgentTypeOK
<1> SUFFICES ASSUME Init PROVE AgentTypeOK
  OBVIOUS
<1>1. <<UserMessage>> \in Seq(Message)
  BY MessageTypes
<1>2. state \in SuspendedTurn
  BY <1>1 DEF Init, NewTurn, SuspendedTurn
<1>3. catalog \in [Tools -> Listing]
  BY DEF Init, NoCatalog, Listing
<1>4. stream \in StreamLocals
  BY DEF Init, NewStream, StreamLocals
<1>5. ran \in Seq([position: Nat \X Nat, confirm: BOOLEAN])
  BY DEF Init
<1> QED BY <1>2, <1>3, <1>4, <1>5 DEF Init, AgentTypeOK, Running, Decisions

\* The two messages FinishCalls appends, and the reset of the iteration.
LEMMA FinishCallsEffect ==
  ASSUME state \in SuspendedTurn, FinishCalls
  PROVE  /\ state' \in SuspendedTurn
         /\ state'.calls = <<>> /\ state'.results = <<>>
         /\ state'.iteration = state.iteration /\ state'.total = state.total
         /\ state'.messages = state.messages \o
              <<AssistantMessage(state.calls), ToolMessage(state.results)>>
<1> DEFINE m == state.messages \o <<AssistantMessage(state.calls),
                                    ToolMessage(state.results)>>
<1>1. state.messages \in Seq(Message) /\ state.calls \in Seq(Call)
      /\ state.results \in Seq(ToolResult)
  BY DEF SuspendedTurn
<1>2. <<AssistantMessage(state.calls), ToolMessage(state.results)>> \in Seq(Message)
  BY <1>1, MessageTypes
<1>3. m \in Seq(Message)
  BY <1>1, <1>2
<1>4. state' = [state EXCEPT !.messages = m, !.calls = <<>>, !.results = <<>>]
  BY DEF FinishCalls
<1> HIDE DEF m
<1>5. <<>> \in Seq(Call) /\ <<>> \in Seq(ToolResult)
  OBVIOUS
<1>6. state' \in SuspendedTurn
  BY <1>3, <1>4, <1>5, StateUpdate
<1> QED BY <1>4, <1>6 DEF SuspendedTurn, m

\* The final answer joins the messages.
LEMMA FinalAnswerEffect ==
  ASSUME state \in SuspendedTurn, FinalAnswer
  PROVE  /\ state' \in SuspendedTurn
         /\ state'.calls = state.calls /\ state'.results = state.results
         /\ state'.iteration = state.iteration /\ state'.total = state.total
         /\ state'.messages = Append(state.messages, AssistantMessage(<<>>))
<1> DEFINE m == Append(state.messages, AssistantMessage(<<>>))
<1>1. state.messages \in Seq(Message)
  BY DEF SuspendedTurn
<1>2. AssistantMessage(<<>>) \in Message
  <2>1. <<>> \in Seq(Call)
    OBVIOUS
  <2> QED BY <2>1, MessageTypes
<1>3. m \in Seq(Message)
  BY <1>1, <1>2
<1>4. state' = [state EXCEPT !.messages = m]
  BY DEF FinalAnswer
<1> HIDE DEF m
<1>5. state' \in SuspendedTurn
  BY <1>3, <1>4, StateUpdate
<1> QED BY <1>4, <1>5 DEF SuspendedTurn, m

\* The next iteration changes nothing else of the turn.
LEMMA StartStreamEffect ==
  ASSUME state \in SuspendedTurn, StartStream
  PROVE  /\ state' \in SuspendedTurn
         /\ state'.iteration = state.iteration + 1
         /\ state'.calls = state.calls /\ state'.results = state.results
         /\ state'.total = state.total /\ state'.messages = state.messages
<1> DEFINE i == state.iteration + 1
<1>1. i \in Nat
  BY DEF SuspendedTurn
<1>2. state' = [state EXCEPT !.iteration = i]
  BY DEF StartStream
<1> HIDE DEF i
<1>3. state' \in SuspendedTurn
  BY <1>1, <1>2, StateUpdate
<1> QED BY <1>2, <1>3 DEF SuspendedTurn, i

\* The calls of the iteration become those to execute.
LEMMA AcceptCallsEffect ==
  ASSUME state \in SuspendedTurn, stream \in StreamLocals, AcceptCalls
  PROVE  /\ state' \in SuspendedTurn
         /\ state'.calls = stream.calls /\ state'.results = <<>>
         /\ state'.total = state.total + Len(stream.calls)
         /\ state'.iteration = state.iteration
         /\ state'.messages = state.messages
<1> DEFINE n  == state.total + Len(stream.calls)
           cs == stream.calls
<1>1. cs \in Seq(Call) /\ <<>> \in Seq(ToolResult)
  BY DEF StreamLocals
<1>2. n \in Nat
  BY <1>1 DEF SuspendedTurn
<1>3. state' = [state EXCEPT !.total = n, !.calls = cs, !.results = <<>>]
  BY DEF AcceptCalls
<1> HIDE DEF n, cs
<1>4. state' \in SuspendedTurn
  BY <1>1, <1>2, <1>3, StateUpdate
<1> QED BY <1>3, <1>4 DEF SuspendedTurn, n, cs

\* Every step keeps the types.
LEMMA AgentStepType == AgentTypeOK /\ [Next]_agentVars => AgentTypeOK'
<1> SUFFICES ASSUME AgentTypeOK, [Next]_agentVars PROVE AgentTypeOK'
  OBVIOUS
<1> USE DEF AgentTypeOK
<1>1. CASE Ask
  BY <1>1 DEF Ask, Running
<1>2. CASE RunTurn
  BY <1>2 DEF RunTurn, Running
<1>3. ASSUME NEW d \in Decisions, ResumeTurn(d) PROVE AgentTypeOK'
  <2>1. <<Position, d>> \in (Nat \X Nat) \X Decisions
    BY PositionType
  <2> HIDE DEF AgentTypeOK
  <2>2. decided' \subseteq (Nat \X Nat) \X Decisions
    BY <1>3, <2>1 DEF ResumeTurn, AgentTypeOK
  <2> QED BY <1>3, <2>2 DEF ResumeTurn, Running, AgentTypeOK
<1>4. CASE OpenSession
  BY <1>4 DEF OpenSession, Running
<1>5. CASE RejectCall
  <2>1. state' \in SuspendedTurn
    BY <1>5, AnswerType DEF RejectCall, CallLeft
  <2> QED BY <1>5, <2>1 DEF RejectCall, DecisionUsed
<1>6. CASE RefuseUnconfirmable
  <2>1. state' \in SuspendedTurn
    BY <1>6, AnswerType DEF RefuseUnconfirmable, NeedsConfirmation, CallLeft
  <2> QED BY <1>6, <2>1 DEF RefuseUnconfirmable, runVars
<1>7. CASE Suspend
  BY <1>7 DEF Suspend
<1>8. ASSUME NEW returned \in BOOLEAN, CallTool(returned) PROVE AgentTypeOK'
  <2>1. state' \in SuspendedTurn
    BY <1>8, AnswerType DEF CallTool, CallLeft
  <2> DEFINE entry == [position |-> Position,
                       confirm |-> catalog[PendingCall.tool] = "confirm"]
  <2>2. entry \in [position: Nat \X Nat, confirm: BOOLEAN]
    BY PositionType
  <2> HIDE DEF entry
  <2>3. Append(ran, entry) \in Seq([position: Nat \X Nat, confirm: BOOLEAN])
    BY <2>2
  <2>4. ran' \in Seq([position: Nat \X Nat, confirm: BOOLEAN])
    BY <1>8, <2>3 DEF CallTool, entry
  <2> QED BY <1>8, <2>1, <2>4 DEF CallTool, DecisionUsed
<1>9. CASE FinishCalls
  <2>1. state' \in SuspendedTurn
    BY <1>9, FinishCallsEffect
  <2> QED BY <1>9, <2>1 DEF FinishCalls, Running
<1>10. CASE StartStream
  <2>1. state' \in SuspendedTurn
    BY <1>10, StartStreamEffect
  <2>2. NewStream \in StreamLocals
    BY DEF NewStream, StreamLocals
  <2> QED BY <1>10, <2>1, <2>2 DEF StartStream, Running
<1>11. CASE OnTextDelta
  <2>1. [stream EXCEPT !.text = TRUE] \in StreamLocals
    BY DEF StreamLocals
  <2> QED BY <1>11, <2>1 DEF OnTextDelta
<1>12. ASSUME NEW call \in Call, OnToolCall(call) PROVE AgentTypeOK'
  <2> DEFINE cs == Append(stream.calls, call)
  <2>1. cs \in Seq(Call)
    BY DEF StreamLocals
  <2> HIDE DEF cs
  <2>2. [stream EXCEPT !.calls = cs] \in StreamLocals
    BY <2>1 DEF StreamLocals
  <2> QED BY <1>12, <2>2 DEF OnToolCall, cs
<1>13. ASSUME NEW reason \in FinishReasons, OnCompleted(reason) PROVE AgentTypeOK'
  <2>1. [stream EXCEPT !.completion = reason] \in StreamLocals
    BY DEF StreamLocals
  <2> QED BY <1>13, <2>1 DEF OnCompleted
<1>14. CASE FinalAnswer
  <2>1. state' \in SuspendedTurn
    BY <1>14, FinalAnswerEffect
  <2> QED BY <1>14, <2>1 DEF FinalAnswer
<1>15. CASE AcceptCalls
  <2>1. state' \in SuspendedTurn
    BY <1>15, AcceptCallsEffect
  <2> QED BY <1>15, <2>1 DEF AcceptCalls, Running
<1>16. CASE Fail
  BY <1>16 DEF Fail
<1>17. ASSUME NEW failed \in BOOLEAN, Close(failed) PROVE AgentTypeOK'
  <2>1. NewStream \in StreamLocals /\ NoCatalog \in [Tools -> Listing]
    BY DEF NewStream, StreamLocals, NoCatalog, Listing
  <2> QED BY <1>17, <2>1 DEF Close
<1>18. CASE UNCHANGED agentVars
  BY <1>18 DEF agentVars, runVars
<1> HIDE DEF AgentTypeOK
<1> QED BY <1>1, <1>2, <1>3, <1>4, <1>5, <1>6, <1>7, <1>8, <1>9, <1>10, <1>11,
           <1>12, <1>13, <1>14, <1>15, <1>16, <1>17, <1>18
        DEF Next, Run, Execute, Iterate

\* Every variable of the agent always has its type.
THEOREM AgentTyped == Spec => []AgentTypeOK
BY AgentInitType, AgentStepType, PTL DEF Spec

-------------------------------------------------------------------------------
(* The shape of a run *)

\* Nothing is left to execute, or to decide, where nothing is executed.
LEMMA RunShapeInit == Init => RunShape
BY DEF Init, RunShape, NewTurn

\* Every step keeps the shape.
LEMMA RunShapeStep == AgentTypeOK /\ RunShape /\ [Next]_agentVars => RunShape'
<1> SUFFICES ASSUME AgentTypeOK, RunShape, [Next]_agentVars PROVE RunShape'
  OBVIOUS
<1> USE DEF RunShape
<1>t. state \in SuspendedTurn /\ stream \in StreamLocals
  BY DEF AgentTypeOK
<1>n. state.calls \in Seq(Call) /\ state.results \in Seq(ToolResult)
  BY <1>t DEF SuspendedTurn
<1>1. CASE Ask
  BY <1>1 DEF Ask
<1>2. CASE RunTurn
  BY <1>2 DEF RunTurn
<1>3. ASSUME NEW d \in Decisions, ResumeTurn(d) PROVE RunShape'
  <2>1. state.calls # <<>>
    BY <1>3, <1>n DEF ResumeTurn
  <2> QED BY <1>3, <2>1 DEF ResumeTurn
<1>4. CASE OpenSession
  <2>1. decision # "none" => /\ Len(state.results) < Len(state.calls)
                             /\ state.calls # <<>>
    BY <1>4, <1>n DEF OpenSession, Valid
  <2> QED BY <1>4, <2>1 DEF OpenSession
<1>5. CASE RejectCall
  BY <1>5 DEF RejectCall, CallLeft, DecisionUsed
<1>6. CASE RefuseUnconfirmable
  BY <1>6 DEF RefuseUnconfirmable, NeedsConfirmation, CallLeft, runVars
<1>7. CASE Suspend
  BY <1>7 DEF Suspend, NeedsConfirmation, CallLeft
<1>8. ASSUME NEW returned \in BOOLEAN, CallTool(returned) PROVE RunShape'
  BY <1>8 DEF CallTool, CallLeft, DecisionUsed
<1>9. CASE FinishCalls
  <2>1. decision = "none"
    BY <1>9, <1>n DEF FinishCalls
  <2>2. state'.calls = <<>> /\ state'.results = <<>>
    BY <1>9, <1>t, FinishCallsEffect
  <2> QED BY <1>9, <2>1, <2>2 DEF FinishCalls
<1>10. CASE StartStream
  <2>1. state'.calls = state.calls /\ state'.results = state.results
    BY <1>10, <1>t, StartStreamEffect
  <2> QED BY <1>10, <2>1 DEF StartStream
<1>11. CASE OnTextDelta
  BY <1>11 DEF OnTextDelta
<1>12. ASSUME NEW call \in Call, OnToolCall(call) PROVE RunShape'
  BY <1>12 DEF OnToolCall
<1>13. ASSUME NEW reason \in FinishReasons, OnCompleted(reason) PROVE RunShape'
  BY <1>13 DEF OnCompleted
<1>14. CASE FinalAnswer
  BY <1>14 DEF FinalAnswer
<1>15. CASE AcceptCalls
  BY <1>15 DEF AcceptCalls
<1>16. CASE Fail
  BY <1>16 DEF Fail
<1>17. ASSUME NEW failed \in BOOLEAN, Close(failed) PROVE RunShape'
  BY <1>17 DEF Close
<1>18. CASE UNCHANGED agentVars
  BY <1>18 DEF agentVars, runVars
<1> HIDE DEF RunShape
<1> QED BY <1>1, <1>2, <1>3, <1>4, <1>5, <1>6, <1>7, <1>8, <1>9, <1>10, <1>11,
           <1>12, <1>13, <1>14, <1>15, <1>16, <1>17, <1>18
        DEF Next, Run, Execute, Iterate

-------------------------------------------------------------------------------
(* The mark *)

\* The order of positions is transitive and strict.
LEMMA BeforeOrder ==
  ASSUME NEW p \in Nat \X Nat, NEW q \in Nat \X Nat
  PROVE  /\ ~Before(p, p)
         /\ \A r \in Nat \X Nat : Before(p, q) /\ Before(q, r) => Before(p, r)
BY DEF Before

\* The mark is a position.
LEMMA MarkType == AgentTypeOK => Mark \in Nat \X Nat
BY PositionType DEF AgentTypeOK, SuspendedTurn, Mark

\* And so it is after a step.
LEMMA MarkTypeNext == AgentTypeOK' => Mark' \in Nat \X Nat
BY DEF AgentTypeOK, SuspendedTurn, Mark, Position

\* What ran has the position of a call.
LEMMA RanPosition ==
  ASSUME AgentTypeOK, NEW k \in DOMAIN ran
  PROVE  ran[k].position \in Nat \X Nat
<1> DEFINE Ran == [position: Nat \X Nat, confirm: BOOLEAN]
<1>1. ran \in Seq(Ran)
  BY DEF AgentTypeOK
<1> HIDE DEF Ran
<1>2. ran[k] \in Ran
  BY <1>1
<1> QED BY <1>2 DEF Ran

\* What is before the mark stays before it when the mark moves forward, and
\* then a decision on the old mark is used up.
LEMMA MarkForward ==
  ASSUME AgentTypeOK, AgentTypeOK', MarkIsAhead, Live,
         ran' = ran, decided' = decided,
         \/ Mark' = Mark /\ decision' = decision
         \/ Before(Mark, Mark') /\ decision' = "none"
  PROVE  MarkIsAhead'
<1>1. Mark \in Nat \X Nat /\ Mark' \in Nat \X Nat
  BY MarkType, MarkTypeNext
<1>2. CASE Mark' = Mark /\ decision' = decision
  BY <1>2 DEF MarkIsAhead
<1>3. CASE Before(Mark, Mark') /\ decision' = "none"
  <2>1. ASSUME NEW k \in DOMAIN ran PROVE Before(ran[k].position, Mark')
    <3>1. ran[k].position \in Nat \X Nat
      BY RanPosition
    <3> QED BY <1>1, <1>3, <3>1, BeforeOrder DEF MarkIsAhead
  <2>2. ASSUME NEW x \in decided PROVE Before(x[1], Mark')
    <3>1. x[1] \in Nat \X Nat
      BY DEF AgentTypeOK
    <3>2. Before(x[1], Mark) \/ x[1] = Mark
      BY DEF MarkIsAhead
    <3> QED BY <1>1, <1>3, <3>1, <3>2, BeforeOrder
  <2> QED BY <1>3, <2>1, <2>2 DEF MarkIsAhead
<1> QED BY <1>2, <1>3

\* An answer moves the mark to the next call.
LEMMA AnswerMovesMark ==
  ASSUME AgentTypeOK, pc = "execute", pc' = pc,
         Len(state.results) < Len(state.calls),
         NEW kind \in {"ran", "rejected", "unconfirmable"}, Answer(kind)
  PROVE  Before(Mark, Mark')
<1>1. state \in SuspendedTurn
  BY DEF AgentTypeOK
<1>2. /\ state'.results = Append(state.results,
                                 [id |-> PendingCall.id, kind |-> kind])
      /\ state'.iteration = state.iteration
  BY <1>1, AnswerType
<1>3. state.results \in Seq(ToolResult)
  BY <1>1 DEF SuspendedTurn
<1>4. Len(state'.results) = Len(state.results) + 1
  BY <1>2, <1>3
<1>5. Len(state.results) \in Nat /\ state.iteration \in Nat
  BY <1>1, <1>3 DEF SuspendedTurn
<1> QED BY <1>2, <1>4, <1>5 DEF Mark, Position, Before

\* Nothing ran yet and nothing was decided.
LEMMA MarkInit == Init => MarkIsAhead
BY DEF Init, MarkIsAhead

\* Every step keeps what happened behind the mark.
LEMMA MarkStep ==
  AgentTypeOK /\ RunShape /\ MarkIsAhead /\ [Next]_agentVars => MarkIsAhead'
<1> SUFFICES ASSUME AgentTypeOK, RunShape, MarkIsAhead, [Next]_agentVars
             PROVE  MarkIsAhead'
  OBVIOUS
<1>t. AgentTypeOK'
  BY AgentStepType
<1>s. state \in SuspendedTurn /\ stream \in StreamLocals
  BY DEF AgentTypeOK
<1>n. /\ Len(state.results) \in Nat /\ state.iteration \in Nat
      /\ state.calls \in Seq(Call) /\ state.results \in Seq(ToolResult)
  BY <1>s DEF SuspendedTurn
<1>1. CASE Ask
  <2>1. Live /\ Mark' = Mark
    BY <1>1 DEF Ask, Live, Mark, Position
  <2> QED BY <1>1, <1>t, <2>1, MarkForward DEF Ask
<1>2. CASE RunTurn
  <2>1. Live /\ Mark' = Mark
    BY <1>2 DEF RunTurn, Live, Mark, Position
  <2> QED BY <1>2, <1>t, <2>1, MarkForward DEF RunTurn
<1>3. ASSUME NEW d \in Decisions, ResumeTurn(d) PROVE MarkIsAhead'
  <2>1. Live /\ Mark = Position /\ Mark' = Position
    BY <1>3 DEF ResumeTurn, Live, Mark, Position
  <2>2. decision = "none"
    BY <1>3 DEF ResumeTurn, RunShape
  <2>3. \A x \in decided : Before(x[1], Mark)
    <3>1. \A x \in decided : x[2] \in Decisions
      BY DEF AgentTypeOK
    <3> QED BY <2>1, <2>2, <3>1 DEF MarkIsAhead, Decisions
  <2> QED BY <1>3, <2>1, <2>3 DEF ResumeTurn, MarkIsAhead
<1>4. CASE OpenSession
  <2>1. Live /\ Mark = Position
    BY <1>4 DEF OpenSession, Live, Running, Mark
  <2>2. CASE state.calls = <<>>
    <3>1. decision = "none"
      BY <1>4, <2>2 DEF OpenSession, Valid
    <3>2. Before(Mark, Mark')
      BY <1>4, <1>n, <2>1, <2>2 DEF OpenSession, Mark, Position, Before
    <3> QED BY <1>4, <1>t, <2>1, <3>1, <3>2, MarkForward DEF OpenSession
  <2>3. CASE state.calls # <<>>
    <3>1. Mark' = Mark
      BY <1>4, <2>1, <2>3 DEF OpenSession, Mark, Position
    <3> QED BY <1>4, <1>t, <2>1, <3>1, MarkForward DEF OpenSession
  <2> QED BY <2>2, <2>3
<1>5. CASE RejectCall
  <2>1. Before(Mark, Mark')
    BY <1>5, AnswerMovesMark DEF RejectCall, CallLeft
  <2>2. Live
    BY <1>5 DEF RejectCall, CallLeft, Live, Running
  <2> QED BY <1>5, <1>t, <2>1, <2>2, MarkForward DEF RejectCall, DecisionUsed
<1>6. CASE RefuseUnconfirmable
  <2>1. pc = "execute" /\ pc' = pc /\ decision' = decision /\ decision = "none"
    BY <1>6 DEF RefuseUnconfirmable, NeedsConfirmation, CallLeft, runVars
  <2>2. Before(Mark, Mark')
    BY <1>6, <2>1, AnswerMovesMark
       DEF RefuseUnconfirmable, NeedsConfirmation, CallLeft
  <2>3. Live
    BY <2>1 DEF Live, Running
  <2> QED BY <1>6, <1>t, <2>1, <2>2, <2>3, MarkForward DEF RefuseUnconfirmable
<1>7. CASE Suspend
  <2>1. Live /\ Mark' = Mark
    BY <1>7 DEF Suspend, NeedsConfirmation, CallLeft, Live, Running, Mark, Position
  <2> QED BY <1>7, <1>t, <2>1, MarkForward DEF Suspend
<1>8. ASSUME NEW returned \in BOOLEAN, CallTool(returned) PROVE MarkIsAhead'
  <2>1. pc = "execute" /\ Len(state.results) < Len(state.calls)
    BY <1>8 DEF CallTool, CallLeft
  <2>2. Live /\ Mark = Position
    BY <2>1 DEF Live, Running, Mark
  <2>3. CASE ~returned
    BY <1>8, <2>3 DEF CallTool, MarkIsAhead, Live, Running
  <2>4. CASE returned
    <3>1. pc' = pc /\ Answer("ran") /\ decision' = "none" /\ decided' = decided
      BY <1>8, <2>4 DEF CallTool, DecisionUsed
    <3>2. Before(Mark, Mark')
      BY <2>1, <3>1, AnswerMovesMark
    <3>3. Mark \in Nat \X Nat /\ Mark' \in Nat \X Nat
      BY <1>t, MarkType, MarkTypeNext
    <3>4. ASSUME NEW k \in DOMAIN ran' PROVE Before(ran'[k].position, Mark')
      <4> DEFINE entry == [position |-> Position,
                           confirm |-> catalog[PendingCall.tool] = "confirm"]
      <4>1. ran' = Append(ran, entry) /\ entry.position = Mark
        BY <1>8, <2>2 DEF CallTool
      <4>2. ran \in Seq([position: Nat \X Nat, confirm: BOOLEAN])
        BY DEF AgentTypeOK
      <4> HIDE DEF entry
      <4>3. CASE k \in DOMAIN ran
        <5>1. ran'[k] = ran[k]
          BY <4>1, <4>2, <4>3
        <5>2. Before(ran[k].position, Mark)
          BY <2>2, <4>3 DEF MarkIsAhead
        <5>3. ran[k].position \in Nat \X Nat
          BY <4>3, RanPosition
        <5> QED BY <3>2, <3>3, <5>1, <5>2, <5>3, BeforeOrder
      <4>4. CASE k \notin DOMAIN ran
        <5>1. ran'[k] = entry
          BY <4>1, <4>2, <4>4
        <5> QED BY <3>2, <4>1, <5>1
      <4> QED BY <4>3, <4>4
    <3>5. ASSUME NEW x \in decided PROVE Before(x[1], Mark')
      <4>1. x[1] \in Nat \X Nat
        BY DEF AgentTypeOK
      <4>2. Before(x[1], Mark) \/ x[1] = Mark
        BY <2>2 DEF MarkIsAhead
      <4> QED BY <3>2, <3>3, <4>1, <4>2, BeforeOrder
    <3> QED BY <3>1, <3>4, <3>5 DEF MarkIsAhead
  <2> QED BY <2>3, <2>4
<1>9. CASE FinishCalls
  <2>1. decision = "none" /\ decision' = "none"
    BY <1>9, <1>n DEF FinishCalls, RunShape
  <2>2. state'.iteration = state.iteration
    BY <1>9, <1>s, FinishCallsEffect
  <2>3. Live /\ Before(Mark, Mark')
    BY <1>9, <1>n, <2>2 DEF FinishCalls, Live, Running, Mark, Position, Before
  <2> QED BY <1>9, <1>t, <2>1, <2>3, MarkForward DEF FinishCalls
<1>10. CASE StartStream
  <2>1. state'.iteration = state.iteration + 1 /\ state'.results = <<>>
    BY <1>10, <1>s, StartStreamEffect DEF StartStream, RunShape
  <2>2. Live /\ Mark' = Mark
    BY <1>10, <2>1 DEF StartStream, Live, Running, Mark, Position
  <2> QED BY <1>10, <1>t, <2>2, MarkForward DEF StartStream
<1>11. CASE OnTextDelta
  <2>1. Live /\ Mark' = Mark
    BY <1>11 DEF OnTextDelta, Live, Running, Mark, Position
  <2> QED BY <1>11, <1>t, <2>1, MarkForward DEF OnTextDelta
<1>12. ASSUME NEW call \in Call, OnToolCall(call) PROVE MarkIsAhead'
  <2>1. Live /\ Mark' = Mark
    BY <1>12 DEF OnToolCall, Live, Running, Mark, Position
  <2> QED BY <1>12, <1>t, <2>1, MarkForward DEF OnToolCall
<1>13. ASSUME NEW reason \in FinishReasons, OnCompleted(reason) PROVE MarkIsAhead'
  <2>1. Live /\ Mark' = Mark
    BY <1>13 DEF OnCompleted, Live, Running, Mark, Position
  <2> QED BY <1>13, <1>t, <2>1, MarkForward DEF OnCompleted
<1>14. CASE FinalAnswer
  BY <1>14 DEF FinalAnswer, MarkIsAhead, Live, Running
<1>15. CASE AcceptCalls
  <2>1. state'.iteration = state.iteration /\ state'.results = <<>>
    BY <1>15, <1>s, AcceptCallsEffect
  <2>2. state.results = <<>>
    BY <1>15 DEF AcceptCalls, RunShape
  <2>3. Live /\ Mark' = Mark
    BY <1>15, <2>1, <2>2 DEF AcceptCalls, Live, Running, Mark, Position
  <2> QED BY <1>15, <1>t, <2>3, MarkForward DEF AcceptCalls
<1>16. CASE Fail
  BY <1>16 DEF Fail, MarkIsAhead, Live, Running
<1>17. ASSUME NEW failed \in BOOLEAN, Close(failed) PROVE MarkIsAhead'
  <2>1. CASE result' = "suspended"
    <3>1. Live /\ Mark' = Mark /\ decision = "none" /\ decision' = "none"
      BY <1>17, <2>1 DEF Close, RunShape, Live, Mark, Position
    <3> QED BY <1>17, <1>t, <3>1, MarkForward DEF Close
  <2>2. CASE result' # "suspended"
    BY <1>17, <2>2 DEF Close, MarkIsAhead, Live, Running
  <2> QED BY <2>1, <2>2
<1>18. CASE UNCHANGED agentVars
  BY <1>18 DEF agentVars, runVars, MarkIsAhead, Live, Mark, Position
<1> QED BY <1>1, <1>2, <1>3, <1>4, <1>5, <1>6, <1>7, <1>8, <1>9, <1>10, <1>11,
           <1>12, <1>13, <1>14, <1>15, <1>16, <1>17, <1>18
        DEF Next, Run, Execute, Iterate

-------------------------------------------------------------------------------
(* What runs *)

\* A step that runs no call and decides none changes no history.
LEMMA HistoryChanges ==
  ASSUME [Next]_agentVars
  PROVE  \/ UNCHANGED <<ran, decided>>
         \/ \E d \in Decisions : ResumeTurn(d)
         \/ \E returned \in BOOLEAN : CallTool(returned)
BY DEF Next, Run, Execute, Iterate, agentVars, runVars, Ask, RunTurn, OpenSession,
       RejectCall, RefuseUnconfirmable, Suspend, FinishCalls, StartStream,
       OnTextDelta, OnToolCall, OnCompleted, FinalAnswer, AcceptCalls, Fail, Close

\* The call that CallTool adds is at the mark, and its decision is its own.
LEMMA CallToolEffect ==
  ASSUME AgentTypeOK, MarkIsAhead, NEW returned \in BOOLEAN, CallTool(returned)
  PROVE  \E entry \in [position: Nat \X Nat, confirm: BOOLEAN] :
           /\ ran' = Append(ran, entry)
           /\ entry.position = Mark
           /\ entry.confirm => <<Mark, "approve">> \in decided
           /\ <<Mark, "reject">> \notin decided
<1> DEFINE entry == [position |-> Position,
                     confirm |-> catalog[PendingCall.tool] = "confirm"]
<1>1. Live /\ Mark = Position
  BY DEF CallTool, CallLeft, Live, Running, Mark
<1>2. ran' = Append(ran, entry)
  BY DEF CallTool
<1>3. entry \in [position: Nat \X Nat, confirm: BOOLEAN]
  BY PositionType DEF AgentTypeOK
<1>4. entry.position = Mark
  BY <1>1
<1>5. entry.confirm => decision = "approve"
  BY DEF CallTool
<1>6. decision = "approve" => <<Mark, "approve">> \in decided
  BY <1>1 DEF MarkIsAhead
<1>7. <<Mark, "reject">> \notin decided
  <2> SUFFICES ASSUME <<Mark, "reject">> \in decided PROVE FALSE
    OBVIOUS
  <2>1. Mark \in Nat \X Nat /\ decision # "reject"
    BY MarkType DEF CallTool
  <2>2. Before(Mark, Mark) \/ <<Mark, "reject">> = <<Mark, decision>>
    BY <1>1 DEF MarkIsAhead
  <2> QED BY <2>1, <2>2, BeforeOrder
<1> HIDE DEF entry
<1> QED BY <1>2, <1>3, <1>4, <1>5, <1>6, <1>7

\* A step runs a call only if it was confirmed, and confirms none that ran.
LEMMA ConfirmedStep ==
  AgentTypeOK /\ RunShape /\ MarkIsAhead /\ ConfirmedBeforeRun /\ [Next]_agentVars
    => ConfirmedBeforeRun'
<1> SUFFICES ASSUME AgentTypeOK, RunShape, MarkIsAhead, ConfirmedBeforeRun,
                    [Next]_agentVars
             PROVE  ConfirmedBeforeRun'
  OBVIOUS
<1>r. ran \in Seq([position: Nat \X Nat, confirm: BOOLEAN])
  BY DEF AgentTypeOK
<1>m. Mark \in Nat \X Nat
  BY MarkType
<1>1. CASE UNCHANGED <<ran, decided>>
  BY <1>1 DEF ConfirmedBeforeRun
<1>2. ASSUME NEW d \in Decisions, ResumeTurn(d) PROVE ConfirmedBeforeRun'
  <2>1. Live /\ Mark = Position
    BY <1>2 DEF ResumeTurn, Live, Mark
  <2>2. ran' = ran /\ decided' = decided \cup {<<Mark, d>>}
    BY <1>2, <2>1 DEF ResumeTurn
  <2>3. \A k \in DOMAIN ran : ran[k].position # Mark
    BY <1>m, <2>1, BeforeOrder DEF MarkIsAhead
  <2> QED BY <2>2, <2>3 DEF ConfirmedBeforeRun
<1>3. ASSUME NEW returned \in BOOLEAN, CallTool(returned) PROVE ConfirmedBeforeRun'
  <2>1. PICK entry \in [position: Nat \X Nat, confirm: BOOLEAN] :
           /\ ran' = Append(ran, entry)
           /\ entry.position = Mark
           /\ entry.confirm => <<Mark, "approve">> \in decided
           /\ <<Mark, "reject">> \notin decided
    BY <1>3, CallToolEffect
  <2>2. decided' = decided
    BY <1>3 DEF CallTool
  <2>3. ASSUME NEW k \in DOMAIN ran'
        PROVE  (k \in DOMAIN ran /\ ran'[k] = ran[k]) \/ ran'[k] = entry
    BY <1>r, <2>1, <2>3
  <2> QED BY <2>1, <2>2, <2>3 DEF ConfirmedBeforeRun
<1> QED BY <1>1, <1>2, <1>3, HistoryChanges

\* A call that runs comes after those that ran before it.
LEMMA OrderStep ==
  AgentTypeOK /\ MarkIsAhead /\ CallsRunOnceInOrder /\ [Next]_agentVars
    => CallsRunOnceInOrder'
<1> SUFFICES ASSUME AgentTypeOK, MarkIsAhead, CallsRunOnceInOrder, [Next]_agentVars
             PROVE  CallsRunOnceInOrder'
  OBVIOUS
<1>r. ran \in Seq([position: Nat \X Nat, confirm: BOOLEAN])
  BY DEF AgentTypeOK
<1>1. CASE UNCHANGED ran
  BY <1>1 DEF CallsRunOnceInOrder
<1>2. ASSUME NEW returned \in BOOLEAN, CallTool(returned) PROVE CallsRunOnceInOrder'
  <2>1. PICK entry \in [position: Nat \X Nat, confirm: BOOLEAN] :
           ran' = Append(ran, entry) /\ entry.position = Mark
    BY <1>2, CallToolEffect
  <2>2. \A k \in DOMAIN ran : Before(ran[k].position, Mark)
    BY <1>2 DEF CallTool, CallLeft, Live, Running, MarkIsAhead
  <2>3. ASSUME NEW j \in DOMAIN ran', NEW k \in DOMAIN ran', j < k
        PROVE  Before(ran'[j].position, ran'[k].position)
    <3>1. j \in DOMAIN ran /\ ran'[j] = ran[j]
      BY <1>r, <2>1, <2>3
    <3>2. (k \in DOMAIN ran /\ ran'[k] = ran[k]) \/ ran'[k] = entry
      BY <1>r, <2>1
    <3>3. CASE k \in DOMAIN ran /\ ran'[k] = ran[k]
      BY <2>3, <3>1, <3>3 DEF CallsRunOnceInOrder
    <3>4. CASE ran'[k] = entry
      BY <2>1, <2>2, <3>1, <3>4
    <3> QED BY <3>2, <3>3, <3>4
  <2> QED BY <2>3 DEF CallsRunOnceInOrder
<1>3. CASE \E d \in Decisions : ResumeTurn(d)
  BY <1>1, <1>3 DEF ResumeTurn
<1> QED BY <1>1, <1>2, <1>3, HistoryChanges

\* What happened lies behind the mark, in every reachable state.
THEOREM AgentMarkIsAhead == Spec => [](RunShape /\ MarkIsAhead)
<1>1. Init => RunShape /\ MarkIsAhead
  BY RunShapeInit, MarkInit
<1>2. AgentTypeOK /\ (RunShape /\ MarkIsAhead) /\ [Next]_agentVars
        => (RunShape /\ MarkIsAhead)'
  BY RunShapeStep, MarkStep
<1> QED BY <1>1, <1>2, AgentTyped, PTL DEF Spec

\* A call whose tool requires a confirmation runs only if the user approved
\* that call, and a rejected call never runs.
THEOREM AgentConfirmedBeforeRun == Spec => []ConfirmedBeforeRun
<1>1. Init => ConfirmedBeforeRun
  BY DEF Init, ConfirmedBeforeRun
<1> QED BY <1>1, ConfirmedStep, AgentTyped, AgentMarkIsAhead, PTL DEF Spec

\* The calls of a turn run in the order they were requested, none twice.
THEOREM AgentCallsRunOnceInOrder == Spec => []CallsRunOnceInOrder
<1>1. Init => CallsRunOnceInOrder
  BY DEF Init, CallsRunOnceInOrder
<1> QED BY <1>1, OrderStep, AgentTyped, AgentMarkIsAhead, PTL DEF Spec

-------------------------------------------------------------------------------
(* The limits *)

\* What a turn holds is within the limits of an iteration, and the results it
\* has so far are those of its first calls.
CallsFit ==
    /\ Len(state.calls) <= MaxToolCallsPerTurn
    /\ Len(stream.calls) <= MaxToolCallsPerTurn
    /\ \A k \in DOMAIN state.messages :
         Len(state.messages[k].calls) <= MaxToolCallsPerTurn
    /\ Len(state.results) <= Len(state.calls)
    /\ \A k \in DOMAIN state.results : state.results[k].id = state.calls[k].id
    /\ Len(state.messages) > 0 /\ state.messages[1].role = "user"

\* Each call that ran, or is left to run, was counted.
CallsCounted ==
    /\ Len(state.calls) <= state.total /\ state.total <= MaxToolCallsPerAsk
    /\ Len(ran) <= MaxToolCallsPerAsk
    /\ Live => Len(ran) + Len(state.calls) <= state.total + Len(state.results)

\* The run is between two iterations.
Fresh == pc \in {"idle", "iterate"} \/ (pc = "open" /\ state.calls = <<>>)

\* The run has calls to execute, or will when it is resumed.
Calling ==
    \/ pc \in {"execute", "suspended"}
    \/ pc = "open" /\ state.calls # <<>>
    \/ pc = "close" /\ result = "suspended"

\* Calls are requested, and a turn suspended, before the last iteration; an
\* iteration that requested calls adds two messages.
IterationsCounted ==
    /\ state.iteration <= MaxIterations
    /\ Len(state.messages) <= 2 * MaxIterations
    /\ Fresh => /\ state.iteration < MaxIterations
                /\ Len(state.messages) = 2 * state.iteration + 1
    /\ Calling => state.iteration < MaxIterations
    /\ Calling \/ pc = "stream" =>
         /\ 0 < state.iteration
         /\ Len(state.messages) = 2 * state.iteration - 1

\* How a step can change the state of the turn.
LEMMA StateChanges ==
  ASSUME AgentTypeOK, [Next]_agentVars
  PROVE  \/ UNCHANGED state
         \/ /\ pc = "execute" /\ Len(state.results) < Len(state.calls)
            /\ pc' = "execute"
            /\ \E kind \in {"ran", "rejected", "unconfirmable"} : Answer(kind)
         \/ FinishCalls \/ StartStream \/ FinalAnswer \/ AcceptCalls
<1>1. RejectCall => /\ pc = "execute" /\ Len(state.results) < Len(state.calls)
                    /\ pc' = "execute" /\ Answer("rejected")
  BY DEF RejectCall, CallLeft
<1>2. RefuseUnconfirmable =>
        /\ pc = "execute" /\ Len(state.results) < Len(state.calls)
        /\ pc' = "execute" /\ Answer("unconfirmable")
  BY DEF RefuseUnconfirmable, NeedsConfirmation, CallLeft, runVars
<1>3. \A returned \in BOOLEAN : CallTool(returned) =>
        \/ UNCHANGED state
        \/ /\ pc = "execute" /\ Len(state.results) < Len(state.calls)
           /\ pc' = "execute" /\ Answer("ran")
  BY DEF CallTool, CallLeft
<1>4. Ask \/ RunTurn \/ OpenSession \/ Suspend \/ OnTextDelta \/ Fail
        => UNCHANGED state
  BY DEF Ask, RunTurn, OpenSession, Suspend, OnTextDelta, Fail
<1>5. /\ \A d \in Decisions : ResumeTurn(d) => UNCHANGED state
      /\ \A call \in Call : OnToolCall(call) => UNCHANGED state
      /\ \A reason \in FinishReasons : OnCompleted(reason) => UNCHANGED state
      /\ \A failed \in BOOLEAN : Close(failed) => UNCHANGED state
      /\ UNCHANGED agentVars => UNCHANGED state
  BY DEF ResumeTurn, OnToolCall, OnCompleted, Close, agentVars
<1> QED BY <1>1, <1>2, <1>3, <1>4, <1>5 DEF Next, Run, Execute, Iterate

\* How a step can change the calls of the stream.
LEMMA StreamChanges ==
  ASSUME AgentTypeOK, [Next]_agentVars
  PROVE  \/ stream'.calls = stream.calls
         \/ stream'.calls = <<>>
         \/ \E call \in Call : OnToolCall(call)
<1>1. stream \in StreamLocals
  BY DEF AgentTypeOK
<1>2. OnTextDelta => stream'.calls = stream.calls
  BY <1>1 DEF OnTextDelta, StreamLocals
<1>3. \A reason \in FinishReasons : OnCompleted(reason) => stream'.calls = stream.calls
  BY <1>1 DEF OnCompleted, StreamLocals
<1>4. /\ StartStream => stream'.calls = <<>>
      /\ \A failed \in BOOLEAN : Close(failed) => stream'.calls = <<>>
  BY DEF StartStream, Close, NewStream
<1>5. /\ Ask \/ RunTurn \/ OpenSession \/ Suspend \/ RejectCall \/ RefuseUnconfirmable
           \/ FinishCalls \/ FinalAnswer \/ AcceptCalls \/ Fail => UNCHANGED stream
      /\ \A d \in Decisions : ResumeTurn(d) => UNCHANGED stream
      /\ \A returned \in BOOLEAN : CallTool(returned) => UNCHANGED stream
      /\ UNCHANGED agentVars => UNCHANGED stream
  BY DEF Ask, RunTurn, OpenSession, Suspend, RejectCall, RefuseUnconfirmable,
         FinishCalls, FinalAnswer, AcceptCalls, Fail, ResumeTurn, CallTool,
         agentVars, runVars
<1> QED BY <1>2, <1>3, <1>4, <1>5 DEF Next, Run, Execute, Iterate

\* What a sequence holds when two elements were appended.
LEMMA AppendTwo ==
  ASSUME NEW S, NEW s \in Seq(S), NEW a \in S, NEW t \in S
  PROVE  /\ Len(s \o <<a, t>>) = Len(s) + 2
         /\ \A k \in DOMAIN (s \o <<a, t>>) :
              \/ k \in DOMAIN s /\ (s \o <<a, t>>)[k] = s[k]
              \/ (s \o <<a, t>>)[k] = a
              \/ (s \o <<a, t>>)[k] = t
<1> DEFINE u == s \o <<a, t>>
<1>1. Len(u) = Len(s) + 2 /\ DOMAIN u = 1 .. Len(s) + 2
  OBVIOUS
<1>2. ASSUME NEW k \in DOMAIN u, k <= Len(s)
      PROVE  k \in DOMAIN s /\ u[k] = s[k]
  BY <1>1, <1>2
<1>3. u[Len(s) + 1] = a /\ u[Len(s) + 2] = t
  OBVIOUS
<1> HIDE DEF u
<1>4. \A k \in DOMAIN u : k <= Len(s) \/ k = Len(s) + 1 \/ k = Len(s) + 2
  BY <1>1
<1>5. Len(u) = Len(s) + 2 /\ \A k \in DOMAIN u :
        (k \in DOMAIN s /\ u[k] = s[k]) \/ u[k] = a \/ u[k] = t
  BY <1>1, <1>2, <1>3, <1>4
<1> QED BY <1>5 DEF u

\* A step keeps what the turn holds within the limits of an iteration.
LEMMA CallsFitStep ==
  AgentTypeOK /\ RunShape /\ CallsFit /\ [Next]_agentVars => CallsFit'
<1> SUFFICES ASSUME AgentTypeOK, RunShape, CallsFit, [Next]_agentVars
             PROVE  CallsFit'
  OBVIOUS
<1>s. state \in SuspendedTurn /\ stream \in StreamLocals
  BY DEF AgentTypeOK
<1>n. /\ state.calls \in Seq(Call) /\ state.results \in Seq(ToolResult)
      /\ state.messages \in Seq(Message) /\ stream.calls \in Seq(Call)
  BY <1>s DEF SuspendedTurn, StreamLocals
<1>c. MaxToolCallsPerTurn \in Nat
  BY AgentConstants
<1>1. Len(stream'.calls) <= MaxToolCallsPerTurn
  <2>1. CASE stream'.calls = stream.calls \/ stream'.calls = <<>>
    BY <2>1, <1>c DEF CallsFit
  <2>2. ASSUME NEW call \in Call, OnToolCall(call)
        PROVE  Len(stream'.calls) <= MaxToolCallsPerTurn
    <3>1. stream'.calls = Append(stream.calls, call)
      BY <2>2, <1>s DEF OnToolCall, StreamLocals
    <3>2. Len(stream.calls) < MaxToolCallsPerTurn
      BY <2>2 DEF OnToolCall
    <3> QED BY <1>n, <1>c, <3>1, <3>2
  <2> QED BY <2>1, <2>2, StreamChanges
<1>2. CASE UNCHANGED state
  BY <1>1, <1>2 DEF CallsFit
<1>3. ASSUME Len(state.results) < Len(state.calls),
             NEW kind \in {"ran", "rejected", "unconfirmable"}, Answer(kind)
      PROVE  CallsFit'
  <2> DEFINE r == [id |-> PendingCall.id, kind |-> kind]
  <2>1. /\ state'.results = Append(state.results, r)
        /\ state'.calls = state.calls /\ state'.messages = state.messages
    BY <1>3, <1>s, AnswerType
  <2>2. r.id = state.calls[Len(state.results) + 1].id
    BY DEF PendingCall
  <2> HIDE DEF r
  <2>3. Len(state'.results) <= Len(state'.calls)
    BY <1>3, <1>n, <2>1
  <2>4. \A k \in DOMAIN state'.results : state'.results[k].id = state'.calls[k].id
    BY <1>n, <2>1, <2>2 DEF CallsFit
  <2> QED BY <1>1, <2>1, <2>3, <2>4 DEF CallsFit
<1>4. CASE FinishCalls
  <2> DEFINE a == AssistantMessage(state.calls)
             t == ToolMessage(state.results)
  <2>1. /\ state'.calls = <<>> /\ state'.results = <<>>
        /\ state'.messages = state.messages \o <<a, t>>
    BY <1>4, <1>s, FinishCallsEffect
  <2>2. Len(a.calls) <= MaxToolCallsPerTurn /\ Len(t.calls) <= MaxToolCallsPerTurn
    BY <1>c DEF AssistantMessage, ToolMessage, CallsFit
  <2>3. a \in Message /\ t \in Message
    BY <1>n, MessageTypes
  <2> HIDE DEF a, t
  <2>4. /\ Len(state'.messages) = Len(state.messages) + 2
        /\ \A k \in DOMAIN state'.messages :
             \/ k \in DOMAIN state.messages /\ state'.messages[k] = state.messages[k]
             \/ state'.messages[k] = a
             \/ state'.messages[k] = t
    BY <1>n, <2>1, <2>3, AppendTwo
  <2>5. state'.messages[1] = state.messages[1]
    BY <1>n, <2>1, <2>3 DEF CallsFit
  <2>6. \A k \in DOMAIN state'.messages :
          Len(state'.messages[k].calls) <= MaxToolCallsPerTurn
    BY <2>2, <2>4 DEF CallsFit
  <2>7. Len(state'.messages) > 0
    BY <1>n, <2>4
  <2>8. Len(state'.calls) = 0 /\ Len(state'.results) = 0 /\ DOMAIN state'.results = {}
    BY <2>1
  <2>9. state'.messages[1].role = "user"
    BY <2>5 DEF CallsFit
  <2> QED BY <1>1, <1>c, <2>6, <2>7, <2>8, <2>9 DEF CallsFit
<1>5. CASE StartStream
  BY <1>1, <1>5, <1>s, StartStreamEffect DEF CallsFit
<1>6. CASE FinalAnswer
  <2> DEFINE a == AssistantMessage(<<>>)
  <2>1. /\ state'.calls = state.calls /\ state'.results = state.results
        /\ state'.messages = Append(state.messages, a)
    BY <1>6, <1>s, FinalAnswerEffect
  <2>2. Len(a.calls) <= MaxToolCallsPerTurn
    BY <1>c DEF AssistantMessage
  <2> HIDE DEF a
  <2>3. /\ Len(state'.messages) = Len(state.messages) + 1
        /\ \A k \in DOMAIN state'.messages :
             \/ k \in DOMAIN state.messages /\ state'.messages[k] = state.messages[k]
             \/ state'.messages[k] = a
        /\ state'.messages[1] = state.messages[1]
    BY <1>n, <2>1 DEF CallsFit
  <2> QED BY <1>1, <1>n, <2>1, <2>2, <2>3 DEF CallsFit
<1>7. CASE AcceptCalls
  <2>1. /\ state'.calls = stream.calls /\ state'.results = <<>>
        /\ state'.messages = state.messages
    BY <1>7, <1>s, AcceptCallsEffect
  <2> QED BY <1>1, <1>n, <2>1 DEF CallsFit
<1> QED BY <1>2, <1>3, <1>4, <1>5, <1>6, <1>7, StateChanges

\* A run that goes on after a step went on before it.
LEMMA LiveBefore == RunShape /\ [Next]_agentVars /\ Live' => Live
BY DEF RunShape, Live, Running, Next, Run, Execute, Iterate, agentVars, runVars, Ask,
       RunTurn, OpenSession, RejectCall, RefuseUnconfirmable, NeedsConfirmation,
       CallLeft, Suspend, FinishCalls, StartStream, OnTextDelta, OnToolCall,
       OnCompleted, FinalAnswer, AcceptCalls, Fail, Close, CallTool, ResumeTurn

\* A call that ran has one more result and leaves one less to run.
LEMMA OneMore ==
  \A a, b, c, d \in Nat : a + b <= c + d => (a + 1) + b <= c + (d + 1)
OBVIOUS

\* A step keeps the count of the calls.
LEMMA CallsCountedStep ==
  AgentTypeOK /\ RunShape /\ CallsFit /\ CallsCounted /\ [Next]_agentVars
    => CallsCounted'
<1> SUFFICES ASSUME AgentTypeOK, RunShape, CallsFit, CallsCounted, [Next]_agentVars
             PROVE  CallsCounted'
  OBVIOUS
<1>s. state \in SuspendedTurn /\ stream \in StreamLocals
  BY DEF AgentTypeOK
<1>n. /\ Len(state.calls) \in Nat /\ Len(state.results) \in Nat
      /\ Len(stream.calls) \in Nat /\ state.total \in Nat
      /\ state.results \in Seq(ToolResult)
      /\ MaxToolCallsPerAsk \in Nat
  BY <1>s, AgentConstants DEF SuspendedTurn, StreamLocals
<1>m. /\ Len(state.calls) \in Nat /\ Len(state.results) \in Nat
      /\ state.total \in Nat /\ Len(ran) \in Nat
  BY <1>n DEF AgentTypeOK
<1>r. ran \in Seq([position: Nat \X Nat, confirm: BOOLEAN]) /\ Len(ran) \in Nat
  BY DEF AgentTypeOK
<1>v. Live' => Live
  BY LiveBefore
<1>1. ASSUME NEW returned \in BOOLEAN, CallTool(returned) PROVE CallsCounted'
  <2>1. /\ Len(ran') = Len(ran) + 1
        /\ Live /\ Len(state.results) < Len(state.calls)
    <3>1. PICK entry \in [position: Nat \X Nat, confirm: BOOLEAN] :
            ran' = Append(ran, entry)
      <4> DEFINE entry == [position |-> Position,
                           confirm |-> catalog[PendingCall.tool] = "confirm"]
      <4>1. ran' = Append(ran, entry)
        BY <1>1 DEF CallTool
      <4>2. entry \in [position: Nat \X Nat, confirm: BOOLEAN]
        BY <1>s, PositionType
      <4> QED BY <4>1, <4>2
    <3> QED BY <1>1, <1>r, <3>1 DEF CallTool, CallLeft, Live, Running
  <2>2. Len(ran') <= MaxToolCallsPerAsk
    BY <1>n, <1>r, <2>1 DEF CallsCounted
  <2>3. CASE returned
    <3>1. /\ Len(state'.results) = Len(state.results) + 1
          /\ state'.calls = state.calls /\ state'.total = state.total
      <4>1. Answer("ran")
        BY <1>1, <2>3 DEF CallTool
      <4> QED BY <1>n, <1>s, <2>1, <4>1, AnswerType
    <3>2. Len(ran') + Len(state'.calls) <= state'.total + Len(state'.results)
      <4>1. Len(ran) + Len(state.calls) <= state.total + Len(state.results)
        BY <2>1 DEF CallsCounted
      <4>2. (Len(ran) + 1) + Len(state.calls) <= state.total + (Len(state.results) + 1)
        BY <1>m, <4>1, OneMore
      <4> QED BY <2>1, <3>1, <4>2
    <3> QED BY <1>n, <2>2, <3>1, <3>2 DEF CallsCounted
  <2>4. CASE ~returned
    <3>1. state' = state /\ ~Live'
      BY <1>1, <2>4 DEF CallTool, Live, Running
    <3> QED BY <2>2, <3>1 DEF CallsCounted
  <2> QED BY <2>3, <2>4
<1>2. CASE UNCHANGED ran
  <2>1. CASE UNCHANGED state
    BY <1>2, <1>v, <2>1 DEF CallsCounted
  <2>2. ASSUME Len(state.results) < Len(state.calls),
               NEW kind \in {"ran", "rejected", "unconfirmable"}, Answer(kind)
        PROVE  CallsCounted'
    <3>1. /\ Len(state'.results) = Len(state.results) + 1
          /\ state'.calls = state.calls /\ state'.total = state.total
      BY <1>n, <1>s, <2>2, AnswerType
    <3> QED BY <1>2, <1>n, <1>r, <1>v, <3>1 DEF CallsCounted
  <2>3. CASE FinishCalls
    <3>1. /\ state'.calls = <<>> /\ state'.results = <<>>
          /\ state'.total = state.total
          /\ Len(state.results) = Len(state.calls)
      BY <1>s, <2>3, FinishCallsEffect DEF FinishCalls
    <3>2. Len(state'.calls) = 0 /\ Len(state'.results) = 0 /\ Len(ran') = Len(ran)
      BY <1>2, <3>1
    <3>3. Len(state'.calls) <= state'.total /\ state'.total <= MaxToolCallsPerAsk
          /\ Len(ran') <= MaxToolCallsPerAsk
      BY <1>n, <3>1, <3>2 DEF CallsCounted
    <3>4. Live => Len(ran) <= state.total
      BY <1>n, <1>r, <3>1 DEF CallsCounted
    <3>5. Live' => Len(ran') + Len(state'.calls) <= state'.total + Len(state'.results)
      BY <1>n, <1>r, <1>v, <3>1, <3>2, <3>4
    <3> QED BY <3>3, <3>5 DEF CallsCounted
  <2>4. CASE StartStream \/ FinalAnswer
    <3>1. /\ state'.calls = state.calls /\ state'.results = state.results
          /\ state'.total = state.total
      BY <1>s, <2>4, StartStreamEffect, FinalAnswerEffect
    <3> QED BY <1>2, <1>n, <1>r, <1>v, <3>1 DEF CallsCounted
  <2>5. CASE AcceptCalls
    <3>1. /\ state'.calls = stream.calls /\ state'.results = <<>>
          /\ state'.total = state.total + Len(stream.calls)
      BY <1>s, <2>5, AcceptCallsEffect
    <3>2. /\ state.total + Len(stream.calls) <= MaxToolCallsPerAsk
          /\ Live /\ state.calls = <<>> /\ state.results = <<>>
      BY <2>5 DEF AcceptCalls, RunShape, Live, Running
    <3>3. Len(state'.calls) = Len(stream.calls) /\ Len(state'.results) = 0
          /\ Len(state.calls) = 0 /\ Len(state.results) = 0 /\ Len(ran') = Len(ran)
      BY <1>2, <3>1, <3>2
    <3>4. /\ Len(ran) <= MaxToolCallsPerAsk
          /\ Len(ran) + Len(state.calls) <= state.total + Len(state.results)
      BY <3>2 DEF CallsCounted
    <3>5. /\ Len(ran') <= MaxToolCallsPerAsk /\ state'.total <= MaxToolCallsPerAsk
          /\ Len(state'.calls) <= state'.total
          /\ Len(ran') + Len(state'.calls) <= state'.total + Len(state'.results)
      BY <1>n, <1>r, <3>1, <3>2, <3>3, <3>4
    <3> QED BY <3>5 DEF CallsCounted
  <2> QED BY <2>1, <2>2, <2>3, <2>4, <2>5, StateChanges
<1> QED BY <1>1, <1>2, HistoryChanges DEF ResumeTurn

\* A step that neither starts nor ends an iteration stays on the same side of
\* its calls.
LEMMA PhaseStep ==
  ASSUME AgentTypeOK, RunShape, [Next]_agentVars,
         ~(FinishCalls \/ StartStream \/ FinalAnswer \/ AcceptCalls)
  PROVE  /\ state'.iteration = state.iteration /\ state'.messages = state.messages
         /\ Fresh' => Fresh
         /\ Calling' => Calling
         /\ pc' = "stream" => pc = "stream"
<1>s. state \in SuspendedTurn
  BY DEF AgentTypeOK
<1>1. CASE UNCHANGED state
  <2>1. pc = "suspended" => state.calls # <<>>
    BY <1>s DEF RunShape, SuspendedTurn
  <2>2. Ask \/ RunTurn \/ OpenSession \/ Suspend \/ Fail \/ OnTextDelta \/ RejectCall
           \/ RefuseUnconfirmable \/ UNCHANGED agentVars
        => (Fresh' => Fresh) /\ (Calling' => Calling) /\ (pc' = "stream" => pc = "stream")
    BY <1>1 DEF Ask, RunTurn, OpenSession, Suspend, NeedsConfirmation, CallLeft, Fail,
                OnTextDelta, RejectCall, RefuseUnconfirmable, agentVars, runVars,
                RunShape, Fresh, Calling, Running
  <2>3. ASSUME NEW d \in Decisions, ResumeTurn(d)
        PROVE  (Fresh' => Fresh) /\ (Calling' => Calling) /\ (pc' = "stream" => pc = "stream")
    BY <1>1, <2>1, <2>3 DEF ResumeTurn, Fresh, Calling
  <2>4. ASSUME NEW b \in BOOLEAN, CallTool(b) \/ Close(b)
        PROVE  (Fresh' => Fresh) /\ (Calling' => Calling) /\ (pc' = "stream" => pc = "stream")
    BY <1>1, <2>4 DEF CallTool, CallLeft, Close, Fresh, Calling
  <2>5. /\ \A call \in Call : OnToolCall(call) => UNCHANGED <<pc, result>>
        /\ \A reason \in FinishReasons : OnCompleted(reason) => UNCHANGED <<pc, result>>
    BY DEF OnToolCall, OnCompleted
  <2>6. UNCHANGED <<pc, result>>
        => (Fresh' => Fresh) /\ (Calling' => Calling) /\ (pc' = "stream" => pc = "stream")
    BY <1>1 DEF Fresh, Calling
  <2> QED BY <1>1, <2>2, <2>3, <2>4, <2>5, <2>6 DEF Next, Run, Execute, Iterate
<1>2. ASSUME pc = "execute", Len(state.results) < Len(state.calls), pc' = "execute",
             NEW kind \in {"ran", "rejected", "unconfirmable"}, Answer(kind)
      PROVE  /\ state'.iteration = state.iteration
             /\ state'.messages = state.messages
             /\ ~Fresh' /\ Calling /\ pc' # "stream"
  BY <1>2, <1>s, AnswerType DEF Fresh, Calling
<1> QED BY <1>1, <1>2, StateChanges

\* A step keeps the count of the iterations and of the messages.
LEMMA IterationsCountedStep ==
  AgentTypeOK /\ RunShape /\ IterationsCounted /\ [Next]_agentVars
    => IterationsCounted'
<1> SUFFICES ASSUME AgentTypeOK, RunShape, IterationsCounted, [Next]_agentVars
             PROVE  IterationsCounted'
  OBVIOUS
<1>s. state \in SuspendedTurn
  BY DEF AgentTypeOK
<1>n. /\ state.messages \in Seq(Message) /\ Len(state.messages) \in Nat
      /\ state.iteration \in Nat /\ MaxIterations \in Nat
      /\ state.calls \in Seq(Call) /\ state.results \in Seq(ToolResult)
  BY <1>s, AgentConstants DEF SuspendedTurn
<1>1. CASE FinishCalls
  <2>1. Len(state'.messages) = Len(state.messages) + 2
    <3> DEFINE a == AssistantMessage(state.calls)
               t == ToolMessage(state.results)
    <3>1. state'.messages = state.messages \o <<a, t>>
      BY <1>1, <1>s, FinishCallsEffect
    <3>2. a \in Message /\ t \in Message
      BY <1>n, MessageTypes
    <3> HIDE DEF a, t
    <3> QED BY <1>n, <3>1, <3>2
  <2>2. state'.iteration = state.iteration
    BY <1>1, <1>s, FinishCallsEffect
  <2>3. Calling /\ Fresh' /\ ~Calling' /\ pc' # "stream"
    BY <1>1 DEF FinishCalls, Calling, Fresh
  <2>4. /\ state.iteration < MaxIterations
        /\ Len(state.messages) = 2 * state.iteration - 1
    BY <2>3 DEF IterationsCounted
  <2> QED BY <1>n, <2>1, <2>2, <2>3, <2>4 DEF IterationsCounted
<1>2. CASE StartStream
  <2>1. /\ state'.iteration = state.iteration + 1
        /\ state'.messages = state.messages
    BY <1>2, <1>s, StartStreamEffect
  <2>2. Fresh /\ ~Fresh' /\ ~Calling'
    BY <1>2 DEF StartStream, Calling, Fresh
  <2>3. /\ state.iteration + 1 <= MaxIterations /\ 0 < state.iteration + 1
        /\ Len(state.messages) = 2 * (state.iteration + 1) - 1
        /\ Len(state.messages) <= 2 * MaxIterations
    BY <1>n, <2>2 DEF IterationsCounted
  <2> QED BY <2>1, <2>2, <2>3 DEF IterationsCounted
<1>3. CASE FinalAnswer
  <2>1. Len(state'.messages) = Len(state.messages) + 1
    <3> DEFINE a == AssistantMessage(<<>>)
    <3>1. state'.messages = Append(state.messages, a)
      BY <1>3, <1>s, FinalAnswerEffect
    <3> HIDE DEF a
    <3> QED BY <1>n, <3>1
  <2>2. state'.iteration = state.iteration
    BY <1>3, <1>s, FinalAnswerEffect
  <2>3. pc = "stream" /\ ~Fresh' /\ ~Calling' /\ pc' # "stream"
    BY <1>3 DEF FinalAnswer, Calling, Fresh
  <2>4. Len(state.messages) = 2 * state.iteration - 1
    BY <2>3 DEF IterationsCounted
  <2> QED BY <1>n, <2>1, <2>2, <2>3, <2>4 DEF IterationsCounted
<1>4. CASE AcceptCalls
  <2>1. /\ state'.iteration = state.iteration
        /\ state'.messages = state.messages
    BY <1>4, <1>s, AcceptCallsEffect DEF AgentTypeOK
  <2>2. pc = "stream" /\ state.iteration # MaxIterations /\ ~Fresh' /\ pc' # "stream"
    BY <1>4 DEF AcceptCalls, Fresh
  <2> QED BY <1>n, <2>1, <2>2 DEF IterationsCounted
<1>5. CASE ~(FinishCalls \/ StartStream \/ FinalAnswer \/ AcceptCalls)
  BY <1>5, PhaseStep DEF IterationsCounted
<1> QED BY <1>1, <1>2, <1>3, <1>4, <1>5

\* Nothing is counted yet.
LEMMA LimitsInit == Init => CallsFit /\ CallsCounted /\ IterationsCounted
BY AgentConstants
   DEF Init, NewTurn, NewStream, UserMessage, CallsFit, CallsCounted,
       IterationsCounted, Fresh, Calling, Live, Running

\* What the turn holds and the counts are right in every reachable state.
THEOREM AgentCounts == Spec => [](CallsFit /\ CallsCounted /\ IterationsCounted)
BY LimitsInit, CallsFitStep, CallsCountedStep, IterationsCountedStep, AgentTyped,
   AgentMarkIsAhead, PTL DEF Spec

\* The limits of a turn hold whatever the model requests, and no suspension or
\* resumption gives it more.
THEOREM AgentLimitsHold == Spec => []LimitsHold
<1>1. CallsFit /\ CallsCounted /\ IterationsCounted => LimitsHold
  BY DEF CallsFit, CallsCounted, IterationsCounted, LimitsHold
<1> QED BY <1>1, AgentCounts, PTL

\* Every state a suspension stores passes the checks made when it is resumed.
THEOREM AgentSuspensionIsValid == Spec => []SuspensionIsValid
<1>1. AgentTypeOK /\ RunShape /\ CallsFit /\ CallsCounted /\ IterationsCounted
        => SuspensionIsValid
  <2> SUFFICES ASSUME AgentTypeOK, RunShape, CallsFit, CallsCounted,
                      IterationsCounted, pc = "suspended"
               PROVE  Valid(state)
    BY DEF SuspensionIsValid
  <2>1. /\ Len(state.calls) \in Nat /\ Len(state.results) \in Nat
        /\ state.total \in Nat /\ MaxToolCallsPerTurn \in Nat
        /\ MaxToolCallsPerAsk \in Nat
    BY AgentConstants DEF AgentTypeOK, SuspendedTurn
  <2>2. Len(state.results) < Len(state.calls)
    BY DEF RunShape
  <2>3. 0 < state.iteration /\ state.iteration < MaxIterations
    BY DEF IterationsCounted, Calling
  <2> QED BY <2>1, <2>2, <2>3 DEF CallsFit, CallsCounted, Valid
<1> QED BY <1>1, AgentTyped, AgentMarkIsAhead, AgentCounts, PTL

-------------------------------------------------------------------------------
(* What the model is told *)

\* Truthful, for given histories: what ran, what was decided, who may suspend.
TruthfulOf(r, d, may, iteration, calls, results) ==
    \A k \in DOMAIN results :
        LET executed == \E j \in DOMAIN r : r[j].position = <<iteration, k>>
        IN  /\ k \in DOMAIN calls /\ results[k].id = calls[k].id
            /\ (results[k].kind = "ran") <=> executed
            /\ (results[k].kind = "rejected")
                 <=> <<<<iteration, k>>, "reject">> \in d
            /\ results[k].kind = "unconfirmable" => ~may

\* Two histories agree on the position p.
Agree(r1, r2, d1, d2, p) ==
    /\ (\E j \in DOMAIN r1 : r1[j].position = p)
         <=> (\E j \in DOMAIN r2 : r2[j].position = p)
    /\ <<p, "reject">> \in d1 <=> <<p, "reject">> \in d2

\* Results stay truthful while nothing happens to their calls.
LEMMA TruthfulKept ==
  ASSUME NEW r1, NEW r2, NEW d1, NEW d2, NEW may1, NEW may2, NEW i, NEW cs, NEW rs,
         TruthfulOf(r1, d1, may1, i, cs, rs), may2 => may1,
         \A k \in DOMAIN rs : Agree(r1, r2, d1, d2, <<i, k>>)
  PROVE  TruthfulOf(r2, d2, may2, i, cs, rs)
BY DEF TruthfulOf, Agree

\* The results of a turn, those of its messages and those it is obtaining.
ToldOf(r, d, may, s) ==
    /\ TruthfulOf(r, d, may, s.iteration, s.calls, s.results)
    /\ \A k \in DOMAIN s.messages : s.messages[k].role = "tool" =>
         TruthfulOf(r, d, may, k \div 2, s.messages[k - 1].calls,
                    s.messages[k].results)

\* A turn that has not begun has only the message of the user.
BeginsWithUser == pc = "idle" => Len(state.messages) = 1

\* An index divided by two.
LEMMA HalfIndex ==
  /\ \A k, n \in Nat : k <= 2 * n - 1 => k \div 2 < n
  /\ \A n \in Nat : (2 * n + 1) \div 2 = n
  /\ \A k \in Nat : k \div 2 \in Nat
OBVIOUS

\* What happened, and where, in a step.
LEMMA HappensAtMark ==
  ASSUME AgentTypeOK, MarkIsAhead, [Next]_agentVars,
         ~UNCHANGED <<ran, decided>>
  PROVE  /\ Calling /\ Mark = Position
         /\ \A p : p # Mark => Agree(ran, ran', decided, decided', p)
<1>1. ASSUME NEW d \in Decisions, ResumeTurn(d)
      PROVE  /\ Calling /\ Mark = Position
             /\ \A p : p # Mark => Agree(ran, ran', decided, decided', p)
  BY <1>1 DEF ResumeTurn, Calling, Mark, Agree
<1>2. ASSUME NEW returned \in BOOLEAN, CallTool(returned)
      PROVE  /\ Calling /\ Mark = Position
             /\ \A p : p # Mark => Agree(ran, ran', decided, decided', p)
  <2>1. Calling /\ Mark = Position /\ decided' = decided
    BY <1>2 DEF CallTool, CallLeft, Calling, Mark
  <2>2. PICK entry \in [position: Nat \X Nat, confirm: BOOLEAN] :
          ran' = Append(ran, entry) /\ entry.position = Mark
    BY <1>2, CallToolEffect
  <2>3. ran \in Seq([position: Nat \X Nat, confirm: BOOLEAN])
    BY DEF AgentTypeOK
  <2>4. /\ \A j \in DOMAIN ran : j \in DOMAIN ran' /\ ran'[j] = ran[j]
        /\ \A j \in DOMAIN ran' : (j \in DOMAIN ran /\ ran'[j] = ran[j]) \/ ran'[j] = entry
    BY <2>2, <2>3
  <2>5. ASSUME NEW p, p # Mark PROVE Agree(ran, ran', decided, decided', p)
    BY <2>1, <2>2, <2>4, <2>5 DEF Agree
  <2> QED BY <2>1, <2>5
<1> QED BY <1>1, <1>2, HistoryChanges

\* What the model was told stays true whatever happens next.
LEMMA ToldKept ==
  ASSUME AgentTypeOK, RunShape, MarkIsAhead, CallsFit, IterationsCounted,
         BeginsWithUser, ModelIsToldTruth, [Next]_agentVars
  PROVE  ToldOf(ran', decided', canSuspend', state)
<1>s. state \in SuspendedTurn
  BY DEF AgentTypeOK
<1>n. /\ state.messages \in Seq(Message) /\ state.iteration \in Nat
      /\ state.results \in Seq(ToolResult)
  BY <1>s DEF SuspendedTurn
<1>0. ToldOf(ran, decided, canSuspend, state)
  BY DEF ToldOf, TruthfulOf, ModelIsToldTruth, Truthful
<1>1. CASE RunTurn
  <2>1. DOMAIN state.results = {}
    BY <1>1 DEF RunTurn, RunShape
  <2>2. \A k \in DOMAIN state.messages : state.messages[k].role # "tool"
    <3>1. Len(state.messages) = 1
      BY <1>1 DEF RunTurn, BeginsWithUser
    <3>2. \A k \in DOMAIN state.messages : k = 1
      BY <1>n, <3>1
    <3> QED BY <3>2 DEF CallsFit
  <2> QED BY <2>1, <2>2 DEF ToldOf, TruthfulOf
<1>2. CASE ~RunTurn
  <2>1. canSuspend' => canSuspend
    BY <1>2 DEF Next, Run, Execute, Iterate, agentVars, runVars, Ask, ResumeTurn,
                OpenSession, RejectCall, RefuseUnconfirmable, Suspend, CallTool,
                FinishCalls, StartStream, OnTextDelta, OnToolCall, OnCompleted,
                FinalAnswer, AcceptCalls, Fail, Close
  <2>2. CASE UNCHANGED <<ran, decided>>
    BY <1>0, <2>1, <2>2 DEF ToldOf, TruthfulOf
  <2>3. CASE ~UNCHANGED <<ran, decided>>
    <3>1. /\ Calling /\ Mark = <<state.iteration, Len(state.results) + 1>>
          /\ \A p : p # Mark => Agree(ran, ran', decided, decided', p)
      BY <2>3, HappensAtMark DEF Position
    <3>2. TruthfulOf(ran', decided', canSuspend', state.iteration, state.calls,
                     state.results)
      <4>1. \A k \in DOMAIN state.results : <<state.iteration, k>> # Mark
        BY <1>n, <3>1
      <4> QED BY <1>0, <2>1, <3>1, <4>1, TruthfulKept DEF ToldOf
    <3>3. ASSUME NEW k \in DOMAIN state.messages, state.messages[k].role = "tool"
          PROVE  TruthfulOf(ran', decided', canSuspend', k \div 2,
                            state.messages[k - 1].calls, state.messages[k].results)
      <4>1. k \in Nat /\ k <= 2 * state.iteration - 1
        BY <1>n, <3>1 DEF IterationsCounted
      <4>2. k \div 2 # state.iteration
        BY <1>n, <4>1, HalfIndex
      <4>3. \A j : <<k \div 2, j>> # Mark
        BY <3>1, <4>2
      <4>4. TruthfulOf(ran, decided, canSuspend, k \div 2,
                       state.messages[k - 1].calls, state.messages[k].results)
        BY <1>0, <3>3 DEF ToldOf
      <4> QED BY <2>1, <3>1, <4>3, <4>4, TruthfulKept
    <3> QED BY <3>2, <3>3 DEF ToldOf
  <2> QED BY <2>2, <2>3
<1> QED BY <1>1, <1>2


\* A step that answers a call does so truthfully: the new result says what
\* happened at the mark.
LEMMA AnswerIsTrue ==
  ASSUME AgentTypeOK, RunShape, MarkIsAhead, [Next]_agentVars,
         pc = "execute", pc' = "execute", ~UNCHANGED state
  PROVE  \E kind \in {"ran", "rejected", "unconfirmable"} :
           /\ Answer(kind)
           /\ (kind = "ran") <=> \E j \in DOMAIN ran' : ran'[j].position = Position
           /\ (kind = "rejected") <=> <<Position, "reject">> \in decided'
           /\ kind = "unconfirmable" => ~canSuspend'
<1>1. Live /\ Mark = Position /\ Mark \in Nat \X Nat
  BY MarkType DEF Live, Running, Mark
<1>2. \A j \in DOMAIN ran : ran[j].position # Mark
  BY <1>1, BeforeOrder DEF MarkIsAhead
<1>3. <<Mark, "reject">> \in decided <=> decision = "reject"
  <2>1. <<Mark, "reject">> \in decided => <<Mark, "reject">> = <<Mark, decision>>
    BY <1>1, BeforeOrder DEF MarkIsAhead
  <2>2. decision = "reject" => <<Mark, "reject">> \in decided
    BY <1>1 DEF MarkIsAhead
  <2> QED BY <2>1, <2>2
<1>4. CASE RejectCall
  BY <1>1, <1>2, <1>3, <1>4 DEF RejectCall
<1>5. CASE RefuseUnconfirmable
  BY <1>1, <1>2, <1>3, <1>5 DEF RefuseUnconfirmable, NeedsConfirmation, runVars
<1>6. CASE CallTool(TRUE)
  <2>1. Answer("ran") /\ decided' = decided /\ decision # "reject"
    BY <1>6 DEF CallTool
  <2>2. PICK entry \in [position: Nat \X Nat, confirm: BOOLEAN] :
          ran' = Append(ran, entry) /\ entry.position = Mark
    BY <1>6, CallToolEffect
  <2>3. ran \in Seq([position: Nat \X Nat, confirm: BOOLEAN])
    BY DEF AgentTypeOK
  <2>4. \E j \in DOMAIN ran' : ran'[j].position = Position
    <3>1. Len(ran) + 1 \in DOMAIN ran' /\ ran'[Len(ran) + 1] = entry
      BY <2>2, <2>3
    <3> QED BY <1>1, <2>2, <3>1
  <2> QED BY <1>1, <1>3, <2>1, <2>4
<1>7. RejectCall \/ RefuseUnconfirmable \/ CallTool(TRUE)
  <2>1. \A returned \in BOOLEAN : CallTool(returned) => returned = TRUE
    BY DEF CallTool
  <2>2. ~(\E returned \in BOOLEAN : Close(returned)) /\ ~(\E d \in Decisions : ResumeTurn(d))
    BY DEF Close, ResumeTurn
  <2>3. /\ ~(\E call \in Call : OnToolCall(call))
        /\ ~(\E reason \in FinishReasons : OnCompleted(reason))
    BY DEF OnToolCall, OnCompleted
  <2>4. ~(Ask \/ RunTurn \/ OpenSession \/ Suspend \/ FinishCalls \/ StartStream
          \/ OnTextDelta \/ FinalAnswer \/ AcceptCalls \/ Fail \/ UNCHANGED agentVars)
    BY DEF Ask, RunTurn, OpenSession, Suspend, FinishCalls, StartStream, OnTextDelta,
           FinalAnswer, AcceptCalls, Fail, agentVars
  <2> QED BY <2>1, <2>2, <2>3, <2>4 DEF Next, Run, Execute, Iterate
<1> QED BY <1>4, <1>5, <1>6, <1>7

\* A result joins those that are true.
LEMMA ToldAnswer ==
  ASSUME AgentTypeOK, RunShape, MarkIsAhead, CallsFit, [Next]_agentVars,
         pc = "execute", pc' = "execute", ~UNCHANGED state,
         Len(state.results) < Len(state.calls),
         ToldOf(ran', decided', canSuspend', state)
  PROVE  ToldOf(ran', decided', canSuspend', state')
<1>s. state \in SuspendedTurn
  BY DEF AgentTypeOK
<1>n. state.calls \in Seq(Call) /\ state.results \in Seq(ToolResult)
  BY <1>s DEF SuspendedTurn
<1>1. PICK kind \in {"ran", "rejected", "unconfirmable"} :
        /\ Answer(kind)
        /\ (kind = "ran") <=> \E j \in DOMAIN ran' : ran'[j].position = Position
        /\ (kind = "rejected") <=> <<Position, "reject">> \in decided'
        /\ kind = "unconfirmable" => ~canSuspend'
  BY AnswerIsTrue
<1> DEFINE r == [id |-> PendingCall.id, kind |-> kind]
           n == Len(state.results) + 1
<1>2. /\ state'.results = Append(state.results, r)
      /\ state'.calls = state.calls /\ state'.iteration = state.iteration
      /\ state'.messages = state.messages
  BY <1>1, <1>n, <1>s, AnswerType
<1>3. r.id = state.calls[n].id /\ r.kind = kind /\ n \in DOMAIN state.calls
  BY <1>n DEF PendingCall
<1>4. Position = <<state.iteration, n>>
  BY DEF Position
<1> HIDE DEF r, n
<1>5. TruthfulOf(ran', decided', canSuspend', state.iteration, state.calls,
                 state'.results)
  <2>1. TruthfulOf(ran', decided', canSuspend', state.iteration, state.calls,
                   state.results)
    BY DEF ToldOf
  <2>2. \A k \in DOMAIN state'.results :
          \/ k \in DOMAIN state.results /\ state'.results[k] = state.results[k]
          \/ k = n /\ state'.results[k] = r
    BY <1>2, <1>n DEF n
  <2> QED BY <1>1, <1>3, <1>4, <2>1, <2>2 DEF TruthfulOf
<1> QED BY <1>2, <1>5 DEF ToldOf

\* The results of an iteration become a message and stay true.
LEMMA ToldFinished ==
  ASSUME AgentTypeOK, CallsFit, IterationsCounted, FinishCalls,
         ToldOf(ran', decided', canSuspend', state)
  PROVE  ToldOf(ran', decided', canSuspend', state')
<1>s. state \in SuspendedTurn
  BY DEF AgentTypeOK
<1>n. /\ state.calls \in Seq(Call) /\ state.results \in Seq(ToolResult)
      /\ state.messages \in Seq(Message) /\ state.iteration \in Nat
  BY <1>s DEF SuspendedTurn
<1> DEFINE a == AssistantMessage(state.calls)
           t == ToolMessage(state.results)
           n == Len(state.messages)
<1>1. /\ state'.calls = <<>> /\ state'.results = <<>>
      /\ state'.iteration = state.iteration
      /\ state'.messages = state.messages \o <<a, t>>
  BY <1>s, FinishCallsEffect
<1>2. n = 2 * state.iteration - 1
  BY DEF FinishCalls, IterationsCounted, Calling
<1>3. a \in Message /\ t \in Message
  BY <1>n, MessageTypes
<1>4. a.calls = state.calls /\ t.results = state.results /\ a.role = "assistant"
  BY DEF AssistantMessage, ToolMessage
<1> HIDE DEF a, t
<1>5. /\ \A k \in DOMAIN state.messages : state'.messages[k] = state.messages[k]
      /\ state'.messages[n + 1] = a /\ state'.messages[n + 2] = t
      /\ \A k \in DOMAIN state'.messages :
           k \in DOMAIN state.messages \/ k = n + 1 \/ k = n + 2
  <2>1. n \in Nat /\ DOMAIN state.messages = 1 .. n
    BY <1>n
  <2>2. /\ DOMAIN state'.messages = 1 .. n + 2
        /\ \A k \in 1 .. n : state'.messages[k] = state.messages[k]
    BY <1>1, <1>3, <1>n, <2>1
  <2>3. state'.messages[n + 1] = a /\ state'.messages[n + 2] = t
    BY <1>1, <1>3, <1>n, <2>1
  <2>4. \A k \in 1 .. n + 2 : k \in 1 .. n \/ k = n + 1 \/ k = n + 2
    BY <2>1
  <2> HIDE DEF n
  <2> QED BY <2>1, <2>2, <2>3, <2>4
<1>6. (n + 2) \div 2 = state.iteration /\ (n + 2) - 1 = n + 1
  <2>1. n + 2 = 2 * state.iteration + 1
    BY <1>2, <1>n
  <2>2. (2 * state.iteration + 1) \div 2 = state.iteration
    BY <1>n, HalfIndex
  <2>3. (n + 2) - 1 = n + 1
    BY <1>n
  <2> QED BY <2>1, <2>2, <2>3
<1>7. ASSUME NEW k \in DOMAIN state'.messages, state'.messages[k].role = "tool"
      PROVE  TruthfulOf(ran', decided', canSuspend', k \div 2,
                        state'.messages[k - 1].calls, state'.messages[k].results)
  <2>1. CASE k \in DOMAIN state.messages
    <3>1. k # 1 /\ k \in 1 .. n
      BY <1>5, <1>7, <1>n, <2>1 DEF CallsFit
    <3>2. k - 1 \in DOMAIN state.messages
      BY <1>n, <3>1
    <3> QED BY <1>5, <1>7, <2>1, <3>2 DEF ToldOf
  <2>2. CASE k = n + 1
    BY <1>4, <1>5, <1>7, <2>2
  <2>3. CASE k = n + 2
    <3>1. state'.messages[k - 1] = a /\ state'.messages[k] = t
          /\ k \div 2 = state.iteration
      BY <1>5, <1>6, <2>3
    <3> QED BY <1>4, <3>1 DEF ToldOf
  <2> QED BY <1>5, <1>7, <2>1, <2>2, <2>3
<1>8. TruthfulOf(ran', decided', canSuspend', state'.iteration, state'.calls,
                 state'.results)
  <2>1. DOMAIN state'.results = {}
    BY <1>1
  <2> QED BY <2>1 DEF TruthfulOf
<1> QED BY <1>7, <1>8 DEF ToldOf

\* A step tells nothing but the truth.
LEMMA TruthStep ==
  ASSUME AgentTypeOK, RunShape, MarkIsAhead, CallsFit, IterationsCounted,
         BeginsWithUser, ModelIsToldTruth, [Next]_agentVars
  PROVE  ModelIsToldTruth'
<1>s. state \in SuspendedTurn /\ stream \in StreamLocals
  BY DEF AgentTypeOK
<1>n. state.messages \in Seq(Message)
  BY <1>s DEF SuspendedTurn
<1>0. ToldOf(ran', decided', canSuspend', state)
  BY ToldKept
<1>1. ToldOf(ran', decided', canSuspend', state')
  <2>1. CASE UNCHANGED state
    BY <1>0, <2>1
  <2>2. CASE /\ pc = "execute" /\ Len(state.results) < Len(state.calls)
             /\ pc' = "execute" /\ ~UNCHANGED state
    BY <1>0, <2>2, ToldAnswer
  <2>3. CASE FinishCalls
    BY <1>0, <2>3, ToldFinished
  <2>4. CASE StartStream
    <3>1. DOMAIN state.results = {}
      BY <2>4 DEF StartStream, RunShape
    <3>2. /\ state'.results = state.results /\ state'.messages = state.messages
      BY <1>s, <2>4, StartStreamEffect
    <3> QED BY <1>0, <3>1, <3>2 DEF ToldOf, TruthfulOf
  <2>5. CASE FinalAnswer
    <3>1. /\ state'.calls = state.calls /\ state'.results = state.results
          /\ state'.iteration = state.iteration
          /\ state'.messages = Append(state.messages, AssistantMessage(<<>>))
      BY <1>s, <2>5, FinalAnswerEffect
    <3>2. AssistantMessage(<<>>).role # "tool"
      BY DEF AssistantMessage
    <3>3. ASSUME NEW k \in DOMAIN state'.messages, state'.messages[k].role = "tool"
          PROVE  /\ k \in DOMAIN state.messages
                 /\ state'.messages[k] = state.messages[k]
                 /\ state'.messages[k - 1] = state.messages[k - 1]
      <4>1. /\ k \in DOMAIN state.messages
            /\ state'.messages[k] = state.messages[k]
        BY <1>n, <3>1, <3>2, <3>3
      <4>2. k # 1
        BY <3>3, <4>1 DEF CallsFit
      <4> QED BY <1>n, <3>1, <4>1, <4>2
    <3> QED BY <1>0, <3>1, <3>3 DEF ToldOf
  <2>6. CASE AcceptCalls
    <3>1. DOMAIN state'.results = {} /\ state'.messages = state.messages
      BY <1>s, <2>6, AcceptCallsEffect
    <3>2. TruthfulOf(ran', decided', canSuspend', state'.iteration, state'.calls,
                     state'.results)
      BY <3>1 DEF TruthfulOf
    <3> QED BY <1>0, <3>1, <3>2 DEF ToldOf
  <2> QED BY <2>1, <2>2, <2>3, <2>4, <2>5, <2>6, StateChanges
<1> QED BY <1>1 DEF ToldOf, TruthfulOf, ModelIsToldTruth, Truthful

\* Only a turn that has begun gets messages.
LEMMA BeginsWithUserStep ==
  ASSUME BeginsWithUser, [Next]_agentVars
  PROVE  BeginsWithUser'
BY DEF BeginsWithUser, Next, Run, Execute, Iterate, agentVars, runVars, Ask, RunTurn,
       OpenSession, RejectCall, RefuseUnconfirmable, NeedsConfirmation, CallLeft,
       Suspend, FinishCalls, StartStream, OnTextDelta, OnToolCall, OnCompleted,
       FinalAnswer, AcceptCalls, Fail, Close, CallTool, ResumeTurn

\* What the model is told of its calls is what happened to them, over any number
\* of iterations, suspensions and resumptions.
THEOREM AgentModelIsToldTruth == Spec => []ModelIsToldTruth
<1>1. Init => ModelIsToldTruth /\ BeginsWithUser
  <2> SUFFICES ASSUME Init PROVE ModelIsToldTruth /\ BeginsWithUser
    OBVIOUS
  <2>1. /\ state.messages = <<UserMessage>> /\ DOMAIN state.results = {}
        /\ UserMessage.role = "user"
    BY DEF Init, NewTurn, UserMessage
  <2> QED BY <2>1 DEF ModelIsToldTruth, Truthful, BeginsWithUser
<1>2. /\ AgentTypeOK /\ (RunShape /\ MarkIsAhead)
      /\ (CallsFit /\ CallsCounted /\ IterationsCounted)
      /\ (ModelIsToldTruth /\ BeginsWithUser) /\ [Next]_agentVars
      => (ModelIsToldTruth /\ BeginsWithUser)'
  BY TruthStep, BeginsWithUserStep
<1> QED BY <1>1, <1>2, AgentTyped, AgentMarkIsAhead, AgentCounts, PTL DEF Spec


===============================================================================
