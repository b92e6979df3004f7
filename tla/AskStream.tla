------------------------------- MODULE AskStream -------------------------------
(***************************************************************************)
(* What one request tells its client and the audit trail (streamAgent in   *)
(* internal/api/ask.go), composed with the order in which the agent        *)
(* (internal/agent) and, for a turn of a conversation, PreparedTurn.Run    *)
(* (internal/conversation) call it back.                                   *)
(*                                                                         *)
(*   start -> model <-> calls -> calling -> called -> calls                *)
(*            model, calls, calling -> close -> finalize -> tell -> end    *)
(*                                              end -> reply -> done       *)
(*                                                                         *)
(* Every event goes through the callback of streamAgent: it is recorded,   *)
(* then written; tool_started alone is written, then recorded.  A write    *)
(* that fails stops the agent.  The request context can end at any time;   *)
(* the agent notices when it next waits for the model or the MCP server,   *)
(* the handler only at its end.  Iterations stand in for every limit of    *)
(* the agent, and a frame of the stream is one byte long.                  *)
(***************************************************************************)
EXTENDS Integers, Sequences, FiniteSets, SequencesExt

CONSTANTS
    Tools,
    NoTool,
    MaxIterations,
    MaxToolCallsPerTurn,    \* calls the model may request in one iteration
    MaxAskStreamBytes,      \* frames that fit the stream
    Tokens,                 \* what one iteration may use
    MaxInt64                \* the largest token counter

ASSUME AskConstants ==
    /\ NoTool \notin Tools
    /\ MaxIterations \in Nat \ {0} /\ MaxToolCallsPerTurn \in Nat
    /\ MaxAskStreamBytes \in Nat /\ MaxInt64 \in Nat
    /\ Tokens \subseteq 0 .. MaxInt64

VARIABLES
    kind,         \* "ask", or "turn": a turn of a conversation
    decision,     \* the user's, on the first call of a resumed turn
    pc,
    iteration,
    calls,        \* the tools of the iteration left to call
    ending,       \* how the run ends: none, completed, suspended
    err,          \* what errors.Is finds in the error of the run
    turn,         \* the stored status of the turn
    context,      \* the request context: live, canceled, expired
    stream,       \* the locals of streamAgent
    audit,        \* the audit trail of the request
    client,       \* the frames the client received whole, or the torn last one
    ran,          \* history: the tools that reached CallTool, in order
    lost          \* history: a write failed

agentVars == <<iteration, calls, ending, err, ran>>
sentVars == <<stream, audit, client, lost>>
vars == <<kind, decision, pc, agentVars, turn, context, sentVars>>

-------------------------------------------------------------------------------

StreamLocals ==
    [writeFailed: BOOLEAN, completed: BOOLEAN, active: Tools \cup {NoTool},
     toolCalls: Nat, tokens: 0 .. MaxInt64, bytes: 0 .. MaxAskStreamBytes]

\* The calls of one iteration.
IterationCalls == UNION {[1 .. n -> Tools] : n \in 1 .. MaxToolCallsPerTurn}

Init ==
    /\ pc = "start"
    /\ iteration = 1
    /\ \/ kind \in {"ask", "turn"} /\ decision = "" /\ calls = <<>>
       \/ /\ kind = "turn"          \* a suspended iteration is taken up again
          /\ decision \in {"approve", "reject"}
          /\ calls \in IterationCalls
    /\ ending = "none"
    /\ err = {}
    /\ turn = IF kind = "ask" THEN "none" ELSE "running"
    /\ context = "live"
    /\ stream = [writeFailed |-> FALSE, completed |-> FALSE, active |-> NoTool,
                 toolCalls |-> 0, tokens |-> 0, bytes |-> 0]
    /\ audit = <<>>
    /\ client = <<>>
    /\ ran = <<>>
    /\ lost = FALSE

-------------------------------------------------------------------------------
(* The callback of streamAgent *)

Event(type) == [type |-> type]
ToolStarted(tool) == [type |-> "tool_started", tool |-> tool]
ToolFinished(tool) == [type |-> "tool_finished", tool |-> tool]
Usage(tokens) == [type |-> "usage", tokens |-> tokens]

\* Bug variant: the counter wraps around.
saturatingAdd_Wraps(current, value) == (current + value) % (MaxInt64 + 1)

\* The provider reports no negative counter: llm.Event.Validate refuses it.
saturatingAdd(current, value) ==
    IF value > MaxInt64 - current THEN MaxInt64 ELSE current + value

\* recordEvent: what it does to the locals s, and what it adds to the trail.
Recorded(s, event) ==
    CASE event.type = "tool_started" ->
           [s EXCEPT !.toolCalls = @ + 1, !.active = event.tool]
      [] event.type = "tool_finished" -> [s EXCEPT !.active = NoTool]
      [] event.type = "usage" ->
           [s EXCEPT !.tokens = saturatingAdd(@, event.tokens)]
      [] event.type \in {"completed", "confirmation_required"} ->
           [s EXCEPT !.completed = TRUE]
      [] OTHER -> s

Trail(event) ==
    IF event.type \in {"text_delta", "completed"} THEN <<>> ELSE <<event>>

\* Bug variant: the size of the stream is not limited.
Emit_Unlimited(event) ==
    /\ stream' = [Recorded(stream, event) EXCEPT !.bytes = @ + 1]
    /\ audit' = audit \o Trail(event)
    /\ client' = Append(client, event)
    /\ UNCHANGED lost

\* writeSSE writes the whole frame.
Emit(event) ==
    /\ stream.bytes < MaxAskStreamBytes
    /\ stream' = [Recorded(stream, event) EXCEPT !.bytes = @ + 1]
    /\ audit' = audit \o Trail(event)
    /\ client' = Append(client, event)
    /\ UNCHANGED lost

Torn == Event("torn")

\* The frame does not fit the stream, or the write fails, maybe half-way.
WriteFails ==
    /\ lost' = TRUE
    /\ \/ UNCHANGED client
       \/ stream.bytes < MaxAskStreamBytes /\ client' = Append(client, Torn)

\* Bug variant: every event is recorded before it is written.
EmitFails_RecordsFirst(event) ==
    /\ WriteFails
    /\ audit' = audit \o Trail(event)
    /\ stream' = [Recorded(stream, event) EXCEPT !.writeFailed = TRUE]

\* The callback returns the error; tool_started was not recorded yet.
EmitFails(event) ==
    /\ WriteFails
    /\ IF event.type = "tool_started"
       THEN /\ stream' = [stream EXCEPT !.writeFailed = TRUE]
            /\ UNCHANGED audit
       ELSE /\ stream' = [Recorded(stream, event) EXCEPT !.writeFailed = TRUE]
            /\ audit' = audit \o Trail(event)

-------------------------------------------------------------------------------
(* The agent *)

\* The run returns; a deferred call closes the MCP session.
RunReturns(how, errors) ==
    /\ pc' = "close"
    /\ ending' = how
    /\ err' = errors

\* A text delta or the counters of an iteration.
ModelEvents == {Event("text_delta")} \cup {Usage(n) : n \in Tokens}

ModelEmits(event) ==
    /\ pc = "model"
    /\ \/ Emit(event) /\ UNCHANGED <<pc, ending, err>>
       \/ EmitFails(event) /\ RunReturns("none", {"other"})
    /\ UNCHANGED <<kind, decision, iteration, calls, turn, context, ran>>

\* The final answer.  PreparedTurn.Run withholds the event of a conversation.
ModelCompletes ==
    /\ pc = "model"
    /\ IF kind = "ask"
       THEN \/ Emit(Event("completed")) /\ RunReturns("completed", {})
            \/ EmitFails(Event("completed")) /\ RunReturns("none", {"other"})
       ELSE RunReturns("completed", {}) /\ UNCHANGED sentVars
    /\ UNCHANGED <<kind, decision, iteration, calls, turn, context, ran>>

\* The last iteration may request no call.
ModelCalls(tools) ==
    /\ pc = "model"
    /\ iteration < MaxIterations
    /\ calls' = tools
    /\ pc' = "calls"
    /\ UNCHANGED <<kind, decision, iteration, ending, err, ran, turn, context, sentVars>>

\* executeCalls gives a call no event when the user rejected it, or when it
\* needs a confirmation that a mere ask cannot wait for.
SkipCall ==
    /\ pc = "calls" /\ calls # <<>>
    /\ kind = "ask" \/ decision = "reject"
    /\ decision' = ""
    /\ calls' = Tail(calls)
    /\ UNCHANGED <<kind, pc, iteration, ending, err, ran, turn, context, sentVars>>

Suspend ==
    /\ pc = "calls" /\ calls # <<>>
    /\ kind = "turn" /\ decision = ""
    /\ RunReturns("suspended", {})
    /\ UNCHANGED <<kind, decision, iteration, calls, ran, turn, context, sentVars>>

StartCall ==
    /\ pc = "calls" /\ calls # <<>>
    /\ decision # "reject"
    /\ decision' = ""
    /\ LET event == ToolStarted(Head(calls))
       IN  \/ Emit(event) /\ pc' = "calling" /\ UNCHANGED <<ending, err>>
           \/ EmitFails(event) /\ RunReturns("none", {"other"})
    /\ UNCHANGED <<kind, iteration, calls, ran, turn, context>>

\* What the model, the MCP server or a context can fail with.
Failures ==
    {"other", "deadline"} \cup IF context = "canceled" THEN {"canceled"} ELSE {}

CallTool ==
    /\ pc = "calling"
    /\ ran' = Append(ran, Head(calls))
    /\ \/ pc' = "called" /\ UNCHANGED <<ending, err>>
       \/ \E e \in Failures : RunReturns("none", {e})
    /\ UNCHANGED <<kind, decision, iteration, calls, turn, context, sentVars>>

FinishCall ==
    /\ pc = "called"
    /\ LET event == ToolFinished(Head(calls))
       IN  \/ Emit(event) /\ pc' = "calls" /\ UNCHANGED <<ending, err>>
           \/ EmitFails(event) /\ RunReturns("none", {"other"})
    /\ calls' = Tail(calls)
    /\ UNCHANGED <<kind, decision, iteration, ran, turn, context>>

NextIteration ==
    /\ pc = "calls" /\ calls = <<>>
    /\ IF iteration < MaxIterations
       THEN /\ iteration' = iteration + 1 /\ pc' = "model"
            /\ UNCHANGED <<ending, err>>
       ELSE RunReturns("none", {"other"}) /\ UNCHANGED iteration
    /\ UNCHANGED <<kind, decision, calls, ran, turn, context, sentVars>>

RunFails ==
    /\ pc = "model" \/ (pc = "calls" /\ calls # <<>>)
    /\ \E e \in Failures : RunReturns("none", {e})
    /\ UNCHANGED <<kind, decision, iteration, calls, ran, turn, context, sentVars>>

\* An error of Close is joined to the result, which it does not replace.
CloseSession ==
    /\ pc = "close"
    /\ err' \in {err, err \cup {"other"}, err \cup {"deadline"}}
    /\ pc' = IF kind = "ask" THEN "end" ELSE "finalize"
    /\ UNCHANGED <<kind, decision, iteration, calls, ending, ran, turn, context, sentVars>>

-------------------------------------------------------------------------------
(* PreparedTurn.Run *)

\* The status of a turn whose run failed.
turnFailure ==
    IF context = "canceled" \/ "canceled" \in err THEN "canceled" ELSE "failed"

\* It may fail itself; its error is joined.
failTurn(status, errors) ==
    \/ turn' = status /\ err' = errors
    \/ \E e \in {"other", "deadline"} :
         turn' = turn /\ err' = errors \cup {e}

FinalizeFailed ==
    /\ pc = "finalize" /\ err # {}
    /\ failTurn(turnFailure, err)
    /\ pc' = "end"
    /\ UNCHANGED <<kind, decision, iteration, calls, ending, ran, context, sentVars>>

\* CompleteTurn or SuspendTurn, with a context of its own.
Finalize ==
    /\ pc = "finalize" /\ err = {}
    /\ \/ /\ turn' = IF ending = "completed" THEN "completed"
                     ELSE "awaiting_confirmation"
          /\ pc' = "tell"
          /\ UNCHANGED err
       \/ /\ \E e \in {"other", "deadline"} : failTurn("failed", {e})
          /\ pc' = "end"
    /\ UNCHANGED <<kind, decision, iteration, calls, ending, ran, context, sentVars>>

Tell ==
    /\ pc = "tell"
    /\ LET event == Event(IF ending = "completed" THEN "completed"
                          ELSE "confirmation_required")
       IN  \/ Emit(event) /\ UNCHANGED err
           \/ EmitFails(event) /\ err' = {"other"}
    /\ pc' = "end"
    /\ UNCHANGED <<kind, decision, iteration, calls, ending, ran, turn, context>>

-------------------------------------------------------------------------------
(* streamAgent *)

\* The response is an event stream from here on.
Start ==
    /\ pc = "start"
    /\ audit' = <<Event("started")>>
    /\ pc' = IF calls = <<>> THEN "model" ELSE "calls"
    /\ UNCHANGED <<kind, decision, agentVars, turn, context, stream, client, lost>>

\* The response cannot be streamed; the handler of a turn cancels it.
StreamingUnavailable ==
    /\ pc = "start"
    /\ audit' = <<Event("rejected")>>
    /\ turn' \in IF kind = "ask" THEN {turn} ELSE {"canceled", turn}
    /\ pc' = "done"
    /\ UNCHANGED <<kind, decision, agentVars, context, stream, client, lost>>

\* Bug variant: an error after the answer is not a failure.
askFailureCode_CompletedFirst ==
    IF stream.completed THEN ""
    ELSE IF stream.writeFailed THEN "stream_write_failed"
    ELSE IF context = "expired" \/ "deadline" \in err THEN "request_timeout"
    ELSE IF context # "live" \/ "canceled" \in err THEN "request_canceled"
    ELSE IF err # {} THEN "agent_failed"
    ELSE "agent_incomplete"

askFailureCode ==
    IF stream.writeFailed THEN "stream_write_failed"
    ELSE IF context = "expired" \/ "deadline" \in err THEN "request_timeout"
    ELSE IF context # "live" \/ "canceled" \in err THEN "request_canceled"
    ELSE IF err # {} /\ stream.completed THEN "agent_cleanup_failed"
    ELSE IF err # {} THEN "agent_failed"
    ELSE IF stream.completed THEN "" ELSE "agent_incomplete"

Terminal(code) ==
    [type |-> IF code = "" THEN "request_completed" ELSE "request_failed",
     code |-> code, toolCalls |-> stream.toolCalls, tokens |-> stream.tokens]

\* The audit of a call that was started and not finished, then of the request.
End ==
    /\ pc = "end"
    /\ LET unfinished == stream.active # NoTool
           code == IF unfinished /\ askFailureCode = "" THEN "agent_incomplete"
                   ELSE askFailureCode
       IN  audit' = audit
             \o (IF unfinished THEN <<ToolFinished(stream.active)>> ELSE <<>>)
             \o <<Terminal(code)>>
    /\ pc' = "reply"
    /\ UNCHANGED <<kind, decision, agentVars, turn, context, stream, client, lost>>

ErrorEvent ==
    [type |-> "error",
     code |-> IF "deadline" \in err THEN "request_timeout" ELSE "agent_failed"]

\* Bug variant: the error is written after a failed write too.
OwesError_AfterFailedWrite ==
    err # {} /\ ~stream.completed /\ context = "live"

OwesError ==
    err # {} /\ ~stream.completed /\ ~stream.writeFailed /\ context = "live"

\* The context is read again; an error of this write is ignored.
Reply ==
    /\ pc = "reply"
    /\ IF OwesError
       THEN \/ /\ stream.bytes < MaxAskStreamBytes
               /\ client' = Append(client, ErrorEvent)
               /\ UNCHANGED lost
            \/ WriteFails
       ELSE UNCHANGED <<client, lost>>
    /\ pc' = "done"
    /\ UNCHANGED <<kind, decision, agentVars, turn, context, stream, audit>>

\* The client went away, or its access token expired.
ContextEnds ==
    /\ context = "live" /\ pc # "done"
    /\ context' \in {"canceled", "expired"}
    /\ UNCHANGED <<kind, decision, pc, agentVars, turn, sentVars>>

Next ==
    \/ Start \/ StreamingUnavailable
    \/ \E event \in ModelEvents : ModelEmits(event)
    \/ ModelCompletes
    \/ \E tools \in IterationCalls : ModelCalls(tools)
    \/ SkipCall \/ Suspend \/ StartCall \/ CallTool \/ FinishCall
    \/ NextIteration \/ RunFails \/ CloseSession
    \/ FinalizeFailed \/ Finalize \/ Tell
    \/ End \/ Reply \/ ContextEnds

Spec == Init /\ [][Next]_vars

-------------------------------------------------------------------------------
(* Properties *)

(***************************************************************************)
(* Every variable has its type, and the stream stays within its size.      *)
(***************************************************************************)
AskTypeOK ==
    /\ kind \in {"ask", "turn"} /\ decision \in {"", "approve", "reject"}
    /\ pc \in {"start", "model", "calls", "calling", "called", "close",
               "finalize", "tell", "end", "reply", "done"}
    /\ iteration \in 1 .. MaxIterations
    /\ calls \in Seq(Tools) /\ ran \in Seq(Tools)
    /\ ending \in {"none", "completed", "suspended"}
    /\ err \subseteq {"other", "deadline", "canceled"}
    /\ turn \in {"none", "running", "completed", "awaiting_confirmation",
                 "failed", "canceled"}
    /\ context \in {"live", "canceled", "expired"}
    /\ stream \in StreamLocals
    /\ lost \in BOOLEAN

Starts(trail) == {k \in DOMAIN trail : trail[k].type = "tool_started"}
Finishes(trail) == {k \in DOMAIN trail : trail[k].type = "tool_finished"}

Ended == audit # <<>> /\ Last(audit).type \in {"request_completed", "request_failed"}

\* A call is finished before the next one starts, and a finish is the one of
\* the call that started last.
CallByCall(trail) ==
    /\ \A j, k \in Starts(trail) :
         j < k => \E f \in Finishes(trail) : j < f /\ f < k
    /\ \A f \in Finishes(trail) :
         \E k \in Starts(trail) :
           /\ k < f /\ trail[f] = ToolFinished(trail[k].tool)
           /\ \A i \in Starts(trail) \cup Finishes(trail) : i <= k \/ f <= i

\* The n-th of the tools is the one of the n-th start.
StartedInOrder(tools, trail) ==
    \A n \in DOMAIN tools :
      \E k \in Starts(trail) :
        /\ Cardinality({j \in Starts(trail) : j <= k}) = n
        /\ trail[k].tool = tools[n]

(***************************************************************************)
(* No tool is called behind the back of the audit trail: a tool that       *)
(* reaches CallTool was recorded as started before, in the same order,     *)
(* every start is followed by its own finish before the next start, and    *)
(* when the request ends each start stands for exactly one call made and   *)
(* the calls of the terminal record are those -- although tool_started is  *)
(* recorded after it is written, tool_finished before, and either write,   *)
(* the call or the whole run may fail in between.                          *)
(***************************************************************************)
EveryCallIsAudited ==
    /\ CallByCall(audit)
    /\ StartedInOrder(ran, audit)
    /\ Ended => /\ Cardinality(Starts(audit)) = Len(ran)
                /\ Cardinality(Finishes(audit)) = Len(ran)
                /\ Last(audit).toolCalls = Len(ran)

TerminalEvents == {"completed", "confirmation_required", "error"}

(***************************************************************************)
(* The client is told the end of its request once: a terminal event or a   *)
(* torn frame is the last thing it receives, and when the handler returns  *)
(* it received a terminal event unless a write failed (the stream full     *)
(* included) or the request context ended.                                 *)
(***************************************************************************)
StreamEndsOnce ==
    /\ \A k \in DOMAIN client :
         client[k].type \in TerminalEvents \cup {"torn"} => k = Len(client)
    /\ pc = "done" /\ Ended /\ ~lost /\ context = "live" =>
         client # <<>> /\ Last(client).type \in TerminalEvents

(***************************************************************************)
(* The audit trail, the client and the database agree on the end of a      *)
(* request.  A request recorded as completed told its client so, and a     *)
(* turn of a conversation is then stored as the client was told.  An error *)
(* event has the code of the record, and the turn behind it is stored      *)
(* neither completed nor waiting.  A client that was told of an answer     *)
(* finds the request recorded as failed only when the session could not be *)
(* closed, or the context ended, after it.  The agent never ends a run     *)
(* that streamAgent takes for incomplete.                                  *)
(***************************************************************************)
AuditTellsOutcome ==
    Ended =>
      LET record == Last(audit)
          told == client # <<>> /\ Last(client).type \in TerminalEvents
          heard == IF told THEN Last(client).type ELSE "none"
      IN  /\ record.code # "agent_incomplete"
          /\ record.code = "" => heard \in {"completed", "confirmation_required"}
          /\ heard = "completed" => turn \in {"none", "completed"}
          /\ heard = "confirmation_required" => turn = "awaiting_confirmation"
          /\ heard = "error" =>
               /\ record.code = Last(client).code
               /\ turn \notin {"completed", "awaiting_confirmation"}
          /\ heard \in {"completed", "confirmation_required"} =>
               \/ record.code = ""
               \/ record.code \in {"agent_cleanup_failed", "request_timeout"}
                    /\ kind = "ask"
               \/ context # "live"

\* The counters of a trail, summed up.
Used(record) == IF record.type = "usage" THEN record.tokens ELSE 0

Total(trail) ==
    LET sum[n \in 0 .. Len(trail)] ==
          IF n = 0 THEN 0 ELSE sum[n - 1] + Used(trail[n])
    IN  sum[Len(trail)]

(***************************************************************************)
(* The terminal record shows the sum of the counters the iterations        *)
(* reported, or the largest counter when the sum does not fit: it never    *)
(* wraps around, in whatever order large and small counters come.          *)
(***************************************************************************)
TokensSumOrSaturate ==
    Ended => Last(audit).tokens = IF Total(audit) > MaxInt64 THEN MaxInt64
                                  ELSE Total(audit)

===============================================================================
