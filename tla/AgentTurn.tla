------------------------------- MODULE AgentTurn -------------------------------
(***************************************************************************)
(* One user turn of the agent (internal/agent): Ask, or RunTurn with the   *)
(* suspensions and resumptions that follow it.  A run is one goroutine; it *)
(* asks the model for the next step, runs the tool calls it requests one   *)
(* after the other, and asks again with their results.                     *)
(*                                                                         *)
(*   idle -> open -> iterate -> stream -> execute -> iterate -> ...        *)
(*                                                                         *)
(* A run ends in `close': completed, suspended (state is what SuspendTurn  *)
(* stores, until ResumeTurn is called with a decision) or failed.  The     *)
(* model and the MCP server are the environment: any stream of events, any *)
(* catalog of tools at each connection, an error from any of their calls.  *)
(* Texts, arguments and the contents of results are left out.              *)
(***************************************************************************)
EXTENDS Integers, Sequences, FiniteSets

CONSTANTS
    Tools,                  \* names the model may ask for
    CallIDs,                \* call IDs the model may give
    MaxIterations,
    MaxToolCallsPerTurn,    \* calls the model may request in one iteration
    MaxToolCallsPerAsk      \* calls it may request in one turn

ASSUME AgentConstants ==
    /\ MaxIterations \in Nat \ {0}
    /\ MaxToolCallsPerTurn \in Nat \ {0}
    /\ MaxToolCallsPerAsk \in Nat \ {0}

VARIABLES
    pc,
    canSuspend,   \* RunTurn and ResumeTurn, not Ask
    decision,     \* the decision that applies to the first call left to run
    state,        \* the SuspendedTurn
    catalog,      \* what the session lists: [Tools -> Listing]
    stream,       \* the locals of the Stream callback
    result,       \* what the run will return
    ran,          \* history: the calls that reached CallTool, in order
    decided       \* history: what the user decided of which call

runVars == <<pc, canSuspend, decision, catalog, stream, result>>
agentVars == <<runVars, state, ran, decided>>

-------------------------------------------------------------------------------

Decisions == {"approve", "reject"}

\* requiresConfirmation: neither read-only nor declared not destructive.
Listing == {"absent", "free", "confirm"}

Call == [id: CallIDs, tool: Tools]

ToolResult == [id: CallIDs, kind: {"ran", "rejected", "unconfirmable"}]

Message == [role: {"user", "assistant", "tool"}, calls: Seq(Call),
            results: Seq(ToolResult)]

SuspendedTurn ==
    [messages: Seq(Message), iteration: Nat, total: Nat, calls: Seq(Call),
     results: Seq(ToolResult)]

\* Every finish reason but tool_calls is treated as "completed".
FinishReasons == {"completed", "tool_calls"}

StreamLocals ==
    [calls: Seq(Call), text: BOOLEAN, completion: FinishReasons \cup {"none"}]

Running == {"open", "iterate", "stream", "execute"}

NoCatalog == [tool \in Tools |-> "absent"]

NewStream == [calls |-> <<>>, text |-> FALSE, completion |-> "none"]

UserMessage == [role |-> "user", calls |-> <<>>, results |-> <<>>]

AssistantMessage(calls) ==
    [role |-> "assistant", calls |-> calls, results |-> <<>>]

ToolMessage(results) == [role |-> "tool", calls |-> <<>>, results |-> results]

NewTurn ==
    [messages |-> <<UserMessage>>, iteration |-> 0, total |-> 0,
     calls |-> <<>>, results |-> <<>>]

\* A call is known by the iteration that requested it and its index there.
Position == <<state.iteration, Len(state.results) + 1>>

Before(p, q) == p[1] < q[1] \/ (p[1] = q[1] /\ p[2] < q[2])

PendingCall == state.calls[Len(state.results) + 1]

Init ==
    /\ pc = "idle"
    /\ canSuspend = FALSE
    /\ decision = "none"
    /\ state = NewTurn
    /\ catalog = NoCatalog
    /\ stream = NewStream
    /\ result = "none"
    /\ ran = <<>>
    /\ decided = {}

-------------------------------------------------------------------------------
(* What a resumption requires of the state it is given *)

\* SuspendedTurn.validate
Valid(s) ==
    /\ Len(s.messages) > 0 /\ s.messages[1].role = "user"
    /\ 0 < s.iteration /\ s.iteration < MaxIterations
    /\ Len(s.calls) \in 1 .. MaxToolCallsPerTurn /\ Len(s.results) < Len(s.calls)
    /\ s.total \in Len(s.calls) .. MaxToolCallsPerAsk
    /\ \A k \in DOMAIN s.results : s.results[k].id = s.calls[k].id

\* validateToolResultSequence: one result for each call, and no ID twice.
ResultsMatch(calls, results) ==
    /\ Len(results) = Len(calls)
    /\ \A j, k \in DOMAIN calls : calls[j].id = calls[k].id => j = k
    /\ {results[k].id : k \in DOMAIN results} = {calls[k].id : k \in DOMAIN calls}

\* prepareSuspendedMessages: the user message, then complete pairs of calls and
\* results.
Resumable(messages) ==
    /\ Len(messages) % 2 = 1
    /\ messages[1].role = "user"
    /\ \A k \in DOMAIN messages : k > 1 =>
         IF k % 2 = 0
         THEN /\ messages[k].role = "assistant"
              /\ Len(messages[k].calls) \in 1 .. MaxToolCallsPerTurn
         ELSE /\ messages[k].role = "tool"
              /\ ResultsMatch(messages[k - 1].calls, messages[k].results)

-------------------------------------------------------------------------------
(* Starting a run *)

Ask ==
    /\ pc = "idle"
    /\ pc' = "open"
    /\ UNCHANGED <<canSuspend, decision, catalog, stream, result, state, ran,
                   decided>>

RunTurn ==
    /\ pc = "idle"
    /\ pc' = "open"
    /\ canSuspend' = TRUE
    /\ UNCHANGED <<decision, catalog, stream, result, state, ran, decided>>

\* Bug variant: the results obtained before the suspension are lost.
ResumeTurn_ResultsLost(d) ==
    /\ pc = "suspended"
    /\ pc' = "open"
    /\ decision' = d
    /\ decided' = decided \cup {<<Position, d>>}
    /\ state' = [state EXCEPT !.results = <<>>]
    /\ result' = "none"
    /\ UNCHANGED <<canSuspend, catalog, stream, ran>>

\* ClaimConfirmation gave the stored state to this run alone.
ResumeTurn(d) ==
    /\ pc = "suspended"
    /\ pc' = "open"
    /\ decision' = d
    /\ decided' = decided \cup {<<Position, d>>}
    /\ result' = "none"
    /\ UNCHANGED <<canSuspend, catalog, stream, state, ran>>

\* connectMCP and ListTools; a resumed state is validated before.
OpenSession ==
    /\ pc = "open"
    /\ decision # "none" => Valid(state) /\ Resumable(state.messages)
    /\ \E listed \in [Tools -> Listing] : catalog' = listed
    /\ pc' = IF state.calls = <<>> THEN "iterate" ELSE "execute"
    /\ UNCHANGED <<canSuspend, decision, stream, result, state, ran, decided>>

-------------------------------------------------------------------------------
(* executeCalls: one call *)

CallLeft ==
    /\ pc = "execute"
    /\ Len(state.results) < Len(state.calls)
    /\ catalog[PendingCall.tool] # "absent"

Answer(kind) ==
    state' = [state EXCEPT !.results =
                Append(@, [id |-> PendingCall.id, kind |-> kind])]

\* Bug variant: the decision applies to every call left.
DecisionUsed_Kept == decision' = decision

\* The decision is used up by the first call.
DecisionUsed == decision' = "none"

\* Bug variant: a rejection is good for the calls that follow.
RejectCall_KeepsDecision ==
    /\ CallLeft
    /\ decision = "reject"
    /\ Answer("rejected")
    /\ UNCHANGED <<runVars, ran, decided>>

RejectCall ==
    /\ CallLeft
    /\ decision = "reject"
    /\ Answer("rejected")
    /\ DecisionUsed
    /\ UNCHANGED <<pc, canSuspend, catalog, stream, result, ran, decided>>

NeedsConfirmation ==
    /\ CallLeft
    /\ decision = "none"
    /\ catalog[PendingCall.tool] = "confirm"

RefuseUnconfirmable ==
    /\ NeedsConfirmation
    /\ ~canSuspend
    /\ Answer("unconfirmable")
    /\ UNCHANGED <<runVars, ran, decided>>

Suspend ==
    /\ NeedsConfirmation
    /\ canSuspend
    /\ pc' = "close"
    /\ result' = "suspended"
    /\ UNCHANGED <<canSuspend, decision, catalog, stream, state, ran, decided>>

\* CallTool returned a result, or an error (from the tool session or from the
\* consumer of the events around it) that fails the run.
CallTool(returned) ==
    /\ CallLeft
    /\ \/ decision = "approve"
       \/ decision = "none" /\ catalog[PendingCall.tool] = "free"
    /\ ran' = Append(ran, [position |-> Position,
                           confirm |-> catalog[PendingCall.tool] = "confirm"])
    /\ DecisionUsed
    /\ IF returned
       THEN Answer("ran") /\ UNCHANGED <<pc, result>>
       ELSE pc' = "close" /\ result' = "failed" /\ UNCHANGED state
    /\ UNCHANGED <<canSuspend, catalog, stream, decided>>

\* Every call has its result: the two messages join the turn.
FinishCalls ==
    /\ pc = "execute"
    /\ Len(state.results) = Len(state.calls)
    /\ state' = [state EXCEPT
         !.messages = @ \o <<AssistantMessage(state.calls),
                             ToolMessage(state.results)>>,
         !.calls = <<>>, !.results = <<>>]
    /\ pc' = "iterate"
    /\ UNCHANGED <<canSuspend, decision, catalog, stream, result, ran, decided>>

-------------------------------------------------------------------------------
(* One model iteration *)

StartStream ==
    /\ pc = "iterate"
    /\ state.iteration < MaxIterations
    /\ state' = [state EXCEPT !.iteration = @ + 1]
    /\ stream' = NewStream
    /\ pc' = "stream"
    /\ UNCHANGED <<canSuspend, decision, catalog, result, ran, decided>>

\* The callback accepts an event; it returns an error for a call too many and
\* for a second completion, and nothing else constrains the order.
OnTextDelta ==
    /\ pc = "stream"
    /\ ~stream.text
    /\ stream' = [stream EXCEPT !.text = TRUE]
    /\ UNCHANGED <<pc, canSuspend, decision, catalog, result, state, ran, decided>>

OnToolCall(call) ==
    /\ pc = "stream"
    /\ Len(stream.calls) < MaxToolCallsPerTurn
    /\ stream' = [stream EXCEPT !.calls = Append(@, call)]
    /\ UNCHANGED <<pc, canSuspend, decision, catalog, result, state, ran, decided>>

OnCompleted(reason) ==
    /\ pc = "stream"
    /\ stream.completion = "none"
    /\ stream' = [stream EXCEPT !.completion = reason]
    /\ UNCHANGED <<pc, canSuspend, decision, catalog, result, state, ran, decided>>

\* Stream returned without error, and with an answer.
FinalAnswer ==
    /\ pc = "stream"
    /\ stream.completion = "completed"
    /\ stream.calls = <<>> /\ stream.text
    /\ state' = [state EXCEPT !.messages = Append(@, AssistantMessage(<<>>))]
    /\ result' = "completed"
    /\ pc' = "close"
    /\ UNCHANGED <<canSuspend, decision, catalog, stream, ran, decided>>

\* Bug variant: counts the calls that are left.
AcceptCalls_CountsDown ==
    /\ pc = "stream"
    /\ stream.calls # <<>>
    /\ state' = [state EXCEPT !.total = @ - Len(stream.calls),
                              !.calls = stream.calls]
    /\ pc' = "execute"
    /\ UNCHANGED <<canSuspend, decision, catalog, stream, result, ran, decided>>

\* Bug variant: the count of calls starts again with each iteration.
AcceptCalls_CountsIteration ==
    /\ pc = "stream"
    /\ stream.calls # <<>>
    /\ state.iteration # MaxIterations
    /\ Len(stream.calls) <= MaxToolCallsPerAsk
    /\ state' = [state EXCEPT !.total = Len(stream.calls),
                              !.calls = stream.calls]
    /\ pc' = "execute"
    /\ UNCHANGED <<canSuspend, decision, catalog, stream, result, ran, decided>>

\* Bug variant: calls are still accepted in the last iteration.
AcceptCalls_LastIteration ==
    /\ pc = "stream"
    /\ stream.calls # <<>>
    /\ state.total + Len(stream.calls) <= MaxToolCallsPerAsk
    /\ state' = [state EXCEPT !.total = @ + Len(stream.calls),
                              !.calls = stream.calls]
    /\ pc' = "execute"
    /\ UNCHANGED <<canSuspend, decision, catalog, stream, result, ran, decided>>

\* Stream returned without error, and with calls that are within the limits.
AcceptCalls ==
    /\ pc = "stream"
    /\ stream.completion = "tool_calls"
    /\ stream.calls # <<>>
    /\ state.total + Len(stream.calls) <= MaxToolCallsPerAsk
    /\ state.iteration # MaxIterations
    /\ \A k \in DOMAIN stream.calls : catalog[stream.calls[k].tool] # "absent"
    /\ state' = [state EXCEPT !.total = @ + Len(stream.calls),
                              !.calls = stream.calls, !.results = <<>>]
    /\ pc' = "execute"
    /\ UNCHANGED <<canSuspend, decision, catalog, stream, result, ran, decided>>

-------------------------------------------------------------------------------
(* The end of a run *)

\* An error return: a check above refused, the model or the MCP server failed,
\* the consumer of the events is gone, or the deadline of the run passed.
Fail ==
    /\ pc \in Running
    /\ pc' = "close"
    /\ result' = "failed"
    /\ UNCHANGED <<canSuspend, decision, catalog, stream, state, ran, decided>>

\* The deferred Close of the session; its error joins a nil error.
Close(failed) ==
    /\ pc = "close"
    /\ result' = IF failed THEN "failed" ELSE result
    /\ pc' = IF result' = "suspended" THEN "suspended" ELSE "returned"
    /\ decision' = "none"
    /\ catalog' = NoCatalog
    /\ stream' = NewStream
    /\ UNCHANGED <<canSuspend, state, ran, decided>>

Execute ==
    \/ RejectCall \/ RefuseUnconfirmable \/ Suspend \/ FinishCalls
    \/ \E returned \in BOOLEAN : CallTool(returned)

Iterate ==
    \/ StartStream \/ OnTextDelta \/ FinalAnswer \/ AcceptCalls
    \/ \E call \in Call : OnToolCall(call)
    \/ \E reason \in FinishReasons : OnCompleted(reason)

Run ==
    \/ OpenSession \/ Execute \/ Iterate \/ Fail
    \/ \E failed \in BOOLEAN : Close(failed)

Next ==
    \/ Ask \/ RunTurn
    \/ \E d \in Decisions : ResumeTurn(d)
    \/ Run

Spec == Init /\ [][Next]_agentVars

-------------------------------------------------------------------------------
(* Properties *)

(***************************************************************************)
(* Every variable has its type.                                            *)
(***************************************************************************)
AgentTypeOK ==
    /\ pc \in Running \cup {"idle", "close", "suspended", "returned"}
    /\ canSuspend \in BOOLEAN
    /\ decision \in Decisions \cup {"none"}
    /\ state \in SuspendedTurn
    /\ catalog \in [Tools -> Listing]
    /\ stream \in StreamLocals
    /\ result \in {"none", "completed", "suspended", "failed"}
    /\ ran \in Seq([position: Nat \X Nat, confirm: BOOLEAN])
    /\ decided \subseteq (Nat \X Nat) \X Decisions

(***************************************************************************)
(* A call whose tool requires a confirmation runs only if the user         *)
(* approved that very call, and a call the user rejected never runs: an    *)
(* approval is good for one call, whatever other calls the model requested *)
(* with it or later, and whatever the catalog lists after a resumption.    *)
(***************************************************************************)
ConfirmedBeforeRun ==
    \A k \in DOMAIN ran :
        /\ ran[k].confirm => <<ran[k].position, "approve">> \in decided
        /\ <<ran[k].position, "reject">> \notin decided

(***************************************************************************)
(* The calls of a turn run in the order the model requested them and none  *)
(* twice, although a turn that is resumed walks through calls that partly  *)
(* ran before it was suspended.                                            *)
(***************************************************************************)
CallsRunOnceInOrder ==
    \A j, k \in DOMAIN ran : j < k => Before(ran[j].position, ran[k].position)

(***************************************************************************)
(* What the model is told of each call is what happened to it: a result    *)
(* that reads as executed was, one that reads as rejected or unconfirmable *)
(* was not, and the user rejected it or could not be asked; and each       *)
(* result carries the ID of its call.                                      *)
(***************************************************************************)
Truthful(iteration, calls, results) ==
    \A k \in DOMAIN results :
        LET executed == \E j \in DOMAIN ran : ran[j].position = <<iteration, k>>
        IN  /\ k \in DOMAIN calls /\ results[k].id = calls[k].id
            /\ (results[k].kind = "ran") <=> executed
            /\ (results[k].kind = "rejected")
                 <=> <<<<iteration, k>>, "reject">> \in decided
            /\ results[k].kind = "unconfirmable" => ~canSuspend

ModelIsToldTruth ==
    /\ Truthful(state.iteration, state.calls, state.results)
    /\ \A k \in DOMAIN state.messages : state.messages[k].role = "tool" =>
         Truthful(k \div 2, state.messages[k - 1].calls, state.messages[k].results)

(***************************************************************************)
(* The limits hold for the turn as a whole: neither a suspension nor a     *)
(* resumption gives the model new iterations or new calls.                 *)
(***************************************************************************)
LimitsHold ==
    /\ Len(ran) <= MaxToolCallsPerAsk
    /\ state.iteration <= MaxIterations
    /\ Len(state.messages) <= 2 * MaxIterations
    /\ \A k \in DOMAIN state.messages :
         Len(state.messages[k].calls) <= MaxToolCallsPerTurn

(***************************************************************************)
(* What a suspension stores passes the checks SuspendedTurn.validate makes *)
(* when the turn is resumed.                                               *)
(***************************************************************************)
SuspensionIsValid == pc = "suspended" => Valid(state)

(***************************************************************************)
(* The comment on SuspendedTurn says that it holds everything RunTurn      *)
(* needs to resume, and docs/webapp.md that an approved call runs: the     *)
(* messages of a suspended turn must pass prepareSuspendedMessages too.    *)
(***************************************************************************)
SuspensionIsResumable == pc = "suspended" => Resumable(state.messages)

===============================================================================
