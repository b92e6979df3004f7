---------------------------- MODULE ResponsesStream ----------------------------
(***************************************************************************)
(* The Responses adapter (internal/llm/responses/stream.go): a call of the *)
(* model is announced by up to five events of its output index, three of   *)
(* which (arguments.done, output_item.done and response.completed) carry   *)
(* it complete; whichever comes first emits it.                            *)
(*                                                                         *)
(* A step consumes one event of the stream, which is any event at any      *)
(* time: the provider is not trusted.  The arguments of a call are the     *)
(* number of their fragments received: a JSON object cut short is none, so *)
(* they are valid when there are Full of them, neither less nor more.      *)
(***************************************************************************)
EXTENDS AdapterOutput

CONSTANTS
    OutputIndexes,
    CallIDs,
    NoID,
    Full,                   \* fragments in the arguments of a call
    MaxOutput,              \* items in the final output
    MaxPendingToolCalls,
    MaxEmitted              \* bound of the model

ASSUME ResponsesConstants ==
    /\ OutputIndexes \subseteq Nat
    /\ NoID \notin CallIDs
    /\ Full \in Nat \ {0} /\ MaxOutput \in Nat
    /\ MaxPendingToolCalls \in Nat \ {0}

VARIABLES
    calls,          \* partial function from output index to pending call
    hadToolCalls,
    terminal,
    final           \* history: the indexes of calls in a completed response

adapterVars == <<calls, hadToolCalls, terminal, final>>
responsesVars == <<adapterVars, outputVars>>

-------------------------------------------------------------------------------

\* In a final output: an item that is not a function call.
Other == [id |-> NoID, arguments |-> -1]

\* A function call as an event carries it.
Item == [id: CallIDs \cup {NoID}, arguments: 0 .. Full + 1]

PendingCall == [call: Item, emitted: BOOLEAN]

Init ==
    /\ calls = <<>>
    /\ hadToolCalls = FALSE
    /\ terminal = FALSE
    /\ final = {}
    /\ OutputInit

\* Event.Validate of a call.
Valid(call) == call.id # NoID /\ call.arguments = Full

\* Bug variant: one pending call too many.
Admitted_OffByOne(i) ==
    i \in DOMAIN calls \/ Cardinality(DOMAIN calls) <= MaxPendingToolCalls

\* getOrCreateCall does not fail.
Admitted(i) == i \in DOMAIN calls \/ Cardinality(DOMAIN calls) < MaxPendingToolCalls

IsEmitted(i) == i \in DOMAIN calls /\ calls[i].emitted

\* calls with what an event makes of the call of an index.
Set(i, call, isEmitted) ==
    [j \in DOMAIN calls \cup {i} |->
       IF j = i THEN [call |-> call, emitted |-> isEmitted] ELSE calls[j]]

-------------------------------------------------------------------------------
(* Events of the stream *)

OutputItemAdded(i, item) ==
    /\ Reading
    /\ Admitted(i)
    /\ calls' = Set(i, item, IsEmitted(i))
    /\ UNCHANGED <<hadToolCalls, terminal, final, outputVars>>

ArgumentsDelta(i) ==
    /\ Reading
    /\ i \in DOMAIN calls
    /\ calls' = [calls EXCEPT ![i].call.arguments = IF @ > Full THEN @ ELSE @ + 1]
    /\ UNCHANGED <<hadToolCalls, terminal, final, outputVars>>

\* Bug variant: emits the call again.
EmitCall_Again(i, call) ==
    /\ Valid(call)
    /\ calls' = Set(i, call, TRUE)
    /\ queue' = <<ToolCall(i, call)>>
    /\ hadToolCalls' = TRUE

\* An invalid call is an error.
EmitCall(i, call) ==
    IF IsEmitted(i)
    THEN /\ calls' = Set(i, call, TRUE)
         /\ UNCHANGED <<queue, hadToolCalls>>
    ELSE /\ Valid(call)
         /\ calls' = Set(i, call, TRUE)
         /\ queue' = <<ToolCall(i, call)>>
         /\ hadToolCalls' = TRUE

\* The arguments of the event replace those received, unless they are empty.
ArgumentsDone(i, arguments) ==
    /\ Reading
    /\ i \in DOMAIN calls
    /\ LET call == calls[i].call
       IN  EmitCall(i, IF arguments = 0 THEN call
                       ELSE [call EXCEPT !.arguments = arguments])
    /\ UNCHANGED <<terminal, final, emitted, outcome>>

OutputItemDone(i, item) ==
    /\ Reading
    /\ Admitted(i)
    /\ ~IsEmitted(i)
    /\ EmitCall(i, item)
    /\ UNCHANGED <<terminal, final, emitted, outcome>>

FunctionCalls(output) == {k - 1 : k \in {n \in DOMAIN output : output[n] # Other}}

\* emitCallsFromResponse: what becomes of the call at an index of the final
\* output, those before it being pending.
CallOf(output, i) ==
    IF /\ Valid(output[i + 1])
       /\ Cardinality(DOMAIN calls \cup {j \in FunctionCalls(output) : j <= i})
            <= MaxPendingToolCalls
    THEN ToolCall(i, output[i + 1])
    ELSE Failure

\* Bug variant: looks at the pending calls only.
ResponseCompleted_PendingOnly(output) ==
    /\ Reading
    /\ Len(emitted) < MaxEmitted
    /\ terminal' = TRUE
    /\ final' = final \cup FunctionCalls(output)
    /\ queue' = <<Completed(IF hadToolCalls THEN "tool_calls" ELSE "completed")>>
    /\ UNCHANGED <<calls, hadToolCalls, emitted, outcome>>

\* The calls of the final output that no earlier event emitted are emitted now.
ResponseCompleted(output) ==
    /\ Reading
    /\ Len(emitted) < MaxEmitted
    /\ LET fresh == {i \in FunctionCalls(output) : ~IsEmitted(i)}
       IN  /\ calls' = [i \in DOMAIN calls \cup fresh |->
                          IF i \in fresh
                          THEN [call |-> output[i + 1], emitted |-> TRUE]
                          ELSE calls[i]]
           /\ hadToolCalls' = (hadToolCalls \/ fresh # {})
           /\ \E order \in Sorted(fresh) :
                queue' = Append([k \in DOMAIN order |-> CallOf(output, order[k])],
                                Completed(IF hadToolCalls' THEN "tool_calls"
                                          ELSE "completed"))
    /\ terminal' = TRUE
    /\ final' = final \cup FunctionCalls(output)
    /\ UNCHANGED <<emitted, outcome>>

ResponseIncomplete(reason) ==
    /\ Reading
    /\ Len(emitted) < MaxEmitted
    /\ terminal' = TRUE
    /\ queue' = <<Completed(reason)>>
    /\ UNCHANGED <<calls, hadToolCalls, final, emitted, outcome>>

-------------------------------------------------------------------------------
(* The callback, and the end of the stream *)

EmitNext == EmitQueued /\ UNCHANGED adapterVars

End == terminal /\ ReturnOk /\ UNCHANGED adapterVars

Fail == ReturnError /\ UNCHANGED adapterVars

Consume ==
    \/ \E i \in OutputIndexes, item \in Item :
         OutputItemAdded(i, item) \/ OutputItemDone(i, item)
    \/ \E i \in OutputIndexes : ArgumentsDelta(i)
    \/ \E i \in OutputIndexes, arguments \in 0 .. Full + 1 : ArgumentsDone(i, arguments)
    \/ \E output \in UNION {[1 .. n -> Item \cup {Other}] : n \in 0 .. MaxOutput} :
         ResponseCompleted(output)
    \/ \E reason \in {"length", "other"} : ResponseIncomplete(reason)

Next == Consume \/ EmitNext \/ End \/ Fail

Spec == Init /\ [][Next]_responsesVars

-------------------------------------------------------------------------------
(* Properties *)

(***************************************************************************)
(* Every variable has its type.                                            *)
(***************************************************************************)
ResponsesTypeOK ==
    /\ DOMAIN calls \subseteq Nat
    /\ \A i \in DOMAIN calls : calls[i] \in PendingCall
    /\ Reading => Cardinality(DOMAIN calls) <= MaxPendingToolCalls
    /\ hadToolCalls \in BOOLEAN /\ terminal \in BOOLEAN
    /\ final \subseteq Nat
    /\ outcome \in {"streaming", "ok", "error"}

(***************************************************************************)
(* Each function call of a completed response was emitted, by the first    *)
(* event that carried it complete: when the completion is emitted, the     *)
(* agent has all the calls the model wants it to run, each of them once.   *)
(***************************************************************************)
FinalCallsEmitted ==
    queue = <<>> /\ outcome # "error" =>
      \A i \in final :
        \E k \in DOMAIN emitted :
          /\ emitted[k].type = "tool_call" /\ emitted[k].slot = i
          /\ \A j \in DOMAIN emitted \ {k} :
               emitted[j].type = "tool_call" => emitted[j].slot # i

(***************************************************************************)
(* The adapter keeps the promises of Stream.  It goes on after a           *)
(* completion, so it may emit another: the agent refuses that one.         *)
(***************************************************************************)
Contract == INSTANCE ModelStream WITH
    Slots <- OutputIndexes \cup 0 .. MaxOutput - 1, Calls <- Item,
    CompletesLast <- FALSE

ResponsesContract == Contract!Spec

===============================================================================
