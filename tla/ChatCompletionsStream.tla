------------------------- MODULE ChatCompletionsStream -------------------------
(***************************************************************************)
(* The Chat Completions adapter (internal/llm/chatcompletions/stream.go):  *)
(* the calls of the model come in pieces, each with the index of its call; *)
(* they are put together until the finish reason, and emitted then, in the *)
(* order of their indexes.  [DONE] completes the stream.                   *)
(*                                                                         *)
(* A step consumes one part of a chunk, any part at any time: the provider *)
(* is not trusted.  A chunk with several parts is several steps; one that  *)
(* fails ends the stream.  The name of a call behaves as its ID and is     *)
(* left out; its arguments are the sequence of their fragments.            *)
(***************************************************************************)
EXTENDS AdapterOutput

CONSTANTS
    Indexes,                \* of the calls
    CallIDs,
    Fragments,              \* of arguments
    Empty,                  \* a field that is absent or empty
    MaxPendingToolCalls,
    MaxDeltas               \* bound of the model

ASSUME ChatConstants ==
    /\ Indexes \subseteq Nat
    /\ Empty \notin CallIDs \cup Fragments
    /\ MaxPendingToolCalls \in Nat \ {0}
    /\ MaxDeltas \in Nat

VARIABLES
    calls,          \* partial function from index to pending call
    finishReason,   \* "none" until the stream is finished
    done,
    received        \* history: the deltas accepted, in order

adapterVars == <<calls, finishReason, done, received>>
chatVars == <<adapterVars, outputVars>>

-------------------------------------------------------------------------------

Types == {"function", "custom", Empty}

Delta == [index: Indexes, id: CallIDs \cup {Empty}, type: Types,
          fragment: Fragments \cup {Empty}]

PendingCall == [id: CallIDs \cup {Empty}, type: Types, arguments: Seq(Fragments)]

NewCall == [id |-> Empty, type |-> Empty, arguments |-> <<>>]

Init ==
    /\ calls = <<>>
    /\ finishReason = "none"
    /\ done = FALSE
    /\ received = <<>>
    /\ OutputInit

finished == finishReason # "none"

-------------------------------------------------------------------------------
(* Parts of a chunk *)

\* setStableField accepts the value.
Stable(target, value) == value = Empty \/ target = Empty \/ target = value

SetStable(target, value) == IF value = Empty THEN target ELSE value

\* Bug variant: one pending call too many.
Admitted_OffByOne(i) ==
    i \in DOMAIN calls \/ Cardinality(DOMAIN calls) <= MaxPendingToolCalls

Admitted(i) == i \in DOMAIN calls \/ Cardinality(DOMAIN calls) < MaxPendingToolCalls

\* consumeToolDelta, in a choice that comes before the finish reason.
ConsumeToolDelta(delta) ==
    LET i == delta.index
        call == IF i \in DOMAIN calls THEN calls[i] ELSE NewCall
    IN  /\ Reading /\ ~done /\ ~finished
        /\ Len(received) < MaxDeltas
        /\ Admitted(i)
        /\ Stable(call.id, delta.id) /\ Stable(call.type, delta.type)
        /\ calls' = [j \in DOMAIN calls \cup {i} |->
             IF j # i THEN calls[j]
             ELSE [id |-> SetStable(call.id, delta.id),
                   type |-> SetStable(call.type, delta.type),
                   arguments |-> IF delta.fragment = Empty THEN call.arguments
                                 ELSE Append(call.arguments, delta.fragment)]]
        /\ received' = Append(received, delta)
        /\ UNCHANGED <<finishReason, done, outputVars>>

\* What is emitted of a call.
Identified(call) == [id |-> call.id, arguments |-> call.arguments]

\* emitToolCalls; a call without ID, of another type than function or without
\* arguments is an error.
CallOf(i) ==
    LET call == calls[i]
    IN  IF call.type = "function" /\ call.id # Empty /\ call.arguments # <<>>
        THEN ToolCall(i, Identified(call))
        ELSE Failure

CallsToEmit == {[k \in DOMAIN order |-> CallOf(order[k])] : order \in Sorted(DOMAIN calls)}

\* Bug variant: pending calls are left behind.
Finish_DropsCalls(reason) ==
    /\ Reading /\ ~done /\ ~finished
    /\ reason = "tool_calls" => DOMAIN calls # {}
    /\ queue' \in IF reason = "tool_calls" THEN CallsToEmit ELSE {<<>>}
    /\ finishReason' = reason
    /\ UNCHANGED <<calls, done, received, emitted, outcome>>

\* A finish reason, which must agree with the calls.
Finish(reason) ==
    /\ Reading /\ ~done /\ ~finished
    /\ (reason = "tool_calls") <=> (DOMAIN calls # {})
    /\ queue' \in IF reason = "tool_calls" THEN CallsToEmit ELSE {<<>>}
    /\ finishReason' = reason
    /\ UNCHANGED <<calls, done, received, emitted, outcome>>

\* Bug variant: a second [DONE] completes the stream again.
Complete_Again ==
    /\ Reading
    /\ finished
    /\ Len(emitted) <= MaxDeltas
    /\ queue' = <<Completed(finishReason)>>
    /\ done' = TRUE
    /\ UNCHANGED <<calls, finishReason, received, emitted, outcome>>

\* complete: the [DONE] marker.
Complete ==
    /\ Reading
    /\ ~done
    /\ finished
    /\ queue' = <<Completed(finishReason)>>
    /\ done' = TRUE
    /\ UNCHANGED <<calls, finishReason, received, emitted, outcome>>

-------------------------------------------------------------------------------
(* The callback, and the end of the stream *)

EmitNext == EmitQueued /\ UNCHANGED adapterVars

End == done /\ ReturnOk /\ UNCHANGED adapterVars

Fail == ReturnError /\ UNCHANGED adapterVars

Next ==
    \/ \E delta \in Delta : ConsumeToolDelta(delta)
    \/ \E reason \in {"completed", "tool_calls", "length", "other"} : Finish(reason)
    \/ Complete \/ EmitNext \/ End \/ Fail

Spec == Init /\ [][Next]_chatVars

-------------------------------------------------------------------------------
(* Properties *)

(***************************************************************************)
(* Every variable has its type.                                            *)
(***************************************************************************)
ChatTypeOK ==
    /\ DOMAIN calls \subseteq Indexes
    /\ Cardinality(DOMAIN calls) <= MaxPendingToolCalls
    /\ \A i \in DOMAIN calls : calls[i] \in PendingCall
    /\ finishReason \in {"none", "completed", "tool_calls", "length", "other"}
    /\ done \in BOOLEAN
    /\ received \in Seq(Delta)
    /\ outcome \in {"streaming", "ok", "error"}

(***************************************************************************)
(* A call is emitted as it was streamed, whatever the order in which the   *)
(* pieces of several calls arrive: the only ID its pieces carry, and the   *)
(* fragments of its arguments, all of them, in order.  The calls come in   *)
(* the order of their indexes, and when the stream is completed none of    *)
(* those that were streamed is missing.                                    *)
(***************************************************************************)
Pieces(i) == {n \in DOMAIN received : received[n].index = i}

AsStreamed(slot, call) ==
    /\ {received[n].id : n \in Pieces(slot)} \ {Empty} = {call.id}
    /\ \E order \in Sorted({n \in Pieces(slot) : received[n].fragment # Empty}) :
         call.arguments = [k \in DOMAIN order |-> received[order[k]].fragment]

CallsAsStreamed ==
    LET called == {k \in DOMAIN emitted : emitted[k].type = "tool_call"}
        indexes == {received[k].index : k \in DOMAIN received}
    IN  /\ \A k \in called : AsStreamed(emitted[k].slot, emitted[k].call)
        /\ \A j, k \in called : j < k => emitted[j].slot < emitted[k].slot
        /\ outcome = "ok" => indexes = {emitted[k].slot : k \in called}

(***************************************************************************)
(* The adapter keeps the promises of Stream, and the completion is last.   *)
(***************************************************************************)
Contract == INSTANCE ModelStream WITH
    Slots <- Indexes, CompletesLast <- TRUE,
    Calls <- [id: CallIDs,
              arguments: UNION {[1 .. n -> Fragments] : n \in 0 .. MaxDeltas}]

ChatContract == Contract!Spec

===============================================================================
