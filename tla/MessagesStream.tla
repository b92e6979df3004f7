----------------------------- MODULE MessagesStream ----------------------------
(***************************************************************************)
(* The Messages adapter (internal/llm/messages/stream.go): the response is *)
(* a sequence of content blocks, one open at a time.  Text is emitted as   *)
(* it comes; the calls, their blocks being tool_use, and the completion    *)
(* only once the stream has ended and was validated as a whole.            *)
(*                                                                         *)
(* A step consumes one event of the stream, any event at any time: the     *)
(* provider is not trusted.  As in ResponsesStream, arguments are valid    *)
(* when Full of their fragments were received; a block may also carry them *)
(* in its start (input "full") instead of an empty object (input "empty"). *)
(* Text and token usage are left out.                                      *)
(***************************************************************************)
EXTENDS AdapterOutput

CONSTANTS
    CallIDs,
    Full,
    MaxContentBlocks,
    MaxToolCalls

ASSUME MessagesConstants ==
    /\ Full \in Nat \ {0}
    /\ MaxContentBlocks \in Nat
    /\ MaxToolCalls \in Nat

VARIABLES
    phase,          \* started, finishing, stopped and then complete()
    blocks,
    callIDs,
    stopReason

adapterVars == <<phase, blocks, callIDs, stopReason>>
messagesVars == <<adapterVars, outputVars>>

-------------------------------------------------------------------------------

\* A text block has no ID; the partial field counts fragments of arguments.
TextBlock == [type: {"text"}, closed: BOOLEAN]

ToolBlock == [type: {"tool_use"}, id: CallIDs, input: {"empty", "full"},
              partial: 0 .. Full + 1, closed: BOOLEAN]

\* A reason the agent does not tell from these is left out; pause_turn is a turn
\* the provider wants continued.
StopReasons == {"end_turn", "tool_use", "max_tokens", "pause_turn"}

MapFinishReason(reason) ==
    CASE reason = "end_turn"   -> "completed"
      [] reason = "tool_use"   -> "tool_calls"
      [] reason = "max_tokens" -> "length"
      [] OTHER                 -> "other"

ToolBlocks == {k \in DOMAIN blocks : blocks[k].type = "tool_use"}

LastClosed == blocks # <<>> => blocks[Len(blocks)].closed

Init ==
    /\ phase = "new"
    /\ blocks = <<>>
    /\ callIDs = {}
    /\ stopReason = "none"
    /\ OutputInit

-------------------------------------------------------------------------------
(* Events of the stream *)

MessageStart ==
    /\ Reading
    /\ phase = "new"
    /\ phase' = "started"
    /\ UNCHANGED <<blocks, callIDs, stopReason, outputVars>>

\* Bug variant: one block too many.
StartsBlock_OffByOne ==
    /\ Reading
    /\ phase = "started"
    /\ Len(blocks) <= MaxContentBlocks
    /\ LastClosed

StartsBlock ==
    /\ Reading
    /\ phase = "started"
    /\ Len(blocks) < MaxContentBlocks
    /\ LastClosed

StartText ==
    /\ StartsBlock
    /\ blocks' = Append(blocks, [type |-> "text", closed |-> FALSE])
    /\ UNCHANGED <<phase, callIDs, stopReason, outputVars>>

\* Bug variant: IDs are not compared.
StartToolUse_AnyID(id, input) ==
    /\ StartsBlock
    /\ Cardinality(ToolBlocks) < MaxToolCalls
    /\ callIDs' = callIDs \cup {id}
    /\ blocks' = Append(blocks, [type |-> "tool_use", id |-> id, input |-> input,
                                 partial |-> 0, closed |-> FALSE])
    /\ UNCHANGED <<phase, stopReason, outputVars>>

StartToolUse(id, input) ==
    /\ StartsBlock
    /\ Cardinality(ToolBlocks) < MaxToolCalls
    /\ id \notin callIDs
    /\ callIDs' = callIDs \cup {id}
    /\ blocks' = Append(blocks, [type |-> "tool_use", id |-> id, input |-> input,
                                 partial |-> 0, closed |-> FALSE])
    /\ UNCHANGED <<phase, stopReason, outputVars>>

\* The event names a block that is open.
InBlock(k) ==
    /\ Reading
    /\ phase = "started"
    /\ k \in DOMAIN blocks
    /\ ~blocks[k].closed

\* Arguments come either with the start of the block or in its deltas.
InputDelta(k) ==
    /\ InBlock(k)
    /\ blocks[k].type = "tool_use"
    /\ blocks[k].input = "empty"
    /\ blocks' = [blocks EXCEPT ![k].partial = IF @ > Full THEN @ ELSE @ + 1]
    /\ UNCHANGED <<phase, callIDs, stopReason, outputVars>>

\* Bug variant: a call is emitted when its block ends.
BlockStop_Emits(k) ==
    /\ InBlock(k)
    /\ blocks' = [blocks EXCEPT ![k].closed = TRUE]
    /\ queue' = IF blocks[k].type = "tool_use"
                THEN <<ToolCall(k, blocks[k].id)>> ELSE <<>>
    /\ UNCHANGED <<phase, callIDs, stopReason, emitted, outcome>>

BlockStop(k) ==
    /\ InBlock(k)
    /\ blocks' = [blocks EXCEPT ![k].closed = TRUE]
    /\ UNCHANGED <<phase, callIDs, stopReason, outputVars>>

\* reason is "none" when the event carries no stop reason.
MessageDelta(reason) ==
    /\ Reading
    /\ phase \in {"started", "finishing"}
    /\ LastClosed
    /\ phase' = "finishing"
    /\ reason # "none" => stopReason \in {"none", reason}
    /\ stopReason' = IF reason = "none" THEN stopReason ELSE reason
    /\ UNCHANGED <<blocks, callIDs, outputVars>>

MessageStop ==
    /\ Reading
    /\ phase = "finishing"
    /\ stopReason # "none"
    /\ phase' = "stopped"
    /\ UNCHANGED <<blocks, callIDs, stopReason, outputVars>>

\* The arguments of a tool_use block are a JSON object: those of its start, or
\* the fragments received.
Valid(block) == block.partial \in {0, Full}

\* The call of a tool_use block.
CallOf(k) == ToolCall(k, blocks[k].id)

\* Bug variant: the stop reason is not compared with the calls.
Complete_AnyReason ==
    /\ Reading
    /\ phase = "stopped"
    /\ stopReason # "pause_turn"
    /\ \A k \in DOMAIN blocks : blocks[k].closed
    /\ \A k \in ToolBlocks : Valid(blocks[k])
    /\ phase' = "complete"
    /\ \E order \in Sorted(ToolBlocks) :
         queue' = Append([n \in DOMAIN order |-> CallOf(order[n])],
                         Completed(MapFinishReason(stopReason)))
    /\ UNCHANGED <<blocks, callIDs, stopReason, emitted, outcome>>

\* The end of the stream, after message_stop: the whole of it is validated
\* before the calls are emitted.
Complete ==
    /\ Reading
    /\ phase = "stopped"
    /\ stopReason # "pause_turn"
    /\ (MapFinishReason(stopReason) = "tool_calls") <=> (ToolBlocks # {})
    /\ \A k \in DOMAIN blocks : blocks[k].closed
    /\ \A k \in ToolBlocks : Valid(blocks[k])
    /\ phase' = "complete"
    /\ \E order \in Sorted(ToolBlocks) :
         queue' = Append([n \in DOMAIN order |-> CallOf(order[n])],
                         Completed(MapFinishReason(stopReason)))
    /\ UNCHANGED <<blocks, callIDs, stopReason, emitted, outcome>>

-------------------------------------------------------------------------------
(* The callback, and the end *)

EmitNext == EmitQueued /\ UNCHANGED adapterVars

End == phase = "complete" /\ ReturnOk /\ UNCHANGED adapterVars

Fail == ReturnError /\ UNCHANGED adapterVars

Next ==
    \/ MessageStart \/ StartText \/ MessageStop \/ Complete \/ EmitNext \/ End \/ Fail
    \/ \E id \in CallIDs, input \in {"empty", "full"} : StartToolUse(id, input)
    \/ \E k \in DOMAIN blocks : InputDelta(k) \/ BlockStop(k)
    \/ \E reason \in StopReasons \cup {"none"} : MessageDelta(reason)

Spec == Init /\ [][Next]_messagesVars

-------------------------------------------------------------------------------
(* Properties *)

(***************************************************************************)
(* Every variable has its type.                                            *)
(***************************************************************************)
MessagesTypeOK ==
    /\ phase \in {"new", "started", "finishing", "stopped", "complete"}
    /\ Len(blocks) <= MaxContentBlocks
    /\ \A k \in DOMAIN blocks : blocks[k] \in TextBlock \cup ToolBlock
    /\ Cardinality(ToolBlocks) <= MaxToolCalls
    /\ callIDs \subseteq CallIDs
    /\ stopReason \in StopReasons \cup {"none"}
    /\ outcome \in {"streaming", "ok", "error"}

(***************************************************************************)
(* A stream that is malformed or cut short runs no tool: the first call is *)
(* emitted when message_stop was received, every block was closed and the  *)
(* arguments of every call are valid; and on success no call is missing.   *)
(***************************************************************************)
AllOrNothing ==
    LET called == {k \in DOMAIN emitted : emitted[k].type = "tool_call"}
    IN  /\ called # {} =>
             /\ phase \in {"stopped", "complete"}
             /\ \A k \in DOMAIN blocks : blocks[k].closed
             /\ \A k \in ToolBlocks : Valid(blocks[k])
        /\ outcome = "ok" => ToolBlocks = {emitted[k].slot : k \in called}

(***************************************************************************)
(* No two calls of a response have one ID.  The agent matches the results  *)
(* of a turn it resumes with its calls by their IDs.                       *)
(***************************************************************************)
DistinctCallIDs ==
    \A j, k \in DOMAIN emitted :
      /\ emitted[j].type = "tool_call" /\ emitted[k].type = "tool_call"
      /\ emitted[j].call = emitted[k].call
      => j = k

(***************************************************************************)
(* The adapter keeps the promises of Stream, and the completion is last.   *)
(***************************************************************************)
Contract == INSTANCE ModelStream WITH
    Slots <- 1 .. MaxContentBlocks, Calls <- CallIDs, CompletesLast <- TRUE

MessagesContract == Contract!Spec

===============================================================================
