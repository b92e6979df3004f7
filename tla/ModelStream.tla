------------------------------ MODULE ModelStream ------------------------------
(***************************************************************************)
(* What llm.Client.Stream promises to the agent: an ordered stream of      *)
(* neutral events, then a result.  A tool call is emitted complete and     *)
(* once, the finish reason says whether there were calls, and the result   *)
(* is a success only after a completion.  The adapters of the three        *)
(* protocols (ResponsesStream, ChatCompletionsStream, MessagesStream)      *)
(* implement it.  Text deltas and usage, passed through as they come, are  *)
(* left out.                                                               *)
(***************************************************************************)
EXTENDS Integers, Sequences

CONSTANTS
    Slots,          \* where a call is in the response: its index
    Calls,          \* IDs, names and arguments
    CompletesLast   \* nothing is emitted after a completion

VARIABLES
    emitted,        \* the events the callback accepted, in order
    outcome         \* "streaming", then what Stream returned

streamVars == <<emitted, outcome>>

-------------------------------------------------------------------------------

\* content_filter is among the others.
FinishReasons == {"completed", "tool_calls", "length", "other"}

ToolCall(slot, call) == [type |-> "tool_call", slot |-> slot, call |-> call]

Completed(reason) == [type |-> "completed", reason |-> reason]

\* The indexes of the events of a type.
OfType(events, type) == {k \in DOMAIN events : events[k].type = type}

Init ==
    /\ emitted = <<>>
    /\ outcome = "streaming"

Open ==
    /\ outcome = "streaming"
    /\ CompletesLast => OfType(emitted, "completed") = {}

EmitToolCall(slot, call) ==
    /\ Open
    /\ \A k \in OfType(emitted, "tool_call") : emitted[k].slot # slot
    /\ emitted' = Append(emitted, ToolCall(slot, call))
    /\ UNCHANGED outcome

EmitCompleted(reason) ==
    /\ Open
    /\ reason = "tool_calls" => OfType(emitted, "tool_call") # {}
    /\ reason = "completed" => OfType(emitted, "tool_call") = {}
    /\ emitted' = Append(emitted, Completed(reason))
    /\ UNCHANGED outcome

Return ==
    /\ outcome = "streaming"
    /\ OfType(emitted, "completed") # {}
    /\ outcome' = "ok"
    /\ UNCHANGED emitted

\* The provider, the transport or the callback failed.
ReturnError ==
    /\ outcome = "streaming"
    /\ outcome' = "error"
    /\ UNCHANGED emitted

Next ==
    \/ \E slot \in Slots, call \in Calls : EmitToolCall(slot, call)
    \/ \E reason \in FinishReasons : EmitCompleted(reason)
    \/ Return
    \/ ReturnError

Spec == Init /\ [][Next]_streamVars

===============================================================================
