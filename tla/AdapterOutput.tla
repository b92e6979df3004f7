----------------------------- MODULE AdapterOutput -----------------------------
(***************************************************************************)
(* What the three protocol adapters share (internal/llm): a step of an     *)
(* adapter consumes one part of the stream; the neutral events it emits    *)
(* wait in `queue' for the calls of the callback, one by one, before the   *)
(* next part is consumed.                                                  *)
(***************************************************************************)
EXTENDS Integers, Sequences, FiniteSets

VARIABLES
    queue,          \* the neutral events the current step still has to emit
    emitted,        \* the events the callback accepted, in order
    outcome         \* "streaming", then what consumeStream returned

outputVars == <<queue, emitted, outcome>>

ToolCall(slot, call) == [type |-> "tool_call", slot |-> slot, call |-> call]

Completed(reason) == [type |-> "completed", reason |-> reason]

\* The sequences that hold each number of the set S once, the smallest first:
\* there is one.
Sorted(S) == {order \in [1 .. Cardinality(S) -> S] :
                \A j, k \in DOMAIN order : j < k => order[j] < order[k]}

\* In `queue': an error stops the stream here.
Failure == [type |-> "failure"]

OutputInit ==
    /\ queue = <<>>
    /\ emitted = <<>>
    /\ outcome = "streaming"

\* The adapter may consume a part of the stream.
Reading == outcome = "streaming" /\ queue = <<>>

\* emitEvent: the callback accepts the event.
EmitQueued ==
    /\ outcome = "streaming"
    /\ queue # <<>>
    /\ IF Head(queue) = Failure
       THEN outcome' = "error" /\ queue' = <<>> /\ UNCHANGED emitted
       ELSE /\ emitted' = Append(emitted, Head(queue))
            /\ queue' = Tail(queue)
            /\ UNCHANGED outcome

ReturnOk ==
    /\ Reading
    /\ outcome' = "ok"
    /\ UNCHANGED <<queue, emitted>>

\* A provider error, a part the adapter refuses, a stream cut short or over a
\* limit, an error of the callback.
ReturnError ==
    /\ outcome = "streaming"
    /\ outcome' = "error"
    /\ queue' = <<>>
    /\ UNCHANGED emitted

===============================================================================
