------------------------- MODULE ResponsesStreamProofs -------------------------
(***************************************************************************)
(* The Responses adapter is correct for any indexes, IDs and limits,       *)
(* whatever the provider sends.  The argument looks at everything the      *)
(* adapter has decided to say, what was emitted and what still waits       *)
(* (Said): emitEvent leaves it as it is, and every event of the stream     *)
(* only adds to its end.  As long as there was no error it keeps the       *)
(* promises of Stream (Promised), and it holds the calls marked as emitted *)
(* (Marked), each once, or else a failure, which is reached before the     *)
(* stream goes on.                                                         *)
(***************************************************************************)
EXTENDS ResponsesStream, AdapterOutputProofs

SlotRange == OutputIndexes \cup 0 .. MaxOutput - 1

Events ==
    [type : {"tool_call"}, slot : SlotRange, call : Item]
      \cup [type : {"completed"}, reason : Contract!FinishReasons]
      \cup {Failure}

Said == emitted \o queue

CallsIn(events) == {k \in DOMAIN events : events[k].type = "tool_call"}

SlotsOf(events) == {events[k].slot : k \in CallsIn(events)}

Fails(events) == \E k \in DOMAIN events : events[k] = Failure

Completes(events) == \E k \in DOMAIN events : events[k].type = "completed"

\* A call is once among the events, and a completion agrees with the calls
\* before it, or there is a failure before it.
Promised(events) ==
    /\ \A j, k \in CallsIn(events) : events[j].slot = events[k].slot => j = k
    /\ \A k \in DOMAIN events : events[k].type = "completed" =>
         /\ events[k].reason = "tool_calls" =>
              \E j \in DOMAIN events : j < k /\ (j \in CallsIn(events) \/ events[j] = Failure)
         /\ events[k].reason = "completed" =>
              \A j \in DOMAIN events : j < k => j \notin CallsIn(events)

\* The calls the adapter takes for emitted.
Marked == {i \in DOMAIN calls : calls[i].emitted}

Consistent ==
    /\ ~Fails(emitted)
    /\ Promised(Said)
    /\ SlotsOf(Said) \subseteq Marked
    /\ ~Fails(Said) =>
         /\ Marked \subseteq SlotsOf(Said)
         /\ Cardinality(DOMAIN calls) <= MaxPendingToolCalls
    /\ terminal => Completes(Said)

CallsTyped ==
    /\ IsFiniteSet(DOMAIN calls)
    /\ DOMAIN calls \subseteq SlotRange
    /\ \A i \in DOMAIN calls : calls[i] \in PendingCall
    /\ hadToolCalls \in BOOLEAN /\ terminal \in BOOLEAN
    /\ outcome \in {"streaming", "ok", "error"}

ResponsesInv ==
    /\ CallsTyped
    /\ emitted \in Seq(Events) /\ queue \in Seq(Events)
    /\ hadToolCalls <=> Marked # {}
    /\ final \subseteq Marked
    /\ outcome # "error" => Consistent
    /\ outcome = "ok" => queue = <<>>

USE DEF outputVars, adapterVars

-------------------------------------------------------------------------------
(* Everything to say *)

(***************************************************************************)
(* The slots of the events are natural numbers.                            *)
(***************************************************************************)
LEMMA SlotsAreNat == SlotRange \subseteq Nat
BY ResponsesConstants DEF SlotRange

(***************************************************************************)
(* Of two sequences put together, the first keeps its places and the       *)
(* second follows.                                                         *)
(***************************************************************************)
LEMMA Concatenated ==
    ASSUME NEW E, NEW s \in Seq(E), NEW t \in Seq(E)
    PROVE  /\ s \o t \in Seq(E)
           /\ Len(s) \in Nat
           /\ \A k \in DOMAIN s : k \in DOMAIN (s \o t) /\ (s \o t)[k] = s[k] /\ k <= Len(s)
           /\ \A n \in DOMAIN t :
                /\ n \in Nat \ {0}
                /\ Len(s) + n \in DOMAIN (s \o t)
                /\ (s \o t)[Len(s) + n] = t[n]
           /\ \A k \in DOMAIN (s \o t) :
                /\ k \in Nat
                /\ k \in DOMAIN s \/ \E n \in DOMAIN t : k = Len(s) + n
<1>1. /\ Len(s) \in Nat /\ DOMAIN s = 1 .. Len(s)
      /\ Len(t) \in Nat /\ DOMAIN t = 1 .. Len(t)
      /\ s \o t \in Seq(E)
      /\ DOMAIN (s \o t) = 1 .. Len(s) + Len(t)
  OBVIOUS
<1>2. \A k \in DOMAIN s : (s \o t)[k] = s[k]
  OBVIOUS
<1>3. \A n \in DOMAIN t : (s \o t)[Len(s) + n] = t[n]
  OBVIOUS
<1>4. \A k \in 1 .. Len(s) + Len(t) : k \notin 1 .. Len(s) =>
        k - Len(s) \in 1 .. Len(t) /\ k = Len(s) + (k - Len(s))
  BY <1>1
<1>5. \A k \in DOMAIN (s \o t) : k \in DOMAIN s \/ \E n \in DOMAIN t : k = Len(s) + n
  BY <1>1, <1>4
<1> QED
  BY <1>1, <1>2, <1>3, <1>5

(***************************************************************************)
(* What the events say of their calls, failures and completions, put       *)
(* together.                                                               *)
(***************************************************************************)
LEMMA SlotsTogether ==
    ASSUME NEW s \in Seq(Events), NEW t \in Seq(Events)
    PROVE  /\ SlotsOf(s \o t) = SlotsOf(s) \cup SlotsOf(t)
           /\ Fails(s \o t) <=> Fails(s) \/ Fails(t)
           /\ Completes(s \o t) <=> Completes(s) \/ Completes(t)
<1> DEFINE both == s \o t
           size == Len(s)
<1>1. /\ \A k \in DOMAIN s : k \in DOMAIN both /\ both[k] = s[k]
      /\ \A n \in DOMAIN t : size + n \in DOMAIN both /\ both[size + n] = t[n]
      /\ \A k \in DOMAIN both : k \in DOMAIN s \/ \E n \in DOMAIN t : k = size + n
  BY Concatenated
<1> HIDE DEF both, size
<1>2. SlotsOf(both) \subseteq SlotsOf(s) \cup SlotsOf(t)
  BY <1>1 DEF SlotsOf, CallsIn
<1>3. SlotsOf(s) \subseteq SlotsOf(both)
  BY <1>1 DEF SlotsOf, CallsIn
<1>4. SlotsOf(t) \subseteq SlotsOf(both)
  BY <1>1 DEF SlotsOf, CallsIn
<1>5. Fails(both) <=> Fails(s) \/ Fails(t)
  BY <1>1 DEF Fails
<1>6. Completes(both) <=> Completes(s) \/ Completes(t)
  BY <1>1 DEF Completes
<1> QED
  BY <1>2, <1>3, <1>4, <1>5, <1>6 DEF both

(***************************************************************************)
(* Calls of other slots than those before, each once, or failures in their *)
(* place, may follow what keeps the promises.                              *)
(***************************************************************************)
LEMMA CallsPromised ==
    ASSUME NEW s \in Seq(Events), NEW t \in Seq(Events), Promised(s), Promised(t),
           ~Completes(t), SlotsOf(s) \cap SlotsOf(t) = {}
    PROVE  Promised(s \o t)
<1> DEFINE both == s \o t
           size == Len(s)
<1>1. /\ size \in Nat
      /\ \A k \in DOMAIN s : k \in DOMAIN both /\ both[k] = s[k] /\ k <= size
      /\ \A n \in DOMAIN t : n \in Nat \ {0} /\ size + n \in DOMAIN both /\ both[size + n] = t[n]
      /\ \A k \in DOMAIN both :
           k \in Nat /\ (k \in DOMAIN s \/ \E n \in DOMAIN t : k = size + n)
  BY Concatenated
<1> HIDE DEF both, size
<1>2. \A k \in CallsIn(both) :
        \/ k \in CallsIn(s) /\ both[k] = s[k]
        \/ \E n \in CallsIn(t) : k = size + n /\ both[k] = t[n]
  BY <1>1 DEF CallsIn
<1>3. ASSUME NEW j \in CallsIn(both), NEW k \in CallsIn(both), both[j].slot = both[k].slot
      PROVE  j = k
  <2>1. CASE j \in CallsIn(s) /\ both[j] = s[j]
    <3>1. CASE k \in CallsIn(s) /\ both[k] = s[k]
      BY <1>3, <2>1, <3>1 DEF Promised
    <3>2. CASE \E n \in CallsIn(t) : k = size + n /\ both[k] = t[n]
      BY <1>3, <2>1, <3>2 DEF SlotsOf
    <3> QED
      BY <1>2, <3>1, <3>2
  <2>2. CASE \E n \in CallsIn(t) : j = size + n /\ both[j] = t[n]
    <3>1. CASE k \in CallsIn(s) /\ both[k] = s[k]
      BY <1>3, <2>2, <3>1 DEF SlotsOf
    <3>2. CASE \E n \in CallsIn(t) : k = size + n /\ both[k] = t[n]
      BY <1>3, <2>2, <3>2 DEF Promised
    <3> QED
      BY <1>2, <3>1, <3>2
  <2> QED
    BY <1>2, <2>1, <2>2
<1>4. ASSUME NEW k \in DOMAIN both, both[k].type = "completed"
      PROVE  k \in DOMAIN s /\ s[k].type = "completed" /\ both[k] = s[k]
  BY <1>1, <1>4 DEF Completes
<1>5. ASSUME NEW k \in DOMAIN s, NEW j \in DOMAIN both, j < k
      PROVE  j \in DOMAIN s
  <2>1. k <= size /\ k \in Nat /\ j \in Nat
    BY <1>1, <1>5
  <2>2. \A n \in DOMAIN t : j # size + n
    <3> TAKE n \in DOMAIN t
    <3>1. n \in Nat \ {0}
      BY <1>1
    <3> QED
      BY <1>1, <1>5, <2>1, <3>1
  <2> QED
    BY <1>1, <2>2
<1>6. ASSUME NEW k \in DOMAIN both, both[k].type = "completed", both[k].reason = "tool_calls"
      PROVE  \E j \in DOMAIN both : j < k /\ (j \in CallsIn(both) \/ both[j] = Failure)
  <2>1. PICK j \in DOMAIN s : j < k /\ (j \in CallsIn(s) \/ s[j] = Failure)
    BY <1>4, <1>6 DEF Promised
  <2> QED
    BY <1>1, <2>1 DEF CallsIn
<1>7. ASSUME NEW k \in DOMAIN both, both[k].type = "completed", both[k].reason = "completed",
             NEW j \in DOMAIN both, j < k
      PROVE  j \notin CallsIn(both)
  <2>1. j \in DOMAIN s /\ j \notin CallsIn(s)
    BY <1>4, <1>5, <1>7 DEF Promised
  <2> QED
    BY <1>1, <2>1 DEF CallsIn
<1> QED
  BY <1>3, <1>6, <1>7 DEF Promised, both

(***************************************************************************)
(* A completion may follow whose reason agrees with the calls.             *)
(***************************************************************************)
LEMMA CompletionPromised ==
    ASSUME NEW s \in Seq(Events), Promised(s), NEW reason \in Contract!FinishReasons,
           reason = "tool_calls" => SlotsOf(s) # {} \/ Fails(s),
           reason = "completed" => SlotsOf(s) = {}
    PROVE  /\ Append(s, Completed(reason)) \in Seq(Events)
           /\ Promised(Append(s, Completed(reason)))
           /\ SlotsOf(Append(s, Completed(reason))) = SlotsOf(s)
           /\ Fails(Append(s, Completed(reason))) <=> Fails(s)
           /\ Completes(Append(s, Completed(reason)))
<1> DEFINE last == Completed(reason)
           both == Append(s, last)
           size == Len(s)
<1>1. last \in Events /\ last.type = "completed" /\ last.reason = reason /\ last # Failure
  BY DEF Completed, Events, Failure
<1> HIDE DEF last
<1>2. /\ size \in Nat
      /\ both \in Seq(Events)
      /\ \A k \in DOMAIN s : k \in DOMAIN both /\ both[k] = s[k] /\ k \in 1 .. size
      /\ size + 1 \in DOMAIN both /\ both[size + 1] = last
      /\ \A k \in DOMAIN both : k \in DOMAIN s \/ k = size + 1
  BY <1>1
<1> HIDE DEF both, size
<1>3. CallsIn(both) = CallsIn(s)
  BY <1>1, <1>2 DEF CallsIn
<1>4. SlotsOf(both) = SlotsOf(s)
  BY <1>2, <1>3 DEF SlotsOf, CallsIn
<1>5. Fails(both) <=> Fails(s)
  BY <1>1, <1>2 DEF Fails
<1>6. \A j, k \in CallsIn(both) : both[j].slot = both[k].slot => j = k
  BY <1>2, <1>3 DEF Promised, CallsIn
<1>7. ASSUME NEW k \in DOMAIN both, both[k].type = "completed", both[k].reason = "tool_calls"
      PROVE  \E j \in DOMAIN both : j < k /\ (j \in CallsIn(both) \/ both[j] = Failure)
  <2>1. CASE k \in DOMAIN s
    <3>1. PICK j \in DOMAIN s : j < k /\ (j \in CallsIn(s) \/ s[j] = Failure)
      BY <1>2, <1>7, <2>1 DEF Promised
    <3> QED
      BY <1>2, <1>3, <3>1
  <2>2. CASE k = size + 1
    <3>1. SlotsOf(s) # {} \/ Fails(s)
      BY <1>1, <1>2, <1>7, <2>2
    <3>2. PICK j \in DOMAIN s : j \in CallsIn(s) \/ s[j] = Failure
      BY <3>1 DEF SlotsOf, CallsIn, Fails
    <3>3. j < k
      BY <1>2, <2>2, <3>2
    <3> QED
      BY <1>2, <1>3, <3>2, <3>3
  <2> QED
    BY <1>2, <2>1, <2>2
<1>8. ASSUME NEW k \in DOMAIN both, both[k].type = "completed", both[k].reason = "completed",
             NEW j \in DOMAIN both, j < k
      PROVE  j \notin CallsIn(both)
  <2>1. CASE k \in DOMAIN s
    <3>1. CASE j \in DOMAIN s
      BY <1>2, <1>3, <1>8, <2>1, <3>1 DEF Promised
    <3>2. CASE j = size + 1
      BY <1>1, <1>2, <3>2 DEF CallsIn
    <3> QED
      BY <1>2, <3>1, <3>2
  <2>2. CASE k = size + 1
    <3>1. SlotsOf(s) = {}
      BY <1>1, <1>2, <1>8, <2>2
    <3>2. CallsIn(s) = {}
      BY <3>1 DEF SlotsOf
    <3> QED
      BY <1>3, <3>2
  <2> QED
    BY <1>2, <2>1, <2>2
<1>9. Promised(both)
  BY <1>6, <1>7, <1>8 DEF Promised
<1>10. Completes(both)
  BY <1>1, <1>2 DEF Completes
<1> QED
  BY <1>2, <1>4, <1>5, <1>9, <1>10 DEF both, last

-------------------------------------------------------------------------------
(* Steps *)

(***************************************************************************)
(* Before an event of the stream is read, all was said, and without error. *)
(***************************************************************************)
LEMMA ReadingSaid ==
    ASSUME ResponsesInv, Reading
    PROVE  /\ CallsTyped
           /\ emitted \in Seq(Events) /\ queue = <<>> /\ Said = emitted
           /\ outcome = "streaming"
           /\ ~Fails(emitted) /\ Promised(emitted)
           /\ SlotsOf(emitted) = Marked
           /\ Cardinality(DOMAIN calls) <= MaxPendingToolCalls
           /\ terminal => Completes(emitted)
           /\ hadToolCalls <=> Marked # {}
           /\ final \subseteq Marked
<1>1. /\ CallsTyped /\ Consistent
      /\ emitted \in Seq(Events) /\ queue = <<>>
      /\ outcome = "streaming"
      /\ hadToolCalls <=> Marked # {}
      /\ final \subseteq Marked
  BY DEF ResponsesInv, Reading
<1>2. Said = emitted
  BY <1>1 DEF Said
<1> QED
  BY <1>1, <1>2 DEF Consistent

(***************************************************************************)
(* The event of a call sets it under its index.                            *)
(***************************************************************************)
LEMMA CallSet ==
    ASSUME CallsTyped, NEW i \in SlotRange, NEW call \in Item, NEW flag \in BOOLEAN,
           calls' = Set(i, call, flag)
    PROVE  /\ DOMAIN calls' = DOMAIN calls \cup {i}
           /\ IsFiniteSet(DOMAIN calls')
           /\ DOMAIN calls' \subseteq SlotRange
           /\ \A j \in DOMAIN calls' : calls'[j] \in PendingCall
           /\ Marked' = IF flag THEN Marked \cup {i} ELSE Marked \ {i}
           /\ Admitted(i) /\ Cardinality(DOMAIN calls) <= MaxPendingToolCalls =>
                Cardinality(DOMAIN calls') <= MaxPendingToolCalls
<1> DEFINE new == [call |-> call, emitted |-> flag]
<1>1. new \in PendingCall /\ new.emitted = flag
  BY DEF PendingCall
<1>2. calls' = [j \in DOMAIN calls \cup {i} |-> IF j = i THEN new ELSE calls[j]]
  BY DEF Set
<1> HIDE DEF new
<1>3. /\ DOMAIN calls' = DOMAIN calls \cup {i}
      /\ calls'[i] = new
      /\ \A j \in DOMAIN calls : j # i => calls'[j] = calls[j]
  BY <1>2
<1>4. /\ IsFiniteSet(DOMAIN calls')
      /\ Cardinality(DOMAIN calls') = IF i \in DOMAIN calls THEN Cardinality(DOMAIN calls)
                                      ELSE Cardinality(DOMAIN calls) + 1
  BY <1>3, FS_AddElement DEF CallsTyped
<1>5. \A j \in DOMAIN calls' : calls'[j] \in PendingCall
  BY <1>1, <1>3 DEF CallsTyped
<1>6. Marked' = {j \in DOMAIN calls' : calls'[j].emitted}
  BY DEF Marked
<1>7. Marked' = IF flag THEN Marked \cup {i} ELSE Marked \ {i}
  BY <1>1, <1>3, <1>6 DEF Marked
<1>8. Cardinality(DOMAIN calls) \in Nat
  BY FS_CardinalityType DEF CallsTyped
<1>9. Admitted(i) /\ Cardinality(DOMAIN calls) <= MaxPendingToolCalls =>
        Cardinality(DOMAIN calls') <= MaxPendingToolCalls
  BY <1>4, <1>8, ResponsesConstants DEF Admitted
<1> QED
  BY <1>3, <1>4, <1>5, <1>7, <1>9 DEF CallsTyped

(***************************************************************************)
(* An event that says nothing and marks nothing keeps the invariant.       *)
(***************************************************************************)
LEMMA QuietStep ==
    ASSUME ResponsesInv, Reading, CallsTyped', Marked' = Marked,
           Cardinality(DOMAIN calls') <= MaxPendingToolCalls,
           UNCHANGED <<hadToolCalls, terminal, final, queue, emitted, outcome>>
    PROVE  ResponsesInv'
<1>1. /\ emitted \in Seq(Events) /\ queue = <<>> /\ Said = emitted
      /\ outcome = "streaming"
      /\ ~Fails(emitted) /\ Promised(emitted)
      /\ SlotsOf(emitted) = Marked
      /\ terminal => Completes(emitted)
      /\ hadToolCalls <=> Marked # {}
      /\ final \subseteq Marked
  BY ReadingSaid
<1>2. emitted' = emitted /\ queue' = <<>> /\ queue' \in Seq(Events)
  BY <1>1
<1>3. Said' = emitted
  BY <1>1, <1>2 DEF Said
<1>4. Consistent'
  BY <1>1, <1>2, <1>3 DEF Consistent
<1> QED
  BY <1>1, <1>2, <1>4 DEF ResponsesInv

(***************************************************************************)
(* emitCall says a call that was not said before, and marks it.            *)
(***************************************************************************)
LEMMA CallStep ==
    ASSUME ResponsesInv, Reading, CallsTyped',
           NEW i \in SlotRange, NEW call \in Item, i \notin Marked,
           Marked' = Marked \cup {i}, queue' = <<ToolCall(i, call)>>, hadToolCalls' = TRUE,
           Cardinality(DOMAIN calls') <= MaxPendingToolCalls,
           UNCHANGED <<terminal, final, emitted, outcome>>
    PROVE  ResponsesInv'
<1>1. /\ emitted \in Seq(Events)
      /\ outcome = "streaming"
      /\ ~Fails(emitted) /\ Promised(emitted)
      /\ SlotsOf(emitted) = Marked
      /\ terminal => Completes(emitted)
      /\ final \subseteq Marked
  BY ReadingSaid
<1> DEFINE event == ToolCall(i, call)
           said == <<event>>
<1>2. /\ event \in Events /\ event.type = "tool_call" /\ event.slot = i
      /\ event # Failure
  BY DEF ToolCall, Events, Failure
<1> HIDE DEF event
<1>3. said \in Seq(Events) /\ DOMAIN said = {1} /\ said[1] = event
  BY <1>2
<1>4. queue' = said
  BY DEF event
<1> HIDE DEF said
<1>5. SlotsOf(said) = {i} /\ ~Fails(said) /\ ~Completes(said) /\ Promised(said)
  BY <1>2, <1>3 DEF SlotsOf, CallsIn, Fails, Completes, Promised
<1>6. Promised(emitted \o said)
  BY <1>1, <1>3, <1>5, CallsPromised
<1>7. /\ SlotsOf(emitted \o said) = Marked \cup {i}
      /\ ~Fails(emitted \o said)
      /\ terminal => Completes(emitted \o said)
  BY <1>1, <1>3, <1>5, SlotsTogether
<1>8. Said' = emitted \o said
  BY <1>4 DEF Said
<1>9. Consistent'
  BY <1>1, <1>6, <1>7, <1>8 DEF Consistent
<1> QED
  BY <1>1, <1>3, <1>4, <1>9 DEF ResponsesInv

(***************************************************************************)
(* A terminal event says the calls that were not said before, each once or *)
(* a failure in its place, marks them, and says the completion.            *)
(***************************************************************************)
LEMMA CompletionStep ==
    ASSUME ResponsesInv, Reading, CallsTyped',
           NEW batch \in Seq(Events), Promised(batch), ~Completes(batch),
           SlotsOf(batch) \cap Marked = {}, Marked \cup SlotsOf(batch) \subseteq Marked',
           ~Fails(batch) =>
             /\ Marked' = Marked \cup SlotsOf(batch)
             /\ Cardinality(DOMAIN calls') <= MaxPendingToolCalls,
           NEW reason \in Contract!FinishReasons,
           reason = "tool_calls" => Marked' # {},
           reason = "completed" => Marked' = {},
           queue' = Append(batch, Completed(reason)),
           hadToolCalls' <=> Marked' # {}, final' \subseteq Marked', terminal' = TRUE,
           UNCHANGED <<emitted, outcome>>
    PROVE  ResponsesInv'
<1>1. /\ emitted \in Seq(Events)
      /\ outcome = "streaming"
      /\ ~Fails(emitted) /\ Promised(emitted)
      /\ SlotsOf(emitted) = Marked
  BY ReadingSaid
<1> DEFINE said == emitted \o batch
           last == Completed(reason)
<1>2. said \in Seq(Events)
  BY <1>1
<1>3. Promised(said)
  BY <1>1, CallsPromised
<1>4. SlotsOf(said) = Marked \cup SlotsOf(batch) /\ (Fails(said) <=> Fails(batch))
  BY <1>1, SlotsTogether
<1>5. reason = "tool_calls" => SlotsOf(said) # {} \/ Fails(said)
  BY <1>4
<1>6. reason = "completed" => SlotsOf(said) = {}
  BY <1>4
<1> HIDE DEF said
<1>7. /\ Append(said, last) \in Seq(Events)
      /\ Promised(Append(said, last))
      /\ SlotsOf(Append(said, last)) = SlotsOf(said)
      /\ Fails(Append(said, last)) <=> Fails(said)
      /\ Completes(Append(said, last))
  BY <1>2, <1>3, <1>5, <1>6, CompletionPromised
<1>8. last \in Events
  BY DEF Completed, Events
<1> HIDE DEF last
<1>9. queue' = Append(batch, last)
  BY DEF last
<1>10. queue' \in Seq(Events)
  BY <1>8, <1>9
<1>11. emitted \o Append(batch, last) = Append(said, last)
  BY <1>1, <1>8 DEF said
<1>12. Said' = Append(said, last)
  BY <1>9, <1>11 DEF Said
<1>13. Consistent'
  BY <1>1, <1>4, <1>7, <1>12 DEF Consistent
<1> QED
  BY <1>1, <1>10, <1>13 DEF ResponsesInv

-------------------------------------------------------------------------------
(* The events of the stream *)

(***************************************************************************)
(* Initially there are no calls and nothing was said.                      *)
(***************************************************************************)
LEMMA ResponsesInit == Init => ResponsesInv
<1> SUFFICES ASSUME Init PROVE ResponsesInv
  OBVIOUS
<1>1. /\ DOMAIN calls = {} /\ hadToolCalls = FALSE /\ terminal = FALSE /\ final = {}
      /\ outcome = "streaming"
  BY DEF Init, OutputInit
<1>2. emitted = <<>> /\ queue = <<>> /\ Said = <<>>
  BY DEF Init, OutputInit, Said
<1>3. emitted \in Seq(Events) /\ queue \in Seq(Events)
  BY <1>2
<1>4. IsFiniteSet(DOMAIN calls) /\ Cardinality(DOMAIN calls) <= MaxPendingToolCalls
  BY <1>1, FS_EmptySet, ResponsesConstants
<1>5. CallsTyped
  BY <1>1, <1>4 DEF CallsTyped
<1>6. Marked = {}
  BY <1>1 DEF Marked
<1>7. DOMAIN Said = {} /\ DOMAIN emitted = {}
  BY <1>2
<1>8. Promised(Said) /\ SlotsOf(Said) = {} /\ ~Fails(emitted)
  BY <1>7 DEF Promised, SlotsOf, CallsIn, Fails
<1>9. Consistent
  BY <1>1, <1>4, <1>6, <1>8 DEF Consistent
<1> QED
  BY <1>1, <1>3, <1>5, <1>6, <1>9 DEF ResponsesInv

LEMMA OutputItemAddedStep ==
    ASSUME ResponsesInv, NEW i \in OutputIndexes, NEW item \in Item, OutputItemAdded(i, item)
    PROVE  ResponsesInv'
<1>1. /\ Reading /\ Admitted(i)
      /\ calls' = Set(i, item, IsEmitted(i))
      /\ UNCHANGED <<hadToolCalls, terminal, final, queue, emitted, outcome>>
  BY DEF OutputItemAdded
<1>2. CallsTyped /\ Cardinality(DOMAIN calls) <= MaxPendingToolCalls
  BY <1>1, ReadingSaid
<1>3. /\ i \in SlotRange /\ IsEmitted(i) \in BOOLEAN
      /\ IsEmitted(i) <=> i \in Marked
  BY <1>2 DEF SlotRange, IsEmitted, Marked, CallsTyped, PendingCall
<1>4. /\ IsFiniteSet(DOMAIN calls')
      /\ DOMAIN calls' \subseteq SlotRange
      /\ \A j \in DOMAIN calls' : calls'[j] \in PendingCall
      /\ Marked' = IF IsEmitted(i) THEN Marked \cup {i} ELSE Marked \ {i}
      /\ Cardinality(DOMAIN calls') <= MaxPendingToolCalls
  BY <1>1, <1>2, <1>3, CallSet
<1>5. Marked' = Marked
  BY <1>3, <1>4
<1>6. CallsTyped'
  BY <1>1, <1>2, <1>4 DEF CallsTyped
<1> QED
  BY <1>1, <1>4, <1>5, <1>6, QuietStep

LEMMA ArgumentsDeltaStep ==
    ASSUME ResponsesInv, NEW i \in OutputIndexes, ArgumentsDelta(i)
    PROVE  ResponsesInv'
<1> DEFINE row == calls[i]
           old == row.call
           more == IF old.arguments > Full THEN old.arguments ELSE old.arguments + 1
           new == [old EXCEPT !.arguments = more]
           after == [row EXCEPT !.call = new]
<1>1. /\ Reading /\ i \in DOMAIN calls
      /\ calls' = [calls EXCEPT ![i].call.arguments = IF @ > Full THEN @ ELSE @ + 1]
      /\ UNCHANGED <<hadToolCalls, terminal, final, queue, emitted, outcome>>
  BY DEF ArgumentsDelta
<1>2. CallsTyped /\ Cardinality(DOMAIN calls) <= MaxPendingToolCalls
  BY <1>1, ReadingSaid
<1>3. row \in PendingCall /\ i \in SlotRange
  BY <1>1, <1>2 DEF CallsTyped
<1>4. calls' = [calls EXCEPT ![i] = after]
  BY <1>1
<1> HIDE DEF row
<1>5. old \in Item /\ row.emitted \in BOOLEAN
  BY <1>3 DEF PendingCall
<1> HIDE DEF old
<1>6. more \in 0 .. Full + 1
  <2>1. old.arguments \in 0 .. Full + 1
    BY <1>5 DEF Item
  <2> QED
    BY <2>1, ResponsesConstants
<1> HIDE DEF more
<1>7. new \in Item
  BY <1>5, <1>6 DEF Item
<1> HIDE DEF new
<1>8. after \in PendingCall /\ after.emitted = row.emitted
  BY <1>3, <1>7 DEF PendingCall
<1> HIDE DEF after
<1>9. /\ DOMAIN calls' = DOMAIN calls
      /\ calls'[i] = after
      /\ \A j \in DOMAIN calls : j # i => calls'[j] = calls[j]
  BY <1>1, <1>4
<1>10. Marked' = Marked
  <2>1. \A j \in DOMAIN calls : calls'[j].emitted = calls[j].emitted
    BY <1>8, <1>9 DEF row
  <2> QED
    BY <1>9, <2>1 DEF Marked
<1>11. CallsTyped'
  BY <1>1, <1>2, <1>8, <1>9 DEF CallsTyped
<1> QED
  BY <1>1, <1>2, <1>9, <1>10, <1>11, QuietStep

(***************************************************************************)
(* emitCall, for an event that carries the call complete: the first one    *)
(* says it, the others say nothing.                                        *)
(***************************************************************************)
LEMMA EmitCallStep ==
    ASSUME ResponsesInv, Reading, NEW i \in SlotRange, NEW call \in Item,
           Admitted(i), EmitCall(i, call), UNCHANGED <<terminal, final, emitted, outcome>>
    PROVE  ResponsesInv'
<1>1. CallsTyped /\ Cardinality(DOMAIN calls) <= MaxPendingToolCalls
  BY ReadingSaid
<1>2. IsEmitted(i) <=> i \in Marked
  BY DEF IsEmitted, Marked
<1>3. calls' = Set(i, call, TRUE)
  BY DEF EmitCall
<1>4. /\ IsFiniteSet(DOMAIN calls')
      /\ DOMAIN calls' \subseteq SlotRange
      /\ \A j \in DOMAIN calls' : calls'[j] \in PendingCall
      /\ Marked' = Marked \cup {i}
      /\ Cardinality(DOMAIN calls') <= MaxPendingToolCalls
  BY <1>1, <1>3, CallSet
<1>5. CallsTyped'
  BY <1>1, <1>4 DEF CallsTyped, EmitCall
<1>6. CASE IsEmitted(i)
  <2>1. UNCHANGED <<queue, hadToolCalls>> /\ Marked' = Marked
    BY <1>2, <1>4, <1>6 DEF EmitCall
  <2> QED
    BY <1>4, <1>5, <2>1, QuietStep
<1>7. CASE ~IsEmitted(i)
  <2>1. queue' = <<ToolCall(i, call)>> /\ hadToolCalls' = TRUE
    BY <1>7 DEF EmitCall
  <2> QED
    BY <1>2, <1>4, <1>5, <1>7, <2>1, CallStep
<1> QED
  BY <1>6, <1>7

LEMMA ArgumentsDoneStep ==
    ASSUME ResponsesInv, NEW i \in OutputIndexes, NEW arguments \in 0 .. Full + 1,
           ArgumentsDone(i, arguments)
    PROVE  ResponsesInv'
<1> DEFINE old == calls[i].call
           call == IF arguments = 0 THEN old ELSE [old EXCEPT !.arguments = arguments]
<1>1. /\ Reading /\ i \in DOMAIN calls
      /\ EmitCall(i, call)
      /\ UNCHANGED <<terminal, final, emitted, outcome>>
  BY DEF ArgumentsDone
<1>2. old \in Item
  BY <1>1, ReadingSaid DEF CallsTyped, PendingCall
<1> HIDE DEF old
<1>3. call \in Item
  BY <1>2 DEF Item
<1> HIDE DEF call
<1>4. i \in SlotRange /\ Admitted(i)
  BY <1>1 DEF SlotRange, Admitted
<1> QED
  BY <1>1, <1>3, <1>4, EmitCallStep

LEMMA OutputItemDoneStep ==
    ASSUME ResponsesInv, NEW i \in OutputIndexes, NEW item \in Item, OutputItemDone(i, item)
    PROVE  ResponsesInv'
<1>1. i \in SlotRange
  BY DEF SlotRange
<1> QED
  BY <1>1, EmitCallStep DEF OutputItemDone

(***************************************************************************)
(* The final output: its function calls are items of it at indexes that    *)
(* are slots.                                                              *)
(***************************************************************************)
LEMMA FunctionCallsAre ==
    ASSUME NEW n \in 0 .. MaxOutput, NEW output \in [1 .. n -> Item \cup {Other}]
    PROVE  /\ FunctionCalls(output) \subseteq SlotRange
           /\ IsFiniteSet(FunctionCalls(output))
           /\ \A i \in FunctionCalls(output) : output[i + 1] \in Item
<1>1. n \in Nat /\ n <= MaxOutput /\ MaxOutput \in Nat
  BY ResponsesConstants
<1>2. ASSUME NEW i \in FunctionCalls(output)
      PROVE  i \in 0 .. n - 1 /\ output[i + 1] \in Item
  <2>1. PICK k \in 1 .. n : i = k - 1 /\ output[k] # Other
    BY DEF FunctionCalls
  <2>2. i \in 0 .. n - 1 /\ i + 1 = k
    BY <1>1, <2>1
  <2> QED
    BY <2>1, <2>2
<1>3. IsFiniteSet(0 .. n - 1)
  BY <1>1, FS_Interval
<1>4. IsFiniteSet(FunctionCalls(output))
  BY <1>2, <1>3, FS_Subset
<1>5. 0 .. n - 1 \subseteq 0 .. MaxOutput - 1
  BY <1>1
<1> QED
  BY <1>2, <1>4, <1>5 DEF SlotRange

LEMMA ResponseCompletedStep ==
    ASSUME ResponsesInv, NEW n \in 0 .. MaxOutput,
           NEW output \in [1 .. n -> Item \cup {Other}], ResponseCompleted(output)
    PROVE  ResponsesInv'
<1> DEFINE fresh == {i \in FunctionCalls(output) : ~IsEmitted(i)}
           reason == IF hadToolCalls' THEN "tool_calls" ELSE "completed"
<1>1. /\ Reading
      /\ calls' = [i \in DOMAIN calls \cup fresh |->
                     IF i \in fresh THEN [call |-> output[i + 1], emitted |-> TRUE]
                     ELSE calls[i]]
      /\ hadToolCalls' = (hadToolCalls \/ fresh # {})
      /\ terminal' = TRUE
      /\ final' = final \cup FunctionCalls(output)
      /\ UNCHANGED <<emitted, outcome>>
  BY DEF ResponseCompleted
<1>2. PICK order \in Sorted(fresh) :
        queue' = Append([k \in DOMAIN order |-> CallOf(output, order[k])], Completed(reason))
  BY DEF ResponseCompleted
<1>3. /\ CallsTyped /\ Cardinality(DOMAIN calls) <= MaxPendingToolCalls
      /\ hadToolCalls <=> Marked # {}
      /\ final \subseteq Marked
  BY <1>1, ReadingSaid
<1>4. /\ fresh \subseteq FunctionCalls(output)
      /\ fresh \cap Marked = {}
      /\ FunctionCalls(output) \subseteq fresh \cup Marked
  BY DEF IsEmitted, Marked
<1>5. fresh \subseteq SlotRange /\ fresh \subseteq Nat /\ IsFiniteSet(fresh)
  BY <1>4, FunctionCallsAre, SlotsAreNat, FS_Subset
<1>6. \A i \in fresh : output[i + 1] \in Item
  BY <1>4, FunctionCallsAre
<1> HIDE DEF fresh
<1>7. /\ DOMAIN calls' = DOMAIN calls \cup fresh
      /\ \A i \in fresh : calls'[i] \in PendingCall /\ calls'[i].emitted = TRUE
      /\ \A i \in DOMAIN calls : i \notin fresh => calls'[i] = calls[i]
  BY <1>1, <1>6 DEF PendingCall
<1>8. Marked' = Marked \cup fresh
  <2>1. Marked' = {i \in DOMAIN calls' : calls'[i].emitted}
    BY DEF Marked
  <2>2. \A i \in DOMAIN calls' : calls'[i].emitted <=> i \in Marked \cup fresh
    BY <1>4, <1>7 DEF Marked
  <2>3. Marked \cup fresh \subseteq DOMAIN calls'
    BY <1>7 DEF Marked
  <2> QED
    BY <2>1, <2>2, <2>3
<1>9. CallsTyped'
  <2>1. IsFiniteSet(DOMAIN calls')
    <3>1. IsFiniteSet(DOMAIN calls)
      BY <1>3 DEF CallsTyped
    <3>2. IsFiniteSet(DOMAIN calls \cup fresh)
      BY <1>5, <3>1, FS_Union
    <3> QED
      BY <1>7, <3>2
  <2>2. \A i \in DOMAIN calls' : calls'[i] \in PendingCall
    BY <1>3, <1>7 DEF CallsTyped
  <2>3. DOMAIN calls' \subseteq SlotRange
    BY <1>3, <1>5, <1>7 DEF CallsTyped
  <2> QED
    BY <1>1, <1>3, <2>1, <2>2, <2>3 DEF CallsTyped
<1> DEFINE batch == [k \in DOMAIN order |-> CallOf(output, order[k])]
           size == Len(order)
<1>10. /\ size \in Nat /\ DOMAIN order = 1 .. size
       /\ \A k \in DOMAIN order : order[k] \in fresh
       /\ \A i \in fresh : \E k \in DOMAIN order : order[k] = i
       /\ \A j, k \in DOMAIN order : j < k => order[j] < order[k]
       /\ \A j, k \in DOMAIN order : order[j] = order[k] => j = k
  <2>1. Len(order) = Cardinality(fresh) /\ Cardinality(fresh) \in Nat
    BY <1>5, SortedHolds
  <2>2. DOMAIN order = 1 .. Cardinality(fresh)
    BY <1>5, SortedHolds
  <2>3. /\ \A k \in DOMAIN order : order[k] \in fresh
        /\ \A i \in fresh : \E k \in DOMAIN order : order[k] = i
    BY <1>5, SortedHolds
  <2>4. /\ \A j, k \in DOMAIN order : j < k => order[j] < order[k]
        /\ \A j, k \in DOMAIN order : order[j] = order[k] => j = k
    BY <1>5, SortedHolds
  <2> QED
    BY <2>1, <2>2, <2>3, <2>4
<1> HIDE DEF size
<1>11. \A k \in DOMAIN order :
         \/ batch[k] = ToolCall(order[k], output[order[k] + 1])
         \/ batch[k] = Failure
  BY DEF CallOf
<1>12. \A k \in DOMAIN order :
         batch[k] # Failure =>
           Cardinality(DOMAIN calls \cup {j \in FunctionCalls(output) : j <= order[k]})
             <= MaxPendingToolCalls
  BY DEF CallOf
<1>13. DOMAIN batch = DOMAIN order /\ queue' = Append(batch, Completed(reason))
  BY <1>2
<1>14. batch = [k \in 1 .. size |-> batch[k]]
  BY <1>10
<1> HIDE DEF batch
<1>15. \A k \in DOMAIN order :
         /\ batch[k] \in Events
         /\ batch[k].type \in {"tool_call", "failure"}
         /\ batch[k].type = "tool_call" => batch[k].slot = order[k]
         /\ batch[k].type = "failure" => batch[k] = Failure
  <2> TAKE k \in DOMAIN order
  <2>1. order[k] \in SlotRange /\ output[order[k] + 1] \in Item
    BY <1>5, <1>6, <1>10
  <2>2. CASE batch[k] = ToolCall(order[k], output[order[k] + 1])
    BY <2>1, <2>2 DEF ToolCall, Events
  <2>3. CASE batch[k] = Failure
    BY <2>3 DEF Failure, Events
  <2> QED
    BY <1>11, <2>2, <2>3
<1>16. batch \in Seq(Events)
  BY <1>10, <1>14, <1>15
<1>17. ~Completes(batch)
  BY <1>13, <1>15 DEF Completes
<1>18. Promised(batch)
  <2>1. \A j, k \in CallsIn(batch) : batch[j].slot = batch[k].slot => j = k
    BY <1>10, <1>13, <1>15 DEF CallsIn
  <2> QED
    BY <1>17, <2>1 DEF Promised, Completes
<1>19. SlotsOf(batch) \subseteq fresh
  BY <1>10, <1>13, <1>15 DEF SlotsOf, CallsIn
<1>20. ASSUME ~Fails(batch)
       PROVE  /\ SlotsOf(batch) = fresh
              /\ Cardinality(DOMAIN calls') <= MaxPendingToolCalls
  <2>1. \A k \in DOMAIN order : batch[k] # Failure /\ batch[k].type = "tool_call"
    BY <1>13, <1>15, <1>20 DEF Fails
  <2>2. fresh \subseteq SlotsOf(batch)
    BY <1>10, <1>13, <1>15, <2>1 DEF SlotsOf, CallsIn
  <2>3. CASE fresh = {}
    <3>1. DOMAIN calls' = DOMAIN calls
      BY <1>7, <2>3
    <3> QED
      BY <1>3, <1>19, <2>2, <3>1
  <2>4. CASE fresh # {}
    <3> DEFINE last == order[size]
               upTo == {j \in FunctionCalls(output) : j <= last}
    <3>1. size \in DOMAIN order
      BY <1>10, <2>4
    <3>2. last \in fresh /\ last \in Nat
      BY <1>5, <1>10, <3>1
    <3>3. ASSUME NEW i \in fresh
          PROVE  i <= last
      <4>1. PICK k \in DOMAIN order : order[k] = i
        BY <1>10
      <4>2. CASE k = size
        BY <1>5, <3>2, <4>1, <4>2
      <4>3. CASE k # size
        <5>1. k < size
          BY <1>10, <4>3
        <5>2. i < last
          BY <1>10, <3>1, <4>1, <5>1
        <5> QED
          BY <1>5, <3>2, <5>2
      <4> QED
        BY <4>2, <4>3
    <3>4. DOMAIN calls \cup upTo = DOMAIN calls'
      <4>1. fresh \subseteq upTo
        BY <1>4, <3>3
      <4>2. upTo \subseteq DOMAIN calls \cup fresh
        BY <1>4 DEF Marked
      <4> QED
        BY <1>7, <4>1, <4>2
    <3>5. Cardinality(DOMAIN calls \cup upTo) <= MaxPendingToolCalls
      BY <1>12, <2>1, <3>1
    <3> QED
      BY <1>19, <2>2, <3>4, <3>5
  <2> QED
    BY <2>3, <2>4
<1>21. /\ hadToolCalls' <=> Marked' # {}
       /\ final' \subseteq Marked'
  BY <1>1, <1>3, <1>4, <1>8
<1>22. /\ reason \in Contract!FinishReasons
       /\ reason = "tool_calls" => Marked' # {}
       /\ reason = "completed" => Marked' = {}
  BY <1>21 DEF Contract!FinishReasons
<1> HIDE DEF reason
<1>23. SlotsOf(batch) \cap Marked = {} /\ Marked \cup SlotsOf(batch) \subseteq Marked'
  BY <1>4, <1>8, <1>19
<1> QED
  BY <1>1, <1>8, <1>9, <1>13, <1>16, <1>17, <1>18, <1>20, <1>21, <1>22, <1>23, CompletionStep

LEMMA ResponseIncompleteStep ==
    ASSUME ResponsesInv, NEW reason \in {"length", "other"}, ResponseIncomplete(reason)
    PROVE  ResponsesInv'
<1>1. /\ Reading
      /\ terminal' = TRUE
      /\ queue' = <<Completed(reason)>>
      /\ UNCHANGED <<calls, hadToolCalls, final, emitted, outcome>>
  BY DEF ResponseIncomplete
<1>2. /\ CallsTyped /\ Cardinality(DOMAIN calls) <= MaxPendingToolCalls
      /\ hadToolCalls <=> Marked # {}
      /\ final \subseteq Marked
  BY <1>1, ReadingSaid
<1>3. Marked' = Marked /\ CallsTyped'
  BY <1>1, <1>2 DEF Marked, CallsTyped
<1> DEFINE batch == <<>>
<1>4. /\ batch \in Seq(Events) /\ Promised(batch) /\ ~Completes(batch) /\ ~Fails(batch)
      /\ SlotsOf(batch) = {}
  BY DEF Promised, Completes, Fails, SlotsOf, CallsIn
<1>5. queue' = Append(batch, Completed(reason))
  BY <1>1
<1>6. reason \in Contract!FinishReasons /\ reason # "tool_calls" /\ reason # "completed"
  BY DEF Contract!FinishReasons
<1> HIDE DEF batch
<1>7. /\ SlotsOf(batch) \cap Marked = {} /\ Marked \cup SlotsOf(batch) \subseteq Marked'
      /\ Marked' = Marked \cup SlotsOf(batch)
      /\ Cardinality(DOMAIN calls') <= MaxPendingToolCalls
      /\ hadToolCalls' <=> Marked' # {}
      /\ final' \subseteq Marked'
  BY <1>1, <1>2, <1>3, <1>4
<1> QED
  BY <1>1, <1>3, <1>4, <1>5, <1>6, <1>7, CompletionStep

-------------------------------------------------------------------------------
(* The callback, and the end *)

(***************************************************************************)
(* emitEvent takes the next event of Said, or it stops at a failure.       *)
(***************************************************************************)
LEMMA EmitSaid ==
    ASSUME ResponsesInv, EmitNext
    PROVE  /\ emitted' \in Seq(Events) /\ queue' \in Seq(Events)
           /\ \/ emitted' = emitted /\ outcome' = "error"
              \/ /\ outcome' = outcome
                 /\ Said' = Said
                 /\ emitted' = Append(emitted, Head(queue))
                 /\ Head(queue) \in Events /\ Head(queue) # Failure
                 /\ Len(emitted) + 1 \in DOMAIN Said
                 /\ Said[Len(emitted) + 1] = Head(queue)
<1> DEFINE next == Head(queue)
<1>1. /\ emitted \in Seq(Events) /\ queue \in Seq(Events) /\ queue # <<>>
      /\ EmitQueued
  BY DEF ResponsesInv, EmitNext, EmitQueued
<1>2. CASE next = Failure
  <2>1. outcome' = "error" /\ queue' = <<>> /\ emitted' = emitted
    BY <1>1, <1>2 DEF EmitQueued
  <2> QED
    BY <1>1, <2>1
<1>3. CASE next # Failure
  <2>1. emitted' = Append(emitted, next) /\ queue' = Tail(queue) /\ outcome' = outcome
    BY <1>1, <1>3 DEF EmitQueued
  <2>2. next \in Events /\ 1 \in DOMAIN queue /\ queue[1] = next
    BY <1>1
  <2>3. Append(emitted, next) \o Tail(queue) = emitted \o queue
    BY <1>1
  <2>4. Len(emitted) + 1 \in DOMAIN Said /\ Said[Len(emitted) + 1] = next
    BY <1>1, <2>2, Concatenated DEF Said
  <2> QED
    BY <1>1, <1>3, <2>1, <2>2, <2>3, <2>4 DEF Said
<1> QED
  BY <1>2, <1>3

LEMMA EmitNextStep ==
    ASSUME ResponsesInv, EmitNext
    PROVE  ResponsesInv'
<1>1. /\ CallsTyped /\ Consistent
      /\ emitted \in Seq(Events)
      /\ hadToolCalls <=> Marked # {}
      /\ final \subseteq Marked
      /\ outcome = "streaming"
      /\ UNCHANGED <<calls, hadToolCalls, terminal, final>>
  BY DEF ResponsesInv, EmitNext, EmitQueued
<1>2. Marked' = Marked
  BY <1>1 DEF Marked
<1>3. emitted' \in Seq(Events) /\ queue' \in Seq(Events) /\ outcome' \in {"streaming", "error"}
  BY <1>1, EmitSaid
<1>4. CallsTyped'
  BY <1>1, <1>3 DEF CallsTyped
<1>5. ASSUME outcome' # "error"
      PROVE  Consistent'
  <2> DEFINE next == Head(queue)
  <2>1. /\ Said' = Said
        /\ emitted' = Append(emitted, next)
        /\ next \in Events /\ next # Failure
    BY <1>5, EmitSaid
  <2> HIDE DEF next
  <2>2. ~Fails(emitted')
    <3>1. \A k \in DOMAIN emitted' : emitted'[k] = next \/
            (k \in DOMAIN emitted /\ emitted'[k] = emitted[k])
      BY <1>1, <2>1
    <3> QED
      BY <1>1, <2>1, <3>1 DEF Consistent, Fails
  <2> QED
    BY <1>1, <1>2, <2>1, <2>2 DEF Consistent
<1> QED
  BY <1>1, <1>2, <1>3, <1>4, <1>5 DEF ResponsesInv

LEMMA EndStep ==
    ASSUME ResponsesInv, End \/ Fail
    PROVE  ResponsesInv'
<1>1. /\ CallsTyped /\ Consistent
      /\ emitted \in Seq(Events)
      /\ hadToolCalls <=> Marked # {}
      /\ final \subseteq Marked
      /\ outcome' \in {"ok", "error"}
      /\ outcome' = "ok" => queue = <<>>
      /\ queue' = <<>> /\ emitted' = emitted
      /\ UNCHANGED <<calls, hadToolCalls, terminal, final>>
  BY DEF ResponsesInv, End, Fail, ReturnOk, ReturnError, Reading
<1>2. Marked' = Marked /\ CallsTyped'
  BY <1>1 DEF Marked, CallsTyped
<1>3. outcome' = "ok" => Said' = Said
  BY <1>1 DEF Said
<1>4. outcome' # "error" => Consistent'
  BY <1>1, <1>2, <1>3 DEF Consistent
<1>5. queue' \in Seq(Events)
  BY <1>1
<1> QED
  BY <1>1, <1>2, <1>4, <1>5 DEF ResponsesInv

-------------------------------------------------------------------------------
(* Every state *)

(***************************************************************************)
(* Every step keeps the invariant.                                         *)
(***************************************************************************)
LEMMA ResponsesNext == ResponsesInv /\ [Next]_responsesVars => ResponsesInv'
<1> SUFFICES ASSUME ResponsesInv, [Next]_responsesVars PROVE ResponsesInv'
  OBVIOUS
<1>1. CASE UNCHANGED responsesVars
  BY <1>1 DEF responsesVars, ResponsesInv, CallsTyped, Marked, Consistent, Said
<1>2. ASSUME NEW i \in OutputIndexes, NEW item \in Item,
             OutputItemAdded(i, item) \/ OutputItemDone(i, item)
      PROVE  ResponsesInv'
  BY <1>2, OutputItemAddedStep, OutputItemDoneStep
<1>3. ASSUME NEW i \in OutputIndexes, ArgumentsDelta(i)
      PROVE  ResponsesInv'
  BY <1>3, ArgumentsDeltaStep
<1>4. ASSUME NEW i \in OutputIndexes, NEW arguments \in 0 .. Full + 1,
             ArgumentsDone(i, arguments)
      PROVE  ResponsesInv'
  BY <1>4, ArgumentsDoneStep
<1>5. ASSUME NEW output \in UNION {[1 .. n -> Item \cup {Other}] : n \in 0 .. MaxOutput},
             ResponseCompleted(output)
      PROVE  ResponsesInv'
  <2>1. PICK n \in 0 .. MaxOutput : output \in [1 .. n -> Item \cup {Other}]
    OBVIOUS
  <2> QED
    BY <1>5, <2>1, ResponseCompletedStep
<1>6. ASSUME NEW reason \in {"length", "other"}, ResponseIncomplete(reason)
      PROVE  ResponsesInv'
  BY <1>6, ResponseIncompleteStep
<1>7. CASE EmitNext
  BY <1>7, EmitNextStep
<1>8. CASE End \/ Fail
  BY <1>8, EndStep
<1> QED
  BY <1>1, <1>2, <1>3, <1>4, <1>5, <1>6, <1>7, <1>8 DEF Next, Consume

(***************************************************************************)
(* The invariant holds in every reachable state.                           *)
(***************************************************************************)
LEMMA ResponsesInvariant == Spec => []ResponsesInv
<1> QED
  BY ResponsesInit, ResponsesNext, PTL DEF Spec

(***************************************************************************)
(* Every variable has its type: when the stream goes on, no more calls are *)
(* pending than maxPendingToolCalls allows.                                *)
(***************************************************************************)
THEOREM ResponsesTyped == Spec => []ResponsesTypeOK
<1>1. ResponsesInv => ResponsesTypeOK
  <2> SUFFICES ASSUME ResponsesInv PROVE ResponsesTypeOK
    OBVIOUS
  <2>1. CallsTyped /\ final \subseteq Marked
    BY DEF ResponsesInv
  <2>2. DOMAIN calls \subseteq Nat /\ final \subseteq Nat
    BY <2>1, SlotsAreNat DEF CallsTyped, Marked
  <2>3. Reading => Cardinality(DOMAIN calls) <= MaxPendingToolCalls
    BY ReadingSaid
  <2> QED
    BY <2>1, <2>2, <2>3 DEF ResponsesTypeOK, CallsTyped
<1> QED
  BY <1>1, ResponsesInvariant, PTL

-------------------------------------------------------------------------------
(* What was said *)

(***************************************************************************)
(* FinalCallsEmitted: the calls of a completed response are marked, and    *)
(* those that are marked were emitted, each once.                          *)
(***************************************************************************)
THEOREM ResponsesFinalCallsEmitted == Spec => []FinalCallsEmitted
<1>1. ResponsesInv => FinalCallsEmitted
  <2> SUFFICES ASSUME ResponsesInv, queue = <<>>, outcome # "error", NEW i \in final
               PROVE  \E k \in DOMAIN emitted :
                        /\ emitted[k].type = "tool_call" /\ emitted[k].slot = i
                        /\ \A j \in DOMAIN emitted \ {k} :
                             emitted[j].type = "tool_call" => emitted[j].slot # i
    BY DEF FinalCallsEmitted
  <2>1. emitted \in Seq(Events) /\ Consistent /\ i \in Marked
    BY DEF ResponsesInv
  <2>2. Said = emitted
    BY <2>1 DEF Said
  <2>3. i \in SlotsOf(emitted) /\ Promised(emitted)
    BY <2>1, <2>2 DEF Consistent
  <2>4. PICK k \in CallsIn(emitted) : emitted[k].slot = i
    BY <2>3 DEF SlotsOf
  <2>5. \A j \in CallsIn(emitted) : emitted[j].slot = i => j = k
    BY <2>3, <2>4 DEF Promised
  <2> QED
    BY <2>4, <2>5 DEF CallsIn
<1> QED
  BY <1>1, ResponsesInvariant, PTL

-------------------------------------------------------------------------------
(* The promises of Stream *)

(***************************************************************************)
(* The next event of Said is one the contract allows, for Said keeps the   *)
(* promises and none of what was emitted is a failure.                     *)
(***************************************************************************)
LEMMA EmitKeepsContract ==
    ASSUME ResponsesInv, EmitNext
    PROVE  [Contract!Next]_Contract!streamVars
<1>1. /\ Consistent
      /\ emitted \in Seq(Events) /\ queue \in Seq(Events)
      /\ outcome = "streaming"
  BY DEF ResponsesInv, EmitNext, EmitQueued
<1>2. CASE emitted' = emitted /\ outcome' = "error"
  BY <1>1, <1>2 DEF Contract!Next, Contract!ReturnError
<1>3. ASSUME outcome' # "error"
      PROVE  Contract!Next
  <2> DEFINE event == Head(queue)
             next == Len(emitted) + 1
  <2>1. /\ outcome' = outcome
        /\ emitted' = Append(emitted, event)
        /\ event \in Events /\ event # Failure
        /\ next \in DOMAIN Said
        /\ Said[next] = event
    BY <1>3, EmitSaid
  <2> HIDE DEF event
  <2>2. Promised(Said) /\ ~Fails(emitted)
    BY <1>1 DEF Consistent
  <2>3. /\ Len(emitted) \in Nat
        /\ \A k \in DOMAIN emitted : k \in DOMAIN Said /\ Said[k] = emitted[k]
        /\ \A k \in DOMAIN emitted : k \in Nat /\ k < next
    BY <1>1, Concatenated DEF Said
  <2>4. \A k \in DOMAIN Said : k < next => k \in DOMAIN emitted
    <3> SUFFICES ASSUME NEW k \in DOMAIN Said, k < next
                 PROVE  k \in DOMAIN emitted
      OBVIOUS
    <3>1. k \in Nat /\ (k \in DOMAIN emitted \/ \E n \in DOMAIN queue : k = Len(emitted) + n)
      BY <1>1, Concatenated DEF Said
    <3>2. \A n \in DOMAIN queue : n \in Nat \ {0}
      BY <1>1
    <3> QED
      BY <2>3, <3>1, <3>2
  <2>5. Contract!OfType(emitted, "tool_call") = CallsIn(emitted)
    BY DEF Contract!OfType, CallsIn
  <2>6. \A k \in CallsIn(emitted) : k \in CallsIn(Said)
    BY <2>3 DEF CallsIn
  <2>7. Contract!Open
    BY <1>1 DEF Contract!Open
  <2>8. CASE event \in [type : {"tool_call"}, slot : SlotRange, call : Item]
    <3>1. /\ event = ToolCall(event.slot, event.call)
          /\ event.type = "tool_call"
          /\ event.slot \in SlotRange /\ event.call \in Item
      BY <2>8 DEF ToolCall
    <3>2. next \in CallsIn(Said)
      BY <2>1, <3>1 DEF CallsIn
    <3>3. \A k \in CallsIn(emitted) : emitted[k].slot # event.slot
      <4> TAKE k \in CallsIn(emitted)
      <4>1. k \in CallsIn(Said) /\ Said[k] = emitted[k] /\ k # next
        BY <2>3, <2>6 DEF CallsIn
      <4> QED
        BY <2>1, <2>2, <3>2, <4>1 DEF Promised
    <3>4. Contract!EmitToolCall(event.slot, event.call)
      BY <2>1, <2>5, <2>7, <3>1, <3>3 DEF Contract!EmitToolCall, Contract!ToolCall, ToolCall
    <3> QED
      BY <3>1, <3>4 DEF Contract!Next, SlotRange
  <2>9. CASE event \in [type : {"completed"}, reason : Contract!FinishReasons]
    <3>1. /\ event = Completed(event.reason)
          /\ event.type = "completed"
          /\ event.reason \in Contract!FinishReasons
      BY <2>9 DEF Completed
    <3>2. ASSUME event.reason = "tool_calls"
          PROVE  CallsIn(emitted) # {}
      <4>1. PICK j \in DOMAIN Said : j < next /\ (j \in CallsIn(Said) \/ Said[j] = Failure)
        BY <2>1, <2>2, <3>1, <3>2 DEF Promised
      <4>2. j \in DOMAIN emitted /\ Said[j] = emitted[j]
        BY <2>3, <2>4, <4>1
      <4>3. j \in CallsIn(Said)
        BY <2>2, <4>1, <4>2 DEF Fails
      <4> QED
        BY <4>2, <4>3 DEF CallsIn
    <3>3. ASSUME event.reason = "completed"
          PROVE  CallsIn(emitted) = {}
      <4>1. \A j \in DOMAIN Said : j < next => j \notin CallsIn(Said)
        BY <2>1, <2>2, <3>1, <3>3 DEF Promised
      <4> QED
        BY <2>3, <2>6, <4>1 DEF CallsIn
    <3>4. Contract!EmitCompleted(event.reason)
      BY <2>1, <2>5, <2>7, <3>1, <3>2, <3>3 DEF Contract!EmitCompleted, Contract!Completed,
         Completed
    <3> QED
      BY <3>1, <3>4 DEF Contract!Next
  <2> QED
    BY <2>1, <2>8, <2>9 DEF Events
<1> QED
  BY <1>1, <1>2, <1>3, EmitSaid

(***************************************************************************)
(* Whatever the provider sends, the Responses adapter keeps the promises   *)
(* of Stream: every step is one of ModelStream or leaves it as it is.      *)
(***************************************************************************)
THEOREM ResponsesKeepsContract == Spec => ResponsesContract
<1>1. Init => Contract!Init
  BY DEF Init, OutputInit, Contract!Init
<1>2. ResponsesInv /\ [Next]_responsesVars => [Contract!Next]_Contract!streamVars
  <2> SUFFICES ASSUME ResponsesInv, [Next]_responsesVars
               PROVE  [Contract!Next]_Contract!streamVars
    OBVIOUS
  <2>1. CASE UNCHANGED <<emitted, outcome>>
    BY <2>1 DEF Contract!streamVars
  <2>2. CASE EmitNext
    BY <2>2, EmitKeepsContract
  <2>3. CASE End
    <3>1. /\ Reading /\ terminal /\ outcome = "streaming" /\ outcome' = "ok"
          /\ emitted' = emitted
      BY <2>3 DEF End, ReturnOk, Reading
    <3>2. Completes(emitted)
      BY <3>1, ReadingSaid
    <3>3. Contract!Return
      BY <3>1, <3>2 DEF Contract!Return, Contract!OfType, Completes
    <3> QED
      BY <3>3 DEF Contract!Next
  <2>4. CASE Fail
    BY <2>4 DEF Fail, ReturnError, Contract!Next, Contract!ReturnError
  <2>5. ASSUME Consume
        PROVE  UNCHANGED <<emitted, outcome>>
    <3>1. ASSUME NEW i \in OutputIndexes, NEW item \in Item,
                 OutputItemAdded(i, item) \/ OutputItemDone(i, item)
          PROVE  UNCHANGED <<emitted, outcome>>
      BY <3>1 DEF OutputItemAdded, OutputItemDone
    <3>2. ASSUME NEW i \in OutputIndexes,
                 \/ ArgumentsDelta(i)
                 \/ \E arguments \in 0 .. Full + 1 : ArgumentsDone(i, arguments)
          PROVE  UNCHANGED <<emitted, outcome>>
      BY <3>2 DEF ArgumentsDelta, ArgumentsDone
    <3>3. ASSUME NEW output, ResponseCompleted(output)
          PROVE  UNCHANGED <<emitted, outcome>>
      BY <3>3 DEF ResponseCompleted
    <3>4. ASSUME NEW reason, ResponseIncomplete(reason)
          PROVE  UNCHANGED <<emitted, outcome>>
      BY <3>4 DEF ResponseIncomplete
    <3> QED
      BY <2>5, <3>1, <3>2, <3>3, <3>4 DEF Consume
  <2>6. UNCHANGED responsesVars => UNCHANGED <<emitted, outcome>>
    BY DEF responsesVars
  <2> QED
    BY <2>1, <2>2, <2>3, <2>4, <2>5, <2>6 DEF Next
<1> QED
  BY <1>1, <1>2, ResponsesInvariant, PTL DEF Spec, ResponsesContract, Contract!Spec

===============================================================================
