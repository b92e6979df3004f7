---------------------- MODULE ChatCompletionsStreamProofs ----------------------
(***************************************************************************)
(* The Chat Completions adapter is correct for any indexes, IDs, fragments *)
(* and limits, whatever the provider sends.  The argument: each pending    *)
(* call is at any time what the deltas of its index say together           *)
(* (Gathered); nothing is said before the finish reason (Silent); then a   *)
(* script is fixed, the pending calls by their index and, once [DONE] is   *)
(* read, the completion, and what was said is a first part of it           *)
(* (InOrder).                                                              *)
(***************************************************************************)
EXTENDS ChatCompletionsStream, AdapterOutputProofs

EmittedCall == [id : CallIDs, arguments : Seq(Fragments)]

Reasons == {"completed", "tool_calls", "length", "other"}

Events ==
    [type : {"tool_call"}, slot : Nat, call : EmittedCall]
      \cup [type : {"completed"}, reason : Reasons]
      \cup {Failure}

\* The numbers of the deltas of an index, and of those that bring a fragment.
PiecesOf(deltas, i) == {n \in DOMAIN deltas : deltas[n].index = i}

FragmentsOf(deltas, i) ==
    {n \in DOMAIN deltas : deltas[n].index = i /\ deltas[n].fragment # Empty}

\* The call is what the deltas of the index say together.
Gathers(deltas, i, call) ==
    /\ {deltas[n].id : n \in PiecesOf(deltas, i)} \ {Empty} = {call.id} \ {Empty}
    /\ \E order \in Sorted(FragmentsOf(deltas, i)) :
         call.arguments = [k \in DOMAIN order |-> deltas[order[k]].fragment]

Gathered ==
    /\ DOMAIN calls = {received[n].index : n \in DOMAIN received}
    /\ \A i \in DOMAIN calls : Gathers(received, i, calls[i])

\* All that the adapter has to say so far.
CallsInOrder(order) == [k \in DOMAIN order |-> CallOf(order[k])]

Script(order) ==
    IF done THEN Append(CallsInOrder(order), Completed(finishReason))
    ELSE CallsInOrder(order)

Silent ==
    ~finished => emitted = <<>> /\ queue = <<>> /\ ~done /\ outcome # "ok"

Agrees == (finishReason = "tool_calls") <=> (DOMAIN calls # {})

InOrder ==
    \E order \in Sorted(DOMAIN calls) : Delivers(Script(order), emitted, queue, outcome)

ChatInv ==
    /\ ChatTypeOK
    /\ IsFiniteSet(DOMAIN calls)
    /\ Len(received) <= MaxDeltas
    /\ emitted \in Seq(Events) /\ queue \in Seq(Events)
    /\ Gathered
    /\ Silent
    /\ finished => Agrees /\ InOrder
    /\ outcome = "ok" => done /\ queue = <<>>

USE DEF outputVars, adapterVars

-------------------------------------------------------------------------------
(* The calls, put together *)

(***************************************************************************)
(* An index without a delta has a new call.                                *)
(***************************************************************************)
LEMMA NewGathers ==
    ASSUME NEW deltas, NEW i, PiecesOf(deltas, i) = {}
    PROVE  Gathers(deltas, i, NewCall)
<1>1. FragmentsOf(deltas, i) = {}
  BY DEF PiecesOf, FragmentsOf
<1>2. <<>> \in Sorted(FragmentsOf(deltas, i))
  BY <1>1, SortedEmpty
<1>3. NewCall.id = Empty /\ NewCall.arguments = <<>>
  BY DEF NewCall
<1>4. <<>> = [k \in DOMAIN <<>> |-> deltas[<<>>[k]].fragment]
  OBVIOUS
<1>5. {deltas[n].id : n \in PiecesOf(deltas, i)} = {}
  OBVIOUS
<1> QED
  BY <1>2, <1>3, <1>4, <1>5 DEF Gathers

(***************************************************************************)
(* The deltas of an index are finitely many, and those before another one  *)
(* keep their numbers.                                                     *)
(***************************************************************************)
LEMMA FragmentsAre ==
    ASSUME NEW deltas \in Seq(Delta), NEW i
    PROVE  /\ IsFiniteSet(FragmentsOf(deltas, i))
           /\ FragmentsOf(deltas, i) \subseteq 1 .. Len(deltas)
           /\ FragmentsOf(deltas, i) \subseteq Nat
           /\ Cardinality(FragmentsOf(deltas, i)) \in Nat
           /\ Cardinality(FragmentsOf(deltas, i)) <= Len(deltas)
<1>1. Len(deltas) \in Nat /\ DOMAIN deltas = 1 .. Len(deltas)
  OBVIOUS
<1>2. FragmentsOf(deltas, i) \subseteq 1 .. Len(deltas)
  BY <1>1 DEF FragmentsOf
<1>3. IsFiniteSet(1 .. Len(deltas)) /\ Cardinality(1 .. Len(deltas)) = Len(deltas)
  BY <1>1, FS_Interval
<1>4. /\ IsFiniteSet(FragmentsOf(deltas, i))
      /\ Cardinality(FragmentsOf(deltas, i)) <= Cardinality(1 .. Len(deltas))
  BY <1>2, <1>3, FS_Subset
<1>5. Cardinality(FragmentsOf(deltas, i)) \in Nat
  BY <1>4, FS_CardinalityType
<1> QED
  BY <1>1, <1>2, <1>3, <1>4, <1>5

LEMMA DeltaAppended ==
    ASSUME NEW deltas \in Seq(Delta), NEW delta \in Delta
    PROVE  /\ Append(deltas, delta) \in Seq(Delta)
           /\ Len(Append(deltas, delta)) = Len(deltas) + 1
           /\ DOMAIN Append(deltas, delta) = DOMAIN deltas \cup {Len(deltas) + 1}
           /\ Len(deltas) + 1 \notin DOMAIN deltas
           /\ Append(deltas, delta)[Len(deltas) + 1] = delta
           /\ \A n \in DOMAIN deltas : Append(deltas, delta)[n] = deltas[n]
<1>1. Len(deltas) \in Nat /\ DOMAIN deltas = 1 .. Len(deltas)
  OBVIOUS
<1>2. 1 .. Len(deltas) + 1 = (1 .. Len(deltas)) \cup {Len(deltas) + 1}
  BY <1>1
<1> QED
  BY <1>1, <1>2

(***************************************************************************)
(* consumeToolDelta puts the call together: a delta of another index       *)
(* leaves it, one of its own brings the ID it has not yet, or the same,    *)
(* and the next fragment of the arguments.                                 *)
(***************************************************************************)
LEMMA OtherGathers ==
    ASSUME NEW deltas \in Seq(Delta), NEW delta \in Delta, NEW i, delta.index # i,
           NEW call, Gathers(deltas, i, call)
    PROVE  Gathers(Append(deltas, delta), i, call)
<1> DEFINE more == Append(deltas, delta)
           last == Len(deltas) + 1
<1>1. /\ DOMAIN more = DOMAIN deltas \cup {last}
      /\ last \notin DOMAIN deltas
      /\ more[last] = delta
      /\ \A n \in DOMAIN deltas : more[n] = deltas[n]
  BY DeltaAppended
<1> HIDE DEF more, last
<1>2. PiecesOf(more, i) = PiecesOf(deltas, i)
  BY <1>1 DEF PiecesOf
<1>3. FragmentsOf(more, i) = FragmentsOf(deltas, i)
  BY <1>1 DEF FragmentsOf
<1>4. {more[n].id : n \in PiecesOf(more, i)} = {deltas[n].id : n \in PiecesOf(deltas, i)}
  BY <1>1, <1>2 DEF PiecesOf
<1>5. PICK order \in Sorted(FragmentsOf(deltas, i)) :
        call.arguments = [k \in DOMAIN order |-> deltas[order[k]].fragment]
  BY DEF Gathers
<1>6. \A k \in DOMAIN order : more[order[k]] = deltas[order[k]]
  <2>1. \A k \in DOMAIN order : order[k] \in FragmentsOf(deltas, i)
    BY FragmentsAre, SortedHolds
  <2> QED
    BY <1>1, <2>1 DEF FragmentsOf
<1>7. call.arguments = [k \in DOMAIN order |-> more[order[k]].fragment]
  BY <1>5, <1>6
<1> QED
  BY <1>3, <1>4, <1>7 DEF Gathers, more

LEMMA OwnGathers ==
    ASSUME NEW deltas \in Seq(Delta), NEW delta \in Delta, NEW call, NEW after,
           Gathers(deltas, delta.index, call), Stable(call.id, delta.id),
           after.id = SetStable(call.id, delta.id),
           after.arguments = IF delta.fragment = Empty THEN call.arguments
                             ELSE Append(call.arguments, delta.fragment)
    PROVE  Gathers(Append(deltas, delta), delta.index, after)
<1> DEFINE more == Append(deltas, delta)
           last == Len(deltas) + 1
           i == delta.index
<1>1. /\ DOMAIN more = DOMAIN deltas \cup {last}
      /\ last \notin DOMAIN deltas
      /\ more[last] = delta
      /\ \A n \in DOMAIN deltas : more[n] = deltas[n]
      /\ last \in Nat
      /\ \A n \in 1 .. Len(deltas) : n < last
  BY DeltaAppended
<1> HIDE DEF more, last
<1>2. PiecesOf(more, i) = PiecesOf(deltas, i) \cup {last}
  BY <1>1 DEF PiecesOf
<1>3. {more[n].id : n \in PiecesOf(more, i)}
        = {deltas[n].id : n \in PiecesOf(deltas, i)} \cup {delta.id}
  BY <1>1, <1>2 DEF PiecesOf
<1>4. {more[n].id : n \in PiecesOf(more, i)} \ {Empty} = {after.id} \ {Empty}
  BY <1>3 DEF Gathers, Stable, SetStable
<1>5. PICK order \in Sorted(FragmentsOf(deltas, i)) :
        call.arguments = [k \in DOMAIN order |-> deltas[order[k]].fragment]
  BY DEF Gathers
<1>6. \A k \in DOMAIN order :
        order[k] \in DOMAIN deltas /\ more[order[k]] = deltas[order[k]]
  <2>1. \A k \in DOMAIN order : order[k] \in FragmentsOf(deltas, i)
    BY FragmentsAre, SortedHolds
  <2> QED
    BY <1>1, <2>1 DEF FragmentsOf
<1>7. CASE delta.fragment = Empty
  <2>1. FragmentsOf(more, i) = FragmentsOf(deltas, i)
    BY <1>1, <1>7 DEF FragmentsOf
  <2>2. after.arguments = [k \in DOMAIN order |-> more[order[k]].fragment]
    BY <1>5, <1>6, <1>7
  <2> QED
    BY <1>4, <2>1, <2>2 DEF Gathers, more
<1>8. CASE delta.fragment # Empty
  <2> DEFINE longer == Append(order, last)
             size == Len(order)
  <2>1. FragmentsOf(more, i) = FragmentsOf(deltas, i) \cup {last}
    BY <1>1, <1>8 DEF FragmentsOf
  <2>2. /\ longer \in Sorted(FragmentsOf(more, i))
        /\ DOMAIN longer = DOMAIN order \cup {size + 1}
        /\ \A k \in DOMAIN order : longer[k] = order[k]
        /\ longer[size + 1] = last
        /\ size + 1 \notin DOMAIN order
    BY <1>1, <2>1, FragmentsAre, SortedAppend
  <2>3. size \in Nat /\ DOMAIN order = 1 .. size
    BY FragmentsAre, SortedHolds
  <2>4. after.arguments = Append([k \in DOMAIN order |-> deltas[order[k]].fragment], delta.fragment)
    BY <1>5, <1>8
  <2> HIDE DEF longer, size
  <2>5. after.arguments = [k \in DOMAIN longer |-> more[longer[k]].fragment]
    <3> DEFINE old == [k \in 1 .. size |-> deltas[order[k]].fragment]
               new == [k \in 1 .. size + 1 |-> more[longer[k]].fragment]
    <3>1. 1 .. size + 1 = (1 .. size) \cup {size + 1}
      BY <2>3
    <3>2. DOMAIN longer = 1 .. size + 1
      BY <2>2, <2>3, <3>1
    <3>3. \A k \in 1 .. size : new[k] = old[k]
      BY <1>6, <2>2, <2>3, <3>1
    <3>4. new[size + 1] = delta.fragment
      BY <1>1, <2>2, <3>1
    <3>5. DOMAIN old = 1 .. size /\ DOMAIN new = 1 .. size + 1
      OBVIOUS
    <3>6. after.arguments = Append(old, delta.fragment)
      BY <2>3, <2>4
    <3>7. Len(old) = size
      BY <2>3
    <3>8. new = [k \in 1 .. size + 1 |-> IF k = size + 1 THEN delta.fragment ELSE old[k]]
      BY <3>1, <3>3, <3>4
    <3> HIDE DEF old, new
    <3>9. Append(old, delta.fragment) = new
      BY <2>3, <3>5, <3>7, <3>8
    <3> QED
      BY <3>2, <3>6, <3>9 DEF new
  <2> QED
    BY <1>4, <2>2, <2>5 DEF Gathers, more
<1> QED
  BY <1>7, <1>8

(***************************************************************************)
(* Without a delta the calls stay what the deltas say.                     *)
(***************************************************************************)
LEMMA GatheredKept ==
    ASSUME Gathered, UNCHANGED <<calls, received>>
    PROVE  Gathered'
<1>1. DOMAIN calls' = {received'[n].index : n \in DOMAIN received'}
  BY DEF Gathered
<1>2. calls' = calls /\ received' = received
  OBVIOUS
<1>3. \A i \in DOMAIN calls' : Gathers(received', i, calls'[i])
  BY <1>2 DEF Gathered
<1> QED
  BY <1>1, <1>3 DEF Gathered, Gathers, PiecesOf, FragmentsOf, Sorted

-------------------------------------------------------------------------------
(* The stream before the finish reason *)

(***************************************************************************)
(* Initially nothing was received and nothing was said.                    *)
(***************************************************************************)
LEMMA ChatInit == Init => ChatInv
<1> SUFFICES ASSUME Init PROVE ChatInv
  OBVIOUS
<1>1. /\ calls = <<>> /\ received = <<>> /\ emitted = <<>> /\ queue = <<>>
      /\ done = FALSE /\ outcome = "streaming" /\ finishReason = "none"
  BY DEF Init, OutputInit
<1>2. DOMAIN calls = {} /\ DOMAIN received = {}
  BY <1>1
<1>3. IsFiniteSet(DOMAIN calls) /\ Cardinality(DOMAIN calls) = 0
  BY <1>2, FS_EmptySet
<1>4. received \in Seq(Delta) /\ Len(received) = 0
  BY <1>1
<1>5. emitted \in Seq(Events) /\ queue \in Seq(Events)
  BY <1>1
<1>6. ChatTypeOK
  <2>1. Cardinality(DOMAIN calls) <= MaxPendingToolCalls
    BY <1>3, ChatConstants
  <2>2. /\ finishReason \in {"none", "completed", "tool_calls", "length", "other"}
        /\ done \in BOOLEAN
        /\ outcome \in {"streaming", "ok", "error"}
    BY <1>1
  <2> QED
    BY <1>2, <1>4, <2>1, <2>2 DEF ChatTypeOK
<1>7. Gathered
  BY <1>2 DEF Gathered
<1> QED
  BY <1>1, <1>3, <1>4, <1>5, <1>6, <1>7, ChatConstants DEF ChatInv, Silent, finished

(***************************************************************************)
(* A delta that consumeToolDelta accepts keeps the invariant: the call of  *)
(* its index is put together, the others stay as they are.                 *)
(***************************************************************************)
LEMMA ConsumeStep ==
    ASSUME ChatInv, NEW delta \in Delta, ConsumeToolDelta(delta)
    PROVE  ChatInv'
<1> DEFINE i == delta.index
           call == IF i \in DOMAIN calls THEN calls[i] ELSE NewCall
           after == [id |-> SetStable(call.id, delta.id),
                     type |-> SetStable(call.type, delta.type),
                     arguments |-> IF delta.fragment = Empty THEN call.arguments
                                   ELSE Append(call.arguments, delta.fragment)]
<1>1. /\ ChatTypeOK /\ Gathered /\ Silent
      /\ IsFiniteSet(DOMAIN calls)
      /\ emitted \in Seq(Events) /\ queue \in Seq(Events)
      /\ received \in Seq(Delta)
      /\ Len(received) < MaxDeltas
      /\ Reading /\ ~done /\ ~finished
      /\ Admitted(i)
      /\ Stable(call.id, delta.id)
      /\ received' = Append(received, delta)
      /\ UNCHANGED <<finishReason, done, queue, emitted, outcome>>
  BY DEF ChatInv, ConsumeToolDelta, ChatTypeOK
<1>2. calls' = [j \in DOMAIN calls \cup {i} |-> IF j # i THEN calls[j] ELSE after]
  BY DEF ConsumeToolDelta
<1>3. i \in Indexes /\ i \in Nat
  BY ChatConstants DEF Delta
<1>4. call \in PendingCall
  BY <1>1 DEF ChatTypeOK, PendingCall, NewCall, Types
<1> HIDE DEF call
<1>5. after \in PendingCall
  BY <1>4 DEF PendingCall, SetStable, Delta
<1>6. /\ after.id = SetStable(call.id, delta.id)
      /\ after.arguments = IF delta.fragment = Empty THEN call.arguments
                           ELSE Append(call.arguments, delta.fragment)
  OBVIOUS
<1> HIDE DEF after
<1>7. /\ DOMAIN calls' = DOMAIN calls \cup {i}
      /\ calls'[i] = after
      /\ \A j \in DOMAIN calls : j # i => calls'[j] = calls[j]
  BY <1>2
<1>8. /\ IsFiniteSet(DOMAIN calls')
      /\ Cardinality(DOMAIN calls') <= MaxPendingToolCalls
  <2>1. Cardinality(DOMAIN calls) \in Nat /\ Cardinality(DOMAIN calls) <= MaxPendingToolCalls
    BY <1>1, FS_CardinalityType DEF ChatTypeOK
  <2>2. /\ IsFiniteSet(DOMAIN calls')
        /\ Cardinality(DOMAIN calls') = IF i \in DOMAIN calls THEN Cardinality(DOMAIN calls)
                                        ELSE Cardinality(DOMAIN calls) + 1
    BY <1>1, <1>7, FS_AddElement
  <2> QED
    BY <1>1, <2>1, <2>2, ChatConstants DEF Admitted
<1>9. /\ received' \in Seq(Delta)
      /\ Len(received') = Len(received) + 1
      /\ DOMAIN received' = DOMAIN received \cup {Len(received) + 1}
      /\ received'[Len(received) + 1] = delta
      /\ \A n \in DOMAIN received : received'[n] = received[n]
  BY <1>1, DeltaAppended
<1>10. Len(received') <= MaxDeltas
  BY <1>1, <1>9, ChatConstants
<1>11. Gathers(received, i, call)
  <2>1. CASE i \in DOMAIN calls
    BY <1>1, <2>1 DEF Gathered, call
  <2>2. CASE i \notin DOMAIN calls
    <3>1. PiecesOf(received, i) = {}
      BY <1>1, <2>2 DEF Gathered, PiecesOf
    <3> QED
      BY <2>2, <3>1, NewGathers DEF call
  <2> QED
    BY <2>1, <2>2
<1>12. Gathers(received', i, after)
  BY <1>1, <1>6, <1>11, OwnGathers
<1>13. \A j \in DOMAIN calls : j # i => Gathers(received', j, calls[j])
  BY <1>1, OtherGathers DEF Gathered
<1>14. Gathered'
  <2>1. DOMAIN calls' = {received'[n].index : n \in DOMAIN received'}
    BY <1>1, <1>7, <1>9 DEF Gathered
  <2>2. \A j \in DOMAIN calls' : Gathers(received', j, calls'[j])
    BY <1>7, <1>12, <1>13
  <2> QED
    BY <2>1, <2>2 DEF Gathered, Gathers, PiecesOf, FragmentsOf, Sorted
<1>15. ChatTypeOK'
  <2>1. \A j \in DOMAIN calls' : calls'[j] \in PendingCall
    BY <1>1, <1>5, <1>7 DEF ChatTypeOK
  <2>2. DOMAIN calls' \subseteq Indexes
    BY <1>1, <1>3, <1>7 DEF ChatTypeOK
  <2> QED
    BY <1>1, <1>8, <1>9, <2>1, <2>2 DEF ChatTypeOK
<1> QED
  BY <1>1, <1>8, <1>9, <1>10, <1>14, <1>15 DEF ChatInv, Silent, finished, Reading

-------------------------------------------------------------------------------
(* The script *)

(***************************************************************************)
(* emitToolCalls goes through the pending calls, each once, in the order   *)
(* of the indexes.                                                         *)
(***************************************************************************)
LEMMA CallsHold ==
    ASSUME ChatTypeOK, IsFiniteSet(DOMAIN calls), NEW order \in Sorted(DOMAIN calls)
    PROVE  /\ Len(order) \in Nat /\ DOMAIN order = 1 .. Len(order)
           /\ CallsInOrder(order) \in Seq(Events)
           /\ Len(CallsInOrder(order)) = Len(order)
           /\ \A n \in DOMAIN order :
                order[n] \in DOMAIN calls /\ CallsInOrder(order)[n] = CallOf(order[n])
           /\ \A i \in DOMAIN calls : \E n \in DOMAIN order : order[n] = i
           /\ \A j, k \in DOMAIN order : j < k => order[j] < order[k]
           /\ \A j, k \in DOMAIN order : order[j] = order[k] => j = k
<1>1. DOMAIN calls \subseteq Nat
  BY ChatConstants DEF ChatTypeOK
<1>2. /\ Len(order) \in Nat
      /\ DOMAIN order = 1 .. Len(order)
      /\ \A n \in DOMAIN order : order[n] \in DOMAIN calls
      /\ \A i \in DOMAIN calls : \E n \in DOMAIN order : order[n] = i
      /\ \A j, k \in DOMAIN order : j < k => order[j] < order[k]
      /\ \A j, k \in DOMAIN order : order[j] = order[k] => j = k
  BY <1>1, SortedHolds
<1>3. \A i \in DOMAIN calls : CallOf(i) \in Events
  <2> TAKE i \in DOMAIN calls
  <2> DEFINE call == calls[i]
  <2>1. call \in PendingCall /\ i \in Nat
    BY <1>1 DEF ChatTypeOK
  <2>2. CallOf(i) = IF call.type = "function" /\ call.id # Empty /\ call.arguments # <<>>
                    THEN ToolCall(i, Identified(call)) ELSE Failure
    BY DEF CallOf
  <2> HIDE DEF call
  <2>3. call.id # Empty => Identified(call) \in EmittedCall
    BY <2>1 DEF PendingCall, Identified, EmittedCall
  <2> QED
    BY <2>1, <2>2, <2>3 DEF ToolCall, Events
<1>4. /\ CallsInOrder(order) \in Seq(Events) /\ Len(CallsInOrder(order)) = Len(order)
      /\ \A n \in DOMAIN order : CallsInOrder(order)[n] = CallOf(order[n])
  BY <1>2, <1>3 DEF CallsInOrder
<1> QED
  BY <1>2, <1>4

(***************************************************************************)
(* The script holds what becomes of every pending call and, after [DONE],  *)
(* the completion.                                                         *)
(***************************************************************************)
LEMMA ScriptHolds ==
    ASSUME ChatTypeOK, IsFiniteSet(DOMAIN calls), finished, NEW order \in Sorted(DOMAIN calls)
    PROVE  /\ Completed(finishReason) \in Events
           /\ Script(order) \in Seq(Events)
           /\ Len(Script(order)) = IF done THEN Len(order) + 1 ELSE Len(order)
           /\ \A n \in DOMAIN order : Script(order)[n] = CallOf(order[n])
           /\ done => Script(order)[Len(order) + 1] = Completed(finishReason)
<1> DEFINE called == CallsInOrder(order)
           last == Completed(finishReason)
<1>1. /\ Len(order) \in Nat /\ DOMAIN order = 1 .. Len(order)
      /\ called \in Seq(Events) /\ Len(called) = Len(order)
      /\ \A n \in DOMAIN order : called[n] = CallOf(order[n])
  BY CallsHold
<1>2. last \in Events
  BY DEF Completed, Reasons, Events, ChatTypeOK, finished
<1>3. Script(order) = IF done THEN Append(called, last) ELSE called
  BY DEF Script
<1> HIDE DEF called, last
<1>4. /\ Append(called, last) \in Seq(Events)
      /\ Len(Append(called, last)) = Len(order) + 1
      /\ \A n \in DOMAIN order : Append(called, last)[n] = called[n]
      /\ Append(called, last)[Len(order) + 1] = last
  BY <1>1, <1>2
<1> QED
  BY <1>1, <1>2, <1>3, <1>4 DEF last

(***************************************************************************)
(* As long as the adapter stays as it is, so does what it has to say.      *)
(***************************************************************************)
LEMMA ScriptKept ==
    ASSUME UNCHANGED adapterVars, NEW order
    PROVE  /\ Script(order)' = Script(order)
           /\ Gathered => Gathered'
           /\ Agrees => Agrees'
           /\ finished' = finished
<1>1. CallsInOrder(order)' = CallsInOrder(order)
  BY DEF CallsInOrder, CallOf
<1>2. Script(order)' = Script(order)
  BY <1>1 DEF Script
<1>3. Gathered => Gathered'
  BY GatheredKept
<1> QED
  BY <1>2, <1>3 DEF Agrees, finished

LEMMA FinishStep ==
    ASSUME ChatInv, NEW reason \in Reasons, Finish(reason)
    PROVE  ChatInv'
<1>1. /\ ChatTypeOK /\ IsFiniteSet(DOMAIN calls) /\ Len(received) <= MaxDeltas
      /\ Gathered /\ Silent
      /\ outcome = "streaming" /\ done = FALSE /\ ~finished
      /\ (reason = "tool_calls") <=> (DOMAIN calls # {})
      /\ finishReason' = reason /\ finishReason' # "none"
      /\ UNCHANGED <<calls, done, received, emitted, outcome>>
  BY DEF ChatInv, ChatTypeOK, Finish, Reading, Reasons
<1>2. PICK order \in Sorted(DOMAIN calls) : queue' = CallsInOrder(order)
  <2>1. CASE reason = "tool_calls"
    <3>1. queue' \in CallsToEmit
      BY <2>1 DEF Finish
    <3> QED
      BY <3>1 DEF CallsToEmit, CallsInOrder
  <2>2. CASE reason # "tool_calls"
    <3>1. DOMAIN calls = {} /\ queue' = <<>>
      BY <1>1, <2>2 DEF Finish
    <3>2. <<>> \in Sorted(DOMAIN calls)
      BY <3>1, SortedEmpty
    <3>3. CallsInOrder(<<>>) = <<>>
      BY DEF CallsInOrder
    <3> QED
      BY <3>1, <3>2, <3>3
  <2> QED
    BY <2>1, <2>2
<1>3. emitted = <<>>
  BY <1>1 DEF Silent
<1>4. queue' \in Seq(Events) /\ emitted' \in Seq(Events)
  BY <1>1, <1>2, <1>3, CallsHold
<1>5. Script(order)' = CallsInOrder(order)
  BY <1>1 DEF Script, CallsInOrder, CallOf
<1>6. Delivers(queue', <<>>, queue', outcome)
  BY <1>4 DEF Delivers
<1>7. InOrder'
  BY <1>1, <1>2, <1>3, <1>5, <1>6 DEF InOrder
<1>8. Gathered'
  BY <1>1, GatheredKept
<1>9. ChatTypeOK'
  BY <1>1 DEF ChatTypeOK, Reasons
<1> QED
  BY <1>1, <1>4, <1>7, <1>8, <1>9 DEF ChatInv, Silent, Agrees, finished

(***************************************************************************)
(* [DONE] is read when all the calls were said: the completion waits then. *)
(***************************************************************************)
LEMMA CompleteStep ==
    ASSUME ChatInv, Complete
    PROVE  ChatInv'
<1>1. /\ ChatTypeOK /\ IsFiniteSet(DOMAIN calls) /\ Len(received) <= MaxDeltas
      /\ Gathered /\ Agrees /\ InOrder
      /\ emitted \in Seq(Events)
      /\ outcome = "streaming" /\ queue = <<>> /\ ~done /\ finished
      /\ queue' = <<Completed(finishReason)>> /\ done' = TRUE
      /\ UNCHANGED <<calls, finishReason, received, emitted, outcome>>
  BY DEF ChatInv, Complete, Reading
<1>2. PICK order \in Sorted(DOMAIN calls) : Delivers(Script(order), emitted, <<>>, outcome)
  BY <1>1 DEF InOrder
<1> DEFINE called == CallsInOrder(order)
           last == Completed(finishReason)
<1>3. Script(order) = called /\ called \in Seq(Events) /\ last \in Events
  BY <1>1, CallsHold, ScriptHolds DEF Script
<1>4. CallsInOrder(order)' = CallsInOrder(order)
  BY <1>1 DEF CallsInOrder, CallOf
<1>5. Script(order)' = Append(called, last)
  BY <1>1, <1>4 DEF Script
<1> HIDE DEF called
<1>6. Delivers(Append(called, last), emitted, <<last>>, outcome)
  BY <1>1, <1>2, <1>3, MoreDelivers
<1>7. queue' \in Seq(Events)
  BY <1>1, <1>3
<1> HIDE DEF last
<1>8. InOrder'
  <2>1. Delivers(Script(order)', emitted', queue', outcome')
    BY <1>1, <1>5, <1>6 DEF last
  <2> QED
    BY <1>1, <2>1 DEF InOrder
<1>9. Gathered'
  BY <1>1, GatheredKept
<1>10. ChatTypeOK'
  BY <1>1 DEF ChatTypeOK
<1> QED
  BY <1>1, <1>7, <1>8, <1>9, <1>10 DEF ChatInv, Silent, Agrees, finished

LEMMA EmitNextStep ==
    ASSUME ChatInv, EmitNext
    PROVE  ChatInv'
<1>1. /\ ChatTypeOK /\ IsFiniteSet(DOMAIN calls) /\ Len(received) <= MaxDeltas
      /\ Gathered /\ Silent
      /\ emitted \in Seq(Events) /\ queue \in Seq(Events)
      /\ queue # <<>> /\ outcome = "streaming"
      /\ EmitQueued /\ UNCHANGED adapterVars
  BY DEF ChatInv, EmitNext, EmitQueued
<1>2. finished
  BY <1>1 DEF Silent
<1>3. Agrees /\ InOrder
  BY <1>2 DEF ChatInv
<1>4. PICK order \in Sorted(DOMAIN calls) : Delivers(Script(order), emitted, queue, outcome)
  BY <1>3 DEF InOrder
<1>5. Script(order) \in Seq(Events)
  BY <1>1, <1>2, ScriptHolds
<1>6. /\ emitted' \in Seq(Events) /\ queue' \in Seq(Events)
      /\ Delivers(Script(order), emitted', queue', outcome')
      /\ outcome' \in {"streaming", "error"}
  BY <1>1, <1>4, <1>5, EmitDelivers
<1>7. InOrder'
  BY <1>1, <1>6, ScriptKept DEF InOrder
<1>8. Gathered' /\ Agrees' /\ finished'
  BY <1>1, <1>2, <1>3, ScriptKept
<1>9. ChatTypeOK'
  BY <1>1, <1>6 DEF ChatTypeOK
<1> QED
  BY <1>1, <1>6, <1>7, <1>8, <1>9 DEF ChatInv, Silent

LEMMA EndStep ==
    ASSUME ChatInv, End \/ Fail
    PROVE  ChatInv'
<1>1. /\ ChatTypeOK /\ IsFiniteSet(DOMAIN calls) /\ Len(received) <= MaxDeltas
      /\ Gathered /\ Silent
      /\ emitted \in Seq(Events) /\ queue \in Seq(Events)
      /\ outcome = "streaming" /\ outcome' \in {"ok", "error"}
      /\ outcome' = "ok" => done /\ queue = <<>>
      /\ queue' = <<>> /\ emitted' = emitted
      /\ UNCHANGED adapterVars
  BY DEF ChatInv, End, Fail, ReturnOk, ReturnError, Reading
<1>2. ASSUME finished
      PROVE  Agrees' /\ InOrder'
  <2>1. Agrees /\ InOrder
    BY <1>2 DEF ChatInv
  <2>2. PICK order \in Sorted(DOMAIN calls) : Delivers(Script(order), emitted, queue, outcome)
    BY <2>1 DEF InOrder
  <2>3. Delivers(Script(order), emitted', queue', outcome')
    <3>1. CASE outcome' = "error"
      BY <1>1, <2>2, <3>1, ErrorDelivers
    <3>2. CASE outcome' = "ok"
      BY <1>1, <2>2, <3>2 DEF Delivers
    <3> QED
      BY <1>1, <3>1, <3>2
  <2>4. InOrder'
    BY <1>1, <2>3, ScriptKept DEF InOrder
  <2> QED
    BY <1>1, <2>1, <2>4, ScriptKept
<1>3. Gathered' /\ finished' = finished
  BY <1>1, ScriptKept
<1>4. ChatTypeOK'
  BY <1>1 DEF ChatTypeOK
<1>5. Silent'
  BY <1>1, <1>3 DEF Silent
<1> QED
  BY <1>1, <1>2, <1>3, <1>4, <1>5 DEF ChatInv

-------------------------------------------------------------------------------
(* Every state *)

(***************************************************************************)
(* Every step keeps the invariant.                                         *)
(***************************************************************************)
LEMMA ChatNext == ChatInv /\ [Next]_chatVars => ChatInv'
<1> SUFFICES ASSUME ChatInv, [Next]_chatVars PROVE ChatInv'
  OBVIOUS
<1>1. CASE UNCHANGED chatVars
  <2>1. /\ UNCHANGED adapterVars
        /\ UNCHANGED <<calls, finishReason, done, received, queue, emitted, outcome>>
    BY <1>1 DEF chatVars
  <2>2. Gathered' /\ Silent'
    BY <2>1, GatheredKept DEF ChatInv, Silent, finished
  <2>3. ASSUME finished
        PROVE  Agrees' /\ InOrder'
    <3>1. Agrees /\ InOrder
      BY <2>3 DEF ChatInv
    <3> QED
      BY <2>1, <3>1, ScriptKept DEF InOrder
  <2>4. ChatTypeOK' /\ finished' = finished
    BY <2>1 DEF ChatInv, ChatTypeOK, finished
  <2> QED
    BY <2>1, <2>2, <2>3, <2>4 DEF ChatInv
<1>2. ASSUME NEW delta \in Delta, ConsumeToolDelta(delta)
      PROVE  ChatInv'
  BY <1>2, ConsumeStep
<1>3. ASSUME NEW reason \in Reasons, Finish(reason)
      PROVE  ChatInv'
  BY <1>3, FinishStep
<1>4. CASE Complete
  BY <1>4, CompleteStep
<1>5. CASE EmitNext
  BY <1>5, EmitNextStep
<1>6. CASE End \/ Fail
  BY <1>6, EndStep
<1> QED
  BY <1>1, <1>2, <1>3, <1>4, <1>5, <1>6 DEF Next, Reasons

(***************************************************************************)
(* The invariant holds in every reachable state.                           *)
(***************************************************************************)
LEMMA ChatInvariant == Spec => []ChatInv
<1> QED
  BY ChatInit, ChatNext, PTL DEF Spec

(***************************************************************************)
(* Every variable has its type: no more calls are pending than             *)
(* maxPendingToolCalls allows.                                             *)
(***************************************************************************)
THEOREM ChatTyped == Spec => []ChatTypeOK
<1>1. ChatInv => ChatTypeOK
  BY DEF ChatInv
<1> QED
  BY <1>1, ChatInvariant, PTL

-------------------------------------------------------------------------------
(* What was said *)

(***************************************************************************)
(* What was said is a first part of the script: calls that are complete,   *)
(* and in the last place the completion.                                   *)
(***************************************************************************)
LEMMA SaidByScript ==
    ASSUME ChatTypeOK, IsFiniteSet(DOMAIN calls), finished, emitted \in Seq(Events),
           NEW order \in Sorted(DOMAIN calls),
           NEW waiting, NEW result, Delivers(Script(order), emitted, waiting, result)
    PROVE  \A k \in DOMAIN emitted :
             \/ /\ k \in DOMAIN order
                /\ emitted[k] = ToolCall(order[k], Identified(calls[order[k]]))
                /\ emitted[k].type = "tool_call"
                /\ calls[order[k]].id # Empty
             \/ /\ done /\ k = Len(order) + 1
                /\ emitted[k].type = "completed"
<1>1. /\ Len(order) \in Nat /\ DOMAIN order = 1 .. Len(order)
      /\ Len(Script(order)) = IF done THEN Len(order) + 1 ELSE Len(order)
      /\ \A n \in DOMAIN order : Script(order)[n] = CallOf(order[n])
      /\ done => Script(order)[Len(order) + 1] = Completed(finishReason)
  BY CallsHold, ScriptHolds
<1> TAKE k \in DOMAIN emitted
<1>2. k \in Nat \ {0} /\ k <= Len(emitted) /\ Len(emitted) \in Nat
  OBVIOUS
<1>3. k <= Len(Script(order)) /\ emitted[k] = Script(order)[k] /\ emitted[k] # Failure
  BY <1>1, <1>2 DEF Delivers
<1>4. k \in DOMAIN order \/ (done /\ k = Len(order) + 1)
  BY <1>1, <1>2, <1>3
<1>5. CASE k \in DOMAIN order
  <2>1. emitted[k] = CallOf(order[k])
    BY <1>1, <1>3, <1>5
  <2>2. /\ emitted[k] = ToolCall(order[k], Identified(calls[order[k]]))
        /\ calls[order[k]].id # Empty
    BY <1>3, <2>1 DEF CallOf
  <2> QED
    BY <1>5, <2>2 DEF ToolCall
<1>6. CASE done /\ k = Len(order) + 1
  BY <1>1, <1>3, <1>6 DEF Completed
<1> QED
  BY <1>4, <1>5, <1>6

(***************************************************************************)
(* CallsAsStreamed: a call is emitted as consumeToolDelta put it together, *)
(* in the order of the indexes, and none is missing in the end.            *)
(***************************************************************************)
THEOREM ChatCallsAsStreamed == Spec => []CallsAsStreamed
<1>1. ChatInv => CallsAsStreamed
  <2> SUFFICES ASSUME ChatInv PROVE CallsAsStreamed
    OBVIOUS
  <2> DEFINE called == {k \in DOMAIN emitted : emitted[k].type = "tool_call"}
             indexes == {received[k].index : k \in DOMAIN received}
  <2>1. /\ ChatTypeOK /\ IsFiniteSet(DOMAIN calls) /\ emitted \in Seq(Events)
        /\ Gathered /\ Silent
    BY DEF ChatInv
  <2>2. CASE ~finished
    <3>1. called = {} /\ outcome # "ok"
      BY <2>1, <2>2 DEF Silent
    <3> QED
      BY <3>1 DEF CallsAsStreamed
  <2>3. CASE finished
    <3>1. PICK order \in Sorted(DOMAIN calls) : Delivers(Script(order), emitted, queue, outcome)
      BY <2>3 DEF ChatInv, InOrder
    <3>2. /\ Len(order) \in Nat /\ DOMAIN order = 1 .. Len(order)
          /\ \A n \in DOMAIN order : order[n] \in DOMAIN calls
          /\ \A i \in DOMAIN calls : \E n \in DOMAIN order : order[n] = i
          /\ \A j, k \in DOMAIN order : j < k => order[j] < order[k]
          /\ Len(Script(order)) = IF done THEN Len(order) + 1 ELSE Len(order)
      BY <2>1, <2>3, CallsHold, ScriptHolds
    <3>3. \A k \in called :
            /\ k \in DOMAIN order
            /\ emitted[k] = ToolCall(order[k], Identified(calls[order[k]]))
            /\ calls[order[k]].id # Empty
      BY <2>1, <2>3, <3>1, SaidByScript
    <3>4. \A k \in called :
            /\ emitted[k].slot = order[k]
            /\ emitted[k].call = Identified(calls[order[k]])
      BY <3>3 DEF ToolCall
    <3>5. \A k \in called : AsStreamed(emitted[k].slot, emitted[k].call)
      <4> TAKE k \in called
      <4> DEFINE i == order[k]
      <4>1. i \in DOMAIN calls /\ Gathers(received, i, calls[i]) /\ calls[i].id # Empty
        BY <2>1, <3>2, <3>3 DEF Gathered
      <4>2. /\ emitted[k].slot = i
            /\ emitted[k].call.id = calls[i].id
            /\ emitted[k].call.arguments = calls[i].arguments
        <5>1. emitted[k].slot = i /\ emitted[k].call = Identified(calls[i])
          BY <3>4
        <5> QED
          BY <5>1 DEF Identified
      <4> HIDE DEF i
      <4>3. Pieces(i) = PiecesOf(received, i)
        BY DEF Pieces, PiecesOf
      <4>4. {n \in Pieces(i) : received[n].fragment # Empty} = FragmentsOf(received, i)
        BY DEF Pieces, FragmentsOf
      <4>5. {received[n].id : n \in Pieces(i)} \ {Empty} = {calls[i].id}
        BY <4>1, <4>3 DEF Gathers
      <4>6. \E o \in Sorted({n \in Pieces(i) : received[n].fragment # Empty}) :
              calls[i].arguments = [m \in DOMAIN o |-> received[o[m]].fragment]
        BY <4>1, <4>4 DEF Gathers
      <4> QED
        BY <4>2, <4>5, <4>6 DEF AsStreamed
    <3>6. \A j, k \in called : j < k => emitted[j].slot < emitted[k].slot
      BY <3>2, <3>3, <3>4
    <3>7. ASSUME outcome = "ok"
          PROVE  indexes = {emitted[k].slot : k \in called}
      <4>1. done /\ queue = <<>>
        BY <3>7 DEF ChatInv
      <4>2. Len(emitted) = Len(order) + 1
        BY <2>1, <3>1, <3>2, <3>7, <4>1 DEF Delivers
      <4>3. DOMAIN order \subseteq DOMAIN emitted
        BY <2>1, <3>2, <4>2
      <4>4. \A k \in DOMAIN order : k # Len(order) + 1
        BY <3>2
      <4>5. called = DOMAIN order
        BY <2>1, <2>3, <3>1, <3>3, <4>3, <4>4, SaidByScript
      <4>6. {emitted[k].slot : k \in called} = DOMAIN calls
        <5> HIDE DEF called
        <5>1. {emitted[k].slot : k \in called} = {order[k] : k \in DOMAIN order}
          BY <3>4, <4>5
        <5> QED
          BY <3>2, <5>1
      <4> QED
        BY <2>1, <4>6 DEF Gathered
    <3> QED
      BY <3>5, <3>6, <3>7 DEF CallsAsStreamed
  <2> QED
    BY <2>2, <2>3
<1> QED
  BY <1>1, ChatInvariant, PTL

-------------------------------------------------------------------------------
(* The promises of Stream *)

\* What the contract asks of a call.
ContractCalls ==
    [id : CallIDs, arguments : UNION {[1 .. n -> Fragments] : n \in 0 .. MaxDeltas}]

(***************************************************************************)
(* A call put together has no more fragments than deltas were received.    *)
(***************************************************************************)
LEMMA CallsAreBounded ==
    ASSUME ChatInv, NEW i \in DOMAIN calls, calls[i].id # Empty
    PROVE  Identified(calls[i]) \in ContractCalls /\ i \in Indexes
<1> DEFINE call == calls[i]
<1>1. /\ call \in PendingCall /\ i \in Indexes
      /\ received \in Seq(Delta) /\ Len(received) <= MaxDeltas
      /\ Gathers(received, i, call)
  BY DEF ChatInv, ChatTypeOK, Gathered
<1> HIDE DEF call
<1>2. PICK order \in Sorted(FragmentsOf(received, i)) :
        call.arguments = [k \in DOMAIN order |-> received[order[k]].fragment]
  BY <1>1 DEF Gathers
<1> DEFINE size == Cardinality(FragmentsOf(received, i))
<1>3. size \in Nat /\ size <= Len(received) /\ DOMAIN order = 1 .. size
  BY <1>1, FragmentsAre, SortedHolds
<1>4. size \in 0 .. MaxDeltas
  <2>1. Len(received) \in Nat
    BY <1>1
  <2> QED
    BY <1>1, <1>3, <2>1, ChatConstants
<1> HIDE DEF size
<1>5. call.arguments \in Seq(Fragments)
  BY <1>1 DEF PendingCall
<1>6. call.arguments \in [1 .. size -> Fragments]
  <2>1. DOMAIN call.arguments = 1 .. size
    BY <1>2, <1>3
  <2>2. Len(call.arguments) \in Nat /\ DOMAIN call.arguments = 1 .. Len(call.arguments)
    BY <1>5
  <2>3. call.arguments \in [1 .. Len(call.arguments) -> Fragments]
    BY <1>5
  <2> QED
    BY <2>1, <2>2, <2>3
<1>7. call.arguments \in UNION {[1 .. n -> Fragments] : n \in 0 .. MaxDeltas}
  BY <1>4, <1>6
<1>8. call.id \in CallIDs
  BY <1>1 DEF PendingCall, call
<1> QED
  BY <1>1, <1>7, <1>8 DEF Identified, ContractCalls, call

(***************************************************************************)
(* The next event of the script is one the contract allows: the call of    *)
(* another index, or the completion whose reason agrees with the calls.    *)
(***************************************************************************)
LEMMA EmitKeepsContract ==
    ASSUME ChatInv, EmitNext
    PROVE  [Contract!Next]_Contract!streamVars
<1>1. /\ ChatTypeOK /\ IsFiniteSet(DOMAIN calls)
      /\ emitted \in Seq(Events) /\ queue \in Seq(Events)
      /\ outcome = "streaming"
      /\ EmitQueued
      /\ finished
  BY DEF ChatInv, EmitNext, EmitQueued, Silent
<1>2. Agrees /\ InOrder
  BY <1>1 DEF ChatInv
<1>3. PICK order \in Sorted(DOMAIN calls) : Delivers(Script(order), emitted, queue, outcome)
  BY <1>2 DEF InOrder
<1> DEFINE next == Len(emitted) + 1
<1>4. /\ Len(order) \in Nat /\ DOMAIN order = 1 .. Len(order)
      /\ Script(order) \in Seq(Events)
      /\ Len(Script(order)) = IF done THEN Len(order) + 1 ELSE Len(order)
      /\ \A n \in DOMAIN order :
           order[n] \in DOMAIN calls /\ Script(order)[n] = CallOf(order[n])
      /\ done => Script(order)[Len(order) + 1] = Completed(finishReason)
      /\ \A i \in DOMAIN calls : \E n \in DOMAIN order : order[n] = i
      /\ \A j, k \in DOMAIN order : order[j] = order[k] => j = k
  BY <1>1, CallsHold, ScriptHolds
<1>5. \/ emitted' = emitted /\ outcome' = "error"
      \/ /\ outcome' = outcome
         /\ next \in DOMAIN Script(order)
         /\ emitted' = Append(emitted, Script(order)[next])
         /\ Script(order)[next] # Failure
  BY <1>1, <1>3, <1>4, EmitDelivers
<1>6. \A k \in DOMAIN emitted :
        \/ /\ k \in DOMAIN order
           /\ emitted[k] = ToolCall(order[k], Identified(calls[order[k]]))
           /\ emitted[k].type = "tool_call"
        \/ /\ done /\ k = Len(order) + 1
           /\ emitted[k].type = "completed"
  BY <1>1, <1>3, SaidByScript
<1>7. CASE emitted' = emitted /\ outcome' = "error"
  BY <1>1, <1>7 DEF Contract!Next, Contract!ReturnError
<1>8. CASE /\ outcome' = outcome
           /\ next \in DOMAIN Script(order)
           /\ emitted' = Append(emitted, Script(order)[next])
           /\ Script(order)[next] # Failure
  <2>1. Len(emitted) \in Nat /\ DOMAIN emitted = 1 .. Len(emitted)
    BY <1>1
  <2>2. next \in 1 .. Len(order) + 1 /\ (next = Len(order) + 1 => done)
    BY <1>4, <1>8
  <2>3. \A k \in DOMAIN emitted : k # Len(order) + 1 /\ k # next
    BY <1>4, <2>1, <2>2
  <2>4. \A k \in DOMAIN emitted :
          /\ k \in DOMAIN order
          /\ emitted[k].type = "tool_call"
          /\ emitted[k].slot = order[k]
    BY <1>6, <2>3 DEF ToolCall
  <2>5. Contract!Open
    BY <1>1, <2>4 DEF Contract!Open, Contract!OfType
  <2>6. CASE next \in DOMAIN order
    <3> DEFINE call == Identified(calls[order[next]])
    <3>1. Script(order)[next] = CallOf(order[next]) /\ order[next] \in DOMAIN calls
      BY <1>4, <2>6
    <3>2. /\ Script(order)[next] = ToolCall(order[next], call)
          /\ calls[order[next]].id # Empty
      BY <1>8, <3>1 DEF CallOf
    <3>3. call \in ContractCalls /\ order[next] \in Indexes
      BY <3>1, <3>2, CallsAreBounded
    <3> HIDE DEF call, next
    <3>4. \A k \in DOMAIN emitted : emitted[k].slot # order[next]
      BY <1>4, <2>3, <2>4, <2>6
    <3>5. Contract!EmitToolCall(order[next], call)
      BY <1>8, <2>5, <3>2, <3>4 DEF Contract!EmitToolCall, Contract!OfType,
         Contract!ToolCall, ToolCall
    <3> QED
      BY <3>3, <3>5 DEF Contract!Next, ContractCalls
  <2>7. CASE next \notin DOMAIN order
    <3>1. next = Len(order) + 1 /\ done
      BY <1>4, <2>2, <2>7
    <3>2. DOMAIN emitted = DOMAIN order
      <4>1. Len(order) \in Nat
        BY <1>4
      <4>2. Len(emitted) = Len(order)
        BY <2>1, <3>1, <4>1
      <4> QED
        BY <1>4, <2>1, <4>2
    <3>3. Script(order)[next] = Completed(finishReason)
      BY <1>4, <3>1
    <3>4. finishReason \in Contract!FinishReasons
      BY <1>1 DEF ChatTypeOK, finished, Contract!FinishReasons
    <3>5. (finishReason = "tool_calls") <=> (DOMAIN order # {})
      BY <1>2, <1>4 DEF Agrees
    <3>6. Contract!OfType(emitted, "tool_call") = DOMAIN order
      BY <2>4, <3>2 DEF Contract!OfType
    <3>7. Contract!EmitCompleted(finishReason)
      BY <1>8, <2>5, <3>3, <3>5, <3>6 DEF Contract!EmitCompleted, Contract!Completed, Completed
    <3> QED
      BY <3>4, <3>7 DEF Contract!Next
  <2> QED
    BY <2>6, <2>7
<1> QED
  BY <1>5, <1>7, <1>8

(***************************************************************************)
(* The end of the stream comes after the completion.                       *)
(***************************************************************************)
LEMMA EndKeepsContract ==
    ASSUME ChatInv, End
    PROVE  Contract!Return
<1>1. /\ ChatTypeOK /\ IsFiniteSet(DOMAIN calls) /\ emitted \in Seq(Events)
      /\ done /\ queue = <<>> /\ finished
      /\ outcome = "streaming" /\ outcome' = "ok" /\ emitted' = emitted
  BY DEF ChatInv, End, ReturnOk, Reading, Silent
<1>2. PICK order \in Sorted(DOMAIN calls) : Delivers(Script(order), emitted, <<>>, "streaming")
  BY <1>1 DEF ChatInv, InOrder
<1>3. /\ Len(order) \in Nat /\ DOMAIN order = 1 .. Len(order)
      /\ Len(Script(order)) = Len(order) + 1
  BY <1>1, CallsHold, ScriptHolds
<1>4. Len(emitted) = Len(order) + 1
  BY <1>1, <1>2, <1>3 DEF Delivers
<1>5. Len(order) + 1 \in DOMAIN emitted /\ Len(order) + 1 \notin DOMAIN order
  BY <1>1, <1>3, <1>4
<1>6. emitted[Len(order) + 1].type = "completed"
  BY <1>1, <1>2, <1>5, SaidByScript
<1> QED
  BY <1>1, <1>5, <1>6 DEF Contract!Return, Contract!OfType

(***************************************************************************)
(* Whatever the provider sends, the Chat Completions adapter keeps the     *)
(* promises of Stream: every step is one of ModelStream or leaves it as it *)
(* is.                                                                     *)
(***************************************************************************)
THEOREM ChatKeepsContract == Spec => ChatContract
<1>1. Init => Contract!Init
  BY DEF Init, OutputInit, Contract!Init
<1>2. ChatInv /\ [Next]_chatVars => [Contract!Next]_Contract!streamVars
  <2> SUFFICES ASSUME ChatInv, [Next]_chatVars
               PROVE  [Contract!Next]_Contract!streamVars
    OBVIOUS
  <2>1. CASE UNCHANGED <<emitted, outcome>>
    BY <2>1 DEF Contract!streamVars
  <2>2. CASE EmitNext
    BY <2>2, EmitKeepsContract
  <2>3. CASE End
    BY <2>3, EndKeepsContract DEF Contract!Next
  <2>4. CASE Fail
    BY <2>4 DEF Fail, ReturnError, Contract!Next, Contract!ReturnError
  <2> QED
    BY <2>1, <2>2, <2>3, <2>4 DEF Next, chatVars, ConsumeToolDelta, Finish, Complete
<1> QED
  BY <1>1, <1>2, ChatInvariant, PTL DEF Spec, ChatContract, Contract!Spec

===============================================================================
