-------------------------- MODULE MessagesStreamProofs -------------------------
(***************************************************************************)
(* The Messages adapter is correct for any IDs and limits, whatever the    *)
(* provider sends.  The argument: before the whole stream was validated    *)
(* nothing is said or waits to be said (Silent); afterwards a script is    *)
(* fixed, the calls of the tool_use blocks in order and then the           *)
(* completion, and what was said is a first part of it (InOrder).          *)
(***************************************************************************)
EXTENDS MessagesStream, AdapterOutputProofs

Block == TextBlock \cup ToolBlock

Events ==
    [type : {"tool_call"}, slot : Nat, call : CallIDs]
      \cup [type : {"completed"}, reason : Contract!FinishReasons]

\* All that the adapter says of a response that is valid as a whole.
Script(order) ==
    Append([n \in DOMAIN order |-> CallOf(order[n])],
           Completed(MapFinishReason(stopReason)))

IDsDistinct ==
    /\ \A k \in ToolBlocks : blocks[k].id \in callIDs
    /\ \A j, k \in ToolBlocks : blocks[j].id = blocks[k].id => j = k

Silent ==
    phase # "complete" => emitted = <<>> /\ queue = <<>> /\ outcome # "ok"

Validated ==
    /\ stopReason \in StopReasons
    /\ (MapFinishReason(stopReason) = "tool_calls") <=> (ToolBlocks # {})
    /\ \A k \in DOMAIN blocks : blocks[k].closed
    /\ \A k \in ToolBlocks : Valid(blocks[k])

InOrder ==
    \E order \in Sorted(ToolBlocks) : Delivers(Script(order), emitted, queue, outcome)

MessagesInv ==
    /\ blocks \in Seq(Block)
    /\ MessagesTypeOK
    /\ emitted \in Seq(Events) /\ queue \in Seq(Events)
    /\ IDsDistinct
    /\ Silent
    /\ phase = "complete" => Validated /\ InOrder
    /\ outcome = "ok" => queue = <<>>
    /\ phase = "stopped" => stopReason \in StopReasons

USE DEF outputVars, adapterVars

-------------------------------------------------------------------------------
(* The blocks *)

(***************************************************************************)
(* A block of tool use is one, and the blocks of a sequence that are, are  *)
(* finitely many of its indexes.                                           *)
(***************************************************************************)
LEMMA ToolBlocksAre ==
    ASSUME blocks \in Seq(Block)
    PROVE  /\ IsFiniteSet(ToolBlocks)
           /\ ToolBlocks \subseteq 1 .. Len(blocks)
           /\ ToolBlocks \subseteq Nat
           /\ Cardinality(ToolBlocks) \in Nat
           /\ \A k \in ToolBlocks : blocks[k] \in ToolBlock
           /\ \A k \in DOMAIN blocks : blocks[k] \in Block
<1>1. Len(blocks) \in Nat /\ DOMAIN blocks = 1 .. Len(blocks)
  OBVIOUS
<1>2. ToolBlocks \subseteq 1 .. Len(blocks)
  BY <1>1 DEF ToolBlocks
<1>3. IsFiniteSet(1 .. Len(blocks))
  BY <1>1, FS_Interval
<1>4. IsFiniteSet(ToolBlocks)
  BY <1>2, <1>3, FS_Subset
<1>5. Cardinality(ToolBlocks) \in Nat
  BY <1>4, FS_CardinalityType
<1>6. \A k \in DOMAIN blocks : blocks[k] \in Block
  OBVIOUS
<1>7. \A k \in ToolBlocks : blocks[k] \in ToolBlock
  BY <1>6 DEF ToolBlocks, Block, TextBlock
<1> QED
  BY <1>1, <1>2, <1>4, <1>5, <1>6, <1>7

(***************************************************************************)
(* A new block is added at the end: it is a call when it is of tool use.   *)
(***************************************************************************)
LEMMA BlockAppended ==
    ASSUME blocks \in Seq(Block), NEW block \in Block,
           blocks' = Append(blocks, block)
    PROVE  /\ blocks' \in Seq(Block)
           /\ Len(blocks') = Len(blocks) + 1
           /\ \A k \in DOMAIN blocks : k \in DOMAIN blocks' /\ blocks'[k] = blocks[k]
           /\ blocks'[Len(blocks) + 1] = block
           /\ ToolBlocks' = IF block.type = "tool_use"
                            THEN ToolBlocks \cup {Len(blocks) + 1} ELSE ToolBlocks
           /\ Len(blocks) + 1 \notin ToolBlocks
<1>1. /\ Len(blocks) \in Nat
      /\ DOMAIN blocks = 1 .. Len(blocks)
      /\ blocks' \in Seq(Block)
      /\ DOMAIN blocks' = 1 .. Len(blocks) + 1
      /\ Len(blocks') = Len(blocks) + 1
  OBVIOUS
<1>2. /\ \A k \in DOMAIN blocks : k \in DOMAIN blocks' /\ blocks'[k] = blocks[k]
      /\ blocks'[Len(blocks) + 1] = block
  BY <1>1
<1>3. \A k : k \in DOMAIN blocks' <=> k \in DOMAIN blocks \/ k = Len(blocks) + 1
  BY <1>1
<1>4. Len(blocks) + 1 \notin DOMAIN blocks
  BY <1>1
<1>5. ToolBlocks' = {k \in DOMAIN blocks' : blocks'[k].type = "tool_use"}
  BY DEF ToolBlocks
<1>6. ToolBlocks' = IF block.type = "tool_use"
                    THEN ToolBlocks \cup {Len(blocks) + 1} ELSE ToolBlocks
  BY <1>2, <1>3, <1>4, <1>5, ZenonT(30) DEF ToolBlocks
<1> QED
  BY <1>1, <1>2, <1>4, <1>6 DEF ToolBlocks

(***************************************************************************)
(* A block that is changed in place stays where it is, and what it is.     *)
(***************************************************************************)
LEMMA BlockChanged ==
    ASSUME blocks \in Seq(Block), NEW k \in DOMAIN blocks, NEW block \in Block,
           block.type = blocks[k].type, blocks' = [blocks EXCEPT ![k] = block]
    PROVE  /\ blocks' \in Seq(Block)
           /\ Len(blocks') = Len(blocks)
           /\ DOMAIN blocks' = DOMAIN blocks
           /\ \A j \in DOMAIN blocks \ {k} : blocks'[j] = blocks[j]
           /\ blocks'[k] = block
           /\ ToolBlocks' = ToolBlocks
<1>1. /\ blocks' \in Seq(Block)
      /\ Len(blocks') = Len(blocks)
      /\ DOMAIN blocks' = DOMAIN blocks
      /\ \A j \in DOMAIN blocks \ {k} : blocks'[j] = blocks[j]
      /\ blocks'[k] = block
  OBVIOUS
<1>2. \A j \in DOMAIN blocks : blocks'[j].type = blocks[j].type
  BY <1>1
<1>3. ToolBlocks' = {j \in DOMAIN blocks' : blocks'[j].type = "tool_use"}
  BY DEF ToolBlocks
<1>4. ToolBlocks' = ToolBlocks
  BY <1>1, <1>2, <1>3 DEF ToolBlocks
<1> QED
  BY <1>1, <1>4

-------------------------------------------------------------------------------
(* The stream before it was validated *)

(***************************************************************************)
(* Initially nothing was received and nothing was said.                    *)
(***************************************************************************)
LEMMA MessagesInit == Init => MessagesInv
<1> SUFFICES ASSUME Init PROVE MessagesInv
  OBVIOUS
<1>1. blocks = <<>> /\ ToolBlocks = {}
  BY DEF Init, ToolBlocks
<1>2. Cardinality(ToolBlocks) = 0
  BY <1>1, FS_EmptySet
<1>3. MessagesTypeOK
  BY <1>1, <1>2, MessagesConstants DEF Init, OutputInit, MessagesTypeOK
<1> QED
  BY <1>1, <1>3 DEF Init, OutputInit, MessagesInv, IDsDistinct, Silent

(***************************************************************************)
(* Starting a block keeps the invariant: StartsBlock checks the limit of   *)
(* the blocks, StartToolUse that of the calls and the ID.                  *)
(***************************************************************************)
LEMMA StartTextStep ==
    ASSUME MessagesInv, StartText
    PROVE  MessagesInv'
<1> DEFINE block == [type |-> "text", closed |-> FALSE]
<1>1. block \in Block /\ block.type = "text"
  BY DEF Block, TextBlock
<1>2. /\ blocks \in Seq(Block) /\ MessagesTypeOK /\ IDsDistinct /\ Silent
      /\ emitted \in Seq(Events) /\ queue \in Seq(Events)
      /\ blocks' = Append(blocks, block)
      /\ Len(blocks) < MaxContentBlocks
      /\ phase = "started"
      /\ UNCHANGED <<phase, callIDs, stopReason, queue, emitted, outcome>>
  BY DEF MessagesInv, StartText, StartsBlock
<1> HIDE DEF block
<1>3. /\ blocks' \in Seq(Block)
      /\ Len(blocks') = Len(blocks) + 1
      /\ \A k \in DOMAIN blocks : k \in DOMAIN blocks' /\ blocks'[k] = blocks[k]
      /\ ToolBlocks' = ToolBlocks
  BY <1>1, <1>2, BlockAppended
<1>4. Len(blocks') <= MaxContentBlocks
  BY <1>2, <1>3, MessagesConstants
<1>5. \A k \in DOMAIN blocks' : blocks'[k] \in TextBlock \cup ToolBlock
  BY <1>3 DEF Block
<1>6. MessagesTypeOK'
  BY <1>2, <1>3, <1>4, <1>5 DEF MessagesTypeOK
<1>7. IDsDistinct'
  BY <1>2, <1>3 DEF IDsDistinct, ToolBlocks
<1> QED
  BY <1>2, <1>3, <1>6, <1>7 DEF MessagesInv, Silent

LEMMA StartToolUseStep ==
    ASSUME MessagesInv, NEW id \in CallIDs, NEW input \in {"empty", "full"},
           StartToolUse(id, input)
    PROVE  MessagesInv'
<1> DEFINE block == [type |-> "tool_use", id |-> id, input |-> input,
                     partial |-> 0, closed |-> FALSE]
           new == Len(blocks) + 1
<1>1. block \in Block /\ block.type = "tool_use" /\ block.id = id
  BY MessagesConstants DEF Block, ToolBlock
<1>2. /\ blocks \in Seq(Block) /\ MessagesTypeOK /\ IDsDistinct /\ Silent
      /\ emitted \in Seq(Events) /\ queue \in Seq(Events)
      /\ blocks' = Append(blocks, block)
      /\ Len(blocks) < MaxContentBlocks
      /\ Cardinality(ToolBlocks) < MaxToolCalls
      /\ id \notin callIDs /\ callIDs' = callIDs \cup {id}
      /\ phase = "started"
      /\ UNCHANGED <<phase, stopReason, queue, emitted, outcome>>
  BY DEF MessagesInv, StartToolUse, StartsBlock
<1> HIDE DEF block
<1>3. /\ blocks' \in Seq(Block)
      /\ Len(blocks') = Len(blocks) + 1
      /\ \A k \in DOMAIN blocks : k \in DOMAIN blocks' /\ blocks'[k] = blocks[k]
      /\ blocks'[new] = block
      /\ ToolBlocks' = ToolBlocks \cup {new}
      /\ new \notin ToolBlocks
  BY <1>1, <1>2, BlockAppended
<1> HIDE DEF new
<1>4. /\ IsFiniteSet(ToolBlocks) /\ Cardinality(ToolBlocks) \in Nat
  BY <1>2, ToolBlocksAre
<1>5. Cardinality(ToolBlocks') = Cardinality(ToolBlocks) + 1
  BY <1>3, <1>4, FS_AddElement
<1>6. Cardinality(ToolBlocks') <= MaxToolCalls
  BY <1>2, <1>4, <1>5, MessagesConstants
<1>7. Len(blocks') <= MaxContentBlocks
  BY <1>2, <1>3, MessagesConstants
<1>8. \A k \in DOMAIN blocks' : blocks'[k] \in TextBlock \cup ToolBlock
  BY <1>3 DEF Block
<1>9. MessagesTypeOK'
  BY <1>2, <1>6, <1>7, <1>8 DEF MessagesTypeOK
<1>10. \A k \in ToolBlocks : blocks'[k].id = blocks[k].id /\ blocks'[k].id \in callIDs
  BY <1>2, <1>3 DEF IDsDistinct, ToolBlocks
<1>11. blocks'[new].id = id
  BY <1>1, <1>3
<1>12. IDsDistinct'
  <2>1. \A k \in ToolBlocks' : blocks'[k].id \in callIDs'
    BY <1>2, <1>3, <1>10, <1>11
  <2>2. ASSUME NEW j \in ToolBlocks', NEW k \in ToolBlocks',
               blocks'[j].id = blocks'[k].id
        PROVE  j = k
    <3>1. CASE j \in ToolBlocks /\ k \in ToolBlocks
      <4>1. blocks[j].id = blocks[k].id
        BY <1>10, <2>2, <3>1
      <4> QED
        BY <1>2, <3>1, <4>1 DEF IDsDistinct
    <3>2. CASE j = new \/ k = new
      <4>1. blocks'[j].id = id
        BY <1>11, <2>2, <3>2
      <4>2. j \notin ToolBlocks /\ k \notin ToolBlocks
        BY <1>2, <1>10, <2>2, <4>1
      <4> QED
        BY <1>3, <2>2, <4>2
    <3> QED
      BY <1>3, <2>2, <3>1, <3>2
  <2> QED
    BY <2>1, <2>2 DEF IDsDistinct
<1> QED
  BY <1>2, <1>3, <1>9, <1>12 DEF MessagesInv, Silent

(***************************************************************************)
(* A change of the open block in place keeps the invariant as long as its  *)
(* type and its ID stay.                                                   *)
(***************************************************************************)
LEMMA InBlockStep ==
    ASSUME MessagesInv, NEW k \in DOMAIN blocks, NEW block \in Block,
           block.type = blocks[k].type,
           block.type = "tool_use" => block.id = blocks[k].id,
           blocks' = [blocks EXCEPT ![k] = block],
           phase = "started",
           UNCHANGED <<phase, callIDs, stopReason, queue, emitted, outcome>>
    PROVE  MessagesInv'
<1>1. /\ blocks \in Seq(Block) /\ MessagesTypeOK /\ IDsDistinct /\ Silent
      /\ emitted \in Seq(Events) /\ queue \in Seq(Events)
  BY DEF MessagesInv
<1>2. /\ blocks' \in Seq(Block)
      /\ Len(blocks') = Len(blocks)
      /\ \A j \in DOMAIN blocks \ {k} : blocks'[j] = blocks[j]
      /\ blocks'[k] = block
      /\ ToolBlocks' = ToolBlocks
  BY <1>1, BlockChanged
<1>3. \A j \in DOMAIN blocks' : blocks'[j] \in TextBlock \cup ToolBlock
  BY <1>2 DEF Block
<1>4. MessagesTypeOK'
  BY <1>1, <1>2, <1>3 DEF MessagesTypeOK
<1>5. \A j \in ToolBlocks : blocks'[j].id = blocks[j].id
  BY <1>2 DEF ToolBlocks
<1>6. IDsDistinct'
  <2>1. \A j \in ToolBlocks' : blocks'[j].id \in callIDs'
    BY <1>1, <1>2, <1>5 DEF IDsDistinct
  <2>2. \A i, j \in ToolBlocks' : blocks'[i].id = blocks'[j].id => i = j
    BY <1>1, <1>2, <1>5 DEF IDsDistinct
  <2> QED
    BY <2>1, <2>2 DEF IDsDistinct
<1> QED
  BY <1>1, <1>2, <1>4, <1>6 DEF MessagesInv, Silent

LEMMA InputDeltaStep ==
    ASSUME MessagesInv, NEW k \in DOMAIN blocks, InputDelta(k)
    PROVE  MessagesInv'
<1> DEFINE row == blocks[k]
           more == IF row.partial > Full THEN row.partial ELSE row.partial + 1
           after == [row EXCEPT !.partial = more]
<1>1. /\ blocks \in Seq(Block)
      /\ row.type = "tool_use"
      /\ blocks' = [blocks EXCEPT ![k].partial = IF @ > Full THEN @ ELSE @ + 1]
      /\ phase = "started"
      /\ UNCHANGED <<phase, callIDs, stopReason, queue, emitted, outcome>>
  BY DEF MessagesInv, InputDelta, InBlock
<1>2. row \in ToolBlock
  BY <1>1, ToolBlocksAre DEF ToolBlocks
<1>3. blocks' = [blocks EXCEPT ![k] = after]
  BY <1>1, <1>2 DEF ToolBlock
<1> HIDE DEF row
<1>4. row.partial \in 0 .. Full + 1
  BY <1>2 DEF ToolBlock
<1>5. more \in 0 .. Full + 1
  BY <1>4, MessagesConstants
<1> HIDE DEF more
<1>6. after \in ToolBlock /\ after.type = row.type /\ after.id = row.id
  BY <1>2, <1>5 DEF ToolBlock
<1> HIDE DEF after
<1>7. after \in Block
  BY <1>6 DEF Block
<1> QED
  BY <1>1, <1>3, <1>6, <1>7, InBlockStep DEF row

LEMMA BlockStopStep ==
    ASSUME MessagesInv, NEW k \in DOMAIN blocks, BlockStop(k)
    PROVE  MessagesInv'
<1> DEFINE row == blocks[k]
           after == [row EXCEPT !.closed = TRUE]
<1>1. /\ blocks \in Seq(Block)
      /\ blocks' = [blocks EXCEPT ![k].closed = TRUE]
      /\ phase = "started"
      /\ UNCHANGED <<phase, callIDs, stopReason, queue, emitted, outcome>>
  BY DEF MessagesInv, BlockStop, InBlock
<1>2. row \in Block
  BY <1>1
<1>3. blocks' = [blocks EXCEPT ![k] = after]
  BY <1>1
<1> HIDE DEF row
<1>4. /\ after \in Block /\ after.type = row.type
      /\ after.type = "tool_use" => after.id = row.id
  <2>1. CASE row \in TextBlock
    BY <2>1 DEF TextBlock, Block
  <2>2. CASE row \in ToolBlock
    BY <2>2 DEF ToolBlock, Block
  <2> QED
    BY <1>2, <2>1, <2>2 DEF Block
<1> HIDE DEF after
<1> QED
  BY <1>1, <1>3, <1>4, InBlockStep DEF row

-------------------------------------------------------------------------------
(* The script *)

(***************************************************************************)
(* The script holds the call of every tool_use block, once and in order,   *)
(* and then the completion.                                                *)
(***************************************************************************)
LEMMA ScriptHolds ==
    ASSUME blocks \in Seq(Block), stopReason \in StopReasons,
           NEW order \in Sorted(ToolBlocks)
    PROVE  /\ Len(order) \in Nat /\ DOMAIN order = 1 .. Len(order)
           /\ Script(order) \in Seq(Events)
           /\ Len(Script(order)) = Len(order) + 1
           /\ \A n \in DOMAIN order :
                /\ order[n] \in ToolBlocks
                /\ Script(order)[n] = ToolCall(order[n], blocks[order[n]].id)
                /\ blocks[order[n]].id \in CallIDs
           /\ Script(order)[Len(order) + 1] = Completed(MapFinishReason(stopReason))
           /\ \A k \in ToolBlocks : \E n \in DOMAIN order : order[n] = k
           /\ \A j, k \in DOMAIN order : order[j] = order[k] => j = k
<1> DEFINE called == [n \in DOMAIN order |-> CallOf(order[n])]
           last == Completed(MapFinishReason(stopReason))
<1>1. /\ Len(order) \in Nat
      /\ DOMAIN order = 1 .. Len(order)
      /\ \A n \in DOMAIN order : order[n] \in ToolBlocks
      /\ \A k \in ToolBlocks : \E n \in DOMAIN order : order[n] = k
      /\ \A j, k \in DOMAIN order : order[j] = order[k] => j = k
  BY ToolBlocksAre, SortedHolds
<1>2. \A n \in DOMAIN order :
        /\ order[n] \in Nat
        /\ blocks[order[n]].id \in CallIDs
  BY <1>1, ToolBlocksAre DEF ToolBlock
<1>3. \A n \in DOMAIN order : CallOf(order[n]) \in Events
  BY <1>2 DEF CallOf, ToolCall, Events
<1>4. last \in Events
  BY DEF Completed, MapFinishReason, StopReasons, Contract!FinishReasons, Events
<1>5. /\ called \in Seq(Events) /\ Len(called) = Len(order)
      /\ \A n \in DOMAIN order : called[n] = CallOf(order[n])
  BY <1>1, <1>3
<1>6. Script(order) = Append(called, last)
  BY DEF Script
<1> HIDE DEF called, last
<1>7. /\ Script(order) \in Seq(Events)
      /\ Len(Script(order)) = Len(order) + 1
      /\ \A n \in DOMAIN order : Script(order)[n] = called[n]
      /\ Script(order)[Len(order) + 1] = last
  BY <1>1, <1>4, <1>5, <1>6
<1>8. \A n \in DOMAIN order :
        Script(order)[n] = ToolCall(order[n], blocks[order[n]].id)
  BY <1>5, <1>7 DEF CallOf
<1> QED
  BY <1>1, <1>2, <1>7, <1>8 DEF last

(***************************************************************************)
(* As long as the blocks and the stop reason stay, so does the script.     *)
(***************************************************************************)
LEMMA ScriptKept ==
    ASSUME UNCHANGED adapterVars, NEW order
    PROVE  /\ ToolBlocks' = ToolBlocks
           /\ Script(order)' = Script(order)
           /\ Validated => Validated'
           /\ IDsDistinct => IDsDistinct'
BY DEF ToolBlocks, Script, CallOf, Validated, IDsDistinct

(***************************************************************************)
(* The type is kept by a step that leaves the adapter alone.               *)
(***************************************************************************)
LEMMA TypeKept ==
    ASSUME MessagesTypeOK, UNCHANGED <<blocks, callIDs, stopReason>>,
           phase' \in {"new", "started", "finishing", "stopped", "complete"},
           outcome' \in {"streaming", "ok", "error"}
    PROVE  MessagesTypeOK' /\ ToolBlocks' = ToolBlocks
BY DEF MessagesTypeOK, ToolBlocks

LEMMA CompleteStep ==
    ASSUME MessagesInv, Complete
    PROVE  MessagesInv'
<1>1. /\ blocks \in Seq(Block) /\ MessagesTypeOK /\ IDsDistinct /\ Silent
      /\ phase = "stopped" /\ stopReason \in StopReasons
      /\ outcome = "streaming"
      /\ phase' = "complete"
      /\ UNCHANGED <<blocks, callIDs, stopReason, emitted, outcome>>
      /\ Validated
  BY DEF MessagesInv, Complete, Validated, Reading
<1>2. PICK order \in Sorted(ToolBlocks) : queue' = Script(order)
  BY DEF Complete, Script
<1>3. emitted = <<>>
  BY <1>1 DEF Silent
<1>4. Script(order) \in Seq(Events) /\ Len(Script(order)) \in Nat
  BY <1>1, ScriptHolds
<1>5. Delivers(Script(order), emitted, queue', outcome)
  <2> DEFINE script == Script(order)
  <2>1. script \in Seq(Events) /\ queue' = script
    BY <1>2, <1>4
  <2> HIDE DEF script
  <2>2. Delivers(script, <<>>, script, outcome)
    BY <2>1 DEF Delivers
  <2> QED
    BY <1>3, <2>1, <2>2 DEF script
<1>6. ToolBlocks' = ToolBlocks /\ Script(order)' = Script(order)
  BY <1>1 DEF ToolBlocks, Script, CallOf
<1>7. InOrder'
  BY <1>1, <1>5, <1>6 DEF InOrder
<1>8. Validated' /\ IDsDistinct'
  BY <1>1, <1>6 DEF Validated, IDsDistinct
<1>9. MessagesTypeOK'
  BY <1>1, TypeKept
<1> QED
  BY <1>1, <1>2, <1>3, <1>4, <1>7, <1>8, <1>9 DEF MessagesInv, Silent

LEMMA EmitNextStep ==
    ASSUME MessagesInv, EmitNext
    PROVE  MessagesInv'
<1>1. /\ blocks \in Seq(Block) /\ MessagesTypeOK /\ IDsDistinct /\ Silent
      /\ emitted \in Seq(Events) /\ queue \in Seq(Events)
      /\ queue # <<>> /\ outcome = "streaming"
      /\ EmitQueued /\ UNCHANGED adapterVars
  BY DEF MessagesInv, EmitNext, EmitQueued
<1>2. phase = "complete"
  BY <1>1 DEF Silent
<1>3. Validated /\ InOrder
  BY <1>2 DEF MessagesInv
<1>4. PICK order \in Sorted(ToolBlocks) : Delivers(Script(order), emitted, queue, outcome)
  BY <1>3 DEF InOrder
<1>5. Script(order) \in Seq(Events)
  BY <1>1, <1>3, ScriptHolds DEF Validated
<1>6. /\ emitted' \in Seq(Events) /\ queue' \in Seq(Events)
      /\ Delivers(Script(order), emitted', queue', outcome')
      /\ outcome' \in {"streaming", "error"}
  BY <1>1, <1>4, <1>5, EmitDelivers
<1>7. InOrder'
  BY <1>1, <1>6, ScriptKept DEF InOrder
<1>8. MessagesTypeOK' /\ Validated' /\ IDsDistinct'
  BY <1>1, <1>3, <1>6, TypeKept, ScriptKept DEF MessagesTypeOK
<1> QED
  BY <1>1, <1>2, <1>6, <1>7, <1>8 DEF MessagesInv, Silent

LEMMA EndStep ==
    ASSUME MessagesInv, End \/ Fail
    PROVE  MessagesInv'
<1>1. /\ blocks \in Seq(Block) /\ MessagesTypeOK /\ IDsDistinct /\ Silent
      /\ emitted \in Seq(Events) /\ queue \in Seq(Events)
      /\ outcome = "streaming" /\ outcome' \in {"ok", "error"}
      /\ outcome' = "ok" => phase = "complete" /\ queue = <<>>
      /\ queue' = <<>> /\ emitted' = emitted
      /\ UNCHANGED adapterVars
  BY DEF MessagesInv, End, Fail, ReturnOk, ReturnError, Reading
<1>2. ASSUME phase = "complete"
      PROVE  Validated' /\ InOrder'
  <2>1. Validated /\ InOrder
    BY <1>2 DEF MessagesInv
  <2>2. PICK order \in Sorted(ToolBlocks) : Delivers(Script(order), emitted, queue, outcome)
    BY <2>1 DEF InOrder
  <2>3. Delivers(Script(order), emitted', queue', outcome')
    <3>1. CASE outcome' = "error"
      BY <1>1, <2>2, <3>1, ErrorDelivers
    <3>2. CASE outcome' = "ok"
      BY <1>1, <2>2, <3>2 DEF Delivers
    <3> QED
      BY <1>1, <3>1, <3>2
  <2>4. InOrder'
    BY <1>1, <2>2, <2>3, ScriptKept DEF InOrder
  <2> QED
    BY <1>1, <2>1, <2>4, ScriptKept
<1>3. MessagesTypeOK' /\ IDsDistinct'
  BY <1>1, TypeKept, ScriptKept DEF MessagesTypeOK
<1> QED
  BY <1>1, <1>2, <1>3 DEF MessagesInv, Silent

LEMMA PhaseStep ==
    ASSUME MessagesInv,
           \/ MessageStart \/ MessageStop
           \/ \E reason \in StopReasons \cup {"none"} : MessageDelta(reason)
    PROVE  MessagesInv'
<1>1. /\ blocks \in Seq(Block) /\ MessagesTypeOK /\ IDsDistinct /\ Silent
      /\ emitted \in Seq(Events) /\ queue \in Seq(Events)
      /\ outcome = "streaming"
      /\ phase \in {"new", "started", "finishing"}
      /\ phase' \in {"started", "finishing", "stopped"}
      /\ phase' = "stopped" => stopReason # "none"
      /\ stopReason' \in StopReasons \cup {"none"}
      /\ phase' = "stopped" => stopReason' = stopReason
      /\ UNCHANGED <<blocks, callIDs, outputVars>>
  BY DEF MessagesInv, MessageStart, MessageStop, MessageDelta, Reading, MessagesTypeOK
<1>2. ToolBlocks' = ToolBlocks
  BY <1>1 DEF ToolBlocks
<1>3. MessagesTypeOK' /\ IDsDistinct'
  BY <1>1, <1>2 DEF MessagesTypeOK, IDsDistinct
<1> QED
  BY <1>1, <1>3 DEF MessagesInv, Silent, MessagesTypeOK

-------------------------------------------------------------------------------
(* Every state *)

(***************************************************************************)
(* Every step keeps the invariant.                                         *)
(***************************************************************************)
LEMMA MessagesNext == MessagesInv /\ [Next]_messagesVars => MessagesInv'
<1> SUFFICES ASSUME MessagesInv, [Next]_messagesVars PROVE MessagesInv'
  OBVIOUS
<1>1. CASE UNCHANGED messagesVars
  BY <1>1 DEF messagesVars, MessagesInv, MessagesTypeOK, ToolBlocks, IDsDistinct, Silent,
     Validated, InOrder, Script, CallOf
<1>2. CASE MessageStart \/ MessageStop
  BY <1>2, PhaseStep
<1>3. CASE StartText
  BY <1>3, StartTextStep
<1>4. CASE Complete
  BY <1>4, CompleteStep
<1>5. CASE EmitNext
  BY <1>5, EmitNextStep
<1>6. CASE End \/ Fail
  BY <1>6, EndStep
<1>7. ASSUME NEW id \in CallIDs, NEW input \in {"empty", "full"}, StartToolUse(id, input)
      PROVE  MessagesInv'
  BY <1>7, StartToolUseStep
<1>8. ASSUME NEW k \in DOMAIN blocks, InputDelta(k) \/ BlockStop(k)
      PROVE  MessagesInv'
  BY <1>8, InputDeltaStep, BlockStopStep
<1>9. CASE \E reason \in StopReasons \cup {"none"} : MessageDelta(reason)
  BY <1>9, PhaseStep
<1> QED
  BY <1>1, <1>2, <1>3, <1>4, <1>5, <1>6, <1>7, <1>8, <1>9 DEF Next

(***************************************************************************)
(* The invariant holds in every reachable state.                           *)
(***************************************************************************)
LEMMA MessagesInvariant == Spec => []MessagesInv
<1> QED
  BY MessagesInit, MessagesNext, PTL DEF Spec

(***************************************************************************)
(* Every variable has its type: the response holds no more blocks, and no  *)
(* more calls, than the limits of consumeStream allow.                     *)
(***************************************************************************)
THEOREM MessagesTyped == Spec => []MessagesTypeOK
<1>1. MessagesInv => MessagesTypeOK
  BY DEF MessagesInv
<1> QED
  BY <1>1, MessagesInvariant, PTL

-------------------------------------------------------------------------------
(* What was said *)

(***************************************************************************)
(* What was said of a validated response is a first part of the script:    *)
(* calls of its blocks, and in the last place the completion.              *)
(***************************************************************************)
LEMMA SaidByScript ==
    ASSUME blocks \in Seq(Block), Validated, emitted \in Seq(Events),
           NEW order \in Sorted(ToolBlocks),
           NEW waiting, NEW result, Delivers(Script(order), emitted, waiting, result)
    PROVE  \A k \in DOMAIN emitted :
             \/ /\ k \in DOMAIN order
                /\ emitted[k] = ToolCall(order[k], blocks[order[k]].id)
                /\ emitted[k].type = "tool_call"
             \/ /\ k = Len(order) + 1
                /\ emitted[k] = Completed(MapFinishReason(stopReason))
                /\ emitted[k].type = "completed"
<1>1. /\ Len(order) \in Nat /\ DOMAIN order = 1 .. Len(order)
      /\ Len(Script(order)) = Len(order) + 1
      /\ \A n \in DOMAIN order : Script(order)[n] = ToolCall(order[n], blocks[order[n]].id)
      /\ Script(order)[Len(order) + 1] = Completed(MapFinishReason(stopReason))
  BY ScriptHolds DEF Validated
<1> TAKE k \in DOMAIN emitted
<1>2. k \in Nat \ {0} /\ k <= Len(emitted) /\ Len(emitted) \in Nat
  OBVIOUS
<1>3. k <= Len(order) + 1 /\ emitted[k] = Script(order)[k]
  BY <1>1, <1>2 DEF Delivers
<1>4. k \in DOMAIN order \/ k = Len(order) + 1
  BY <1>1, <1>2, <1>3
<1> QED
  BY <1>1, <1>3, <1>4 DEF ToolCall, Completed

(***************************************************************************)
(* AllOrNothing: a call is emitted only of a stream that was validated as  *)
(* a whole (complete() of messages/stream.go), and all of them before it   *)
(* returns without an error.                                               *)
(***************************************************************************)
THEOREM MessagesAllOrNothing == Spec => []AllOrNothing
<1>1. MessagesInv => AllOrNothing
  <2> SUFFICES ASSUME MessagesInv PROVE AllOrNothing
    OBVIOUS
  <2> DEFINE called == {k \in DOMAIN emitted : emitted[k].type = "tool_call"}
  <2>1. /\ blocks \in Seq(Block) /\ emitted \in Seq(Events) /\ Silent
    BY DEF MessagesInv
  <2>2. ASSUME called # {}
        PROVE  phase = "complete" /\ Validated
    <3>1. emitted # <<>>
      BY <2>2
    <3> QED
      BY <2>1, <3>1 DEF Silent, MessagesInv
  <2>3. ASSUME outcome = "ok"
        PROVE  ToolBlocks = {emitted[k].slot : k \in called}
    <3>1. phase = "complete" /\ Validated /\ InOrder /\ queue = <<>>
      BY <2>1, <2>3 DEF Silent, MessagesInv
    <3>2. PICK order \in Sorted(ToolBlocks) : Delivers(Script(order), emitted, <<>>, "ok")
      BY <2>3, <3>1 DEF InOrder
    <3>3. /\ Len(order) \in Nat /\ DOMAIN order = 1 .. Len(order)
          /\ Len(Script(order)) = Len(order) + 1
          /\ \A n \in DOMAIN order : order[n] \in ToolBlocks
          /\ \A k \in ToolBlocks : \E n \in DOMAIN order : order[n] = k
      BY <2>1, <3>1, ScriptHolds DEF Validated
    <3>4. Len(emitted) = Len(order) + 1
      BY <2>1, <3>2, <3>3 DEF Delivers
    <3>5. DOMAIN order \subseteq DOMAIN emitted
      BY <2>1, <3>3, <3>4
    <3>6. called = DOMAIN order
      BY <2>1, <3>1, <3>2, <3>3, <3>5, SaidByScript
    <3>7. \A k \in DOMAIN order : emitted[k].slot = order[k]
      <4> TAKE k \in DOMAIN order
      <4>1. emitted[k] = ToolCall(order[k], blocks[order[k]].id)
        BY <2>1, <3>1, <3>2, <3>3, <3>5, <3>6, SaidByScript
      <4> QED
        BY <4>1 DEF ToolCall
    <3> QED
      BY <3>3, <3>6, <3>7
  <2> QED
    BY <2>2, <2>3 DEF AllOrNothing, Validated
<1> QED
  BY <1>1, MessagesInvariant, PTL

(***************************************************************************)
(* DistinctCallIDs: the IDs are compared as the blocks start, each block   *)
(* is called once.                                                         *)
(***************************************************************************)
THEOREM MessagesDistinctCallIDs == Spec => []DistinctCallIDs
<1>1. MessagesInv => DistinctCallIDs
  <2> SUFFICES ASSUME MessagesInv,
                      NEW j \in DOMAIN emitted, NEW k \in DOMAIN emitted,
                      emitted[j].type = "tool_call", emitted[k].type = "tool_call",
                      emitted[j].call = emitted[k].call
               PROVE  j = k
    BY DEF DistinctCallIDs
  <2>1. blocks \in Seq(Block) /\ emitted \in Seq(Events) /\ Silent /\ IDsDistinct
    BY DEF MessagesInv
  <2>2. phase = "complete" /\ Validated /\ InOrder
    BY <2>1 DEF Silent, MessagesInv
  <2>3. PICK order \in Sorted(ToolBlocks) : Delivers(Script(order), emitted, queue, outcome)
    BY <2>2 DEF InOrder
  <2>4. /\ j \in DOMAIN order /\ emitted[j] = ToolCall(order[j], blocks[order[j]].id)
        /\ k \in DOMAIN order /\ emitted[k] = ToolCall(order[k], blocks[order[k]].id)
    BY <2>1, <2>2, <2>3, SaidByScript
  <2>5. blocks[order[j]].id = blocks[order[k]].id
    BY <2>4 DEF ToolCall
  <2>6. /\ order[j] \in ToolBlocks /\ order[k] \in ToolBlocks
        /\ order[j] = order[k] => j = k
    BY <2>1, <2>2, <2>4, ScriptHolds DEF Validated
  <2> QED
    BY <2>1, <2>5, <2>6 DEF IDsDistinct
<1> QED
  BY <1>1, MessagesInvariant, PTL

-------------------------------------------------------------------------------
(* The promises of Stream *)

(***************************************************************************)
(* The next event of the script is one the contract allows: a call of      *)
(* another block, or the completion whose reason agrees with the calls.    *)
(***************************************************************************)
LEMMA EmitKeepsContract ==
    ASSUME MessagesInv, EmitNext
    PROVE  [Contract!Next]_Contract!streamVars
<1>1. /\ blocks \in Seq(Block) /\ MessagesTypeOK /\ Silent
      /\ emitted \in Seq(Events) /\ queue \in Seq(Events)
      /\ queue # <<>> /\ outcome = "streaming"
      /\ EmitQueued
  BY DEF MessagesInv, EmitNext, EmitQueued
<1>2. Validated /\ InOrder
  BY <1>1 DEF Silent, MessagesInv
<1>3. PICK order \in Sorted(ToolBlocks) : Delivers(Script(order), emitted, queue, outcome)
  BY <1>2 DEF InOrder
<1> DEFINE next == Len(emitted) + 1
<1>4. /\ Len(order) \in Nat /\ DOMAIN order = 1 .. Len(order)
      /\ Script(order) \in Seq(Events)
      /\ Len(Script(order)) = Len(order) + 1
      /\ \A n \in DOMAIN order :
           /\ order[n] \in ToolBlocks
           /\ Script(order)[n] = ToolCall(order[n], blocks[order[n]].id)
           /\ blocks[order[n]].id \in CallIDs
      /\ Script(order)[Len(order) + 1] = Completed(MapFinishReason(stopReason))
      /\ \A k \in ToolBlocks : \E n \in DOMAIN order : order[n] = k
      /\ \A j, k \in DOMAIN order : order[j] = order[k] => j = k
  BY <1>1, <1>2, ScriptHolds DEF Validated
<1>5. \/ emitted' = emitted /\ outcome' = "error"
      \/ /\ outcome' = outcome
         /\ next \in DOMAIN Script(order)
         /\ emitted' = Append(emitted, Script(order)[next])
  BY <1>1, <1>3, <1>4, EmitDelivers
<1>6. \A k \in DOMAIN emitted :
        \/ /\ k \in DOMAIN order
           /\ emitted[k] = ToolCall(order[k], blocks[order[k]].id)
           /\ emitted[k].type = "tool_call"
        \/ /\ k = Len(order) + 1
           /\ emitted[k].type = "completed"
  BY <1>1, <1>2, <1>3, SaidByScript
<1>7. CASE emitted' = emitted /\ outcome' = "error"
  BY <1>1, <1>7 DEF Contract!Next, Contract!ReturnError
<1>8. CASE /\ outcome' = outcome
           /\ next \in DOMAIN Script(order)
           /\ emitted' = Append(emitted, Script(order)[next])
  <2>1. Len(emitted) \in Nat /\ DOMAIN emitted = 1 .. Len(emitted)
    BY <1>1
  <2>2. next \in 1 .. Len(order) + 1
    BY <1>4, <1>8
  <2>3. \A k \in DOMAIN emitted : k # Len(order) + 1 /\ k # next
    BY <1>4, <2>1, <2>2
  <2>4. \A k \in DOMAIN emitted :
          /\ k \in DOMAIN order
          /\ emitted[k] = ToolCall(order[k], blocks[order[k]].id)
          /\ emitted[k].type = "tool_call"
          /\ emitted[k].slot = order[k]
    BY <1>6, <2>3 DEF ToolCall
  <2>5. Contract!Open
    BY <1>1, <2>4 DEF Contract!Open, Contract!OfType
  <2> HIDE DEF next
  <2>6. CASE next \in DOMAIN order
    <3>1. Script(order)[next] = ToolCall(order[next], blocks[order[next]].id)
      BY <1>4, <2>6
    <3>2. \A k \in DOMAIN emitted : emitted[k].slot # order[next]
      BY <1>4, <2>3, <2>4, <2>6
    <3>3. Contract!EmitToolCall(order[next], blocks[order[next]].id)
      BY <1>8, <2>5, <3>1, <3>2 DEF Contract!EmitToolCall, Contract!OfType,
         Contract!ToolCall, ToolCall
    <3>4. blocks[order[next]].id \in CallIDs
      BY <1>4, <2>6
    <3>5. order[next] \in 1 .. MaxContentBlocks
      <4>1. order[next] \in 1 .. Len(blocks) /\ Len(blocks) \in Nat
        BY <1>1, <1>4, <2>6, ToolBlocksAre
      <4>2. Len(blocks) <= MaxContentBlocks
        BY <1>1 DEF MessagesTypeOK
      <4> QED
        BY <4>1, <4>2, MessagesConstants
    <3> QED
      BY <3>3, <3>4, <3>5 DEF Contract!Next
  <2>7. CASE next \notin DOMAIN order
    <3> DEFINE reason == MapFinishReason(stopReason)
    <3>1. next = Len(order) + 1
      BY <1>4, <2>2, <2>7
    <3>2. DOMAIN emitted = DOMAIN order
      <4>1. Len(emitted) = Len(order)
        <5>1. Len(order) \in Nat /\ Len(emitted) \in Nat
          BY <1>4, <2>1
        <5>2. Len(emitted) + 1 = Len(order) + 1
          BY <3>1 DEF next
        <5> QED
          BY <5>1, <5>2
      <4> QED
        BY <1>4, <2>1, <4>1
    <3>3. Script(order)[next] = Completed(reason)
      BY <1>4, <3>1
    <3>4. reason \in Contract!FinishReasons
      BY <1>2 DEF Validated, StopReasons, MapFinishReason, Contract!FinishReasons
    <3>5. (reason = "tool_calls") <=> (DOMAIN order # {})
      BY <1>2, <1>4 DEF Validated
    <3>6. Contract!OfType(emitted, "tool_call") = DOMAIN order
      BY <2>4, <3>2 DEF Contract!OfType
    <3> HIDE DEF reason
    <3>7. Contract!EmitCompleted(reason)
      BY <1>8, <2>5, <3>3, <3>5, <3>6 DEF Contract!EmitCompleted, Contract!Completed, Completed
    <3> QED
      BY <3>4, <3>7 DEF Contract!Next
  <2> QED
    BY <2>6, <2>7
<1> QED
  BY <1>5, <1>7, <1>8

(***************************************************************************)
(* The end of the stream comes after the completion.                       *)
(***************************************************************************)
LEMMA EndKeepsContract ==
    ASSUME MessagesInv, End
    PROVE  Contract!Return
<1>1. /\ blocks \in Seq(Block) /\ emitted \in Seq(Events)
      /\ phase = "complete" /\ queue = <<>>
      /\ outcome = "streaming" /\ outcome' = "ok" /\ emitted' = emitted
  BY DEF MessagesInv, End, ReturnOk, Reading
<1>2. Validated /\ InOrder
  BY <1>1 DEF MessagesInv
<1>3. PICK order \in Sorted(ToolBlocks) : Delivers(Script(order), emitted, <<>>, "streaming")
  BY <1>1, <1>2 DEF InOrder
<1>4. /\ Len(order) \in Nat /\ DOMAIN order = 1 .. Len(order)
      /\ Len(Script(order)) = Len(order) + 1
  BY <1>1, <1>2, ScriptHolds DEF Validated
<1>5. Len(emitted) = Len(order) + 1
  BY <1>1, <1>3, <1>4 DEF Delivers
<1>6. Len(order) + 1 \in DOMAIN emitted /\ Len(order) + 1 \notin DOMAIN order
  BY <1>1, <1>4, <1>5
<1>7. emitted[Len(order) + 1].type = "completed"
  BY <1>1, <1>2, <1>3, <1>6, SaidByScript
<1> QED
  BY <1>1, <1>6, <1>7 DEF Contract!Return, Contract!OfType

(***************************************************************************)
(* Whatever the provider sends, the Messages adapter keeps the promises of *)
(* Stream: every step is one of ModelStream or leaves it as it is.         *)
(***************************************************************************)
THEOREM MessagesKeepsContract == Spec => MessagesContract
<1>1. Init => Contract!Init
  BY DEF Init, OutputInit, Contract!Init
<1>2. MessagesInv /\ [Next]_messagesVars => [Contract!Next]_Contract!streamVars
  <2> SUFFICES ASSUME MessagesInv, [Next]_messagesVars
               PROVE  [Contract!Next]_Contract!streamVars
    OBVIOUS
  <2>1. CASE UNCHANGED <<emitted, outcome>>
    BY <2>1 DEF Contract!streamVars
  <2>2. CASE EmitNext
    BY <2>2, EmitKeepsContract
  <2>3. CASE End
    BY <2>3, EndKeepsContract DEF Contract!Next
  <2>4. CASE Fail
    BY <2>4 DEF Fail, ReturnError, Contract!Next, Contract!ReturnError
  <2> QED
    BY <2>1, <2>2, <2>3, <2>4 DEF Next, messagesVars, MessageStart, StartText, MessageStop,
       Complete, StartToolUse, InputDelta, BlockStop, MessageDelta
<1> QED
  BY <1>1, <1>2, MessagesInvariant, PTL DEF Spec, MessagesContract, Contract!Spec

===============================================================================
