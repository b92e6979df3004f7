-------------------------- MODULE ConversationMessages --------------------------
(***************************************************************************)
(* What the messages of one conversation go through between the agent, the *)
(* database and the client:                                                *)
(*                                                                         *)
(*   - the messages of a completed turn are validated and encoded          *)
(*     (sqlite/codec.go), and every later turn decodes and validates them  *)
(*     again (LoadHistory), drops the oldest turns (boundHistory) and has  *)
(*     the agent validate what is left (agent/history.go);                 *)
(*   - a turn that waits for a confirmation is encoded into the database   *)
(*     and decoded when the user decides (suspend, PrepareConfirmation);   *)
(*   - every iteration sends the history and the turn to the model, which  *)
(*     the Messages protocol restricts (llm/messages/request.go);          *)
(*   - a client pages through the text of the completed turns, newest page *)
(*     first (sqlite/messages.go), while further turns complete.           *)
(*                                                                         *)
(* ConversationStore and ConversationService have the transactions, the    *)
(* requests and their failures; here a request is one step, and a message  *)
(* has its content.  A text is its size: one of size 0 is empty, one of    *)
(* size 1 is white space.  The arguments of a call are the numbers of      *)
(* their bytes that encoding/json drops (insignificant white space), keeps *)
(* and escapes (<, > and &).  Results are encoded by the agent already and *)
(* stay as they are; they are left out but for the call they answer.       *)
(***************************************************************************)
EXTENDS Integers, Sequences, SequencesExt, FiniteSetsExt

CONSTANTS
    Prompts,                    \* sizes of a user's text
    Answers,                    \* sizes of a model's final text
    CallIDs,                    \* IDs of tool calls
    Requests,                   \* iterations of a model: a text and calls
    MaxIterations,              \* tool iterations of one turn
    MaxToolCallsPerTurn,        \* calls of one iteration
    MaxToolArguments,           \* 256 KiB, in the agent and in the store
    MaxTurns, MaxMessages, MaxConversationBytes,        \* of the store
    MaxConfirmationState,
    MaxHistoryMessages, MaxHistoryBytes,                \* of the service
    AgentHistoryMessages, AgentHistoryBytes,            \* of the agent
    PageLimits,                 \* message limits of a page request
    PageBytes,                  \* the size of a page
    NoConfirmation

EscapeBytes == 6                \* "<" becomes "\u003c"

Arguments == [blank: Nat, plain: Nat \ {0}, special: Nat]

ToolCall == [id: CallIDs, arguments: Arguments]

ArgumentsSize(a) == a.blank + a.plain + a.special

\* What the adapters and the agent let through, and the limits of the code.  The
\* service and the agent measure the same JSON of a history; the agent's sum of its
\* parts exceeds it by less than 64 bytes per item, which its 2 MiB leave room for
\* beyond the service's 1 MiB.  The store counts its columns, where a text is not
\* escaped: no formula compares its limit with theirs.
ASSUME MessagesConstants ==
    /\ Prompts \subseteq Nat \ {0, 1} /\ Answers \subseteq Nat \ {0}
    /\ \A r \in Requests :
         /\ r \in [text: Nat, calls: Seq(ToolCall)]
         /\ Len(r.calls) \in 1 .. MaxToolCallsPerTurn
    /\ {MaxIterations, MaxToolCallsPerTurn, MaxToolArguments, MaxTurns, MaxMessages,
        MaxConversationBytes, MaxConfirmationState, MaxHistoryMessages,
        MaxHistoryBytes, AgentHistoryMessages, AgentHistoryBytes, PageBytes} \subseteq Nat
    /\ AgentHistoryMessages >= MaxHistoryMessages
    /\ AgentHistoryMessages >= 2 * MaxIterations + 1
    /\ AgentHistoryBytes >= MaxHistoryBytes
    /\ PageLimits \subseteq Nat \ {0}

VARIABLES
    turns,        \* the rows of turns, each with its rows of messages
    confirmation, \* the row of confirmations, or NoConfirmation
    execution,    \* the PreparedTurn of the running turn, and the agent's state
    prepared,     \* what became of the last PrepareTurn or PrepareConfirmation
    reader        \* a client that pages through the conversation

vars == <<turns, confirmation, execution, prepared, reader>>

-------------------------------------------------------------------------------
(* Messages *)

User(text) == [role |-> "user", text |-> text, calls |-> <<>>, results |-> <<>>]
Assistant(text, calls) ==
    [role |-> "assistant", text |-> text, calls |-> calls, results |-> <<>>]
Tool(results) == [role |-> "tool", text |-> 0, calls |-> <<>>, results |-> results]

\* json.Marshal of a json.RawMessage.
Marshal(a) == [blank |-> 0, plain |-> a.plain + EscapeBytes * a.special, special |-> 0]

MarshalCalls(calls) ==
    [k \in DOMAIN calls |-> [calls[k] EXCEPT !.arguments = Marshal(@)]]

MarshalMessages(messages) ==
    [k \in DOMAIN messages |-> [messages[k] EXCEPT !.calls = MarshalCalls(@)]]

Sum(s) ==
    LET sum[n \in 0 .. Len(s)] == IF n = 0 THEN 0 ELSE sum[n - 1] + s[n]
    IN  sum[Len(s)]

\* One byte more for the role and the results.
MessageSize(m) ==
    m.text + Sum([k \in DOMAIN m.calls |-> ArgumentsSize(m.calls[k].arguments)]) + 1

Size(messages) == Sum([k \in DOMAIN messages |-> MessageSize(messages[k])])

\* Message.validate, as far as the agent's messages can fail it.
Valid(m) ==
    CASE m.role = "user" -> m.text > 1
      [] m.role = "assistant" -> m.text > 1 \/ m.calls # <<>>
      [] m.role = "tool" -> m.results # <<>>

IDs(calls) == {calls[k].id : k \in DOMAIN calls}

DistinctIDs(calls) ==
    \A j, k \in DOMAIN calls : calls[j].id = calls[k].id => j = k

matchToolResults(calls, results) ==
    /\ Len(calls) = Len(results)
    /\ DistinctIDs(calls)
    /\ ToSet(results) = IDs(calls)

\* The role of the message after m.
NextRole(m) ==
    CASE m.role = "assistant" -> IF m.calls = <<>> THEN "user" ELSE "tool"
      [] OTHER -> "assistant"

\* A sequence after which a message of role next is due.
SequenceValid(messages, next) ==
    /\ messages[1].role = "user" /\ NextRole(Last(messages)) = next
    /\ \A k \in 1 .. Len(messages) - 1 : messages[k + 1].role = NextRole(messages[k])
    /\ \A k \in DOMAIN messages :
         messages[k].role = "tool" =>
           matchToolResults(messages[k - 1].calls, messages[k].results)

CallsWithin(messages) ==
    \A k \in DOMAIN messages :
        /\ Len(messages[k].calls) <= MaxToolCallsPerTurn
        /\ \A j \in DOMAIN messages[k].calls :
             ArgumentsSize(messages[k].calls[j].arguments) <= MaxToolArguments

\* encodeMessages accepts the messages of a turn.
Encodable(messages) ==
    /\ \A k \in DOMAIN messages : Valid(messages[k])
    /\ SequenceValid(messages, "user")
    /\ CallsWithin(messages)

\* prepareMessages of the agent.
prepareMessages(messages, next) ==
    messages # <<>> =>
      /\ Len(messages) <= AgentHistoryMessages /\ Size(messages) <= AgentHistoryBytes
      /\ CallsWithin(messages)
      /\ \A k \in DOMAIN messages : Valid(messages[k])
      /\ SequenceValid(messages, next)

\* One message of the loop of newCreateRequest (Messages protocol).
AppendMessage(wire, m) ==
    CASE wire.pending # {} /\ m.role # "tool" -> [wire EXCEPT !.ok = FALSE]
      [] wire.pending = {} /\ m.role = "assistant" ->
           [ok |-> wire.ok /\ IDs(m.calls) \cap wire.seen = {} /\ DistinctIDs(m.calls),
            pending |-> IDs(m.calls), seen |-> wire.seen \cup IDs(m.calls)]
      [] m.role = "tool" ->
           [wire EXCEPT !.ok = @ /\ ToSet(m.results) \subseteq wire.pending
                                 /\ IsInjective(m.results),
                        !.pending = @ \ ToSet(m.results)]
      [] OTHER -> wire

\* The Messages protocol takes the messages after the system prompt.
newCreateRequest(messages) ==
    LET wire[n \in 0 .. Len(messages)] ==
          IF n = 0 THEN [ok |-> TRUE, pending |-> {}, seen |-> {}]
          ELSE AppendMessage(wire[n - 1], messages[n])
        sent == wire[Len(messages)]
    IN  /\ sent.ok /\ sent.pending = {}
        /\ messages[1].role = "user" /\ Last(messages).role # "assistant"

-------------------------------------------------------------------------------
(* The history of a turn *)

\* The messages of the completed ones among some turns.
MessagesOf(some) ==
    FlattenSeq([t \in DOMAIN some |->
        IF some[t].status = "completed" THEN some[t].messages ELSE <<>>])

\* The rows LoadHistory selects.
Rows == MessagesOf(turns)

LoadFails(rows) ==
    rows # <<>> /\ ~ /\ CallsWithin(rows)
                     /\ Len(rows) <= MaxMessages /\ Size(rows) <= MaxConversationBytes
                     /\ \A k \in DOMAIN rows : Valid(rows[k])
                     /\ SequenceValid(rows, "user")

Starts(messages) == {k \in DOMAIN messages : messages[k].role = "user"}

Fits(messages) == Len(messages) <= MaxHistoryMessages /\ Size(messages) <= MaxHistoryBytes

From(messages, k) == SubSeq(messages, k, Len(messages))

\* Bug variant: the history may begin at any message.
boundHistory_AnyStart(messages) ==
    LET fitting == {k \in DOMAIN messages : Fits(From(messages, k))}
    IN  IF fitting = {} THEN <<>> ELSE From(messages, Min(fitting))

\* Bug variant: the shortest history that fits.
boundHistory_Latest(messages) ==
    LET fitting == {k \in Starts(messages) : Fits(From(messages, k))}
    IN  IF fitting = {} THEN <<>> ELSE From(messages, Max(fitting))

\* The first user message from which the history fits.
boundHistory(messages) ==
    LET fitting == {k \in Starts(messages) : Fits(From(messages, k))}
    IN  IF fitting = {} THEN <<>> ELSE From(messages, Min(fitting))

BoundFails(rows) == rows # <<>> /\ 1 \notin Starts(rows)

\* What PrepareTurn does with the rows, and then the agent with the history.
Preparation(rows) ==
    IF LoadFails(rows) THEN "history_failed"
    ELSE IF BoundFails(rows) THEN "history_invalid"
    ELSE IF ~prepareMessages(boundHistory(rows), "user") THEN "history_refused"
    ELSE "prepared"

-------------------------------------------------------------------------------
(* Turns *)

Idle == [running |-> FALSE, history |-> <<>>, messages |-> <<>>, iteration |-> 0,
         text |-> 0, calls |-> <<>>, results |-> <<>>]

Init ==
    /\ turns = <<>>
    /\ confirmation = NoConfirmation
    /\ execution = Idle
    /\ prepared = "none"
    /\ reader = [pc |-> "new", before |-> <<0, 0>>, shown |-> <<>>, expected |-> <<>>]

LastTurn(status, messages) ==
    turns' = [turns EXCEPT ![Len(turns)] = [status |-> status, messages |-> messages]]

\* BeginTurn and the preparation; a failed one fails the turn.
PrepareTurn(prompt) ==
    /\ \A t \in DOMAIN turns : turns[t].status \in {"completed", "failed"}
    /\ Len(turns) < MaxTurns
    /\ LET outcome == Preparation(Rows)
       IN  /\ prepared' = outcome
           /\ IF outcome = "prepared"
              THEN /\ turns' = Append(turns, [status |-> "running", messages |-> <<>>])
                   /\ execution' = [Idle EXCEPT !.running = TRUE, !.messages = <<User(prompt)>>,
                                                !.history = boundHistory(Rows)]
              ELSE /\ turns' = Append(turns, [status |-> "failed", messages |-> <<>>])
                   /\ UNCHANGED execution
    /\ UNCHANGED <<confirmation, reader>>

\* The model requests calls.
RequestCalls(request) ==
    /\ execution.running /\ execution.calls = <<>>
    /\ execution.iteration < MaxIterations
    /\ execution' = [execution EXCEPT !.iteration = @ + 1, !.text = request.text,
                                      !.calls = request.calls]
    /\ UNCHANGED <<turns, confirmation, prepared, reader>>

PendingCall(state) == state.calls[Len(state.results) + 1]

\* The run fails when decodeToolArguments refuses the call.
CallLeft ==
    /\ execution.running /\ execution.calls # <<>>
    /\ ArgumentsSize(PendingCall(execution).arguments) <= MaxToolArguments

\* The next call is answered: it ran, or the user rejected it.
AnswerCall ==
    /\ CallLeft
    /\ LET results == Append(execution.results, PendingCall(execution).id)
       IN  execution' =
             IF Len(results) < Len(execution.calls)
             THEN [execution EXCEPT !.results = results]
             ELSE [execution EXCEPT
                     !.messages = @ \o <<Assistant(execution.text, execution.calls), Tool(results)>>,
                     !.text = 0, !.calls = <<>>, !.results = <<>>]
    /\ UNCHANGED <<turns, confirmation, prepared, reader>>

\* Bug variant: the number of messages is not limited.
CompleteTurn_Unlimited(text) ==
    /\ execution.running /\ execution.calls = <<>>
    /\ text # 0
    /\ LET messages == Append(execution.messages, Assistant(text, <<>>))
           encoded == MarshalMessages(messages)
       IN  IF Encodable(messages) /\ Size(Rows) + Size(encoded) <= MaxConversationBytes
           THEN LastTurn("completed", encoded)
           ELSE LastTurn("failed", <<>>)
    /\ execution' = Idle
    /\ UNCHANGED <<confirmation, prepared, reader>>

\* The final answer is stored, or the turn fails ("persistence_failed").
CompleteTurn(text) ==
    /\ execution.running /\ execution.calls = <<>>
    /\ text # 0
    /\ LET messages == Append(execution.messages, Assistant(text, <<>>))
           encoded == MarshalMessages(messages)
       IN  IF /\ Encodable(messages)
              /\ Len(Rows) + Len(encoded) <= MaxMessages
              /\ Size(Rows) + Size(encoded) <= MaxConversationBytes
           THEN LastTurn("completed", encoded)
           ELSE LastTurn("failed", <<>>)
    /\ execution' = Idle
    /\ UNCHANGED <<confirmation, prepared, reader>>

\* json.Marshal of a SuspendedTurn.
MarshalState(state) ==
    [messages |-> MarshalMessages(state.messages), iteration |-> state.iteration,
     text |-> state.text, calls |-> MarshalCalls(state.calls), results |-> state.results]

StateSize(state) == Size(Append(state.messages, Assistant(state.text, state.calls)))

\* The next call needs a confirmation.  The hash is that of the call itself, and
\* the state is encoded; one that is too large fails the turn.
Suspend ==
    /\ CallLeft
    /\ LET state == MarshalState(execution)
       IN  IF StateSize(state) <= MaxConfirmationState
           THEN /\ confirmation' = [hash |-> PendingCall(execution).arguments, state |-> state]
                /\ LastTurn("awaiting_confirmation", <<>>)
           ELSE LastTurn("failed", <<>>) /\ UNCHANGED confirmation
    /\ execution' = Idle
    /\ UNCHANGED <<prepared, reader>>

\* PrepareConfirmation, then ResumeTurn with the decoded state.
Resumption(state, hash) ==
    IF PendingCall(state).arguments # hash THEN "confirmation_invalid"
    ELSE IF Preparation(Rows) # "prepared" THEN Preparation(Rows)
    ELSE IF ~prepareMessages(state.messages, "assistant") THEN "state_refused"
    ELSE "prepared"

\* The user decides; a decision that comes to nothing fails the turn.
PrepareConfirmation ==
    /\ confirmation # NoConfirmation
    /\ LET outcome == Resumption(confirmation.state, confirmation.hash)
       IN  /\ prepared' = outcome
           /\ IF outcome = "prepared"
              THEN /\ LastTurn("running", <<>>)
                   /\ LET state == confirmation.state
                      IN  execution' = [running |-> TRUE, history |-> boundHistory(Rows),
                                        messages |-> state.messages,
                                        iteration |-> state.iteration, text |-> state.text,
                                        calls |-> state.calls, results |-> state.results]
              ELSE LastTurn("failed", <<>>) /\ UNCHANGED execution
    /\ confirmation' = NoConfirmation
    /\ UNCHANGED reader

\* The run fails, or the confirmation expires.
FailTurn ==
    /\ execution.running \/ confirmation # NoConfirmation
    /\ LastTurn("failed", <<>>)
    /\ execution' = Idle
    /\ confirmation' = NoConfirmation
    /\ UNCHANGED <<prepared, reader>>

-------------------------------------------------------------------------------
(* Pages *)

\* <<turn, message>>, in order.
Positions ==
    FlattenSeq([t \in DOMAIN turns |-> [k \in DOMAIN turns[t].messages |-> <<t, k>>]])

MessageAt(p) == turns[p[1]].messages[p[2]]

IsDisplayed(p) ==
    LET m == MessageAt(p)
    IN  /\ turns[p[1]].status = "completed"
        /\ m.role = "user" \/ (m.role = "assistant" /\ m.text # 0)

\* The elements of s that are in S.
Those(s, S) == FlattenSeq([k \in DOMAIN s |-> IF s[k] \in S THEN <<s[k]>> ELSE <<>>])

Displayed == Those(Positions, {p \in ToSet(Positions) : IsDisplayed(p)})

\* Bug variant: the cursor is inclusive.
Before_Inclusive(p, q) == p[1] < q[1] \/ (p[1] = q[1] /\ p[2] <= q[2])

Before(p, q) == p[1] < q[1] \/ (p[1] = q[1] /\ p[2] < q[2])

\* Encoded, with its comma.
ItemSize(p) == MessageAt(p).text + 1

\* The rows of the query, newest first.
PageRows(limit, before) ==
    LET rows == Reverse(Those(Displayed, {p \in ToSet(Displayed) : Before(p, before)}))
    IN  SubSeq(rows, 1, IF Len(rows) > limit THEN limit + 1 ELSE Len(rows))

\* How many of them the page takes.
PageLength(rows, limit) ==
    Max({n \in 0 .. Len(rows) :
           n <= limit /\ Sum([k \in 1 .. n |-> ItemSize(rows[k])]) <= PageBytes})

\* The client puts the page before what it has, and follows the cursor.
ListMessages(limit, before, expected) ==
    LET rows == PageRows(limit, before)
        n == PageLength(rows, limit)
    IN  reader' =
          IF rows # <<>> /\ n = 0
          THEN [reader EXCEPT !.pc = "too_large", !.expected = expected]
          ELSE [pc |-> IF n < Len(rows) THEN "paging" ELSE "done",
                before |-> IF n < Len(rows) THEN rows[n] ELSE <<0, 0>>,
                shown |-> Reverse(SubSeq(rows, 1, n)) \o reader.shown,
                expected |-> expected]

FirstPage(limit) ==
    /\ reader.pc = "new"
    /\ ListMessages(limit, <<MaxTurns + 1, 0>>, Displayed)
    /\ UNCHANGED <<turns, confirmation, execution, prepared>>

NextPage(limit) ==
    /\ reader.pc = "paging"
    /\ ListMessages(limit, reader.before, reader.expected)
    /\ UNCHANGED <<turns, confirmation, execution, prepared>>

Next ==
    \/ \E prompt \in Prompts : PrepareTurn(prompt)
    \/ \E request \in Requests : RequestCalls(request)
    \/ AnswerCall
    \/ \E text \in Answers : CompleteTurn(text)
    \/ Suspend
    \/ PrepareConfirmation
    \/ FailTurn
    \/ \E limit \in PageLimits : FirstPage(limit) \/ NextPage(limit)

Spec == Init /\ [][Next]_vars

-------------------------------------------------------------------------------
(* Properties *)

Statuses == {"running", "awaiting_confirmation", "completed", "failed"}

(***************************************************************************)
(* Every variable has its type, only a completed turn has messages, and    *)
(* the conversation stays within its limits.                               *)
(***************************************************************************)
MessagesTypeOK ==
    /\ Len(turns) <= MaxTurns
    /\ \A t \in DOMAIN turns :
         /\ turns[t].status \in Statuses
         /\ turns[t].messages # <<>> <=> turns[t].status = "completed"
    /\ Len(Rows) <= MaxMessages /\ Size(Rows) <= MaxConversationBytes
    /\ execution.running => turns # <<>> /\ Last(turns).status = "running"
    /\ confirmation # NoConfirmation =>
         turns # <<>> /\ Last(turns).status = "awaiting_confirmation"
    /\ Len(execution.messages) <= 2 * MaxIterations + 1
    /\ reader.pc \in {"new", "paging", "too_large", "done"}

Grown(messages) ==
    \E k \in DOMAIN messages : \E j \in DOMAIN messages[k].calls :
        ArgumentsSize(messages[k].calls[j].arguments) > MaxToolArguments

SharedIDs(messages) == \E k \in DOMAIN messages : ~DistinctIDs(messages[k].calls)

\* No two calls of the messages share an ID.
DistinctCalls(messages) ==
    \A k, n \in DOMAIN messages :
        \A i \in DOMAIN messages[k].calls, j \in DOMAIN messages[n].calls :
            messages[k].calls[i].id = messages[n].calls[j].id => k = n /\ i = j

(***************************************************************************)
(* What was stored can be used again.  The messages of a conversation,     *)
(* whatever turns it completed, prepare its next turn: every check of      *)
(* LoadHistory, boundHistory and the agent accepts what encodeMessages     *)
(* accepted, in any combination of turns and for any cut of the history,   *)
(* with one exception: arguments that passed the limit of a call and that  *)
(* encoding made longer than it.  A stored confirmation resumes its turn,  *)
(* with a history that is accepted again, unless encoding changed the      *)
(* arguments of its call, or the messages before it are refused (a shared  *)
(* call ID, grown arguments, more bytes than the agent takes, which are    *)
(* fewer than the store does).  And every iteration can be sent to the     *)
(* model over the Messages protocol, which fails only when two calls of    *)
(* the history and the turn, maybe of different turns, share an ID.        *)
(***************************************************************************)
StoredIsUsable ==
    /\ Preparation(Rows) = IF Grown(Rows) THEN "history_failed" ELSE "prepared"
    /\ confirmation # NoConfirmation =>
         LET outcome == Resumption(confirmation.state, confirmation.hash)
             before == confirmation.state.messages
         IN  /\ outcome = "confirmation_invalid" <=> confirmation.hash # Marshal(confirmation.hash)
             /\ outcome \in {"prepared", "confirmation_invalid", "state_refused"}
             /\ outcome = "state_refused" =>
                  SharedIDs(before) \/ Grown(before) \/ Size(before) > AgentHistoryBytes
    /\ execution.running /\ execution.calls = <<>> =>
         LET messages == execution.history \o execution.messages
         IN  newCreateRequest(messages) <=> DistinctCalls(messages)

(***************************************************************************)
(* The model is given the most recent completed turns that fit the limits  *)
(* of a history, as many as fit, each of them whole -- although            *)
(* boundHistory looks at messages and not at turns.                        *)
(***************************************************************************)
HistoryIsLongestThatFits ==
    execution.running =>
      LET fitting == {t \in DOMAIN turns : Fits(MessagesOf(From(turns, t)))}
      IN  execution.history = MessagesOf(From(turns, Min(fitting)))

(***************************************************************************)
(* A client that follows the cursors sees every message that was displayed *)
(* when it asked for its first page, in order and once each, whatever the  *)
(* size of its pages and whichever turns complete meanwhile.  The paging   *)
(* ends before the oldest message only at a message that does not fit a    *)
(* page of its own.                                                        *)
(***************************************************************************)
PagesShowEveryMessage ==
    LET left == Len(reader.expected) - Len(reader.shown)
    IN  /\ IsSuffix(reader.shown, reader.expected)
        /\ reader.pc = "paging" => left > 0 /\ reader.shown # <<>>
        /\ reader.pc = "done" => left = 0
        /\ reader.pc = "too_large" =>
             left > 0 /\ ItemSize(reader.expected[left]) > PageBytes

(***************************************************************************)
(* A confirmation in time, with either decision, applies to its call:      *)
(* "Approved, the stored call runs" (docs/webapp.md).                      *)
(***************************************************************************)
DecisionApplies == prepared # "confirmation_invalid"

===============================================================================
