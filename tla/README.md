# OpenSVC AI agent: formal model

TLA+ specifications of `opensvc-ai-agentd`, model-checked with TLC and proved about with TLAPS. Each
definition is translated from the Go source; `PROJECT.json` ("map") gives the lines each one stands
for. The models keep the control flow (guards, early returns, order of effects, error paths) and abstract
the data: texts, tool arguments and results, JSON, token usage and logging are left out unless a property
is about them.

## 1. The system

The daemon answers authenticated users over HTTP. A user keeps *conversations* in an SQLite database and
sends *turns*; a turn runs an *agent* that asks a language model for the next step, runs the MCP tool calls
it requests, and asks again with their results. A call that is not known to be harmless *suspends* the
turn until the user approves or rejects it in a second request.

```
client --HTTP--> api (handlers, askLimiter) --> conversation (service) --> sqlite (store)
                        |  SSE events                |  Run / ResumeTurn
                        +----------------------------+--> agent --> llm adapter --> provider
                                                            +-----> mcpclient ---> MCP server
```

### Components

| Component (source) | State it keeps | Operations that change it | What makes it correct | Module |
|---|---|---|---|---|
| Conversation store (`internal/conversation/sqlite`) | tables conversations, turns, messages, confirmations | create, delete, purge, rename; begin, complete, fail, suspend, claim a turn; recover | one active turn per conversation; a turn waits iff a confirmation names it; no orphan rows; final outcomes; append-only history; byte accounting | `ConversationStore` |
| Conversation service (`internal/conversation`) | the local variables of each request between two transactions | PrepareTurn, PrepareConfirmation, Run, suspend, failTurn, Create, List, Delete, UpdateTitle, purge | an execution owns its turn; destructive calls run at most once and only when approved; every active turn is released; clients hear only of committed outcomes | `ConversationService` |
| HTTP handlers of conversations, process startup (`internal/api`, `cmd`) | slots of askLimiter; up or down | accept, respond, recover, startup purge, stop | restart releases what a crash left | `ConversationService` |
| Agent (`internal/agent`) | messages, iteration and call counters, calls and results of the iteration, decision, suspended state | Ask, RunTurn, ResumeTurn, Stream callback, executeCalls | confirmation before a destructive call, each call once and in order, truthful results, limits across suspensions, suspensions that can be resumed | `AgentTurn` |
| LLM stream contract (`internal/llm`) | events emitted, outcome | emit, return | calls emitted whole and once, finish reason consistent with them, success only after a completion | `ModelStream`, `AdapterOutput` |
| Responses adapter (`internal/llm/responses`) | pending calls by output index | one step per stream event | implements the contract; no call of the final output lost | `ResponsesStream` |
| Chat Completions adapter (`internal/llm/chatcompletions`) | pending calls by index, finish reason | one step per part of a chunk | implements the contract; calls put together from their own pieces | `ChatCompletionsStream` |
| Messages adapter (`internal/llm/messages`) | blocks, IDs seen, stop reason, phase | one step per stream event | implements the contract; a malformed stream runs nothing | `MessagesStream` |
| Ask stream (`internal/api/ask.go`, `audit.go`) | locals of `streamAgent` (answer sent, write failed, active tool, counters), audit trail, bytes of the stream | the callback, one per agent event; the end of the request | each call audited once; the client told the end once; trail, client and database agree; sums saturate | `AskStream` |
| Message codec, history and paging (`sqlite/codec.go`, `sqlite/messages.go`, `boundHistory`, `agent/history.go`) | rows of messages, stored states; a cursor the client keeps | encode, load, bound, suspend, resume, ListMessages | what is stored is accepted when it is read; the longest history of whole turns; no message skipped or repeated between pages | `ConversationMessages` |
| MCP client (`internal/mcpclient`) | one counter within a call | read, list tools | limits exact to the byte | not modelled |
| Store opening and schema | schema version | Open | initial tables only (`StoreInit`) | `ConversationStore` |
| Authentication, CORS and HTTP server, configuration, titles, LLM clients, agent events and prompt | none between requests | - | stateless; tested by unit tests | not modelled |

### What is hard in this code

* *Interleaving.* Every request is a goroutine. A turn spans several transactions (get, begin, load, complete
  or suspend or fail) with the agent running in between for minutes; deletes, purges, renames, other turns and
  answers to confirmations come between them. askLimiter bounds how many agent requests run at a time (4 by default).
* *Crashes.* The process may stop between any two transactions. Running turns must not survive it, waiting ones
  must, and a claimed confirmation must not be claimed again.
* *Partial failure.* A transaction may fail after the agent finished; the transaction that records the failure may
  fail too.
* *Time.* Conversations and confirmations expire; time stamps are read before a transaction that may wait for the
  only connection.
* *Suspension.* The agent's state leaves the process and comes back in another run, with a tool catalog listed
  anew.
* *An untrusted stream.* Adapters turn any sequence of provider events into complete calls or an error.
* *Three witnesses.* The client, the audit trail and the database each learn how a request ended, from different
  lines, while writes fail, sessions fail to close and contexts end in between.
* *Limits counted twice.* The agent, the service and the store each check messages, with limits of their own, before
  and after an encoding that changes sizes and bytes.

`PROJECT.json` ("hazards") lists these one by one, at their lines, with the properties that cover each.

## 2. The models

### ConversationStore

The store keeps one connection open (`SetMaxOpenConns(1)`), so a method is one transaction that no other
overlaps: one action per method, taken when it commits; an error return rolls back and is no step. The
variables are the tables. `conversations` and `turns` map an ID to its row ("unused" and "deleted" both mean
there is none; IDs are random and never drawn twice), `confirmations` is a set of rows. The messages of a
turn are their number and size. `BeginTurn` includes the sweep of expired confirmations, `DeleteExpired`
picks a batch by expiry, `Remove` is the foreign-key cascade. `StoreSpec` lets any caller pass any argument
in any order, more than the service ever does.

### ConversationService

Extends the store. `handlers` holds the local state of each request; `pc` names its next transaction or event:

```
turn     get -> begin -> load -> run -> complete -> tell_completed
                                     -> suspend  -> tell_confirmation
                                     (any error after begin) -> fail
confirm  get -> claim -> load -> run -> ...  as above
delete   get -> delete      rename  get -> rename
create   purge -> create    list    purge
```

Each handler step is one action and composes the store's transaction with what the handler does around it.
A request context may be canceled at any moment (`Refuse`, `Abort`), the finalizing transactions may fail
(`PersistenceFails`, `FailFails`), and `Stop` kills every handler and keeps the rows. `Recover` and
`StartupPurge` are the startup of `main` before the listener opens. `asOf` is the time a handler reads before
a transaction; the transaction may use any time stamp from then to now. The agent is abstracted to: apply
the decision, if there is one, then complete, suspend or fail; `AgentTurn` has the detail.
History variables: `decided` and `ran` per confirmation ID, `stranded` for turns whose failure could not be
recorded.

### AgentTurn

One turn with all its runs. `pc`: `idle -> open -> iterate -> stream -> execute -> iterate ... -> close ->
returned | suspended`. `state` is the `SuspendedTurn` the code carries through a run and stores at a suspension. The
model and the MCP server are the environment: any events in any order, any catalog at each connection, an
error at any point (`Fail`, `CallTool(FALSE)`, `Close(TRUE)`). The position of a call is the iteration that
requested it and its index there. History variables: `ran`, the calls that reached `CallTool`, and
`decided`, the user's decisions by position.

### ModelStream and the three adapters

`ModelStream` is an abstract specification: what `llm.Client.Stream` promises. Each adapter module is a detailed
one, checked to implement it (`Contract == INSTANCE ModelStream WITH ...`, `Contract!Spec` as a PROPERTY).
`AdapterOutput` is what the three share: the events of one step wait in `queue` until the callback took
them one by one, since the callback may fail between two; and `Sorted`, the order in which calls are emitted by their index.
`CompletesLast` is FALSE for Responses, which keeps reading after `response.completed`; the agent refuses a
second completion itself. `AgentTurn` accepts any order of events, so it does not depend on the contract for its
safety. Arguments are counted in fragments: a JSON object cut short is not an object, so `Full` fragments are
valid and any other number is not.

### AskStream

One request, whole: `streamAgent` with its callback, called back by the agent (a mere ask) or by the agent under
`PreparedTurn.Run` (a turn of a conversation, fresh or resumed with a decision).

```
start -> model <-> calls -> calling -> called -> calls
         model, calls, calling -> close -> finalize -> tell -> end -> reply -> done
```

`model` to `called` are the agent, `close` its deferred `Close`, `finalize` and `tell` the second half of
`PreparedTurn.Run`, `end` and `reply` the tail of `streamAgent`. `stream` has the locals of `streamAgent`; `Emit` and
`EmitFails` are the two outcomes of its callback, which records an event and writes it, but writes
`tool_started` first. A failed write may leave a torn frame. `err` is the set of what `errors.Is` finds in the
error, which is joined on its way up. `ContextEnds` (the client leaves, or its token expires) may come between any
two steps: the agent may notice or not, the handler reads the context twice (`End`, `Reply`). Iterations stand in for
the other limits of the agent, which end a run in the same way, and every frame is one byte long. History
variables: `ran`, the tools that reached `CallTool`, and `lost`, that a write failed.

### ConversationMessages

The content of messages, which the other modules leave out: what `encodeMessages` accepts and `LoadHistory`,
`boundHistory`, the agent and the request of the Messages protocol accept later; what a suspended state becomes between
`suspend` and `PrepareConfirmation`; and a client paging through `ListMessages` while turns complete. A request is one
step here. A text is its size (0 empty, 1 white space only). The arguments of a call are three counts of bytes: white
space that `json.Marshal` drops from a `json.RawMessage`, bytes it keeps, and bytes it escapes (`<`, `>`, `&`) to six.
One `Size` stands for the byte counts of service and agent: both measure the JSON of the history, the agent also a sum
of its parts that exceeds it by less than 64 bytes per item, and the assumption `MessagesConstants` keeps the distance
between their limits that makes this sound (1 MiB and 2 MiB in the code). The store counts its columns, where text is
not escaped, so its count of a text may be up to six times smaller; here it has the same `Size`, and no property compares
its limit with the others.
`execution` is the `PreparedTurn` and the agent's state (messages, iteration, the calls of the iteration and their results),
`prepared` the outcome of the last preparation, `reader` the client: its cursor, what it showed, and the messages displayed
when it asked for its first page. `MessagesOf` puts the rows of some completed turns together and `Those` selects some elements
of a sequence; both are what the SQL of `LoadHistory` and `ListMessages` does.

Each module holds definitions named `..._<Change>` under the comment "Bug variant": plausible mistakes, used as
mutants. No action uses them; `PROJECT.json` ("mutants") says which property each one breaks.

## 3. What TLC checks

| Run | Module / cfg | Distinct states | Question |
|---|---|---|---|
| `store` | `MCConversationStore` | 40 653 | Do the tables stay consistent under any calls? |
| `service` | `MCConversationService` | 967 129 | Do concurrent requests, crashes and failures keep turns, confirmations and answers right? |
| `service_live` | `MCConversationServiceLive.cfg` | 400 991 | Does a blocked conversation always become free? |
| `service_answer` | `MCConversationServiceAnswer.cfg` | violation | Can a confirmation always be answered once it was sent? (finding 1) |
| `agent` | `MCAgentTurn` | 987 667 | Are calls confirmed, run once, reported truthfully and within limits through suspensions? |
| `agent_resume` | `MCAgentTurnResume.cfg` | violation | Can a stored suspension always be resumed? (finding 2) |
| `responses` | `MCResponsesStream` | 337 263 | Does the Responses adapter keep the contract and lose no call? |
| `chat` | `MCChatCompletionsStream` | 318 479 | Does the Chat Completions adapter keep the contract and assemble calls rightly? |
| `messages` | `MCMessagesStream` | 23 015 | Does the Messages adapter keep the contract, all or nothing? |
| `ask` | `MCAskStream` | 1 040 045 | Do the audit trail, the client and the database agree on a request, whatever fails? |
| `transcript` | `MCConversationMessages` | 111 970 | Is what was stored accepted later, the history the longest that fits, paging complete? |
| `confirmed_arguments` | `MCConversationMessagesDecision.cfg` | violation | Does a decision always apply to its call? (finding 3) |

### Properties

* `store`: `OneActiveTurn`, `WaitingHasConfirmation`, `TurnsHaveConversation`, `BytesAccounted` (cached counts
  equal the stored messages, and what a completion let in passes the limits `LoadHistory` applies), and the
  action properties `OutcomeIsFinal`, `HistoryGrowsAtEnd`, `RenameKept`.
* `service`: `ExecutionOwnsTurn` (between the transactions of an execution nothing takes its turn away, so
  `failTurn` is never refused), `RunningHasExecution` (no running turn without a handler, except one whose failure
  the database refused to record), `CallRunsOnceApproved`, `HistoryIsCurrent` (the history loaded is still the
  history when the turn ends), `TellsWhatIsStored` (a client hears of a completion once it is stored, and of a
  confirmation while it can be answered, unless it was answered, expired or was deleted before the event).
* `service_live`: `ConversationUnblocks`.
* `agent`: `ConfirmedBeforeRun`, `CallsRunOnceInOrder`, `ModelIsToldTruth`, `LimitsHold`, `SuspensionIsValid`.
* adapters: the contract of each (`ResponsesContract`, `ChatContract`, `MessagesContract`) and
  `FinalCallsEmitted`, `CallsAsStreamed`, `AllOrNothing`, `DistinctCallIDs`.
* `ask`: `EveryCallIsAudited` (calls, starts, finishes and the count of the terminal record match, although
  `tool_started` is recorded after its write and the rest before), `StreamEndsOnce`, `AuditTellsOutcome` (the code of
  the terminal record against what the client was told and what is stored; the code `agent_incomplete` never occurs),
  `TokensSumOrSaturate`.
* `transcript`: `StoredIsUsable`, `HistoryIsLongestThatFits`, `PagesShowEveryMessage`.

`StoredIsUsable` states the exceptions of the code as well as the rule, each of them reached in the run. Arguments that
encoding made longer than 256 KiB make every later turn of the conversation fail (`history_failed`). A provider that
repeats a call ID, in one response or in two of a conversation, makes the Messages protocol refuse every
later request. A stored state with a shared ID, with outgrown arguments, or between the agent's 2 MiB of messages and the
store's 4 MiB of state is refused when it is resumed. `PagesShowEveryMessage` has one: a message larger than a page ends the paging.

Each module also has its type invariant. A comment above each property states it in words.

### Bounds, and why they are enough

* `store`: 2 owners, 2 conversations, 3 turns, 2 confirmation IDs, 2 times, sizes 1 and 2. Three turns let two
  complete around a third that fails or waits. The limits (2 turns, 2 messages and 2 bytes per conversation, 3 bytes
  in all) are each reached: two conversations compete for the bytes, and a third turn meets `ErrLimit`. Two times
  give before and after an expiry.
* `service`: 2 handlers, 1 owner, 1 conversation, 2 turns, 2 IDs, clock to 1, lifetimes of 1. The two handlers take every role: two turns, a turn and a delete, a turn and a create that purges,
  two answers to one confirmation, an answer and a turn that sweeps it. Two IDs let a turn be suspended twice. `MaxConcurrentAsks` does not bind
  with two handlers, deliberately: it only removes concurrency, which no property here relies on. Everything expires within the clock.
  One conversation is enough because no transaction relates two of them but for limits and purges, which `store` has.
* `service_live`: 1 handler, 1 ID and clock to 3, so that an abandoned confirmation expires and its conversation
  lives on; a temporal property cannot use symmetry and needs the smaller instance. Requests keep arriving: any
  operation may follow any other, and the blocking turn's own request may end in every way.
* `agent`: 2 tools, 2 call IDs, 3 iterations, 2 calls per iteration, 3 per turn. Three iterations give a suspension
  in the first, one in the second, and a last iteration in which calls are refused; with 2 calls each, the total of 3 is
  reached and exceeded, and a suspension may come before, between and after calls that ran.
* `responses`: indexes {1, 2}, of which 1 is in the final output (its indexes are 0 and 1) and 2 is not; 2 pending
  calls so that the limit is met by a third; arguments of one fragment, so empty, complete and overlong; at most
  `MaxEmitted` events before a further completion.
* `chat`: sparse indexes {0, 2, 3} with a limit of 2, 2 IDs, 2 fragments, 3 deltas: pieces of two calls interleave
  (A B A), an ID changes, a third call meets the limit.
* `messages`: up to 4 blocks and 3 calls of up to 2 fragments, so valid, truncated and overlong arguments in any
  block, both limits met, and repeated IDs.
* `ask`: 2 tools, 2 iterations of up to 2 calls, a stream of 5 frames, counters of 1 and 2 up to 3. Two tools let a start be
  paired with the wrong finish; two iterations with calls in the first give events after calls, and the last one
  refuses calls; 5 frames end a stream within a second call; three uses of 2 saturate. The two tools are symmetric: no
  action or property tells one from the other.
* `transcript`: 3 turns, 2 iterations, 4 requests (compact, spaced and escaped arguments, arguments that outgrow the limit,
  a shared ID), texts of 1 (blank) to 8. The limits (6 messages and 40 bytes stored, 4 messages and 20 bytes of history,
  24 bytes in the agent, 33 of state) are each met and exceeded: three turns give histories cut by messages, by bytes, and
  not at all. Pages of 1 and 3 messages and 7 bytes are cut by either limit, and a text of 7 or more does not fit one.

`CHECK_DEADLOCK FALSE` is set everywhere: a turn, a stream and a request really end, and the IDs of the store, the turns and the clock
run out in a bounded model. That nothing waits for ever is what `ConversationUnblocks` says.

### Fairness

`FairSpec` assumes weak fairness of each handler's steps (Go schedules every goroutine; a transaction has a context
with a deadline, and a run has bounded iterations under one), of `Recover` and `StartupPurge` (a stopped agent is
restarted and `main` runs them before it serves) and of `Tick`. Nothing is assumed of clients: no
request need arrive and none need be answered. A handler that can step may take any of its error steps, so success
is never assumed either. `ConversationUnblocks` excludes a conversation that is full, a turn whose failure could not be recorded (it
stays running until the next restart, by the code) and, at the bound of the clock, a confirmation that expires
beyond it. The agent, the adapters and the ask stream have no liveness property: their only unbounded waits are for the
provider and the MCP server, ended by a deadline that the models have as `Fail`, always possible.

### Findings

1. **A confirmation may outlive its conversation** (`service_answer`, documentation and code diverge).
   `suspend` says that "a client can always answer" a request it was sent (`service.go:361-363`).
   `SuspendTurn` gives the confirmation an expiry of its own and does not extend that of the conversation,
   which only a completed turn does. When a turn begins shortly before the conversation expires,
   `Get` answers 410 to the decision and a purge may delete the waiting turn.
2. **A suspended turn that cannot be resumed** (`agent_resume`, code). The Stream callback accepts two calls of one
   iteration with the same ID, and so do the Responses and Chat Completions adapters (Messages refuses them:
   `DistinctCallIDs`). Both run and their results join the messages. If a later iteration suspends, `ResumeTurn`
   refuses the stored messages ("tool call ID is duplicated", `history.go:156`) after the confirmation was
   consumed: the approved call never runs and the turn fails.
3. **An approved call that never runs because of its bytes** (`confirmed_arguments`, code). `suspend` hashes the
   arguments as the model sent them (`service.go:381`) but stores the state with `json.Marshal` (`service.go:369`), which
   compacts a `json.RawMessage` and escapes `<`, `>` and `&`. `PrepareConfirmation` decodes the state and compares hashes
   (`service.go:234`): for arguments with white space between tokens, or with one of these characters, they differ. The
   turn fails with `confirmation_invalid` after its confirmation was consumed, whatever the user decided.
   `ArgumentsHash` "binds a confirmation to the exact arguments shown to the user" (`confirmation.go:77`), and
   `docs/webapp.md:154` promises that, approved, "the stored call runs".

## 4. What is proved

TLAPS checks these for every value of the constants; the only assumptions are those of the modules on their
constants (`StoreConstants`, `ServiceConstants`, `AgentConstants`, `AskConstants`, `MessagesConstants` and one per adapter):
limits are naturals (positive where the code needs it), the absent values are not real ones, there are finitely many
conversations and turns (their IDs are 128 random bits), and the agent takes at least the history the service keeps. Every
safety property and every refinement of the passing runs is proved.

### ConversationProofs: the store

`StoreInvariant` proves the inductive invariant `StoreInv`. `OneActiveTurn` alone is not inductive: `BeginTurn`
checks that nothing runs in the conversation and sweeps waiting turns by their confirmation rows, so the invariant must
relate the rows. Its parts:

* `StoreTypeOK`;
* `TurnInv`: `OneActiveTurn`, `TurnsHaveConversation`, the rows in use name a real conversation, the last sequence
  number of a conversation exists, and the active turn has it (`ActiveIsLast`: what makes history grow at its end);
* `WaitingHasConfirmation` (so that a swept conversation has no waiting turn left);
* a row without a conversation has no title (for `RenameKept`).

One lemma per transaction shows that it preserves the invariant. From it: `StoreTyped`, `StoreOneActiveTurn`,
`StoreWaitingHasConfirmation`, `StoreTurnsHaveConversation`, and the action properties `StoreOutcomeIsFinal`,
`StoreHistoryGrowsAtEnd`, `StoreRenameKept`.

`StoreBytesAccounted` is about sums. The model adds with `MapThenSumSet`, a recursive function over subsets; the proof shows
that it exists and takes elements in any order (`SumExists`, `SumTakesOut`, `SumAdds`, `SumBelow`, `SumOfFewer`). Induction
over a finite set is had without an induction rule: the subsets for which a formula fails are a set, strict inclusion is
well founded on it, and a least one is refuted (`LeastSubset`). `AccountInv` then only changes where a turn completes, which checks the
limits it adds to in the same transaction (`CompleteAccount`; the check counts the messages of all turns and
the history holds those of the completed ones), and where conversations go with all they hold (`RemoveAccount`). Every other
transaction leaves the completed turns and the counts alone (`Kept`).

### ConversationProofs: the service

* `LocalInv` types each handler by the step it is at: the fields its next step uses are there (`ServiceTyped`).
* `ServiceInv` adds the store's invariant and that no time stamp is ahead of the clock. With it each step of a
  handler is a transaction `StoreSpec` allows, or none: `ServiceImplementsStore`. So what was proved of the database alone
  holds under its service (`ServiceKeepsStoreProperties`).
* `ExecutionInv`: a handler between begin or claim and the end of its turn owns a running turn that began no later
  than the time it will pass; two executions are never in one conversation; what runs has an execution; and the
  history loaded is that of the rows. Each step of one handler is shown to spare the executions of the others: `Delete` and
  `Purge` leave conversations with a running turn alone, and a begin needs a conversation without one. From it
  `ServiceExecutionOwnsTurn`, `ServiceRunningHasExecution`, `ServiceHistoryIsCurrent`.
* `AnswerInv`: an ID with a row has not been decided, a decision is held by one handler at most, from its claim until
  it applies it, and its call has not run before. From it `ServiceCallRunsOnceApproved`.
* `Told`: what a handler is about to tell was committed, and stays (`ToldStays`): a completion until it is deleted, by
  the finality of outcomes; a confirmation until it is answered or its turn ends, because a claim takes the row of no
  other confirmation and the other steps take rows only with their turns (`ClaimAnswers`, `RowGoesWithTurn`). From it
  `ServiceTellsWhatIsStored`.

### AgentTurnProofs

The argument is a *mark*: the position of the next call to run, which only moves forward through iterations,
results, suspensions and resumptions. Everything that ran lies before the mark, and so does everything that was
decided, except a decision not applied yet, which lies at it (`MarkIsAhead`). A call is appended to `ran` at the mark,
so none runs twice or out of order (`AgentCallsRunOnceInOrder`); it needs a confirmation only if the decision at the mark was an approval, and a rejected
position is behind the mark for good (`AgentConfirmedBeforeRun`). `RunShape` ties the phase of a run to its local variables.
For the limits, `CallsFit`, `CallsCounted` and `IterationsCounted` relate counters, messages and calls across
suspensions; `AgentLimitsHold` and `AgentSuspensionIsValid` follow. `AgentModelIsToldTruth` uses the mark again: a step
changes what ran and what was decided at the mark alone (`HappensAtMark`), results lie before it, and so they stay true (`ToldKept`);
a new result is about the call at the mark, and the end of an iteration moves results into messages with their positions.

### AskStreamProofs

`StreamEndsOnce` speaks of the end of a request only; the invariant `StreamInv` says what leads to it.

* `LocalsTell`: before the request is done, while the locals of `streamAgent` show neither an answer (`completed`) nor a
  failed write, nothing final was sent (`Quiet`); whatever is final is last; `completed` means the client was told unless a write
  failed.
* `PhaseTells`: in which phase the locals can be what. The agent goes on only while neither is set; a run that returned after a failed
  write has an error; one that returned without an error set `completed`, at once for a mere ask, and for a
  turn of a conversation only after it was stored.
* `DoneTells`: a request that was not rejected ends told, or with a lost write, or with a context that ended.

Two lemmas carry the callback (`Emitted`, `EmitFailed`): from a quiet stream, an event leaves it quiet, or is the answer and is
last. One lemma per action follows, and `AskTyped` and `AskStreamEndsOnce` come out of `StreamInvariant`.

`AuditTellsOutcome` compares three witnesses at the end of a request; `OutcomeInv`, inductive together with `StreamInv`, says
what each knows on the way, always relative to the locals of `streamAgent`.

* `TurnTells`: the turn of a conversation runs until its outcome is stored, is stored before it is told, and a turn behind an error
  is neither completed nor waiting.
* `ErrorTells`: an error after the answer can only come from closing the session of a mere ask; `canceled` is in an error
  only if the context was canceled (so that the code of the record and of the error event agree); a run without an error has
  finished its calls.
* `HeardTells`: the client has the answer exactly when the locals show one that was written, and otherwise nothing final but the error of
  `Reply`.
* `RecordTells`: the terminal record comes with `End`, and its code keeps telling the truth afterwards (`FailureCode`: each branch
  of `askFailureCode`), although the context may still end before the reply.

`AskAuditTellsOutcome` follows by cases on what the client heard.

`EveryCallIsAudited` and `TokensSumOrSaturate` compare counters with the whole trail. `AuditInv` says that they agree after
every record (`LocalsMatch`), and which call the trail leaves unfinished (`Unfinished`: none, or the active tool, which was the
last to start). A record changes the trail in one of three ways, each with a lemma (`StartRecorded`, `FinishRecorded`,
`OtherRecorded`); `calling` is the only place where a call that started has not run yet. The total of a trail is the last value of a
recursive function; instead of an induction over the trail, the invariant says what the total is and a new record
extends the function by one value (`TotalGrows`). `AskEveryCallIsAudited` and `AskTokensSumOrSaturate` follow.

### AdapterOutputProofs and the adapters

Each adapter is shown to implement `ModelStream`: initial states map to initial states, and a step to a step or a
stutter (`MessagesKeepsContract`, `ChatKeepsContract`, `ResponsesKeepsContract`). `AdapterOutputProofs` has what they share: a sequence that sorts a finite set of
indexes holds each of them once, in order (`SortedHolds`), and how the events emitted relate to a script of all there is
to say (`Delivers`).

* Messages (`MessagesInv`): nothing is said or waits before the whole response is validated (`Silent`); then a script is
  fixed, the calls of the `tool_use` blocks in order and the completion, and what was said is a first part of
  it (`InOrder`). Its IDs are distinct because a block with an ID seen before is refused (`IDsDistinct`). From it `MessagesTyped`,
  `MessagesAllOrNothing`, `MessagesDistinctCallIDs`.
* Chat Completions (`ChatInv`): a pending call is at any time what the deltas of its index say together, one more delta at a
  time (`Gathered`); nothing is said before the finish reason, and then a script in the order of indexes. From it `ChatTyped` and
  `ChatCallsAsStreamed`.
* Responses (`ResponsesInv`): this one speaks while it reads, so there is no script. The argument looks at all it decided to say, what was emitted
  and what waits (`Said`): until a failure in it, it holds exactly the calls marked as emitted, each once, and
  its completion agrees with the calls before it (`Consistent`, `Promised`). From it `ResponsesTyped` and `ResponsesFinalCallsEmitted`.

### ConversationMessagesProofs

The properties compare what several parts of the code make of one flat sequence of rows: the codec, the history and the pages each
cut it elsewhere. None is inductive, since a flat sequence does not show which turn a row came from. The invariant
`MessagesInv` speaks of each turn by itself, and lemmas put the turns together again.

* `TurnsInv`: the rows of a turn are one conversation (`IsTurn`): one user message, first; after it, roles that follow each
  other; tool messages that answer the calls before them, in order; nothing due at the end. `RowsOfTurns` shows what follows for
  the rows of any turns: they read as a conversation too, and a user message starts exactly where a turn's rows do (`StartsAt`).
* `StateOK`: what a run has, and what a stored confirmation has, is the beginning of such a turn, and its length is given by the
  iteration it is at. So `CompleteTurn` can only append what `IsTurn` accepts, and `AgentHistoryMessages` is never exceeded on the way.
  The call that waits is the encoded form of the one that was hashed (`ConfirmationInv`).
* `ReaderInv`: a client has an end of what was displayed when it asked for its first page, its cursor is the oldest message it has,
  and what was displayed then still begins what is displayed now: any step other than the client's leaves the displayed
  messages as they are or extends them at their end (`StepGrows`, `DisplayedAppend`), although failed turns may lie between.

From it:

* `MessagesHistoryIsLongestThatFits`. `boundHistory` looks for the first user message from which the rows fit, the property for the first
  turn. `Earlier(t)`, the rows before turn t, never decreases with t, and each start of a turn with rows is one more than it.
* `MessagesStoredIsUsable`. Every check of the readers follows from `Stored` (`CallsAccepted`, `SequenceAccepted`,
  `AgentAccepts`, `StoredFrom` for a cut history), and what they refuse beyond it is among the exceptions. For the Messages
  protocol the fold of `newCreateRequest` is followed message by message (`Sent`): what is due, what was seen, and that it is still accepted iff
  no two calls so far share an ID.
* `MessagesPagesShowEveryMessage`. Displayed positions are in strictly increasing order (`Ordered`), so what is before a cursor is
  a first part of them (`BeforeCursor`), a page is the last rows of that part in reverse (`CursorPage`), and putting it before
  what the client has gives a longer end (`PagePrepended`). A page takes no row only if its first row is larger than a page.
* `MessagesType`.

`FlattenSeq`, the sums and the fold are recursive functions, and the library's induction theorems cannot be used (they take an
operator). Instead the numbers, or the sequences, for which a formula holds are a set, and one lemma shows that such a set is
everything (`NumberInduction`, `SequenceInduction`); each recursive function is then characterised once (`Follows`, `SumsUp`, `Flattens`,
`WiresUp`).

TLC found `MessagesInv` to hold in every state of the `transcript` instance before it was proved (no cfg keeps that run: a
theorem has replaced it). One proof attempt showed a definition to be wrong: two guards of the CASE in `AppendMessage` overlapped, and which branch such an expression takes is
left open by TLA+ although TLC takes the first. They exclude each other now.

### Only model-checked

The liveness property `ConversationUnblocks` (out of reach of the prover), and the three properties that do not hold (section 3,
findings). What TLC adds to the proofs is that the hypotheses are met: the runs reach each limit, refusal and
exception (section 3).

## 5. Not modelled, and why

* A wall clock that steps back: `CompleteTurn` and `FailTurn` then refuse and the turn stays running, as when the
  database fails (`stranded`).
* Two processes on one database file: nothing in the code detects it; the deployment is one process.
* The MCP client: its session is a library's, and its own code (the response reader, the tool catalog) keeps one counter
  within one call, nothing between calls and nothing concurrent. A model would restate its two assignments.
* The conversion of the tool catalog and of tool results, and the requests of the LLM clients, but for what the Messages
  protocol refuses.
* Texts, wording, JSON and HTTP framing, TLS, flags and environment variables, log lines, durations.
* Authentication, CORS, configuration, titles: stateless functions of one request or of startup.

## 6. Plan

Done: store, service, agent, stream contract and adapters, ask stream, content of messages, in the order of what they protect; proofs
of the safety of all of them, and of the refinements. Left:

* *Composition*: an abstract contract of an agent run (apply one decision, end once), implemented by `AgentTurn` and assumed
  by `ConversationService` and `AskStream`; an abstract life cycle of a turn, implemented by store and service.
