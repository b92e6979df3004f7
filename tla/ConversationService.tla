-------------------------- MODULE ConversationService --------------------------
(***************************************************************************)
(* The conversation service (internal/conversation) behind the HTTP        *)
(* handlers (internal/api) and the startup of the agent (cmd).             *)
(*                                                                         *)
(* Every HTTP request runs in a goroutine of its own.  A handler is such a *)
(* goroutine: between two transactions of the store it keeps what it read  *)
(* in local variables while other handlers, the clock and a crash of the   *)
(* process come between.  pc names the next transaction or event of the    *)
(* handler:                                                                *)
(*                                                                         *)
(*   turn     get -> begin -> load -> run -> finalize                      *)
(*   confirm  get -> claim -> load -> run -> finalize                      *)
(*   delete   get -> delete            rename   get -> rename              *)
(*   create   purge -> create          list     purge                      *)
(*                                                                         *)
(* where finalize is complete -> tell_completed, suspend ->                *)
(* tell_confirmation or fail.  A request context can be canceled at any    *)
(* time, so any transaction made with it may fail; the finalize            *)
(* transactions use a context of their own and fail when the database does *)
(* not answer in time.                                                     *)
(***************************************************************************)
EXTENDS ConversationStore

CONSTANTS
    Handlers,               \* request goroutines
    NoTurn,
    NoConfirmation,
    MaxConcurrentAsks,      \* capacity of askLimiter
    Lifetime,               \* of a conversation, from its last completed turn
    ConfirmationLifetime,
    ExpiryDeleteBatch,
    MaxClock                \* bound: the clock stops there

ASSUME ServiceConstants ==
    /\ NoTurn \notin Turns
    /\ NoConfirmation \notin ConfirmationIDs
    /\ MaxConcurrentAsks \in Nat
    /\ Lifetime \in Nat \ {0}
    /\ ConfirmationLifetime \in Nat \ {0}
    /\ ExpiryDeleteBatch \in 1 .. MaxConversations
    /\ MaxClock \in Nat
    /\ 0 .. (MaxClock + Lifetime + ConfirmationLifetime) \subseteq Times
    /\ 1 \in Sizes

VARIABLES
    clock,       \* the wall clock
    agent,       \* the process: [phase, at]
    handlers,    \* the local state of each handler
    decided,     \* history: what became of each confirmation ID
    ran,         \* history: how often the call behind a confirmation ran
    stranded     \* history: turns whose failure could not be recorded

processVars == <<agent, handlers>>
historyVars == <<decided, ran, stranded>>
vars == <<storeVars, clock, processVars, historyVars>>

-------------------------------------------------------------------------------

Decisions == {"approve", "reject"}

Streams == {"turn", "confirm"}

HandlerRow ==
    [pc: {"idle", "get", "begin", "claim", "load", "run",
          "complete", "suspend", "fail", "tell_completed", "tell_confirmation",
          "delete", "rename", "purge", "create"},
     kind: Streams \cup {"none", "delete", "rename", "create", "list"},
     owner: Owners \cup {NoOwner},
     conversation: Conversations \cup {NoConversation},
     turn: Turns \cup {NoTurn},
     confirmation: ConfirmationIDs \cup {NoConfirmation},
     decision: Decisions \cup {"none"},
     history: SUBSET Turns,        \* the completed turns LoadHistory returned
     asOf: Nat]                    \* the next time stamp is not before this

Idle ==
    [pc |-> "idle", kind |-> "none", owner |-> NoOwner,
     conversation |-> NoConversation, turn |-> NoTurn,
     confirmation |-> NoConfirmation, decision |-> "none", history |-> {},
     asOf |-> 0]

\* The handlers that hold a slot of askLimiter; release is deferred, so they
\* hold it until they end.
Slots == {h \in Handlers : handlers[h].kind \in Streams}

\* The pcs between the transaction that made the turn running (BeginTurn,
\* ClaimConfirmation) and the one that ends that.
Executing == {"load", "run", "complete", "suspend", "fail"}

Executes(h, t) == handlers[h].pc \in Executing /\ handlers[h].turn = t

\* A time stamp is read before its transaction, which may have waited for the
\* only connection since.
Stamps(h) == handlers[h].asOf .. clock

Init ==
    /\ StoreInit
    /\ clock = 0
    /\ agent = [phase |-> "down", at |-> 0]
    /\ handlers = [h \in Handlers |-> Idle]
    /\ decided = [id \in ConfirmationIDs |-> "unused"]
    /\ ran = [id \in ConfirmationIDs |-> 0]
    /\ stranded = {}

-------------------------------------------------------------------------------
(* Requests arrive *)

Accept(h, request) ==
    /\ agent.phase = "up"
    /\ handlers[h].pc = "idle"
    /\ request.kind \in Streams => Cardinality(Slots) < MaxConcurrentAsks
    /\ handlers' = [handlers EXCEPT ![h] = request]
    /\ UNCHANGED <<storeVars, clock, agent, historyVars>>

serveConversationTurn(h, o, c) ==
    Accept(h, [Idle EXCEPT !.pc = "get", !.kind = "turn", !.owner = o,
                           !.conversation = c])

\* The client answers with IDs it was given; it may be late, or answer twice.
serveConversationConfirmation(h, o, c, t, id, decision) ==
    /\ decided[id] # "unused"
    /\ Accept(h, [Idle EXCEPT !.pc = "get", !.kind = "confirm", !.owner = o,
                              !.conversation = c, !.turn = t,
                              !.confirmation = id, !.decision = decision])

serveDeleteConversation(h, o, c) ==
    Accept(h, [Idle EXCEPT !.pc = "get", !.kind = "delete", !.owner = o,
                           !.conversation = c])

serveUpdateConversationTitle(h, o, c) ==
    Accept(h, [Idle EXCEPT !.pc = "get", !.kind = "rename", !.owner = o,
                           !.conversation = c])

serveCreateConversation(h, o) ==
    Accept(h, [Idle EXCEPT !.pc = "purge", !.kind = "create", !.owner = o,
                           !.asOf = clock])

serveListConversations(h, o) ==
    Accept(h, [Idle EXCEPT !.pc = "purge", !.kind = "list", !.owner = o,
                           !.asOf = clock])

Request(h) ==
    \/ \E o \in Owners : serveCreateConversation(h, o) \/ serveListConversations(h, o)
    \/ \E o \in Owners, c \in Conversations :
         \/ serveConversationTurn(h, o, c)
         \/ serveDeleteConversation(h, o, c)
         \/ serveUpdateConversationTitle(h, o, c)
         \/ \E t \in Turns, id \in ConfirmationIDs, decision \in Decisions :
              serveConversationConfirmation(h, o, c, t, id, decision)

-------------------------------------------------------------------------------
(* Handler steps *)

At(h, pc) == agent.phase = "up" /\ handlers[h].pc = pc

\* The handler h with its next step; a step that reads the clock again cannot
\* read less than it shows now.
Step(h, pc) ==
    [handlers[h] EXCEPT !.pc = pc, !.asOf =
       IF pc \in {"load", "run", "tell_completed", "tell_confirmation"}
       THEN 0 ELSE clock]

Goto(h, row) == handlers' = [handlers EXCEPT ![h] = row]

Respond(h) == Goto(h, Idle)

\* Bug variant: the next step is not chosen by the kind of the request.
Get_NoRoute(h) ==
    /\ At(h, "get")
    /\ Owned(handlers[h].owner, handlers[h].conversation)
    /\ conversations[handlers[h].conversation].expiresAt > clock
    /\ Goto(h, Step(h, handlers[h].kind))
    /\ UNCHANGED <<storeVars, clock, agent, historyVars>>

\* Service.Get, which every request that names a conversation starts with.
Get(h) ==
    /\ At(h, "get")
    /\ Owned(handlers[h].owner, handlers[h].conversation)
    /\ conversations[handlers[h].conversation].expiresAt > clock
    /\ Goto(h, Step(h, CASE handlers[h].kind = "turn"    -> "begin"
                          [] handlers[h].kind = "confirm" -> "claim"
                          [] OTHER -> handlers[h].kind))
    /\ UNCHANGED <<storeVars, clock, agent, historyVars>>

\* A transaction under the request context returned an error: it refused, or
\* the request was canceled.  The handler answers with the error.
Refuse(h) ==
    /\ agent.phase = "up"
    /\ handlers[h].pc \in {"get", "begin", "claim", "delete", "rename", "purge",
                           "create"}
    /\ Respond(h)
    /\ UNCHANGED <<storeVars, clock, agent, historyVars>>

PrepareTurn(h) ==
    /\ At(h, "begin")
    /\ \E t \in Turns, at \in Stamps(h) :
         /\ BeginTurn(handlers[h].owner, handlers[h].conversation, t, at)
         /\ Goto(h, [Step(h, "load") EXCEPT !.turn = t])
    /\ UNCHANGED <<clock, agent, historyVars>>

PrepareConfirmation(h) ==
    /\ At(h, "claim")
    /\ LET r == handlers[h]
       IN  \E at \in Stamps(h) :
             \/ /\ ClaimConfirmation(r.owner, r.conversation, r.turn,
                                     r.confirmation, at)
                /\ Goto(h, Step(h, "load"))
                /\ decided' = [decided EXCEPT ![r.confirmation] = r.decision]
             \/ /\ ClaimExpired(r.owner, r.conversation, r.turn,
                                r.confirmation, at)
                /\ Respond(h)
                /\ UNCHANGED decided
    /\ UNCHANGED <<clock, agent, ran, stranded>>

\* The second half of PrepareTurn and PrepareConfirmation; then streamAgent
\* calls Run, which runs the agent.
LoadHistory(h) ==
    /\ At(h, "load")
    /\ Goto(h, [Step(h, "run") EXCEPT
                  !.history = History(handlers[h].conversation)])
    /\ UNCHANGED <<storeVars, clock, agent, historyVars>>

\* ResumeTurn applies the decision before anything else: an approved call runs.
ApplyDecision(h) ==
    /\ At(h, "run")
    /\ handlers[h].decision # "none"
    /\ ran' = IF handlers[h].decision = "approve"
              THEN [ran EXCEPT ![handlers[h].confirmation] = @ + 1] ELSE ran
    /\ Goto(h, [handlers[h] EXCEPT !.confirmation = NoConfirmation,
                                   !.decision = "none"])
    /\ UNCHANGED <<storeVars, clock, agent, decided, stranded>>

\* The agent is done: it completed, or it waits on a destructive call.
RunEnds(h) ==
    /\ At(h, "run")
    /\ handlers[h].decision = "none"
    /\ \E pc \in {"complete", "suspend"} : Goto(h, Step(h, pc))
    /\ UNCHANGED <<storeVars, clock, agent, historyVars>>

\* An error between BeginTurn or ClaimConfirmation and the end of the run: the
\* history or the stored state is invalid, streaming is unavailable, the client
\* is gone, the deadline passed, the provider or a tool failed.
Abort(h) ==
    /\ agent.phase = "up"
    /\ handlers[h].pc \in {"load", "run"}
    /\ Goto(h, Step(h, "fail"))
    /\ UNCHANGED <<storeVars, clock, agent, historyVars>>

Complete(h) ==
    /\ At(h, "complete")
    /\ \E at \in Stamps(h), m, b \in Sizes :
         CompleteTurn(handlers[h].owner, handlers[h].conversation,
                      handlers[h].turn, at, at + Lifetime, m, b)
    /\ Goto(h, Step(h, "tell_completed"))
    /\ UNCHANGED <<clock, agent, historyVars>>

Suspend(h) ==
    /\ At(h, "suspend")
    /\ \E at \in Stamps(h), id \in ConfirmationIDs :
         /\ decided[id] = "unused"
         /\ SuspendTurn(handlers[h].owner, handlers[h].conversation,
                        handlers[h].turn, id, at, at + ConfirmationLifetime)
         /\ Goto(h, [Step(h, "tell_confirmation") EXCEPT !.confirmation = id])
         /\ decided' = [decided EXCEPT ![id] = "waiting"]
    /\ UNCHANGED <<clock, agent, ran, stranded>>

\* Bug variant: the event is written although the transaction failed.
PersistenceFails_Tells(h) ==
    /\ agent.phase = "up"
    /\ \/ handlers[h].pc = "complete" /\ Goto(h, Step(h, "tell_completed"))
       \/ handlers[h].pc = "suspend" /\ Goto(h, Step(h, "tell_confirmation"))
    /\ UNCHANGED <<storeVars, clock, agent, historyVars>>

\* CompleteTurn or SuspendTurn returned an error: persistence_failed.
PersistenceFails(h) ==
    /\ agent.phase = "up"
    /\ handlers[h].pc \in {"complete", "suspend"}
    /\ Goto(h, Step(h, "fail"))
    /\ UNCHANGED <<storeVars, clock, agent, historyVars>>

Fail(h) ==
    /\ At(h, "fail")
    /\ \E at \in Stamps(h), status \in {"failed", "canceled"} :
         FailTurn(handlers[h].owner, handlers[h].conversation,
                  handlers[h].turn, status, at)
    /\ Respond(h)
    /\ UNCHANGED <<clock, agent, historyVars>>

\* FailTurn itself fails; nothing tries again.
FailFails(h) ==
    /\ At(h, "fail")
    /\ stranded' = stranded \cup {handlers[h].turn}
    /\ Respond(h)
    /\ UNCHANGED <<storeVars, clock, agent, decided, ran>>

\* The event is written once the transaction committed; the client may be gone.
Tell(h) ==
    /\ agent.phase = "up"
    /\ handlers[h].pc \in {"tell_completed", "tell_confirmation"}
    /\ Respond(h)
    /\ UNCHANGED <<storeVars, clock, agent, historyVars>>

Delete(h) ==
    /\ At(h, "delete")
    /\ DeleteConversation(handlers[h].owner, handlers[h].conversation)
    /\ Respond(h)
    /\ UNCHANGED <<clock, agent, historyVars>>

UpdateTitle(h) ==
    /\ At(h, "rename")
    /\ \E at \in Stamps(h) :
         UpdateConversationTitle(handlers[h].owner, handlers[h].conversation, at)
    /\ Respond(h)
    /\ UNCHANGED <<clock, agent, historyVars>>

\* purgeExpired: batches until one is not full, all with the time read first.
Purge(h) ==
    /\ At(h, "purge")
    /\ \E D \in SUBSET Conversations :
         /\ DeleteExpired(D, handlers[h].asOf, ExpiryDeleteBatch)
         /\ IF Cardinality(D) = ExpiryDeleteBatch THEN UNCHANGED handlers
            ELSE IF handlers[h].kind = "create"
                 THEN Goto(h, [handlers[h] EXCEPT !.pc = "create"])
                 ELSE Respond(h)
    /\ UNCHANGED <<clock, agent, historyVars>>

Create(h) ==
    /\ At(h, "create")
    /\ \E c \in Conversations :
         CreateConversation(handlers[h].owner, c, handlers[h].asOf,
                            handlers[h].asOf + Lifetime)
    /\ Respond(h)
    /\ UNCHANGED <<clock, agent, historyVars>>

Serve(h) ==
    \/ Get(h) \/ Refuse(h) \/ PrepareTurn(h) \/ PrepareConfirmation(h)
    \/ LoadHistory(h) \/ ApplyDecision(h) \/ RunEnds(h) \/ Abort(h)
    \/ Complete(h) \/ Suspend(h) \/ PersistenceFails(h) \/ Fail(h)
    \/ FailFails(h) \/ Tell(h) \/ Delete(h) \/ UpdateTitle(h) \/ Purge(h)
    \/ Create(h)

-------------------------------------------------------------------------------
(* The process *)

\* Bug variant: the agent starts without recovering interrupted turns.
Recover_Skipped ==
    /\ agent.phase = "down"
    /\ agent' = [phase |-> "purging", at |-> clock]
    /\ UNCHANGED <<storeVars, clock, handlers, historyVars>>

\* main: Open, then Recover, before the listener is open.
Recover ==
    /\ agent.phase = "down"
    /\ RecoverInterrupted(clock)
    /\ agent' = [phase |-> "purging", at |-> clock]
    /\ stranded' = {}
    /\ UNCHANGED <<clock, handlers, decided, ran>>

\* main: DeleteExpired, then serve.
StartupPurge ==
    /\ agent.phase = "purging"
    /\ \E D \in SUBSET Conversations :
         /\ DeleteExpired(D, agent.at, ExpiryDeleteBatch)
         /\ agent' = IF Cardinality(D) = ExpiryDeleteBatch THEN agent
                     ELSE [phase |-> "up", at |-> 0]
    /\ UNCHANGED <<clock, handlers, historyVars>>

\* A crash, a forced shutdown or a fatal startup error: the handlers are gone,
\* the committed rows stay.
Stop ==
    /\ agent.phase # "down"
    /\ agent' = [phase |-> "down", at |-> 0]
    /\ handlers' = [h \in Handlers |-> Idle]
    /\ UNCHANGED <<storeVars, clock, historyVars>>

Tick ==
    /\ clock < MaxClock
    /\ clock' = clock + 1
    /\ UNCHANGED <<storeVars, processVars, historyVars>>

Next ==
    \/ \E h \in Handlers : Request(h) \/ Serve(h)
    \/ Recover \/ StartupPurge \/ Stop \/ Tick

Spec == Init /\ [][Next]_vars

\* Go runs every goroutine, and every run of the agent ends: its iterations are
\* bounded and its context has a deadline.  Someone restarts a stopped agent.
FairSpec ==
    /\ Spec
    /\ \A h \in Handlers : WF_vars(Serve(h))
    /\ WF_vars(Recover) /\ WF_vars(StartupPurge)
    /\ WF_vars(Tick)

-------------------------------------------------------------------------------
(* Properties *)

(***************************************************************************)
(* Every variable of the process has its type.                             *)
(***************************************************************************)
ServiceTypeOK ==
    /\ clock \in Nat
    /\ agent \in [phase: {"down", "purging", "up"}, at: Nat]
    /\ handlers \in [Handlers -> HandlerRow]
    /\ decided \in [ConfirmationIDs -> Decisions \cup {"unused", "waiting"}]
    /\ ran \in [ConfirmationIDs -> Nat]
    /\ stranded \subseteq Turns

(***************************************************************************)
(* From the commit of BeginTurn or ClaimConfirmation to the commit that    *)
(* ends the execution, the turn of a handler is running, in a conversation *)
(* that still exists, is the handler's owner's, and started no later than  *)
(* any time the handler may stamp; no other handler executes in that       *)
(* conversation.  So nothing a delete, a purge, an expiry, a second answer *)
(* or a second turn does in between reaches a turn under execution, and    *)
(* failTurn is never refused: it fails only when the database does.        *)
(***************************************************************************)
ExecutionOwnsTurn ==
    \A h \in Handlers : handlers[h].pc \in Executing =>
        LET r == handlers[h]
        IN  /\ Owned(r.owner, r.conversation)
            /\ TurnIs(r.conversation, r.turn, "running")
            /\ turns[r.turn].startedAt <= clock
            /\ r.pc \in {"complete", "suspend", "fail"}
                 => turns[r.turn].startedAt <= r.asOf
            /\ \A g \in Handlers \ {h} : handlers[g].pc \in Executing =>
                 handlers[g].conversation # r.conversation

(***************************************************************************)
(* While the agent serves, a running turn has a handler that will end it,  *)
(* or is one whose failure the database refused to record.  Recover leaves *)
(* none behind from before a crash.                                        *)
(***************************************************************************)
RunningHasExecution ==
    agent.phase # "down" => \A t \in Turns : turns[t].status = "running" =>
        t \in stranded \/ \E h \in Handlers : Executes(h, t)

(***************************************************************************)
(* The destructive call behind a confirmation runs at most once, and only  *)
(* after its approval was accepted in time -- whatever the races of        *)
(* answers, expiries, deletions, new turns, crashes and restarts.          *)
(***************************************************************************)
CallRunsOnceApproved ==
    \A id \in ConfirmationIDs :
        ran[id] = 0 \/ (ran[id] = 1 /\ decided[id] = "approve")

(***************************************************************************)
(* The history an execution loaded stays the history of its conversation   *)
(* until its own turn completes: the model never answers from a stale one. *)
(***************************************************************************)
HistoryIsCurrent ==
    \A h \in Handlers :
        handlers[h].pc \in {"run", "complete", "suspend"} =>
            handlers[h].history = History(handlers[h].conversation)

\* The confirmation can be answered, or it was, or nothing is left to answer.
Offered(t, id) ==
    \/ \E row \in confirmations : row.turn = t /\ row.id = id
    \/ id \in {k \in ConfirmationIDs : decided[k] \in Decisions}
    \/ turns[t].status \in Terminal \cup {"deleted"}

(***************************************************************************)
(* A client is told only of what is committed.  While a handler writes     *)
(* completed its turn is stored completed; while it writes                 *)
(* confirmation_required the row of that confirmation is stored and waits  *)
(* on that turn.  Other requests may come before the event: they may       *)
(* delete the conversation, answer the confirmation or let it expire, and  *)
(* nothing else takes away what the client reads.                          *)
(***************************************************************************)
TellsWhatIsStored ==
    \A h \in Handlers :
        /\ handlers[h].pc = "tell_completed" =>
             turns[handlers[h].turn].status \in {"completed", "deleted"}
        /\ handlers[h].pc = "tell_confirmation" =>
             Offered(handlers[h].turn, handlers[h].confirmation)

(***************************************************************************)
(* The comment on suspend (service.go:361) says that a client can always   *)
(* answer a request it was sent: until the confirmation expires or is      *)
(* decided, Get lets the owner through to ClaimConfirmation.               *)
(***************************************************************************)
AnswerableOnceAsked ==
    \A r \in confirmations : clock < r.expiresAt =>
        clock < conversations[turns[r.turn].conversation].expiresAt

(***************************************************************************)
(* No conversation refuses new turns for ever: the turn in its way ends,   *)
(* however its request ends and through any number of crashes, or its      *)
(* confirmation expires unanswered and the next turn sweeps it away.  The  *)
(* exceptions are a full conversation, a turn whose failure could not be   *)
(* recorded and, at the bound of the clock, a confirmation beyond it.      *)
(***************************************************************************)
Blocked(c) ==
    /\ conversations[c].state = "stored"
    /\ Cardinality(TurnsOf(c)) < MaxTurns
    /\ ~BeginTurnAllowed(conversations[c].owner, c, clock)
    /\ Running(c) \cap stranded = {}
    /\ \A r \in confirmations :
         turns[r.turn].conversation = c => r.expiresAt <= MaxClock

ConversationUnblocks == \A c \in Conversations : Blocked(c) ~> ~Blocked(c)

===============================================================================
