--------------------------- MODULE ConversationStore ---------------------------
(***************************************************************************)
(* The conversation database (internal/conversation/sqlite).  The store    *)
(* keeps one connection open (SetMaxOpenConns(1)), so each of its methods  *)
(* is one transaction that no other overlaps: one action per method, taken *)
(* when the method commits.  A method that returns an error rolls back and *)
(* changes nothing.                                                        *)
(*                                                                         *)
(* The tables are the variables: `conversations' and `turns' map an ID to  *)
(* its row, `confirmations' is a set of rows.  IDs are random 128-bit      *)
(* values: an ID whose row was deleted is never drawn again, so the row    *)
(* states "unused" and "deleted" both mean that the table has no such row. *)
(* The message rows of a turn are abstracted to their number and size.     *)
(***************************************************************************)
EXTENDS Integers, FiniteSets, FiniteSetsExt

CONSTANTS
    Owners,                \* authenticated identities
    NoOwner,
    Conversations,         \* conversation IDs
    NoConversation,
    Turns,                 \* turn IDs
    ConfirmationIDs,       \* confirmation IDs
    Times,                 \* the time stamps callers may pass
    Sizes,                 \* numbers of messages, and of bytes, a turn may add
    MaxConversations,
    MaxTurns,              \* per conversation
    MaxMessages,           \* per conversation
    MaxConversationBytes,
    MaxDatabaseBytes

\* The IDs are finitely many: a conversation or turn ID is 128 random bits.
ASSUME StoreConstants ==
    /\ IsFiniteSet(Conversations) /\ IsFiniteSet(Turns)
    /\ NoOwner \notin Owners
    /\ NoConversation \notin Conversations
    /\ Times \subseteq Nat
    /\ Sizes \subseteq Nat
    /\ MaxConversations \in Nat /\ MaxTurns \in Nat /\ MaxMessages \in Nat
    /\ MaxConversationBytes \in Nat /\ MaxDatabaseBytes \in Nat

VARIABLES conversations, turns, confirmations

storeVars == <<conversations, turns, confirmations>>

-------------------------------------------------------------------------------
(* Rows *)

Terminal == {"completed", "failed", "canceled", "interrupted"}
ActiveStatus == {"running", "awaiting_confirmation"}
TurnStatus == ActiveStatus \cup Terminal

ConversationRow ==
    [state: {"unused", "stored", "deleted"}, owner: Owners \cup {NoOwner},
     title: {"none", "prompt", "user"}, updatedAt: Nat, expiresAt: Nat,
     storedBytes: Nat]

TurnRow ==
    [status: TurnStatus \cup {"unused", "deleted"},
     conversation: Conversations \cup {NoConversation}, sequence: Nat,
     startedAt: Nat, messages: Nat, bytes: Nat]

ConfirmationRow == [turn: Turns, id: ConfirmationIDs, expiresAt: Nat]

NoConversationRow(state) ==
    [state |-> state, owner |-> NoOwner, title |-> "none", updatedAt |-> 0,
     expiresAt |-> 0, storedBytes |-> 0]

NoTurnRow(status) ==
    [status |-> status, conversation |-> NoConversation, sequence |-> 0,
     startedAt |-> 0, messages |-> 0, bytes |-> 0]

StoreInit ==
    /\ conversations = [c \in Conversations |-> NoConversationRow("unused")]
    /\ turns = [t \in Turns |-> NoTurnRow("unused")]
    /\ confirmations = {}

-------------------------------------------------------------------------------
(* Queries the transactions share *)

\* requireConversation: the row exists and belongs to the caller.
Owned(o, c) == conversations[c].state = "stored" /\ conversations[c].owner = o

TurnsOf(c) == {t \in Turns : turns[t].conversation = c}

Running(c) == {t \in TurnsOf(c) : turns[t].status = "running"}

Waiting(c) == {t \in TurnsOf(c) : turns[t].status = "awaiting_confirmation"}

\* Bug variant: a confirmation never expires on its own.
ExpiredWaits_Never(c, at) == {}

\* The waiting turns failExpiredConfirmation finds.
ExpiredWaits(c, at) ==
    {t \in Waiting(c) : \E r \in confirmations : r.turn = t /\ r.expiresAt <= at}

\* getTurn: the turn row, looked up under the conversation it must belong to.
TurnIs(c, t, status) == turns[t].conversation = c /\ turns[t].status = status

MessagesOf(c) == MapThenSumSet(LAMBDA t : turns[t].messages, TurnsOf(c))

DatabaseBytes ==
    MapThenSumSet(LAMBDA c : conversations[c].storedBytes, Conversations)

NextSequence(c) == Max({turns[t].sequence : t \in TurnsOf(c)} \cup {0}) + 1

\* LoadHistory reads the messages of these turns, in sequence order.
History(c) == {t \in TurnsOf(c) : turns[t].status = "completed"}

-------------------------------------------------------------------------------
(* Transactions on conversations *)

CreateConversation(o, c, at, exp) ==
    /\ exp > at
    /\ conversations[c].state = "unused"
    /\ Cardinality({d \in Conversations : conversations[d].state = "stored"})
         < MaxConversations
    /\ conversations' = [conversations EXCEPT ![c] =
         [state |-> "stored", owner |-> o, title |-> "none", updatedAt |-> at,
          expiresAt |-> exp, storedBytes |-> 0]]
    /\ UNCHANGED <<turns, confirmations>>

\* Bug variant: no cascade, the turns stay behind.
Remove_NoCascade(D) ==
    /\ conversations' = [c \in Conversations |->
         IF c \in D THEN NoConversationRow("deleted") ELSE conversations[c]]
    /\ UNCHANGED <<turns, confirmations>>

\* ON DELETE CASCADE: the turns, messages and confirmations go with the row.
Remove(D) ==
    /\ conversations' = [c \in Conversations |->
         IF c \in D THEN NoConversationRow("deleted") ELSE conversations[c]]
    /\ turns' = [t \in Turns |->
         IF turns[t].conversation \in D THEN NoTurnRow("deleted") ELSE turns[t]]
    /\ confirmations' =
         {r \in confirmations : turns[r.turn].conversation \notin D}

\* Bug variant: deletes under a running turn.
DeleteConversation_WhileRunning(o, c) == Owned(o, c) /\ Remove({c})

DeleteConversation(o, c) ==
    /\ Owned(o, c)
    /\ Running(c) = {}              \* ErrBusy; a waiting turn may be deleted
    /\ Remove({c})

Expired(at) ==
    {c \in Conversations : /\ conversations[c].state = "stored"
                           /\ conversations[c].expiresAt <= at
                           /\ Running(c) = {}}

\* The rows ORDER BY expires_at, id LIMIT limit picks: IDs are random, so rows
\* that expire together come in any order.
ExpiredBatch(D, at, limit) ==
    /\ D \subseteq Expired(at)
    /\ Cardinality(D) = Min({limit, Cardinality(Expired(at))})
    /\ \A c \in D, d \in Expired(at) \ D :
         conversations[c].expiresAt <= conversations[d].expiresAt

DeleteExpired(D, at, limit) == ExpiredBatch(D, at, limit) /\ Remove(D)

TitleAllowed(o, c, at) == Owned(o, c) /\ at >= conversations[c].updatedAt

UpdateConversationTitle(o, c, at) ==
    /\ TitleAllowed(o, c, at)
    /\ conversations' =
         [conversations EXCEPT ![c].title = "user", ![c].updatedAt = at]
    /\ UNCHANGED <<turns, confirmations>>

-------------------------------------------------------------------------------
(* Transactions on turns *)

\* Bug variant: a turn that waits for a decision is not seen as active.
BeginTurnAllowed_IgnoresWaiting(o, c, at) ==
    Owned(o, c) /\ Running(c) = {} /\ Cardinality(TurnsOf(c)) < MaxTurns

\* Bug variant: no check for an active turn at all.
BeginTurnAllowed_NeverBusy(o, c, at) ==
    Owned(o, c) /\ Cardinality(TurnsOf(c)) < MaxTurns

BeginTurnAllowed(o, c, at) ==
    /\ Owned(o, c)
    /\ Running(c) = {} /\ Waiting(c) \subseteq ExpiredWaits(c, at)   \* ErrBusy
    /\ Cardinality(TurnsOf(c)) < MaxTurns                            \* ErrLimit

\* A confirmation whose time has passed fails its turn in the same transaction;
\* when the turn is refused, that is rolled back with the rest.
BeginTurn(o, c, t, at) ==
    /\ BeginTurnAllowed(o, c, at)
    /\ turns[t].status = "unused"
    /\ LET expired == ExpiredWaits(c, at)
           failed == [u \in Turns |-> IF u \in expired
                        THEN [turns[u] EXCEPT !.status = "failed"] ELSE turns[u]]
       IN  /\ turns' = [failed EXCEPT ![t] =
                [status |-> "running", conversation |-> c,
                 sequence |-> NextSequence(c), startedAt |-> at,
                 messages |-> 0, bytes |-> 0]]
           /\ confirmations' = {r \in confirmations : r.turn \notin expired}
           /\ conversations' = IF expired = {} THEN conversations
                ELSE [conversations EXCEPT ![c].updatedAt = at]

CompleteTurnAllowed(o, c, t, at, m, b) ==
    /\ Owned(o, c)
    /\ TurnIs(c, t, "running")
    /\ at >= turns[t].startedAt
    /\ MessagesOf(c) + m <= MaxMessages
    /\ conversations[c].storedBytes + b <= MaxConversationBytes
    /\ DatabaseBytes + b <= MaxDatabaseBytes

\* Bug variant: the byte count of the conversation is replaced, not added to.
CompleteTurn_ReplacesBytes(o, c, t, at, exp, m, b) ==
    /\ exp > at
    /\ CompleteTurnAllowed(o, c, t, at, m, b)
    /\ turns' = [turns EXCEPT ![t].status = "completed",
                              ![t].messages = m, ![t].bytes = b]
    /\ conversations' = [conversations EXCEPT ![c].title = "prompt",
         ![c].storedBytes = b, ![c].updatedAt = at, ![c].expiresAt = exp]
    /\ UNCHANGED confirmations

\* Bug variant: the byte count is taken from the conversation.
CompleteTurn_Subtracts(o, c, t, at, exp, m, b) ==
    /\ CompleteTurnAllowed(o, c, t, at, m, b)
    /\ turns' = [turns EXCEPT ![t].status = "completed"]
    /\ conversations' = [conversations EXCEPT ![c].storedBytes = @ - b]
    /\ UNCHANGED confirmations

\* m messages of b bytes in all are stored with the turn.
CompleteTurn(o, c, t, at, exp, m, b) ==
    /\ exp > at
    /\ CompleteTurnAllowed(o, c, t, at, m, b)
    /\ turns' = [turns EXCEPT ![t].status = "completed",
                              ![t].messages = m, ![t].bytes = b]
    /\ conversations' = [conversations EXCEPT
         ![c].title = IF @ = "none" THEN "prompt" ELSE @,
         ![c].storedBytes = @ + b, ![c].updatedAt = at, ![c].expiresAt = exp]
    /\ UNCHANGED confirmations

\* Bug variant: a turn that ended can be failed.
FailTurnAllowed_AnyStatus(o, c, t, at) ==
    Owned(o, c) /\ turns[t].conversation = c /\ at >= turns[t].startedAt

FailTurnAllowed(o, c, t, at) ==
    Owned(o, c) /\ TurnIs(c, t, "running") /\ at >= turns[t].startedAt

FailTurn(o, c, t, status, at) ==
    /\ FailTurnAllowed(o, c, t, at)
    /\ turns' = [turns EXCEPT ![t].status = status]
    /\ conversations' = [conversations EXCEPT ![c].updatedAt = at]
    /\ UNCHANGED confirmations

RecoverInterrupted(at) ==
    /\ conversations' = [c \in Conversations |-> IF Running(c) = {}
         THEN conversations[c] ELSE [conversations[c] EXCEPT !.updatedAt = at]]
    /\ turns' = [t \in Turns |-> IF turns[t].status = "running"
         THEN [turns[t] EXCEPT !.status = "interrupted"] ELSE turns[t]]
    /\ UNCHANGED confirmations

-------------------------------------------------------------------------------
(* Transactions on confirmations *)

\* confirmations.turn_id is the primary key, confirmation_id is unique.
SuspendTurnAllowed(o, c, t, id) ==
    /\ Owned(o, c)
    /\ TurnIs(c, t, "running")
    /\ \A r \in confirmations : r.turn # t /\ r.id # id

SuspendTurn(o, c, t, id, at, exp) ==
    /\ exp > at
    /\ SuspendTurnAllowed(o, c, t, id)
    /\ confirmations' =
         confirmations \cup {[turn |-> t, id |-> id, expiresAt |-> exp]}
    /\ turns' = [turns EXCEPT ![t].status = "awaiting_confirmation"]
    /\ conversations' = [conversations EXCEPT ![c].updatedAt = at]

\* The confirmation ID waits on this turn of this conversation; any other
\* decision is refused (ErrNotFound, ErrNotPending).
Pending(o, c, t, id) ==
    /\ Owned(o, c)
    /\ TurnIs(c, t, "awaiting_confirmation")
    /\ \E r \in confirmations : r.turn = t /\ r.id = id

ConfirmationExpired(t, id, at) ==
    \E r \in confirmations : r.turn = t /\ r.id = id /\ r.expiresAt <= at

\* Bug variant: the confirmation is not consumed.
ClaimConfirmation_NotConsumed(o, c, t, id, at) ==
    /\ Pending(o, c, t, id) /\ ~ConfirmationExpired(t, id, at)
    /\ turns' = [turns EXCEPT ![t].status = "running"]
    /\ UNCHANGED <<conversations, confirmations>>

\* Bug variant: the claim is rolled back after the row was read.
ClaimConfirmation_RolledBack(o, c, t, id, at) ==
    /\ Pending(o, c, t, id) /\ ~ConfirmationExpired(t, id, at)
    /\ UNCHANGED storeVars

\* The decision came in time: the row is consumed and the turn runs again.
ClaimConfirmation(o, c, t, id, at) ==
    /\ Pending(o, c, t, id)
    /\ ~ConfirmationExpired(t, id, at)
    /\ confirmations' = {r \in confirmations : r.turn # t}
    /\ turns' = [turns EXCEPT ![t].status = "running"]
    /\ UNCHANGED conversations

\* The decision came too late: expireTurn commits and ErrConfirmationExpired is
\* returned.
ClaimExpired(o, c, t, id, at) ==
    /\ Pending(o, c, t, id)
    /\ ConfirmationExpired(t, id, at)
    /\ confirmations' = {r \in confirmations : r.turn # t}
    /\ turns' = [turns EXCEPT ![t].status = "failed"]
    /\ conversations' = [conversations EXCEPT ![c].updatedAt = at]

-------------------------------------------------------------------------------
(* The store alone: any caller, any argument, any order. *)

ConversationStep ==
    \/ \E o \in Owners, c \in Conversations, at, exp \in Times :
         CreateConversation(o, c, at, exp)
    \/ \E o \in Owners, c \in Conversations : DeleteConversation(o, c)
    \/ \E D \in SUBSET Conversations, at \in Times, limit \in 1 .. MaxConversations :
         DeleteExpired(D, at, limit)
    \/ \E o \in Owners, c \in Conversations, at \in Times :
         UpdateConversationTitle(o, c, at)

TurnStep(o, c, t) ==
    \/ \E at \in Times : BeginTurn(o, c, t, at)
    \/ \E at, exp \in Times, m, b \in Sizes : CompleteTurn(o, c, t, at, exp, m, b)
    \/ \E at \in Times, status \in Terminal \ {"completed"} :
         FailTurn(o, c, t, status, at)
    \/ \E id \in ConfirmationIDs, at, exp \in Times :
         SuspendTurn(o, c, t, id, at, exp)
    \/ \E id \in ConfirmationIDs, at \in Times :
         ClaimConfirmation(o, c, t, id, at)
    \/ \E id \in ConfirmationIDs, at \in Times : ClaimExpired(o, c, t, id, at)

StoreNext ==
    \/ ConversationStep
    \/ \E at \in Times : RecoverInterrupted(at)
    \/ \E o \in Owners, c \in Conversations, t \in Turns : TurnStep(o, c, t)

StoreSpec == StoreInit /\ [][StoreNext]_storeVars

-------------------------------------------------------------------------------
(* Properties *)

(***************************************************************************)
(* Every table holds rows of its type.                                     *)
(***************************************************************************)
StoreTypeOK ==
    /\ conversations \in [Conversations -> ConversationRow]
    /\ turns \in [Turns -> TurnRow]
    /\ confirmations \subseteq ConfirmationRow

(***************************************************************************)
(* A conversation has at most one turn that runs or waits for a decision,  *)
(* whatever the order of begins, suspensions, claims, expiries and         *)
(* failures (what the unique index turns_one_active also enforces).        *)
(***************************************************************************)
OneActiveTurn ==
    \A t, u \in Turns :
        /\ turns[t].status \in ActiveStatus /\ turns[u].status \in ActiveStatus
        /\ turns[t].conversation = turns[u].conversation
        => t = u

(***************************************************************************)
(* A turn waits exactly when one confirmation row names it, and no         *)
(* confirmation ID is on two rows: a turn can neither wait for ever with   *)
(* nothing to answer nor be answered while it runs or after it ended.      *)
(***************************************************************************)
WaitingHasConfirmation ==
    /\ \A t \in Turns :
         turns[t].status = "awaiting_confirmation"
           <=> \E r \in confirmations : r.turn = t
    /\ \A r, s \in confirmations : r.turn = s.turn \/ r.id = s.id => r = s

(***************************************************************************)
(* Deletion and expiry take every row of a conversation with it and never  *)
(* a conversation under a turn in progress: each turn row belongs to a     *)
(* stored conversation.                                                    *)
(***************************************************************************)
TurnsHaveConversation ==
    \A t \in Turns : turns[t].status \in TurnStatus =>
        /\ turns[t].conversation \in Conversations
        /\ conversations[turns[t].conversation].state = "stored"

(***************************************************************************)
(* The cached byte count of a conversation is what its messages add up to, *)
(* and what CompleteTurn let in always passes the limits of messages and   *)
(* bytes that LoadHistory enforces when it reads; what else it checks is   *)
(* in ConversationMessages.                                                *)
(***************************************************************************)
BytesAccounted ==
    /\ \A c \in Conversations :
         /\ conversations[c].storedBytes
              = MapThenSumSet(LAMBDA t : turns[t].bytes, History(c))
         /\ conversations[c].storedBytes <= MaxConversationBytes
         /\ MapThenSumSet(LAMBDA t : turns[t].messages, History(c))
              <= MaxMessages
    /\ DatabaseBytes <= MaxDatabaseBytes

(***************************************************************************)
(* A turn that reached a terminal status keeps it; only the deletion of    *)
(* its conversation removes it.  No late completion, failure, claim or     *)
(* recovery overwrites an outcome.                                         *)
(***************************************************************************)
OutcomeIsFinal ==
    [][\A t \in Turns : turns[t].status \in Terminal =>
         turns'[t].status \in {turns[t].status, "deleted"}]_storeVars

(***************************************************************************)
(* The history of a conversation only grows at its end: a turn that        *)
(* completes comes after every turn completed before it, although the      *)
(* order is the sequence number given when it began.                       *)
(***************************************************************************)
HistoryGrowsAtEnd ==
    [][\A t, u \in Turns :
         /\ turns[t].status = "completed" /\ turns'[t].status = "completed"
         /\ turns[u].status # "completed" /\ turns'[u].status = "completed"
         /\ turns[t].conversation = turns'[u].conversation
         => turns[t].sequence < turns'[u].sequence]_storeVars

(***************************************************************************)
(* A title the user chose survives the completion of a turn that was       *)
(* already running, which would otherwise name the conversation.           *)
(***************************************************************************)
RenameKept ==
    [][\A c \in Conversations : conversations[c].title = "user" =>
         conversations'[c].title = "user"
         \/ conversations'[c].state = "deleted"]_storeVars

===============================================================================
