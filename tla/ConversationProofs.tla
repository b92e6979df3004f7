--------------------------- MODULE ConversationProofs ---------------------------
(***************************************************************************)
(* Proofs about the conversation database and about the service that calls *)
(* it, for any number of owners, conversations, turns, confirmations and   *)
(* handlers, any limits, any lifetimes and any bound of the clock.         *)
(*                                                                         *)
(* The database, under StoreSpec: the inductive invariant StoreInv, one    *)
(* lemma per transaction, and what follows from it; then what no step      *)
(* does; last the accounts (AccountInv), which add up what the rows of a   *)
(* finite table say: a formula that failed for some subset would fail for  *)
(* a least one (LeastSubset).                                              *)
(*                                                                         *)
(* The service: the handlers are typed by the step they are at (LocalInv), *)
(* so each calls the store with arguments StoreSpec allows and times it    *)
(* accepts (ServiceInv): the service implements StoreSpec.  Then: every    *)
(* step of one handler spares the execution of another (ExecutionInv), a   *)
(* decision is held by one handler at most (AnswerInv), and nothing takes  *)
(* back what a handler is about to tell (Told).                            *)
(***************************************************************************)
EXTENDS ConversationService, FiniteSetTheorems, WellFoundedInduction, TLAPS

-------------------------------------------------------------------------------
(* The database: the inductive invariant *)

\* A row that does not exist names no conversation; a row that exists does.
RowsNameConversation ==
    \A t \in Turns : turns[t].status \in TurnStatus
                       <=> turns[t].conversation \in Conversations

Sequences(c) == {turns[t].sequence : t \in TurnsOf(c)} \cup {0}

\* Max, by which BeginTurn numbers the next turn, has a value.
LastSequenceExists ==
    \A c \in Conversations : \E m \in Sequences(c) : \A s \in Sequences(c) : s <= m

\* The turn that is running or waiting is the last of its conversation.
ActiveIsLast ==
    \A t, u \in Turns :
        /\ turns[u].status \in ActiveStatus
        /\ turns[t].conversation = turns[u].conversation
        /\ t # u
        => turns[t].sequence < turns[u].sequence

TurnInv ==
    /\ OneActiveTurn
    /\ TurnsHaveConversation
    /\ RowsNameConversation
    /\ LastSequenceExists
    /\ ActiveIsLast

\* A row that was never stored has no title.
UnusedHasNoTitle ==
    \A c \in Conversations :
        conversations[c].state = "unused" => conversations[c].title = "none"

StoreInv ==
    StoreTypeOK /\ TurnInv /\ WaitingHasConfirmation /\ UnusedHasNoTitle

-------------------------------------------------------------------------------
(* Lemmas *)

\* The largest number of a set, when there is one, is its Max.
LEMMA MaxIsLargest ==
    ASSUME NEW S \in SUBSET Nat, NEW m \in S, \A s \in S : s <= m
    PROVE  Max(S) = m
<1>1. \A y \in S : m >= y
  OBVIOUS
<1>2. \A x \in S : (\A y \in S : x >= y) => x = m
  <2> SUFFICES ASSUME NEW x \in S, \A y \in S : x >= y PROVE x = m
    OBVIOUS
  <2>1. x >= m /\ m >= x /\ x \in Nat /\ m \in Nat
    OBVIOUS
  <2> QED BY <2>1
<1> QED BY <1>1, <1>2 DEF Max

\* The number of a new turn is larger than that of every turn before it.
LEMMA NextSequenceIsLarger ==
    ASSUME StoreTypeOK, LastSequenceExists, NEW c \in Conversations
    PROVE  /\ NextSequence(c) \in Nat
           /\ \A s \in Sequences(c) : s < NextSequence(c)
<1>1. Sequences(c) \in SUBSET Nat
  BY DEF Sequences, TurnsOf, StoreTypeOK, TurnRow
<1>2. PICK m \in Sequences(c) : \A s \in Sequences(c) : s <= m
  BY DEF LastSequenceExists
<1>3. NextSequence(c) = m + 1
  BY <1>1, <1>2, MaxIsLargest DEF NextSequence, Sequences
<1> QED BY <1>1, <1>2, <1>3

\* A step that creates and deletes no turn, makes no ended turn active and
\* removes no conversation preserves what the invariant says of the turns.
LEMMA StatusStep ==
    ASSUME StoreTypeOK, TurnInv,
           \A t \in Turns :
               /\ turns'[t].conversation = turns[t].conversation
               /\ turns'[t].sequence = turns[t].sequence
               /\ turns'[t].status \in ActiveStatus
                    => turns[t].status \in ActiveStatus
               /\ turns'[t].status \in TurnStatus
                    <=> turns[t].status \in TurnStatus,
           \A c \in Conversations : conversations[c].state = "stored"
                => conversations'[c].state = "stored"
    PROVE  TurnInv'
<1>1. \A c \in Conversations : Sequences(c)' = Sequences(c)
  BY DEF Sequences, TurnsOf
<1>2. OneActiveTurn'
  BY DEF TurnInv, OneActiveTurn
<1>3. TurnsHaveConversation'
  BY DEF TurnInv, TurnsHaveConversation
<1>4. RowsNameConversation'
  BY DEF TurnInv, RowsNameConversation
<1>5. LastSequenceExists'
  BY <1>1 DEF TurnInv, LastSequenceExists
<1>6. ActiveIsLast'
  BY DEF TurnInv, ActiveIsLast
<1> QED BY <1>2, <1>3, <1>4, <1>5, <1>6 DEF TurnInv

\* Rows keep their type when a transaction changes a column.
LEMMA ConversationRowUpdate ==
    ASSUME NEW row \in ConversationRow, NEW at \in Nat,
           NEW title \in {"none", "prompt", "user"}
    PROVE  /\ [row EXCEPT !.updatedAt = at] \in ConversationRow
           /\ [row EXCEPT !.title = title] \in ConversationRow
BY DEF ConversationRow

\* A turn row keeps its type when its status changes.
LEMMA TurnRowUpdate ==
    ASSUME NEW row \in TurnRow, NEW status \in TurnStatus
    PROVE  [row EXCEPT !.status = status] \in TurnRow
BY DEF TurnRow

\* What the updates that most transactions end with do to the rows.
LEMMA StatusUpdate ==
    ASSUME StoreTypeOK, NEW t \in Turns, NEW status \in TurnStatus,
           turns' = [turns EXCEPT ![t].status = status]
    PROVE  /\ turns' \in [Turns -> TurnRow]
           /\ turns'[t].status = status
           /\ \A u \in Turns \ {t} : turns'[u] = turns[u]
           /\ \A u \in Turns : /\ turns'[u].conversation = turns[u].conversation
                              /\ turns'[u].sequence = turns[u].sequence
                              /\ turns'[u].startedAt = turns[u].startedAt
                              /\ turns'[u].messages = turns[u].messages
                              /\ turns'[u].bytes = turns[u].bytes
<1>1. [turns[t] EXCEPT !.status = status] \in TurnRow
  BY TurnRowUpdate DEF StoreTypeOK
<1> QED BY <1>1 DEF StoreTypeOK, TurnRow

\* Stamping the time of a change on a conversation changes nothing else of it.
LEMMA TimeUpdate ==
    ASSUME StoreTypeOK, NEW c \in Conversations, NEW at \in Times,
           conversations' = [conversations EXCEPT ![c].updatedAt = at]
    PROVE  /\ conversations' \in [Conversations -> ConversationRow]
           /\ \A d \in Conversations :
                /\ conversations'[d].state = conversations[d].state
                /\ conversations'[d].owner = conversations[d].owner
                /\ conversations'[d].title = conversations[d].title
                /\ conversations'[d].storedBytes = conversations[d].storedBytes
<1>1. [conversations[c] EXCEPT !.updatedAt = at] \in ConversationRow
  BY ConversationRowUpdate, StoreConstants DEF StoreTypeOK
<1> QED BY <1>1 DEF StoreTypeOK, ConversationRow

\* What CompleteTurn does to the two rows it writes.
LEMMA CompletedTurnUpdate ==
    ASSUME StoreTypeOK, NEW t \in Turns, NEW m \in Nat, NEW b \in Nat,
           turns' = [turns EXCEPT ![t].status = "completed",
                                  ![t].messages = m, ![t].bytes = b]
    PROVE  /\ turns' \in [Turns -> TurnRow]
           /\ turns'[t].status = "completed"
           /\ \A u \in Turns \ {t} : turns'[u] = turns[u]
           /\ \A u \in Turns : /\ turns'[u].conversation = turns[u].conversation
                              /\ turns'[u].sequence = turns[u].sequence
                              /\ turns'[u].startedAt = turns[u].startedAt
<1> DEFINE row == turns[t]
           after == turns'[t]
<1>1. after = [row EXCEPT !.status = "completed", !.messages = m, !.bytes = b]
  BY DEF StoreTypeOK
<1>2. row \in TurnRow
  BY DEF StoreTypeOK
<1>3. /\ after \in TurnRow
      /\ after.status = "completed"
      /\ after.conversation = row.conversation
      /\ after.sequence = row.sequence
      /\ after.startedAt = row.startedAt
  <2> HIDE DEF row, after
  <2> QED BY <1>1, <1>2 DEF TurnRow, TurnStatus, Terminal
<1>4. turns' = [turns EXCEPT ![t] = turns'[t]]
  BY DEF StoreTypeOK
<1> QED BY <1>3, <1>4 DEF StoreTypeOK

\* What CompleteTurn writes to the conversation keeps it stored, with its owner.
LEMMA CompletedConversationUpdate ==
    ASSUME StoreTypeOK, NEW c \in Conversations,
           NEW at \in Nat, NEW exp \in Nat, NEW b \in Nat,
           conversations' = [conversations EXCEPT
             ![c].title = IF @ = "none" THEN "prompt" ELSE @,
             ![c].storedBytes = @ + b, ![c].updatedAt = at, ![c].expiresAt = exp]
    PROVE  /\ conversations' \in [Conversations -> ConversationRow]
           /\ conversations'[c].state = conversations[c].state
           /\ conversations'[c].owner = conversations[c].owner
           /\ conversations[c].title = "user" => conversations'[c].title = "user"
           /\ \A d \in Conversations \ {c} : conversations'[d] = conversations[d]
<1> DEFINE row == conversations[c]
           after == conversations'[c]
<1>1. after = [row EXCEPT !.title = IF row.title = "none" THEN "prompt" ELSE row.title,
                 !.storedBytes = row.storedBytes + b, !.updatedAt = at,
                 !.expiresAt = exp]
  BY DEF StoreTypeOK
<1>2. /\ row \in ConversationRow
      /\ row.title \in {"none", "prompt", "user"} /\ row.storedBytes + b \in Nat
  BY DEF StoreTypeOK, ConversationRow
<1>3. /\ after \in ConversationRow
      /\ after.state = row.state
      /\ after.owner = row.owner
      /\ row.title = "user" => after.title = "user"
  <2> HIDE DEF row, after
  <2>1. CASE row.title = "none"
    <3>1. after = [row EXCEPT !.title = "prompt",
                     !.storedBytes = row.storedBytes + b, !.updatedAt = at,
                     !.expiresAt = exp]
      BY <2>1, <1>1
    <3> QED BY <2>1, <3>1, <1>2 DEF ConversationRow
  <2>2. CASE row.title # "none"
    <3>1. after = [row EXCEPT !.title = row.title,
                     !.storedBytes = row.storedBytes + b, !.updatedAt = at,
                     !.expiresAt = exp]
      BY <2>2, <1>1
    <3> QED BY <3>1, <1>2 DEF ConversationRow
  <2> QED BY <2>1, <2>2
<1>4. conversations' = [conversations EXCEPT ![c] = conversations'[c]]
  BY DEF StoreTypeOK
<1> QED BY <1>3, <1>4 DEF StoreTypeOK

-------------------------------------------------------------------------------
(* Each transaction preserves the invariant *)

\* A new conversation has no turns: CreateConversation preserves the invariant.
LEMMA CreateConversationInv ==
    ASSUME StoreInv, NEW o \in Owners, NEW c \in Conversations,
           NEW at \in Times, NEW exp \in Times, CreateConversation(o, c, at, exp)
    PROVE  StoreInv'
<1> USE DEF StoreInv
<1>1. StoreTypeOK'
  BY StoreConstants DEF StoreTypeOK, CreateConversation, ConversationRow
<1>2. TurnInv'
  <2>1. \A d \in Conversations : conversations[d].state = "stored"
          => conversations'[d].state = "stored"
    BY DEF CreateConversation, StoreTypeOK, ConversationRow
  <2> QED BY <2>1, StatusStep DEF CreateConversation
<1>3. WaitingHasConfirmation'
  BY DEF CreateConversation, WaitingHasConfirmation
<1>4. UnusedHasNoTitle'
  BY DEF CreateConversation, UnusedHasNoTitle, StoreTypeOK
<1> QED BY <1>1, <1>2, <1>3, <1>4

\* Removing conversations with all their rows preserves the invariant.
LEMMA RemoveInv ==
    ASSUME StoreInv, NEW D \in SUBSET Conversations, Remove(D)
    PROVE  StoreInv'
<1> USE DEF StoreInv
<1>1. /\ \A c \in Conversations : conversations'[c] =
           IF c \in D THEN NoConversationRow("deleted") ELSE conversations[c]
      /\ \A t \in Turns : turns'[t] =
           IF turns[t].conversation \in D THEN NoTurnRow("deleted") ELSE turns[t]
  BY DEF Remove
<1>2. StoreTypeOK'
  <2>1. conversations' \in [Conversations -> ConversationRow]
    BY DEF StoreTypeOK, Remove, ConversationRow, NoConversationRow
  <2>2. turns' \in [Turns -> TurnRow]
    BY DEF StoreTypeOK, Remove, TurnRow, NoTurnRow
  <2> QED BY <2>1, <2>2 DEF StoreTypeOK, Remove
<1>3. \A t \in Turns : turns[t].conversation \in D =>
        /\ turns'[t].status = "deleted"
        /\ turns'[t].conversation = NoConversation
        /\ turns'[t].sequence = 0
  BY <1>1 DEF NoTurnRow
<1>4. \A t \in Turns : turns[t].conversation \notin D => turns'[t] = turns[t]
  BY <1>1
<1>5. "deleted" \notin TurnStatus /\ "deleted" \notin ActiveStatus
      /\ ActiveStatus \subseteq TurnStatus
  BY DEF TurnStatus, ActiveStatus, Terminal
<1>6. OneActiveTurn'
  BY <1>3, <1>4, <1>5 DEF TurnInv, OneActiveTurn
<1>7. TurnsHaveConversation'
  <2> SUFFICES ASSUME NEW t \in Turns, turns'[t].status \in TurnStatus
               PROVE  /\ turns'[t].conversation \in Conversations
                      /\ conversations'[turns'[t].conversation].state = "stored"
    BY DEF TurnsHaveConversation
  <2>1. turns[t].conversation \notin D /\ turns'[t] = turns[t]
    BY <1>3, <1>4, <1>5
  <2> QED BY <2>1, <1>1 DEF TurnInv, TurnsHaveConversation
<1>8. RowsNameConversation'
  BY <1>3, <1>4, <1>5, StoreConstants DEF TurnInv, RowsNameConversation
<1>9. LastSequenceExists'
  <2> SUFFICES ASSUME NEW c \in Conversations
               PROVE  \E m \in Sequences(c)' : \A s \in Sequences(c)' : s <= m
    BY DEF LastSequenceExists
  <2>1. CASE c \in D
    <3>1. TurnsOf(c)' = {}
      BY <2>1, <1>3, <1>4, StoreConstants DEF TurnsOf
    <3>2. Sequences(c)' = {0}
      BY <3>1 DEF Sequences
    <3> QED BY <3>2
  <2>2. CASE c \notin D
    <3>1. TurnsOf(c)' = TurnsOf(c)
      BY <2>2, <1>3, <1>4, StoreConstants DEF TurnsOf
    <3>2. \A t \in TurnsOf(c) : turns'[t] = turns[t]
      BY <2>2, <1>4 DEF TurnsOf
    <3>3. Sequences(c)' = Sequences(c)
      BY <3>1, <3>2 DEF Sequences
    <3> QED BY <3>3 DEF TurnInv, LastSequenceExists
  <2> QED BY <2>1, <2>2
<1>10. ActiveIsLast'
  <2> SUFFICES ASSUME NEW t \in Turns, NEW u \in Turns,
                      turns'[u].status \in ActiveStatus,
                      turns'[t].conversation = turns'[u].conversation, t # u
               PROVE  turns'[t].sequence < turns'[u].sequence
    BY DEF ActiveIsLast
  <2>1. turns'[u] = turns[u] /\ turns[u].conversation \in Conversations
    BY <1>3, <1>4, <1>5 DEF TurnInv, RowsNameConversation
  <2>2. turns'[t] = turns[t]
    BY <2>1, <1>3, <1>4, StoreConstants
  <2> QED BY <2>1, <2>2 DEF TurnInv, ActiveIsLast
<1>11. WaitingHasConfirmation'
  <2>1. confirmations' = {r \in confirmations : turns[r.turn].conversation \notin D}
    BY DEF Remove
  <2>2. \A t \in Turns : turns'[t].status = "awaiting_confirmation"
          <=> \E r \in confirmations' : r.turn = t
    BY <2>1, <1>3, <1>4 DEF WaitingHasConfirmation
  <2> QED BY <2>1, <2>2 DEF WaitingHasConfirmation
<1>12. UnusedHasNoTitle'
  BY <1>1 DEF UnusedHasNoTitle, NoConversationRow
<1> QED
  BY <1>2, <1>6, <1>7, <1>8, <1>9, <1>10, <1>11, <1>12 DEF TurnInv

\* A rename preserves the invariant.
LEMMA UpdateConversationTitleInv ==
    ASSUME StoreInv, NEW o \in Owners, NEW c \in Conversations, NEW at \in Times,
           UpdateConversationTitle(o, c, at)
    PROVE  StoreInv'
<1> USE DEF StoreInv, UpdateConversationTitle
<1>1. StoreTypeOK'
  <2> DEFINE titled == [conversations[c] EXCEPT !.title = "user"]
  <2>1. [titled EXCEPT !.updatedAt = at] \in ConversationRow
    BY ConversationRowUpdate, StoreConstants DEF StoreTypeOK
  <2>2. conversations' =
          [conversations EXCEPT ![c] = [titled EXCEPT !.updatedAt = at]]
    BY DEF StoreTypeOK
  <2> QED BY <2>1, <2>2 DEF StoreTypeOK
<1>2. \A d \in Conversations : conversations'[d].state = conversations[d].state
  BY DEF StoreTypeOK, ConversationRow
<1>3. TurnInv'
  BY <1>2, StatusStep
<1>4. WaitingHasConfirmation'
  BY DEF WaitingHasConfirmation
<1>5. UnusedHasNoTitle'
  BY DEF UnusedHasNoTitle, StoreTypeOK, ConversationRow, TitleAllowed, Owned
<1> QED BY <1>1, <1>3, <1>4, <1>5

\* The new turn is the only active one: the turn that waited has expired, and
\* fails in the same transaction.
LEMMA BeginTurnInv ==
    ASSUME StoreInv, NEW o \in Owners, NEW c \in Conversations, NEW t \in Turns,
           NEW at \in Times, BeginTurn(o, c, t, at)
    PROVE  StoreInv'
<1> USE DEF StoreInv
<1> DEFINE expired == ExpiredWaits(c, at)
<1>1. /\ Owned(o, c) /\ Running(c) = {} /\ Waiting(c) \subseteq expired
      /\ turns[t].status = "unused"
      /\ confirmations' = {r \in confirmations : r.turn \notin expired}
      /\ expired \subseteq Waiting(c) /\ expired \subseteq Turns
  BY DEF BeginTurn, BeginTurnAllowed, ExpiredWaits, Waiting, TurnsOf
<1>2. t \notin expired /\ turns[t].conversation \notin Conversations
  BY <1>1 DEF Waiting, TurnInv, RowsNameConversation, TurnStatus, ActiveStatus,
              Terminal
<1>3. /\ turns'[t] = [status |-> "running", conversation |-> c,
                      sequence |-> NextSequence(c), startedAt |-> at,
                      messages |-> 0, bytes |-> 0]
      /\ \A u \in Turns \ {t} : turns'[u] =
           IF u \in expired THEN [turns[u] EXCEPT !.status = "failed"] ELSE turns[u]
  BY DEF BeginTurn, expired
<1>4. NextSequence(c) \in Nat /\ \A s \in Sequences(c) : s < NextSequence(c)
  BY NextSequenceIsLarger DEF TurnInv
<1>5. StoreTypeOK'
  <2>1. turns' \in [Turns -> TurnRow]
    <3>1. turns'[t] \in TurnRow
      BY <1>3, <1>4, StoreConstants DEF TurnRow, TurnStatus, ActiveStatus
    <3>2. "failed" \in TurnStatus
      BY DEF TurnStatus, Terminal
    <3>3. ASSUME NEW u \in Turns \ {t} PROVE turns'[u] \in TurnRow
      <4>1. turns[u] \in TurnRow
        BY DEF StoreTypeOK
      <4>2. [turns[u] EXCEPT !.status = "failed"] \in TurnRow
        BY <3>2, <4>1, TurnRowUpdate
      <4> HIDE DEF expired
      <4> QED BY <4>1, <4>2, <1>3
    <3> QED BY <3>1, <3>3 DEF BeginTurn
  <2>2. conversations' \in [Conversations -> ConversationRow]
    BY StoreConstants DEF StoreTypeOK, BeginTurn, ConversationRow
  <2> QED BY <1>1, <2>1, <2>2 DEF StoreTypeOK
<1>6. \A u \in Turns \ {t} :
        /\ turns'[u].conversation = turns[u].conversation
        /\ turns'[u].sequence = turns[u].sequence
        /\ turns'[u].status =
             IF u \in expired THEN "failed" ELSE turns[u].status
  BY <1>3 DEF StoreTypeOK, TurnRow
<1>7. \A u \in Turns \ {t} :
        turns[u].conversation = c => turns'[u].status \notin ActiveStatus
  BY <1>1, <1>6 DEF Running, Waiting, TurnsOf, ActiveStatus
<1>8. \A u \in expired : turns[u].status \in ActiveStatus
  BY <1>1 DEF Waiting, ActiveStatus
<1>9. \A u \in Turns \ {t} : turns'[u].status \in ActiveStatus
         => turns[u].status \in ActiveStatus
  BY <1>6, <1>8
<1>10. OneActiveTurn'
  BY <1>3, <1>6, <1>7, <1>9 DEF TurnInv, OneActiveTurn
<1>11. \A d \in Conversations : conversations'[d].state = conversations[d].state
  BY DEF BeginTurn, StoreTypeOK, ConversationRow
<1>12. \A u \in Turns \ {t} : turns'[u].status \in TurnStatus
         <=> turns[u].status \in TurnStatus
  BY <1>6, <1>8 DEF TurnStatus, Terminal
<1>13. TurnsHaveConversation'
  BY <1>1, <1>3, <1>6, <1>11, <1>12 DEF TurnInv, TurnsHaveConversation, Owned
<1>14. RowsNameConversation'
  BY <1>3, <1>6, <1>12
     DEF TurnInv, RowsNameConversation, TurnStatus, ActiveStatus
<1>15. LastSequenceExists'
  <2> SUFFICES ASSUME NEW d \in Conversations
               PROVE  \E m \in Sequences(d)' : \A s \in Sequences(d)' : s <= m
    BY DEF LastSequenceExists
  <2>1. CASE d = c
    <3>1. Sequences(c)' = Sequences(c) \cup {NextSequence(c)}
      BY <1>2, <1>3, <1>6 DEF Sequences, TurnsOf
    <3>2. Sequences(c) \subseteq Nat
      BY DEF Sequences, TurnsOf, StoreTypeOK, TurnRow
    <3> QED BY <2>1, <3>1, <3>2, <1>4
  <2>2. CASE d # c
    <3>1. Sequences(d)' = Sequences(d)
      BY <2>2, <1>2, <1>3, <1>6 DEF Sequences, TurnsOf
    <3> QED BY <3>1 DEF TurnInv, LastSequenceExists
  <2> QED BY <2>1, <2>2
<1>16. ActiveIsLast'
  <2> SUFFICES ASSUME NEW v \in Turns, NEW u \in Turns,
                      turns'[u].status \in ActiveStatus,
                      turns'[v].conversation = turns'[u].conversation, v # u
               PROVE  turns'[v].sequence < turns'[u].sequence
    BY DEF ActiveIsLast
  <2>1. CASE u = t
    <3>1. turns[v].sequence \in Sequences(c)
      BY <2>1, <1>3, <1>6 DEF Sequences, TurnsOf
    <3> QED BY <2>1, <3>1, <1>3, <1>4, <1>6
  <2>2. CASE u # t
    <3>1. v # t
      BY <2>2, <1>3, <1>6, <1>7
    <3> QED BY <2>2, <3>1, <1>6, <1>9 DEF TurnInv, ActiveIsLast
  <2> QED BY <2>1, <2>2
<1>17. WaitingHasConfirmation'
  <2>1. \A u \in Turns : turns'[u].status = "awaiting_confirmation"
          <=> \E r \in confirmations' : r.turn = u
    BY <1>1, <1>2, <1>3, <1>6 DEF WaitingHasConfirmation
  <2> QED BY <1>1, <2>1 DEF WaitingHasConfirmation
<1>18. UnusedHasNoTitle'
  BY DEF UnusedHasNoTitle, BeginTurn, StoreTypeOK, ConversationRow
<1> QED
  BY <1>5, <1>10, <1>13, <1>14, <1>15, <1>16, <1>17, <1>18 DEF TurnInv

\* Completing the running turn preserves the invariant.
LEMMA CompleteTurnInv ==
    ASSUME StoreInv, NEW o \in Owners, NEW c \in Conversations, NEW t \in Turns,
           NEW at \in Times, NEW exp \in Times, NEW m \in Sizes, NEW b \in Sizes,
           CompleteTurn(o, c, t, at, exp, m, b)
    PROVE  StoreInv'
<1> USE DEF StoreInv
<1>1. turns[t].status = "running" /\ conversations[c].state = "stored"
  BY DEF CompleteTurn, CompleteTurnAllowed, TurnIs, Owned
<1>2. at \in Nat /\ exp \in Nat /\ m \in Nat /\ b \in Nat
  BY StoreConstants
<1>3. /\ turns' \in [Turns -> TurnRow]
      /\ turns'[t].status = "completed"
      /\ \A u \in Turns \ {t} : turns'[u] = turns[u]
      /\ \A u \in Turns : /\ turns'[u].conversation = turns[u].conversation
                         /\ turns'[u].sequence = turns[u].sequence
  BY <1>2, CompletedTurnUpdate DEF CompleteTurn
<1>4. "completed" \notin ActiveStatus /\ "completed" \in TurnStatus
      /\ "running" \in TurnStatus /\ "completed" # "awaiting_confirmation"
  BY DEF ActiveStatus, TurnStatus, Terminal
<1>5. /\ conversations' \in [Conversations -> ConversationRow]
      /\ conversations'[c].state = conversations[c].state
      /\ \A d \in Conversations \ {c} : conversations'[d] = conversations[d]
  BY <1>2, CompletedConversationUpdate DEF CompleteTurn
<1>6. StoreTypeOK'
  BY <1>3, <1>5 DEF StoreTypeOK, CompleteTurn
<1>7. TurnInv'
  BY <1>1, <1>3, <1>4, <1>5, StatusStep
<1>8. WaitingHasConfirmation'
  BY <1>1, <1>3, <1>4 DEF WaitingHasConfirmation, CompleteTurn
<1>9. UnusedHasNoTitle'
  BY <1>1, <1>5 DEF UnusedHasNoTitle
<1> QED BY <1>6, <1>7, <1>8, <1>9

\* Failing or canceling the running turn preserves the invariant.
LEMMA FailTurnInv ==
    ASSUME StoreInv, NEW o \in Owners, NEW c \in Conversations, NEW t \in Turns,
           NEW at \in Times, NEW status \in Terminal \ {"completed"},
           FailTurn(o, c, t, status, at)
    PROVE  StoreInv'
<1> USE DEF StoreInv, FailTurn
<1>1. status \in TurnStatus /\ status \notin ActiveStatus
  BY DEF TurnStatus, ActiveStatus, Terminal
<1>2. turns[t].status = "running" /\ turns[t].status \in TurnStatus
  BY DEF FailTurnAllowed, TurnIs, TurnStatus, ActiveStatus
<1>3. StoreTypeOK'
  BY <1>1, StatusUpdate, TimeUpdate DEF StoreTypeOK
<1>4. TurnInv'
  BY <1>1, <1>2, StatusUpdate, TimeUpdate, StatusStep
<1>5. WaitingHasConfirmation'
  <2>1. status # "awaiting_confirmation"
    BY DEF Terminal
  <2> QED BY <1>1, <1>2, <2>1, StatusUpdate DEF WaitingHasConfirmation
<1>6. UnusedHasNoTitle'
  BY TimeUpdate DEF UnusedHasNoTitle
<1> QED BY <1>3, <1>4, <1>5, <1>6

\* Recovery ends every running turn and preserves the invariant.
LEMMA RecoverInterruptedInv ==
    ASSUME StoreInv, NEW at \in Times, RecoverInterrupted(at)
    PROVE  StoreInv'
<1> USE DEF StoreInv
<1>1. \A t \in Turns : /\ turns'[t] \in TurnRow
                     /\ turns'[t].conversation = turns[t].conversation
                     /\ turns'[t].sequence = turns[t].sequence
                     /\ turns'[t].status = IF turns[t].status = "running"
                          THEN "interrupted" ELSE turns[t].status
  <2> SUFFICES ASSUME NEW t \in Turns
               PROVE  /\ turns'[t] \in TurnRow
                      /\ turns'[t].conversation = turns[t].conversation
                      /\ turns'[t].sequence = turns[t].sequence
                      /\ turns'[t].status = IF turns[t].status = "running"
                           THEN "interrupted" ELSE turns[t].status
    OBVIOUS
  <2>1. turns[t] \in TurnRow
    BY DEF StoreTypeOK
  <2>2. [turns[t] EXCEPT !.status = "interrupted"] \in TurnRow
    BY <2>1, TurnRowUpdate DEF TurnStatus, Terminal
  <2>3. turns'[t] = IF turns[t].status = "running"
          THEN [turns[t] EXCEPT !.status = "interrupted"] ELSE turns[t]
    BY DEF RecoverInterrupted
  <2> QED BY <2>1, <2>2, <2>3 DEF TurnRow
<1>2. \A c \in Conversations : /\ conversations'[c] \in ConversationRow
                            /\ conversations'[c].state = conversations[c].state
                            /\ conversations'[c].title = conversations[c].title
  <2> SUFFICES ASSUME NEW c \in Conversations
               PROVE  /\ conversations'[c] \in ConversationRow
                      /\ conversations'[c].state = conversations[c].state
                      /\ conversations'[c].title = conversations[c].title
    OBVIOUS
  <2>1. conversations[c] \in ConversationRow
    BY DEF StoreTypeOK
  <2>2. [conversations[c] EXCEPT !.updatedAt = at] \in ConversationRow
    BY <2>1, ConversationRowUpdate, StoreConstants
  <2>3. conversations'[c] = IF Running(c) = {} THEN conversations[c]
          ELSE [conversations[c] EXCEPT !.updatedAt = at]
    BY DEF RecoverInterrupted
  <2> QED BY <2>1, <2>2, <2>3 DEF ConversationRow
<1>3. StoreTypeOK'
  BY <1>1, <1>2 DEF StoreTypeOK, RecoverInterrupted
<1>4. TurnInv'
  BY <1>1, <1>2, StatusStep DEF ActiveStatus, TurnStatus, Terminal
<1>5. WaitingHasConfirmation'
  BY <1>1 DEF WaitingHasConfirmation, RecoverInterrupted
<1>6. UnusedHasNoTitle'
  BY <1>2 DEF UnusedHasNoTitle
<1> QED BY <1>3, <1>4, <1>5, <1>6

\* Suspending the running turn with a fresh confirmation preserves the invariant.
LEMMA SuspendTurnInv ==
    ASSUME StoreInv, NEW o \in Owners, NEW c \in Conversations, NEW t \in Turns,
           NEW id \in ConfirmationIDs, NEW at \in Times, NEW exp \in Times,
           SuspendTurn(o, c, t, id, at, exp)
    PROVE  StoreInv'
<1> USE DEF StoreInv, SuspendTurn
<1> DEFINE row == [turn |-> t, id |-> id, expiresAt |-> exp]
<1>1. turns[t].status = "running" /\ \A r \in confirmations : r.turn # t /\ r.id # id
  BY DEF SuspendTurnAllowed, TurnIs
<1>2. "awaiting_confirmation" \in TurnStatus
  BY DEF TurnStatus, ActiveStatus
<1>3. row \in ConfirmationRow
  BY StoreConstants DEF ConfirmationRow
<1>4. StoreTypeOK'
  BY <1>2, <1>3, StatusUpdate, TimeUpdate DEF StoreTypeOK
<1>5. TurnInv'
  BY <1>1, <1>2, StatusUpdate, TimeUpdate, StatusStep DEF ActiveStatus, TurnStatus
<1>6. WaitingHasConfirmation'
  <2>1. \A u \in Turns : turns'[u].status = "awaiting_confirmation"
          <=> \E r \in confirmations' : r.turn = u
    <3>1. confirmations' = confirmations \cup {row} /\ row.turn = t
      OBVIOUS
    <3>2. /\ turns'[t].status = "awaiting_confirmation"
          /\ \A u \in Turns \ {t} : turns'[u] = turns[u]
      BY <1>2, StatusUpdate
    <3> HIDE DEF row, SuspendTurn
    <3> QED BY <3>1, <3>2 DEF WaitingHasConfirmation
  <2>2. \A r, s \in confirmations' : r.turn = s.turn \/ r.id = s.id => r = s
    BY <1>1 DEF WaitingHasConfirmation
  <2> QED BY <2>1, <2>2 DEF WaitingHasConfirmation
<1>7. UnusedHasNoTitle'
  BY TimeUpdate DEF UnusedHasNoTitle
<1> QED BY <1>4, <1>5, <1>6, <1>7

\* A decision, in time or late, takes the only row of the turn with it.
LEMMA DecisionInv ==
    ASSUME StoreInv, NEW o \in Owners, NEW c \in Conversations, NEW t \in Turns,
           NEW id \in ConfirmationIDs, NEW at \in Times,
           ClaimConfirmation(o, c, t, id, at) \/ ClaimExpired(o, c, t, id, at)
    PROVE  StoreInv'
<1> USE DEF StoreInv
<1>1. /\ turns[t].status = "awaiting_confirmation"
      /\ confirmations' = {r \in confirmations : r.turn # t}
  BY DEF ClaimConfirmation, ClaimExpired, Pending, TurnIs
<1>2. PICK status \in {"running", "failed"} :
        turns' = [turns EXCEPT ![t].status = status]
  BY DEF ClaimConfirmation, ClaimExpired
<1>3. status \in TurnStatus /\ status # "awaiting_confirmation"
  BY <1>2 DEF TurnStatus, ActiveStatus, Terminal
<1>4. \/ conversations' = conversations
      \/ conversations' = [conversations EXCEPT ![c].updatedAt = at]
  BY DEF ClaimConfirmation, ClaimExpired
<1>5. /\ conversations' \in [Conversations -> ConversationRow]
      /\ \A d \in Conversations :
           /\ conversations'[d].state = conversations[d].state
           /\ conversations'[d].title = conversations[d].title
  BY <1>4, TimeUpdate DEF StoreTypeOK
<1>6. /\ turns' \in [Turns -> TurnRow]
      /\ turns'[t].status = status
      /\ \A u \in Turns \ {t} : turns'[u] = turns[u]
      /\ \A u \in Turns : /\ turns'[u].conversation = turns[u].conversation
                         /\ turns'[u].sequence = turns[u].sequence
  BY <1>2, <1>3, StatusUpdate
<1>7. StoreTypeOK'
  BY <1>1, <1>5, <1>6 DEF StoreTypeOK
<1>8. TurnInv'
  BY <1>1, <1>3, <1>5, <1>6, StatusStep DEF ActiveStatus, TurnStatus
<1>9. WaitingHasConfirmation'
  BY <1>1, <1>3, <1>6 DEF WaitingHasConfirmation
<1>10. UnusedHasNoTitle'
  BY <1>5 DEF UnusedHasNoTitle
<1> QED BY <1>7, <1>8, <1>9, <1>10

-------------------------------------------------------------------------------
(* The specification keeps the invariant *)

\* The empty tables satisfy the invariant.
LEMMA StoreInitInv == StoreInit => StoreInv
<1> SUFFICES ASSUME StoreInit PROVE StoreInv
  OBVIOUS
<1> USE DEF StoreInit
<1>1. StoreTypeOK
  BY DEF StoreTypeOK, ConversationRow, TurnRow, NoConversationRow, NoTurnRow
<1>2. \A t \in Turns : /\ turns[t].status = "unused"
                     /\ turns[t].conversation = NoConversation
  BY DEF NoTurnRow
<1>3. "unused" \notin TurnStatus /\ "unused" \notin ActiveStatus
  BY DEF TurnStatus, ActiveStatus, Terminal
<1>4. LastSequenceExists
  <2>1. \A c \in Conversations : TurnsOf(c) = {}
    BY <1>2, StoreConstants DEF TurnsOf
  <2>2. \A c \in Conversations : Sequences(c) = {0}
    BY <2>1 DEF Sequences
  <2> QED BY <2>2 DEF LastSequenceExists
<1>5. TurnInv
  BY <1>2, <1>3, <1>4, StoreConstants
     DEF TurnInv, OneActiveTurn, TurnsHaveConversation, RowsNameConversation,
         ActiveIsLast
<1>6. WaitingHasConfirmation
  BY <1>2 DEF WaitingHasConfirmation
<1>7. UnusedHasNoTitle
  BY DEF UnusedHasNoTitle, NoConversationRow
<1> QED BY <1>1, <1>5, <1>6, <1>7 DEF StoreInv

\* Every transaction preserves the invariant.
LEMMA StoreStepInv == StoreInv /\ [StoreNext]_storeVars => StoreInv'
<1> SUFFICES ASSUME StoreInv, [StoreNext]_storeVars PROVE StoreInv'
  OBVIOUS
<1>1. CASE ConversationStep
  <2>1. ASSUME NEW o \in Owners, NEW c \in Conversations, NEW at \in Times,
               NEW exp \in Times, CreateConversation(o, c, at, exp)
        PROVE  StoreInv'
    BY <2>1, CreateConversationInv
  <2>2. ASSUME NEW o \in Owners, NEW c \in Conversations, DeleteConversation(o, c)
        PROVE  StoreInv'
    BY <2>2, RemoveInv DEF DeleteConversation
  <2>3. ASSUME NEW D \in SUBSET Conversations, NEW at \in Times,
               NEW limit \in 1 .. MaxConversations, DeleteExpired(D, at, limit)
        PROVE  StoreInv'
    BY <2>3, RemoveInv DEF DeleteExpired
  <2>4. ASSUME NEW o \in Owners, NEW c \in Conversations, NEW at \in Times,
               UpdateConversationTitle(o, c, at)
        PROVE  StoreInv'
    BY <2>4, UpdateConversationTitleInv
  <2> QED BY <1>1, <2>1, <2>2, <2>3, <2>4 DEF ConversationStep
<1>2. ASSUME NEW at \in Times, RecoverInterrupted(at) PROVE StoreInv'
  BY <1>2, RecoverInterruptedInv
<1>3. ASSUME NEW o \in Owners, NEW c \in Conversations, NEW t \in Turns,
             TurnStep(o, c, t)
      PROVE  StoreInv'
  <2>1. ASSUME NEW at \in Times, BeginTurn(o, c, t, at) PROVE StoreInv'
    BY <2>1, BeginTurnInv
  <2>2. ASSUME NEW at \in Times, NEW exp \in Times, NEW m \in Sizes, NEW b \in Sizes,
               CompleteTurn(o, c, t, at, exp, m, b)
        PROVE  StoreInv'
    BY <2>2, CompleteTurnInv
  <2>3. ASSUME NEW at \in Times, NEW status \in Terminal \ {"completed"},
               FailTurn(o, c, t, status, at)
        PROVE  StoreInv'
    BY <2>3, FailTurnInv
  <2>4. ASSUME NEW id \in ConfirmationIDs, NEW at \in Times, NEW exp \in Times,
               SuspendTurn(o, c, t, id, at, exp)
        PROVE  StoreInv'
    BY <2>4, SuspendTurnInv
  <2>5. ASSUME NEW id \in ConfirmationIDs, NEW at \in Times,
               ClaimConfirmation(o, c, t, id, at) \/ ClaimExpired(o, c, t, id, at)
        PROVE  StoreInv'
    BY <2>5, DecisionInv
  <2> QED BY <1>3, <2>1, <2>2, <2>3, <2>4, <2>5 DEF TurnStep
<1>4. CASE UNCHANGED storeVars
  <2> USE DEF storeVars
  <2>1. StoreTypeOK' /\ WaitingHasConfirmation' /\ UnusedHasNoTitle'
    BY <1>4 DEF StoreInv, StoreTypeOK, WaitingHasConfirmation, UnusedHasNoTitle
  <2>2. TurnInv'
    BY <1>4, StatusStep DEF StoreInv
  <2> QED BY <2>1, <2>2 DEF StoreInv
<1> QED BY <1>1, <1>2, <1>3, <1>4 DEF StoreNext

\* The inductive invariant holds in every reachable state.
THEOREM StoreInvariant == StoreSpec => []StoreInv
<1>1. StoreInit => StoreInv
  BY StoreInitInv
<1>2. StoreInv /\ [StoreNext]_storeVars => StoreInv'
  BY StoreStepInv
<1> QED BY <1>1, <1>2, PTL DEF StoreSpec

\* Every table always holds rows of its type (the schema's CHECK constraints
\* are never the reason for an error).
THEOREM StoreTyped == StoreSpec => []StoreTypeOK
<1>1. StoreInv => StoreTypeOK
  BY DEF StoreInv
<1> QED BY <1>1, StoreInvariant, PTL

\* No order of begins, suspensions, claims, expiries, failures and recoveries
\* leaves a conversation with two active turns.
THEOREM StoreOneActiveTurn == StoreSpec => []OneActiveTurn
<1>1. StoreInv => OneActiveTurn
  BY DEF StoreInv, TurnInv
<1> QED BY <1>1, StoreInvariant, PTL

\* A turn waits if and only if exactly one confirmation can be answered for it.
THEOREM StoreWaitingHasConfirmation == StoreSpec => []WaitingHasConfirmation
<1>1. StoreInv => WaitingHasConfirmation
  BY DEF StoreInv
<1> QED BY <1>1, StoreInvariant, PTL

\* Deletions, on demand or by expiry, leave no turn behind.
THEOREM StoreTurnsHaveConversation == StoreSpec => []TurnsHaveConversation
<1>1. StoreInv => TurnsHaveConversation
  BY DEF StoreInv, TurnInv
<1> QED BY <1>1, StoreInvariant, PTL

-------------------------------------------------------------------------------
(* What no step does *)

\* No transaction changes a terminal status but a deletion, and none brings a
\* deleted turn back.
LEMMA OutcomeStep ==
    ASSUME StoreInv, [StoreNext]_storeVars, NEW t \in Turns,
           turns[t].status \in Terminal \cup {"deleted"}
    PROVE  turns'[t].status \in {turns[t].status, "deleted"}
<1>1. turns[t].status \notin ActiveStatus /\ turns[t].status # "unused"
  BY DEF ActiveStatus, Terminal
<1>2. CASE ConversationStep
  <2>1. ASSUME NEW D, Remove(D) PROVE turns'[t].status \in {turns[t].status, "deleted"}
    BY <2>1 DEF Remove, NoTurnRow
  <2>2. turns' = turns \/ \E D : Remove(D)
    BY <1>2 DEF ConversationStep, CreateConversation, DeleteConversation,
                DeleteExpired, UpdateConversationTitle
  <2> QED BY <2>1, <2>2
<1>3. ASSUME NEW at \in Times, RecoverInterrupted(at)
      PROVE  turns'[t].status = turns[t].status
  BY <1>1, <1>3 DEF RecoverInterrupted, ActiveStatus
<1>4. ASSUME NEW o \in Owners, NEW c \in Conversations, NEW u \in Turns,
             TurnStep(o, c, u)
      PROVE  turns'[t].status = turns[t].status
  <2>1. ASSUME NEW at \in Times, BeginTurn(o, c, u, at)
        PROVE  turns'[t] = turns[t]
    <3>1. t # u /\ t \notin ExpiredWaits(c, at)
      BY <1>1, <2>1 DEF BeginTurn, ExpiredWaits, Waiting, ActiveStatus
    <3> QED BY <2>1, <3>1 DEF BeginTurn
  <2>2. CASE turns[u].status \in ActiveStatus
             /\ \A v \in Turns \ {u} : turns'[v] = turns[v]
    BY <1>1, <2>2
  <2>3. ASSUME NEW at \in Times, NEW exp \in Times, NEW m \in Sizes, NEW b \in Sizes,
               CompleteTurn(o, c, u, at, exp, m, b)
        PROVE  turns[u].status \in ActiveStatus
               /\ \A v \in Turns \ {u} : turns'[v] = turns[v]
    BY <2>3 DEF CompleteTurn, CompleteTurnAllowed, TurnIs, ActiveStatus, StoreInv,
                StoreTypeOK
  <2>4. ASSUME NEW at \in Times, NEW status \in Terminal \ {"completed"},
               FailTurn(o, c, u, status, at)
        PROVE  turns[u].status \in ActiveStatus
               /\ \A v \in Turns \ {u} : turns'[v] = turns[v]
    BY <2>4 DEF FailTurn, FailTurnAllowed, TurnIs, ActiveStatus, StoreInv,
                StoreTypeOK
  <2>5. ASSUME NEW id \in ConfirmationIDs, NEW at \in Times, NEW exp \in Times,
               SuspendTurn(o, c, u, id, at, exp)
        PROVE  turns[u].status \in ActiveStatus
               /\ \A v \in Turns \ {u} : turns'[v] = turns[v]
    BY <2>5 DEF SuspendTurn, SuspendTurnAllowed, TurnIs, ActiveStatus, StoreInv,
                StoreTypeOK
  <2>6. ASSUME NEW id \in ConfirmationIDs, NEW at \in Times,
               ClaimConfirmation(o, c, u, id, at) \/ ClaimExpired(o, c, u, id, at)
        PROVE  turns[u].status \in ActiveStatus
               /\ \A v \in Turns \ {u} : turns'[v] = turns[v]
    BY <2>6 DEF ClaimConfirmation, ClaimExpired, Pending, TurnIs, ActiveStatus,
                StoreInv, StoreTypeOK
  <2> QED BY <1>4, <2>1, <2>2, <2>3, <2>4, <2>5, <2>6 DEF TurnStep
<1>5. CASE UNCHANGED storeVars
  BY <1>5 DEF storeVars
<1> QED BY <1>2, <1>3, <1>4, <1>5 DEF StoreNext

\* No late completion, failure, claim or recovery changes how a turn ended.
THEOREM StoreOutcomeIsFinal == StoreSpec => OutcomeIsFinal
<1>1. StoreInv /\ [StoreNext]_storeVars =>
        [\A t \in Turns : turns[t].status \in Terminal =>
           turns'[t].status \in {turns[t].status, "deleted"}]_storeVars
  BY OutcomeStep
<1> QED BY <1>1, StoreInvariant, PTL DEF StoreSpec, OutcomeIsFinal

\* Only a running turn completes, and it keeps its place.
LEMMA CompletionStep ==
    ASSUME StoreInv, [StoreNext]_storeVars, NEW u \in Turns,
           turns[u].status # "completed", turns'[u].status = "completed"
    PROVE  /\ turns[u].status \in ActiveStatus
           /\ turns'[u].conversation = turns[u].conversation
           /\ turns'[u].sequence = turns[u].sequence
<1>1. ASSUME NEW D, Remove(D) PROVE FALSE
  BY <1>1 DEF Remove, NoTurnRow
<1>2. CASE turns' = turns
  BY <1>2
<1>3. turns' # turns /\ StoreNext
  BY <1>2 DEF storeVars
<1>4. ~ConversationStep
  BY <1>1, <1>3 DEF ConversationStep, CreateConversation, DeleteConversation,
                    DeleteExpired, UpdateConversationTitle
<1>5. ASSUME NEW at \in Times, RecoverInterrupted(at) PROVE FALSE
  <2>1. turns'[u] = IF turns[u].status = "running"
          THEN [turns[u] EXCEPT !.status = "interrupted"] ELSE turns[u]
    BY <1>5 DEF RecoverInterrupted
  <2>2. turns[u] \in TurnRow
    BY DEF StoreInv, StoreTypeOK
  <2> QED BY <2>1, <2>2 DEF TurnRow
<1>6. PICK o \in Owners, c \in Conversations, t \in Turns : TurnStep(o, c, t)
  BY <1>3, <1>4, <1>5 DEF StoreNext
<1>7. ASSUME NEW status \in TurnStatus \ {"completed"},
             turns' = [turns EXCEPT ![t].status = status]
      PROVE  FALSE
  BY <1>7, StatusUpdate DEF StoreInv
<1>8. ASSUME NEW at \in Times, BeginTurn(o, c, t, at) PROVE FALSE
  <2>1. turns'[t].status = "running"
    BY <1>8 DEF BeginTurn
  <2>2. \A v \in Turns \ {t} : turns'[v] =
          IF v \in ExpiredWaits(c, at) THEN [turns[v] EXCEPT !.status = "failed"]
          ELSE turns[v]
    BY <1>8 DEF BeginTurn
  <2>3. turns[u] \in TurnRow
    BY DEF StoreInv, StoreTypeOK
  <2> HIDE DEF StoreInv
  <2> QED BY <2>1, <2>2, <2>3 DEF TurnRow
<1>9. ASSUME NEW at \in Times, NEW exp \in Times, NEW m \in Sizes, NEW b \in Sizes,
             CompleteTurn(o, c, t, at, exp, m, b)
      PROVE  /\ turns[u].status \in ActiveStatus
             /\ turns'[u].conversation = turns[u].conversation
             /\ turns'[u].sequence = turns[u].sequence
  <2>1. m \in Nat /\ b \in Nat
    BY StoreConstants
  <2>2. turns[t].status \in ActiveStatus
    BY <1>9 DEF CompleteTurn, CompleteTurnAllowed, TurnIs, ActiveStatus
  <2>3. /\ \A v \in Turns \ {t} : turns'[v] = turns[v]
        /\ \A v \in Turns : /\ turns'[v].conversation = turns[v].conversation
                           /\ turns'[v].sequence = turns[v].sequence
    BY <1>9, <2>1, CompletedTurnUpdate DEF CompleteTurn, StoreInv
  <2> QED BY <2>2, <2>3
<1>10. {"running", "failed", "awaiting_confirmation", "canceled", "interrupted"}
         \subseteq TurnStatus \ {"completed"}
  BY DEF TurnStatus, ActiveStatus, Terminal
<1> QED
  BY <1>6, <1>7, <1>8, <1>9, <1>10
     DEF TurnStep, FailTurn, SuspendTurn, ClaimConfirmation, ClaimExpired, Terminal

\* Although a turn is numbered when it begins and stored when it completes,
\* what LoadHistory returns only grows at its end.
THEOREM StoreHistoryGrowsAtEnd == StoreSpec => HistoryGrowsAtEnd
<1> DEFINE Appends == \A t, u \in Turns :
             /\ turns[t].status = "completed" /\ turns'[t].status = "completed"
             /\ turns[u].status # "completed" /\ turns'[u].status = "completed"
             /\ turns[t].conversation = turns'[u].conversation
             => turns[t].sequence < turns'[u].sequence
<1>1. StoreInv /\ [StoreNext]_storeVars => [Appends]_storeVars
  <2> SUFFICES ASSUME StoreInv, [StoreNext]_storeVars, NEW t \in Turns, NEW u \in Turns,
                      turns[t].status = "completed", turns[u].status # "completed",
                      turns'[u].status = "completed",
                      turns[t].conversation = turns'[u].conversation
               PROVE  turns[t].sequence < turns'[u].sequence
    OBVIOUS
  <2>1. /\ turns[u].status \in ActiveStatus
        /\ turns'[u].conversation = turns[u].conversation
        /\ turns'[u].sequence = turns[u].sequence
    BY CompletionStep
  <2> QED BY <2>1 DEF StoreInv, TurnInv, ActiveIsLast
<1> QED BY <1>1, StoreInvariant, PTL DEF StoreSpec, HistoryGrowsAtEnd

\* A completion never renames a conversation its owner named.
LEMMA TitleStep ==
    ASSUME StoreInv, [StoreNext]_storeVars, NEW d \in Conversations,
           conversations[d].title = "user"
    PROVE  conversations'[d].title = "user" \/ conversations'[d].state = "deleted"
<1>1. CASE conversations' = conversations
  BY <1>1
<1>2. ASSUME NEW c \in Conversations, NEW at \in Times,
             conversations' = [conversations EXCEPT ![c].updatedAt = at]
      PROVE  conversations'[d].title = "user"
  BY <1>2, TimeUpdate DEF StoreInv
<1>3. ASSUME NEW o \in Owners, NEW c \in Conversations, NEW at \in Times,
             NEW exp \in Times, CreateConversation(o, c, at, exp)
      PROVE  conversations'[d].title = "user"
  BY <1>3 DEF CreateConversation, StoreInv, StoreTypeOK, UnusedHasNoTitle
<1>4. ASSUME NEW D, Remove(D)
      PROVE  conversations'[d].title = "user" \/ conversations'[d].state = "deleted"
  BY <1>4 DEF Remove, NoConversationRow
<1>5. ASSUME NEW o \in Owners, NEW c \in Conversations, NEW at \in Times,
             UpdateConversationTitle(o, c, at)
      PROVE  conversations'[d].title = "user"
  <2>1. conversations[c] \in ConversationRow /\ conversations[d] \in ConversationRow
    BY DEF StoreInv, StoreTypeOK
  <2> QED BY <1>5, <2>1 DEF UpdateConversationTitle, StoreInv, StoreTypeOK,
                            ConversationRow
<1>6. ASSUME NEW at \in Times, RecoverInterrupted(at)
      PROVE  conversations'[d].title = "user"
  <2>1. conversations[d] \in ConversationRow
    BY DEF StoreInv, StoreTypeOK
  <2>2. conversations'[d] = IF Running(d) = {} THEN conversations[d]
          ELSE [conversations[d] EXCEPT !.updatedAt = at]
    BY <1>6 DEF RecoverInterrupted
  <2> QED BY <2>1, <2>2 DEF ConversationRow
<1>7. ASSUME NEW o \in Owners, NEW c \in Conversations, NEW t \in Turns,
             TurnStep(o, c, t)
      PROVE  conversations'[d].title = "user"
  <2>1. ASSUME NEW at \in Times, NEW exp \in Times, NEW m \in Sizes, NEW b \in Sizes,
               CompleteTurn(o, c, t, at, exp, m, b)
        PROVE  conversations'[d].title = "user"
    <3>1. at \in Nat /\ exp \in Nat /\ b \in Nat
      BY StoreConstants
    <3>2. /\ conversations[c].title = "user" => conversations'[c].title = "user"
          /\ \A e \in Conversations \ {c} : conversations'[e] = conversations[e]
      BY <2>1, <3>1, CompletedConversationUpdate DEF CompleteTurn, StoreInv
    <3> QED BY <3>2
  <2>2. ASSUME ~ \E at, exp \in Times, m, b \in Sizes :
                   CompleteTurn(o, c, t, at, exp, m, b)
        PROVE  \/ conversations' = conversations
               \/ \E at \in Times :
                    conversations' = [conversations EXCEPT ![c].updatedAt = at]
    BY <1>7, <2>2 DEF TurnStep, BeginTurn, FailTurn, SuspendTurn, ClaimConfirmation,
                      ClaimExpired
  <2> QED BY <1>1, <1>2, <2>1, <2>2
<1>8. CASE ConversationStep
  BY <1>3, <1>4, <1>5, <1>8 DEF ConversationStep, DeleteConversation, DeleteExpired
<1> QED BY <1>1, <1>6, <1>7, <1>8 DEF StoreNext, storeVars

\* A title its owner chose stays until the conversation is deleted.
THEOREM StoreRenameKept == StoreSpec => RenameKept
<1>1. StoreInv /\ [StoreNext]_storeVars =>
        [\A c \in Conversations : conversations[c].title = "user" =>
           conversations'[c].title = "user"
           \/ conversations'[c].state = "deleted"]_storeVars
  BY TitleStep
<1> QED BY <1>1, StoreInvariant, PTL DEF StoreSpec, RenameKept

-------------------------------------------------------------------------------
(* Sums over finite sets *)

(***************************************************************************)
(* Among the subsets of a finite set there is a least one of a kind: what  *)
(* induction over finite sets rests on.                                    *)
(***************************************************************************)
LEMMA LeastSubset ==
    ASSUME NEW S, IsFiniteSet(S), NEW kind \in SUBSET SUBSET S, kind # {}
    PROVE  \E A \in kind : IsFiniteSet(A) /\ \A B \in SUBSET A : B # A => B \notin kind
<1>1. IsWellFoundedOn(StrictSubsetOrdering(S), FiniteSubsetsOf(S))
  BY FS_StrictSubsetOrderingWellFounded
<1>2. kind \subseteq FiniteSubsetsOf(S)
  BY FS_Subset DEF FiniteSubsetsOf
<1>3. \E A \in kind : \A B \in kind : <<B, A>> \notin StrictSubsetOrdering(S)
  BY <1>1, <1>2, WFMin
<1>4. QED BY <1>2, <1>3 DEF StrictSubsetOrdering, FiniteSubsetsOf

Chosen(A) == CHOOSE x \in A : TRUE

\* The recursive function MapThenSumSet is defined by, without its choice.
SumsTo(sum, f, S) ==
    sum = [A \in SUBSET S |->
             IF A = {} THEN 0 ELSE f[Chosen(A)] + sum[A \ {Chosen(A)}]]

SumOf(f, S) == (CHOOSE sum : SumsTo(sum, f, S))[S]

LEMMA ChosenIsElement ==
    ASSUME NEW A, A # {} PROVE Chosen(A) \in A
BY DEF Chosen

LEMMA SumUnique ==
    ASSUME NEW f, NEW S, IsFiniteSet(S), NEW T,
           NEW g, SumsTo(g, f, S), NEW h, SumsTo(h, f, T),
           NEW A \in SUBSET S, A \subseteq T
    PROVE  g[A] = h[A]
<1>. DEFINE kind == {B \in SUBSET S : B \subseteq T /\ g[B] # h[B]}
<1>1. SUFFICES ASSUME kind # {} PROVE FALSE
  OBVIOUS
<1>2. PICK B \in kind : \A C \in SUBSET B : C # B => C \notin kind
  BY <1>1, LeastSubset
<1>3. CASE B = {}
  BY <1>2, <1>3 DEF SumsTo
<1>4. CASE B # {}
  <2>. DEFINE x == Chosen(B)
              C == B \ {x}
  <2>1. x \in B
    BY <1>4, ChosenIsElement
  <2>2. C \in SUBSET B /\ C # B
    BY <2>1
  <2>3. g[C] = h[C]
    BY <1>2, <2>2
  <2>4. B \in SUBSET S /\ B \in SUBSET T /\ g[B] # h[B]
    BY <1>2
  <2>5. g[B] = f[x] + g[C] /\ h[B] = f[x] + h[C]
    BY <1>4, <2>4 DEF SumsTo
  <2>6. QED BY <2>3, <2>4, <2>5
<1>5. QED BY <1>3, <1>4

LEMMA SumExists ==
    ASSUME NEW f, NEW S, IsFiniteSet(S)
    PROVE  \E sum : SumsTo(sum, f, S)
<1>. DEFINE kind == {A \in SUBSET S : ~\E sum : SumsTo(sum, f, A)}
<1>1. SUFFICES ASSUME kind # {} PROVE FALSE
  OBVIOUS
<1>2. PICK A \in kind : IsFiniteSet(A) /\ \A B \in SUBSET A : B # A => B \notin kind
  <2>1. kind \in SUBSET SUBSET S
    OBVIOUS
  <2>. HIDE DEF kind
  <2>2. QED BY <1>1, <2>1, LeastSubset
<1>. DEFINE h(B) == CHOOSE sum : SumsTo(sum, f, B)
            last == A \ {Chosen(A)}
            sum == [B \in SUBSET A |->
                      IF B # A THEN h(B)[B]
                      ELSE IF A = {} THEN 0 ELSE f[Chosen(A)] + h(last)[last]]
<1>3. \A B \in SUBSET A : B # A => SumsTo(h(B), f, B) /\ IsFiniteSet(B)
  BY <1>2, FS_Subset
<1>4. ASSUME NEW B \in SUBSET A
      PROVE  sum[B] = IF B = {} THEN 0 ELSE f[Chosen(B)] + sum[B \ {Chosen(B)}]
  <2>. DEFINE C == B \ {Chosen(B)}
  <2>1. B # {} => C \in SUBSET B /\ C # B /\ C \in SUBSET A /\ C # A
    BY ChosenIsElement
  <2>2. CASE B = A
    BY <2>1, <2>2
  <2>3. CASE B # A /\ B = {}
    <3>1. sum[B] = h(B)[B] /\ SumsTo(h(B), f, B)
      BY <1>3, <2>3
    <3>. HIDE DEF h, sum
    <3>2. QED BY <2>3, <3>1 DEF SumsTo
  <2>4. CASE B # A /\ B # {}
    <3>1. sum[B] = h(B)[B] /\ sum[C] = h(C)[C]
      BY <2>1, <2>4
    <3>2. SumsTo(h(B), f, B) /\ SumsTo(h(C), f, C) /\ IsFiniteSet(B)
      BY <1>3, <2>1, <2>4
    <3>. HIDE DEF h, sum
    <3>3. h(B)[B] = f[Chosen(B)] + h(B)[C]
      BY <2>4, <3>2 DEF SumsTo
    <3>4. h(B)[C] = h(C)[C]
      BY <2>1, <2>4, <3>2, SumUnique
    <3>5. QED BY <2>4, <3>1, <3>3, <3>4
  <2>5. QED BY <2>2, <2>3, <2>4
<1>5. SumsTo(sum, f, A)
  <2>1. sum = [B \in SUBSET A |-> sum[B]]
    OBVIOUS
  <2>. HIDE DEF sum
  <2>2. QED BY <1>4, <2>1 DEF SumsTo
<1>6. QED BY <1>2, <1>5

(***************************************************************************)
(* A sum adds the chosen element to the sum of the others.                 *)
(***************************************************************************)
LEMMA SumUnfolds ==
    ASSUME NEW f, NEW S, IsFiniteSet(S)
    PROVE  SumOf(f, S) = IF S = {} THEN 0
                         ELSE f[Chosen(S)] + SumOf(f, S \ {Chosen(S)})
<1>. DEFINE sum(A) == CHOOSE g : SumsTo(g, f, A)
            T == S \ {Chosen(S)}
<1>1. IsFiniteSet(T)
  BY FS_Subset
<1>2. SumsTo(sum(S), f, S) /\ SumsTo(sum(T), f, T)
  BY <1>1, SumExists
<1>3. SumOf(f, S) = sum(S)[S] /\ SumOf(f, T) = sum(T)[T]
  BY DEF SumOf
<1>. HIDE DEF sum
<1>4. sum(S)[S] = IF S = {} THEN 0 ELSE f[Chosen(S)] + sum(S)[T]
  BY <1>2 DEF SumsTo
<1>5. sum(S)[T] = sum(T)[T]
  BY <1>2, SumUnique
<1>6. QED BY <1>3, <1>4, <1>5

LEMMA SumIsNat ==
    ASSUME NEW f, NEW S, IsFiniteSet(S), \A x \in S : f[x] \in Nat
    PROVE  SumOf(f, S) \in Nat
<1>. DEFINE kind == {A \in SUBSET S : SumOf(f, A) \notin Nat}
<1>1. SUFFICES ASSUME kind # {} PROVE FALSE
  OBVIOUS
<1>2. PICK A \in kind : IsFiniteSet(A) /\ \A B \in SUBSET A : B # A => B \notin kind
  <2>1. kind \in SUBSET SUBSET S
    OBVIOUS
  <2>. HIDE DEF kind
  <2>2. QED BY <1>1, <2>1, LeastSubset
<1>3. CASE A = {}
  <2>1. SumOf(f, A) = 0
    BY <1>2, <1>3, SumUnfolds
  <2>2. QED BY <1>2, <2>1
<1>4. CASE A # {}
  <2>. DEFINE B == A \ {Chosen(A)}
  <2>1. Chosen(A) \in A /\ B \in SUBSET A /\ B # A /\ A \in SUBSET S
    BY <1>2, <1>4, ChosenIsElement
  <2>2. SumOf(f, B) \in Nat /\ f[Chosen(A)] \in Nat
    BY <1>2, <2>1
  <2>3. SumOf(f, A) = f[Chosen(A)] + SumOf(f, B)
    BY <1>2, <1>4, SumUnfolds
  <2>4. QED BY <1>2, <2>2, <2>3
<1>5. QED BY <1>3, <1>4

(***************************************************************************)
(* Any element can be taken out of a sum.                                  *)
(***************************************************************************)
LEMMA SumTakesOut ==
    ASSUME NEW f, NEW S, IsFiniteSet(S), \A x \in S : f[x] \in Nat, NEW y \in S
    PROVE  SumOf(f, S) = f[y] + SumOf(f, S \ {y})
<1>. DEFINE kind == {A \in SUBSET S :
                       \E x \in A : SumOf(f, A) # f[x] + SumOf(f, A \ {x})}
<1>1. SUFFICES ASSUME kind # {} PROVE FALSE
  OBVIOUS
<1>2. PICK A \in kind : IsFiniteSet(A) /\ \A B \in SUBSET A : B # A => B \notin kind
  <2>1. kind \in SUBSET SUBSET S
    OBVIOUS
  <2>. HIDE DEF kind
  <2>2. QED BY <1>1, <2>1, LeastSubset
<1>3. PICK x \in A : SumOf(f, A) # f[x] + SumOf(f, A \ {x})
  BY <1>2
<1>. DEFINE y0 == Chosen(A)
            B == A \ {y0}
            C == A \ {x}
            D == A \ {x, y0}
<1>4. y0 \in A /\ B \in SUBSET A /\ B # A /\ C \in SUBSET A /\ C # A /\ A \in SUBSET S
  BY <1>2, <1>3, ChosenIsElement
<1>5. SumOf(f, A) = f[y0] + SumOf(f, B)
  BY <1>2, <1>3, SumUnfolds
<1>6. x # y0
  BY <1>3, <1>5
<1>7. /\ IsFiniteSet(D)
      /\ SumOf(f, D) \in Nat /\ f[x] \in Nat /\ f[y0] \in Nat
  <2>1. IsFiniteSet(D)
    BY <1>2, FS_Subset
  <2>2. QED BY <1>4, <2>1, SumIsNat
<1>8. SumOf(f, B) = f[x] + SumOf(f, D)
  <2>1. B \notin kind /\ B \in SUBSET S /\ x \in B
    BY <1>2, <1>4, <1>6
  <2>2. B \ {x} = D
    OBVIOUS
  <2>3. QED BY <2>1, <2>2
<1>9. SumOf(f, C) = f[y0] + SumOf(f, D)
  <2>1. C \notin kind /\ C \in SUBSET S /\ y0 \in C
    BY <1>2, <1>4, <1>6
  <2>2. C \ {y0} = D
    OBVIOUS
  <2>3. QED BY <2>1, <2>2
<1>. HIDE DEF y0, B, C, D
<1>10. SumOf(f, A) = f[x] + SumOf(f, C)
  BY <1>5, <1>7, <1>8, <1>9
<1>11. QED BY <1>3, <1>10 DEF C

(***************************************************************************)
(* One more element; smaller values; fewer elements.                       *)
(***************************************************************************)
LEMMA SumAdds ==
    ASSUME NEW f, NEW S, IsFiniteSet(S), NEW y, y \notin S,
           \A x \in S \cup {y} : f[x] \in Nat
    PROVE  SumOf(f, S \cup {y}) = f[y] + SumOf(f, S)
<1>1. IsFiniteSet(S \cup {y})
  BY FS_AddElement
<1>2. (S \cup {y}) \ {y} = S
  OBVIOUS
<1>3. QED BY <1>1, <1>2, SumTakesOut

LEMMA SumBelow ==
    ASSUME NEW f, NEW g, NEW S, IsFiniteSet(S),
           \A x \in S : f[x] \in Nat /\ g[x] \in Nat /\ f[x] <= g[x]
    PROVE  SumOf(f, S) <= SumOf(g, S)
<1>. DEFINE kind == {A \in SUBSET S : ~(SumOf(f, A) <= SumOf(g, A))}
<1>1. SUFFICES ASSUME kind # {} PROVE FALSE
  OBVIOUS
<1>2. PICK A \in kind : IsFiniteSet(A) /\ \A B \in SUBSET A : B # A => B \notin kind
  <2>1. kind \in SUBSET SUBSET S
    OBVIOUS
  <2>. HIDE DEF kind
  <2>2. QED BY <1>1, <2>1, LeastSubset
<1>3. CASE A = {}
  <2>1. SumOf(f, A) = 0 /\ SumOf(g, A) = 0
    BY <1>2, <1>3, SumUnfolds
  <2>2. QED BY <1>2, <2>1
<1>4. CASE A # {}
  <2>. DEFINE y == Chosen(A)
              B == A \ {y}
  <2>1. y \in A /\ B \in SUBSET A /\ B # A /\ A \in SUBSET S
    BY <1>2, <1>4, ChosenIsElement
  <2>2. SumOf(f, B) <= SumOf(g, B) /\ f[y] \in Nat /\ g[y] \in Nat /\ f[y] <= g[y]
    BY <1>2, <2>1
  <2>3. SumOf(f, B) \in Nat /\ SumOf(g, B) \in Nat
    <3>1. IsFiniteSet(B)
      BY <1>2, FS_Subset
    <3>2. QED BY <2>1, <3>1, SumIsNat
  <2>4. SumOf(f, A) = f[y] + SumOf(f, B) /\ SumOf(g, A) = g[y] + SumOf(g, B)
    BY <1>2, <1>4, SumUnfolds
  <2>. HIDE DEF y, B
  <2>5. SumOf(f, A) <= SumOf(g, A)
    BY <2>2, <2>3, <2>4
  <2>6. QED BY <1>2, <2>5
<1>5. QED BY <1>3, <1>4

LEMMA SumSame ==
    ASSUME NEW f, NEW g, NEW S, IsFiniteSet(S),
           \A x \in S : f[x] \in Nat /\ g[x] = f[x]
    PROVE  SumOf(g, S) = SumOf(f, S)
<1>1. SumOf(f, S) \in Nat /\ SumOf(g, S) \in Nat
  BY SumIsNat
<1>2. SumOf(f, S) <= SumOf(g, S) /\ SumOf(g, S) <= SumOf(f, S)
  <2>1. \A x \in S : f[x] <= g[x] /\ g[x] <= f[x]
    OBVIOUS
  <2>2. QED BY <2>1, SumBelow
<1>3. QED BY <1>1, <1>2

LEMMA SumOfFewer ==
    ASSUME NEW f, NEW S, IsFiniteSet(S), \A x \in S : f[x] \in Nat, NEW A \in SUBSET S
    PROVE  SumOf(f, A) <= SumOf(f, S)
<1>. DEFINE kind == {B \in SUBSET S : A \subseteq B /\ ~(SumOf(f, A) <= SumOf(f, B))}
<1>1. SUFFICES ASSUME kind # {} PROVE FALSE
  OBVIOUS
<1>2. PICK B \in kind : IsFiniteSet(B) /\ \A C \in SUBSET B : C # B => C \notin kind
  <2>1. kind \in SUBSET SUBSET S
    OBVIOUS
  <2>. HIDE DEF kind
  <2>2. QED BY <1>1, <2>1, LeastSubset
<1>3. SumOf(f, A) \in Nat
  BY FS_Subset, SumIsNat
<1>4. CASE B = A
  BY <1>2, <1>3, <1>4
<1>5. CASE B # A
  <2>1. PICK y \in B : y \notin A
    BY <1>2, <1>5
  <2>. DEFINE C == B \ {y}
  <2>2. SumOf(f, A) <= SumOf(f, C)
    BY <1>2, <2>1
  <2>3. SumOf(f, B) = f[y] + SumOf(f, C)
    BY <1>2, SumTakesOut
  <2>4. SumOf(f, C) \in Nat /\ f[y] \in Nat
    BY <1>2, FS_Subset, SumIsNat
  <2>5. SumOf(f, A) <= SumOf(f, B)
    BY <1>3, <2>2, <2>3, <2>4
  <2>6. QED BY <1>2, <2>5
<1>6. QED BY <1>4, <1>5

-------------------------------------------------------------------------------
(* The accounts of a conversation and of the database *)

Bytes == [t \in Turns |-> turns[t].bytes]

Messages == [t \in Turns |-> turns[t].messages]

Stored == [c \in Conversations |-> conversations[c].storedBytes]

\* BytesAccounted, over sums that can be reasoned about.
AccountInv ==
    /\ \A c \in Conversations :
         /\ conversations[c].storedBytes = SumOf(Bytes, History(c))
         /\ conversations[c].storedBytes <= MaxConversationBytes
         /\ SumOf(Messages, History(c)) <= MaxMessages
    /\ SumOf(Stored, Conversations) <= MaxDatabaseBytes

\* The sums of the model are such sums.
LEMMA BytesSum ==
    ASSUME NEW S \in SUBSET Turns
    PROVE  MapThenSumSet(LAMBDA t : turns[t].bytes, S) = SumOf(Bytes, S)
<1>1. ASSUME NEW sum
      PROVE  SumsTo(sum, Bytes, S)
               <=> sum = [A \in SUBSET S |-> IF A = {} THEN 0
                            ELSE turns[CHOOSE x \in A : TRUE].bytes
                                   + sum[A \ {CHOOSE x \in A : TRUE}]]
  BY ChosenIsElement DEF SumsTo, Chosen, Bytes
<1>2. (CHOOSE sum : SumsTo(sum, Bytes, S)) =
        CHOOSE sum : sum = [A \in SUBSET S |-> IF A = {} THEN 0
                              ELSE turns[CHOOSE x \in A : TRUE].bytes
                                     + sum[A \ {CHOOSE x \in A : TRUE}]]
  BY <1>1
<1> QED BY <1>2 DEF MapThenSumSet, MapThenFoldSet, SumOf

LEMMA MessagesSum ==
    ASSUME NEW S \in SUBSET Turns
    PROVE  MapThenSumSet(LAMBDA t : turns[t].messages, S) = SumOf(Messages, S)
<1>1. ASSUME NEW sum
      PROVE  SumsTo(sum, Messages, S)
               <=> sum = [A \in SUBSET S |-> IF A = {} THEN 0
                            ELSE turns[CHOOSE x \in A : TRUE].messages
                                   + sum[A \ {CHOOSE x \in A : TRUE}]]
  BY ChosenIsElement DEF SumsTo, Chosen, Messages
<1>2. (CHOOSE sum : SumsTo(sum, Messages, S)) =
        CHOOSE sum : sum = [A \in SUBSET S |-> IF A = {} THEN 0
                              ELSE turns[CHOOSE x \in A : TRUE].messages
                                     + sum[A \ {CHOOSE x \in A : TRUE}]]
  BY <1>1
<1> QED BY <1>2 DEF MapThenSumSet, MapThenFoldSet, SumOf

LEMMA StoredSum == DatabaseBytes = SumOf(Stored, Conversations)
<1>1. ASSUME NEW sum
      PROVE  SumsTo(sum, Stored, Conversations)
               <=> sum = [A \in SUBSET Conversations |-> IF A = {} THEN 0
                            ELSE conversations[CHOOSE x \in A : TRUE].storedBytes
                                   + sum[A \ {CHOOSE x \in A : TRUE}]]
  BY ChosenIsElement DEF SumsTo, Chosen, Stored
<1>2. (CHOOSE sum : SumsTo(sum, Stored, Conversations)) =
        CHOOSE sum : sum = [A \in SUBSET Conversations |-> IF A = {} THEN 0
                              ELSE conversations[CHOOSE x \in A : TRUE].storedBytes
                                     + sum[A \ {CHOOSE x \in A : TRUE}]]
  BY <1>1
<1> QED BY <1>2 DEF DatabaseBytes, MapThenSumSet, MapThenFoldSet, SumOf

\* The rows hold natural numbers, and there are finitely many of them.
LEMMA RowsSum ==
    ASSUME StoreTypeOK
    PROVE  /\ \A t \in Turns : Bytes[t] \in Nat /\ Messages[t] \in Nat
           /\ \A c \in Conversations : Stored[c] \in Nat
           /\ \A c \in Conversations :
                /\ History(c) \in SUBSET TurnsOf(c) /\ TurnsOf(c) \in SUBSET Turns
                /\ IsFiniteSet(History(c)) /\ IsFiniteSet(TurnsOf(c))
<1>1. \A c \in Conversations :
        History(c) \in SUBSET TurnsOf(c) /\ TurnsOf(c) \in SUBSET Turns
  BY DEF History, TurnsOf
<1>2. \A c \in Conversations : IsFiniteSet(History(c)) /\ IsFiniteSet(TurnsOf(c))
  BY <1>1, FS_Subset, StoreConstants
<1>3. \A t \in Turns : Bytes[t] \in Nat /\ Messages[t] \in Nat
  BY DEF StoreTypeOK, TurnRow, Bytes, Messages
<1>4. \A c \in Conversations : Stored[c] \in Nat
  BY DEF StoreTypeOK, ConversationRow, Stored
<1> QED BY <1>1, <1>2, <1>3, <1>4

LEMMA AccountedByRows == ASSUME StoreTypeOK PROVE AccountInv <=> BytesAccounted
<1>1. ASSUME NEW c \in Conversations
      PROVE  /\ MapThenSumSet(LAMBDA t : turns[t].bytes, History(c))
                  = SumOf(Bytes, History(c))
             /\ MapThenSumSet(LAMBDA t : turns[t].messages, History(c))
                  = SumOf(Messages, History(c))
  <2>1. History(c) \in SUBSET Turns
    BY RowsSum
  <2> QED BY <2>1, BytesSum, MessagesSum
<1> QED BY <1>1, StoredSum DEF AccountInv, BytesAccounted

\* A step that leaves what is stored alone: the completed turns and their
\* sizes, and the byte counts.
Kept ==
    /\ \A t \in Turns :
         /\ turns'[t].status = "completed" <=> turns[t].status = "completed"
         /\ turns[t].status = "completed" =>
              /\ turns'[t].conversation = turns[t].conversation
              /\ turns'[t].bytes = turns[t].bytes
              /\ turns'[t].messages = turns[t].messages
    /\ \A c \in Conversations :
         conversations'[c].storedBytes = conversations[c].storedBytes

LEMMA KeptAccount ==
    ASSUME StoreInv, StoreInv', AccountInv, Kept
    PROVE  AccountInv'
<1>1. ASSUME NEW c \in Conversations
      PROVE  /\ History(c)' = History(c)
             /\ SumOf(Bytes', History(c)) = SumOf(Bytes, History(c))
             /\ SumOf(Messages', History(c)) = SumOf(Messages, History(c))
  <2>1. History(c)' = History(c)
    BY DEF History, TurnsOf, Kept, StoreInv, TurnInv, RowsNameConversation, TurnStatus, Terminal
  <2>2. \A t \in History(c) :
          /\ Bytes[t] \in Nat /\ Bytes'[t] = Bytes[t]
          /\ Messages[t] \in Nat /\ Messages'[t] = Messages[t]
    BY RowsSum DEF History, TurnsOf, Kept, Bytes, Messages, StoreInv
  <2>3. IsFiniteSet(History(c))
    BY RowsSum DEF StoreInv
  <2> QED BY <2>1, <2>2, <2>3, SumSame
<1>2. SumOf(Stored', Conversations) = SumOf(Stored, Conversations)
  <2>1. \A c \in Conversations : Stored[c] \in Nat /\ Stored'[c] = Stored[c]
    BY RowsSum DEF Kept, Stored, StoreInv
  <2> QED BY <2>1, SumSame, StoreConstants
<1>3. \A c \in Conversations :
         conversations'[c].storedBytes = conversations[c].storedBytes
  BY DEF Kept
<1> QED BY <1>1, <1>2, <1>3 DEF AccountInv

\* A conversation that is created had no turn, and its count starts at zero.
LEMMA CreateKeeps ==
    ASSUME StoreInv, AccountInv, NEW o \in Owners, NEW c \in Conversations,
           NEW at \in Times, NEW exp \in Times, CreateConversation(o, c, at, exp)
    PROVE  Kept
<1>1. History(c) = {}
  <2>1. conversations[c].state # "stored"
    BY DEF CreateConversation
  <2> QED BY <2>1 DEF StoreInv, TurnInv, TurnsHaveConversation, History, TurnsOf,
                      TurnStatus, Terminal
<1>2. conversations[c].storedBytes = 0
  <2>1. SumOf(Bytes, {}) = 0
    BY SumUnfolds, FS_EmptySet
  <2> QED BY <1>1, <2>1 DEF AccountInv
<1> QED BY <1>2 DEF Kept, CreateConversation, StoreInv, StoreTypeOK

LEMMA BeginKeeps ==
    ASSUME StoreInv, NEW o \in Owners, NEW c \in Conversations, NEW t \in Turns,
           NEW at \in Times, BeginTurn(o, c, t, at)
    PROVE  Kept
<1>1. turns[t].status = "unused" /\ turns'[t].status = "running"
  BY DEF BeginTurn, StoreInv, StoreTypeOK
<1>2. \A u \in Turns \ {t} : turns'[u] =
        IF u \in ExpiredWaits(c, at) THEN [turns[u] EXCEPT !.status = "failed"]
        ELSE turns[u]
  BY DEF BeginTurn
<1>3. \A u \in ExpiredWaits(c, at) : turns[u].status = "awaiting_confirmation"
  BY DEF ExpiredWaits, Waiting
<1>4. \A u \in Turns : turns[u] \in TurnRow
  BY DEF StoreInv, StoreTypeOK
<1>5. \A u \in Turns :
        /\ turns'[u].status = "completed" <=> turns[u].status = "completed"
        /\ turns[u].status = "completed" => turns'[u] = turns[u]
  BY <1>1, <1>2, <1>3, <1>4 DEF TurnRow
<1>6. \A d \in Conversations :
        conversations'[d].storedBytes = conversations[d].storedBytes
  <2>1. conversations' = conversations
        \/ conversations' = [conversations EXCEPT ![c].updatedAt = at]
    BY DEF BeginTurn
  <2> QED BY <2>1, TimeUpdate DEF StoreInv
<1> QED BY <1>5, <1>6 DEF Kept

LEMMA RecoverKeeps ==
    ASSUME StoreInv, NEW at \in Times, RecoverInterrupted(at)
    PROVE  Kept
<1>1. \A t \in Turns : turns[t] \in TurnRow /\ turns'[t] =
        IF turns[t].status = "running"
        THEN [turns[t] EXCEPT !.status = "interrupted"] ELSE turns[t]
  BY DEF RecoverInterrupted, StoreInv, StoreTypeOK
<1>2. \A c \in Conversations : conversations[c] \in ConversationRow
        /\ conversations'[c] = IF Running(c) = {} THEN conversations[c]
             ELSE [conversations[c] EXCEPT !.updatedAt = at]
  BY DEF RecoverInterrupted, StoreInv, StoreTypeOK
<1>3. \A t \in Turns :
        /\ turns'[t].status = "completed" <=> turns[t].status = "completed"
        /\ turns[t].status = "completed" => turns'[t] = turns[t]
  BY <1>1 DEF TurnRow
<1>4. \A c \in Conversations :
        conversations'[c].storedBytes = conversations[c].storedBytes
  BY <1>2 DEF ConversationRow
<1> QED BY <1>3, <1>4 DEF Kept

\* The transactions that move a turn between running, waiting and ended.
LEMMA StatusKeeps ==
    ASSUME StoreInv, NEW c \in Conversations, NEW t \in Turns,
           turns[t].status \in ActiveStatus,
           NEW status \in TurnStatus \ {"completed"}, NEW at \in Times,
           turns' = [turns EXCEPT ![t].status = status],
           \/ conversations' = conversations
           \/ conversations' = [conversations EXCEPT ![c].updatedAt = at]
    PROVE  Kept
<1>1. turns[t].status # "completed"
  BY DEF ActiveStatus
<1>2. \A d \in Conversations :
        conversations'[d].storedBytes = conversations[d].storedBytes
  BY TimeUpdate DEF StoreInv
<1> QED BY <1>1, <1>2, StatusUpdate DEF Kept, StoreInv

\* The conversations that go take the whole of their counts with them.
LEMMA RemoveAccount ==
    ASSUME StoreInv, StoreInv', AccountInv, NEW D \in SUBSET Conversations, Remove(D)
    PROVE  AccountInv'
<1>1. /\ \A c \in Conversations : conversations'[c] =
           IF c \in D THEN NoConversationRow("deleted") ELSE conversations[c]
      /\ \A t \in Turns : turns'[t] =
           IF turns[t].conversation \in D THEN NoTurnRow("deleted") ELSE turns[t]
  BY DEF Remove
<1>2. ASSUME NEW c \in D
      PROVE  History(c)' = {} /\ conversations'[c].storedBytes = 0
  <2>1. conversations'[c].state = "deleted" /\ conversations'[c].storedBytes = 0
    BY <1>1 DEF NoConversationRow
  <2> QED BY <2>1 DEF StoreInv, TurnInv, TurnsHaveConversation, History, TurnsOf,
                      TurnStatus, Terminal
<1>3. ASSUME NEW c \in Conversations \ D
      PROVE  /\ History(c)' = History(c)
             /\ SumOf(Bytes', History(c)) = SumOf(Bytes, History(c))
             /\ SumOf(Messages', History(c)) = SumOf(Messages, History(c))
  <2>1. History(c)' = History(c)
    BY <1>1, StoreConstants DEF History, TurnsOf, NoTurnRow
  <2>2. \A t \in History(c) :
          /\ Bytes[t] \in Nat /\ Bytes'[t] = Bytes[t]
          /\ Messages[t] \in Nat /\ Messages'[t] = Messages[t]
    BY <1>1, RowsSum DEF History, TurnsOf, Bytes, Messages, StoreInv
  <2>3. IsFiniteSet(History(c))
    BY RowsSum DEF StoreInv
  <2> QED BY <2>1, <2>2, <2>3, SumSame
<1>4. \A f : SumOf(f, {}) = 0
  BY SumUnfolds, FS_EmptySet
<1>5. SumOf(Stored', Conversations) <= MaxDatabaseBytes
  <2>1. \A c \in Conversations :
          /\ Stored'[c] \in Nat /\ Stored[c] \in Nat
          /\ Stored'[c] <= Stored[c]
    <3>1. \A c \in Conversations : Stored[c] \in Nat
      BY RowsSum DEF StoreInv
    <3>2. \A c \in Conversations :
            Stored'[c] = IF c \in D THEN 0 ELSE Stored[c]
      BY <1>1 DEF Stored, NoConversationRow
    <3> QED BY <3>1, <3>2
  <2>2. SumOf(Stored', Conversations) <= SumOf(Stored, Conversations)
    BY <2>1, SumBelow, StoreConstants
  <2>3. SumOf(Stored, Conversations) \in Nat /\ SumOf(Stored', Conversations) \in Nat
    BY <2>1, SumIsNat, StoreConstants
  <2>4. SumOf(Stored, Conversations) <= MaxDatabaseBytes
    BY DEF AccountInv
  <2> QED BY <2>2, <2>3, <2>4, StoreConstants
<1>6. ASSUME NEW c \in Conversations
      PROVE  /\ conversations'[c].storedBytes = SumOf(Bytes', History(c)')
             /\ conversations'[c].storedBytes <= MaxConversationBytes
             /\ SumOf(Messages', History(c)') <= MaxMessages
  <2>1. CASE c \in D
    BY <1>2, <1>4, <2>1, StoreConstants
  <2>2. CASE c \notin D
    BY <1>1, <1>3, <2>2 DEF AccountInv
  <2> QED BY <2>1, <2>2
<1> QED BY <1>5, <1>6 DEF AccountInv

\* A completion stores the sizes it was given.
LEMMA CompletedSizes ==
    ASSUME StoreTypeOK, NEW o, NEW c \in Conversations, NEW t \in Turns,
           NEW at, NEW exp, NEW m, NEW b, CompleteTurn(o, c, t, at, exp, m, b)
    PROVE  /\ turns'[t].messages = m /\ turns'[t].bytes = b
           /\ conversations'[c].storedBytes = conversations[c].storedBytes + b
<1> DEFINE turn == turns[t]
           conversation == conversations[c]
<1>1. /\ turns'[t] = [turn EXCEPT !.status = "completed", !.messages = m, !.bytes = b]
      /\ conversations'[c] = [conversation EXCEPT
           !.title = IF conversation.title = "none" THEN "prompt" ELSE conversation.title,
           !.storedBytes = conversation.storedBytes + b, !.updatedAt = at,
           !.expiresAt = exp]
  BY DEF CompleteTurn, StoreTypeOK
<1>2. turn \in TurnRow /\ conversation \in ConversationRow
  BY DEF StoreTypeOK
<1> HIDE DEF turn, conversation
<1>3. turns'[t].messages = m /\ turns'[t].bytes = b
  BY <1>1, <1>2 DEF TurnRow
<1>4. conversations'[c].storedBytes = conversation.storedBytes + b
  BY <1>1, <1>2 DEF ConversationRow
<1> QED BY <1>3, <1>4 DEF conversation

\* What a turn adds to its conversation and to the database was checked
\* against the limits in the same transaction.
LEMMA CompleteAccount ==
    ASSUME StoreInv, StoreInv', AccountInv, NEW o \in Owners, NEW c \in Conversations,
           NEW t \in Turns, NEW at \in Times, NEW exp \in Times,
           NEW m \in Sizes, NEW b \in Sizes, CompleteTurn(o, c, t, at, exp, m, b)
    PROVE  AccountInv'
<1>1. at \in Nat /\ exp \in Nat /\ m \in Nat /\ b \in Nat
  BY StoreConstants
<1>2. turns[t].status = "running" /\ turns[t].conversation = c
  BY DEF CompleteTurn, CompleteTurnAllowed, TurnIs
<1>3. /\ turns'[t].status = "completed"
      /\ \A u \in Turns \ {t} : turns'[u] = turns[u]
      /\ \A u \in Turns : turns'[u].conversation = turns[u].conversation
      /\ turns'[t].messages = m /\ turns'[t].bytes = b
  <2>1. /\ turns'[t].status = "completed"
        /\ \A u \in Turns \ {t} : turns'[u] = turns[u]
        /\ \A u \in Turns : turns'[u].conversation = turns[u].conversation
    BY <1>1, CompletedTurnUpdate DEF CompleteTurn, StoreInv
  <2> QED BY <2>1, CompletedSizes DEF StoreInv
<1>4. /\ conversations'[c].storedBytes = conversations[c].storedBytes + b
      /\ \A d \in Conversations \ {c} : conversations'[d] = conversations[d]
  <2>1. \A d \in Conversations \ {c} : conversations'[d] = conversations[d]
    BY <1>1, CompletedConversationUpdate DEF CompleteTurn, StoreInv
  <2> QED BY <2>1, CompletedSizes DEF StoreInv
<1>5. t \notin History(c) /\ History(c)' = History(c) \cup {t}
  BY <1>2, <1>3 DEF History, TurnsOf
<1>6. \A d \in Conversations \ {c} : History(d)' = History(d)
  BY <1>2, <1>3 DEF History, TurnsOf
<1>7. ASSUME NEW d \in Conversations
      PROVE  /\ SumOf(Bytes', History(d)) = SumOf(Bytes, History(d))
             /\ SumOf(Messages', History(d)) = SumOf(Messages, History(d))
  <2>1. \A u \in History(d) : u \in Turns \ {t}
    BY <1>2 DEF History, TurnsOf
  <2>2. \A u \in History(d) :
          /\ Bytes[u] \in Nat /\ Bytes'[u] = Bytes[u]
          /\ Messages[u] \in Nat /\ Messages'[u] = Messages[u]
    BY <1>3, <2>1, RowsSum DEF Bytes, Messages, StoreInv
  <2>3. IsFiniteSet(History(d))
    BY RowsSum DEF StoreInv
  <2> QED BY <2>2, <2>3, SumSame
<1>8. /\ SumOf(Bytes', History(c)') = b + SumOf(Bytes, History(c))
      /\ SumOf(Messages', History(c)') = m + SumOf(Messages, History(c))
  <2>1. /\ \A u \in Turns : Bytes'[u] \in Nat /\ Messages'[u] \in Nat
        /\ IsFiniteSet(History(c)) /\ History(c) \in SUBSET Turns
    BY RowsSum, StoreTypeOK' DEF StoreInv, Bytes, Messages, StoreTypeOK, TurnRow
  <2>2. Bytes'[t] = b /\ Messages'[t] = m
    BY <1>3 DEF Bytes, Messages
  <2>3. /\ SumOf(Bytes', History(c) \cup {t}) = Bytes'[t] + SumOf(Bytes', History(c))
        /\ SumOf(Messages', History(c) \cup {t})
             = Messages'[t] + SumOf(Messages', History(c))
    BY <1>5, <2>1, SumAdds
  <2> QED BY <1>5, <1>7, <2>2, <2>3
<1>9. /\ SumOf(Messages, History(c)) \in Nat /\ SumOf(Messages, TurnsOf(c)) \in Nat
      /\ SumOf(Messages, History(c)) <= SumOf(Messages, TurnsOf(c))
  <2>1. /\ IsFiniteSet(History(c)) /\ IsFiniteSet(TurnsOf(c))
        /\ History(c) \in SUBSET TurnsOf(c)
        /\ \A u \in TurnsOf(c) : Messages[u] \in Nat
    BY RowsSum DEF StoreInv
  <2>2. \A u \in History(c) : Messages[u] \in Nat
    BY <2>1
  <2> QED BY <2>1, <2>2, SumIsNat, SumOfFewer
<1>10. SumOf(Messages, TurnsOf(c)) + m <= MaxMessages
  <2>1. TurnsOf(c) \in SUBSET Turns
    BY DEF TurnsOf
  <2>2. MessagesOf(c) = SumOf(Messages, TurnsOf(c))
    BY <2>1, MessagesSum DEF MessagesOf
  <2> QED BY <2>2 DEF CompleteTurn, CompleteTurnAllowed
<1>11. SumOf(Messages', History(c)') <= MaxMessages
  BY <1>1, <1>8, <1>9, <1>10, StoreConstants
<1>12. /\ conversations'[c].storedBytes = SumOf(Bytes', History(c)')
       /\ conversations'[c].storedBytes <= MaxConversationBytes
  <2>1. conversations[c].storedBytes \in Nat
    BY DEF StoreInv, StoreTypeOK, ConversationRow
  <2>2. conversations[c].storedBytes = SumOf(Bytes, History(c))
    BY DEF AccountInv
  <2>3. conversations[c].storedBytes + b <= MaxConversationBytes
    BY DEF CompleteTurn, CompleteTurnAllowed
  <2>4. conversations[c].storedBytes + b = b + conversations[c].storedBytes
    BY <1>1, <2>1
  <2> QED BY <1>4, <1>8, <2>2, <2>3, <2>4
<1>13. SumOf(Stored', Conversations) <= MaxDatabaseBytes
  <2> DEFINE others == Conversations \ {c}
  <2>1. /\ \A d \in Conversations : Stored[d] \in Nat /\ Stored'[d] \in Nat
        /\ IsFiniteSet(Conversations) /\ IsFiniteSet(others)
    BY RowsSum, FS_Subset, StoreConstants
       DEF StoreInv, Stored, StoreTypeOK, ConversationRow
  <2>2. /\ SumOf(Stored, Conversations) = Stored[c] + SumOf(Stored, others)
        /\ SumOf(Stored', Conversations) = Stored'[c] + SumOf(Stored', others)
    BY <2>1, SumTakesOut
  <2>3. Stored'[c] = Stored[c] + b /\ \A d \in others : Stored'[d] = Stored[d]
    BY <1>4 DEF Stored
  <2>4. SumOf(Stored', others) = SumOf(Stored, others)
    BY <2>1, <2>3, SumSame
  <2>5. SumOf(Stored, others) \in Nat /\ Stored[c] \in Nat
    BY <2>1, SumIsNat
  <2>6. SumOf(Stored, Conversations) + b <= MaxDatabaseBytes
    BY StoredSum DEF CompleteTurn, CompleteTurnAllowed
  <2> HIDE DEF others
  <2> QED BY <1>1, <2>2, <2>3, <2>4, <2>5, <2>6
<1>14. ASSUME NEW d \in Conversations \ {c}
       PROVE  /\ conversations'[d].storedBytes = SumOf(Bytes', History(d)')
              /\ conversations'[d].storedBytes <= MaxConversationBytes
              /\ SumOf(Messages', History(d)') <= MaxMessages
  BY <1>4, <1>6, <1>7 DEF AccountInv
<1> QED BY <1>11, <1>12, <1>13, <1>14 DEF AccountInv

\* Every transaction keeps the accounts.
LEMMA AccountStep ==
    ASSUME StoreInv, AccountInv, [StoreNext]_storeVars
    PROVE  AccountInv'
<1>1. StoreInv'
  BY StoreStepInv
<1>2. CASE ConversationStep
  <2>1. ASSUME NEW o \in Owners, NEW c \in Conversations, NEW at \in Times,
               NEW exp \in Times, CreateConversation(o, c, at, exp)
        PROVE  AccountInv'
    BY <1>1, <2>1, CreateKeeps, KeptAccount
  <2>2. ASSUME NEW D \in SUBSET Conversations, Remove(D)
        PROVE  AccountInv'
    BY <1>1, <2>2, RemoveAccount
  <2>3. ASSUME NEW o \in Owners, NEW c \in Conversations, NEW at \in Times,
               UpdateConversationTitle(o, c, at)
        PROVE  Kept
    <3>1. turns' = turns /\ \A d \in Conversations :
            conversations'[d].storedBytes = conversations[d].storedBytes
      BY <2>3 DEF UpdateConversationTitle, StoreInv, StoreTypeOK, ConversationRow
    <3> QED BY <3>1 DEF Kept
  <2>4. \A c \in Conversations : {c} \in SUBSET Conversations
    OBVIOUS
  <2> QED BY <1>1, <1>2, <2>1, <2>2, <2>3, <2>4, KeptAccount
          DEF ConversationStep, DeleteConversation, DeleteExpired
<1>3. ASSUME NEW at \in Times, RecoverInterrupted(at) PROVE AccountInv'
  BY <1>1, <1>3, RecoverKeeps, KeptAccount
<1>4. ASSUME NEW o \in Owners, NEW c \in Conversations, NEW t \in Turns,
             TurnStep(o, c, t)
      PROVE  AccountInv'
  <2>1. ASSUME NEW at \in Times, BeginTurn(o, c, t, at) PROVE Kept
    BY <2>1, BeginKeeps
  <2>2. ASSUME NEW at \in Times, NEW exp \in Times, NEW m \in Sizes, NEW b \in Sizes,
               CompleteTurn(o, c, t, at, exp, m, b)
        PROVE  AccountInv'
    BY <1>1, <2>2, CompleteAccount
  <2>3. ASSUME NEW at \in Times, NEW status \in Terminal \ {"completed"},
               FailTurn(o, c, t, status, at)
        PROVE  Kept
    <3>1. status \in TurnStatus \ {"completed"} /\ turns[t].status \in ActiveStatus
      BY <2>3 DEF TurnStatus, ActiveStatus, FailTurn, FailTurnAllowed, TurnIs
    <3> QED BY <2>3, <3>1, StatusKeeps DEF FailTurn
  <2>4. ASSUME NEW id \in ConfirmationIDs, NEW at \in Times, NEW exp \in Times,
               SuspendTurn(o, c, t, id, at, exp)
        PROVE  Kept
    <3>1. "awaiting_confirmation" \in TurnStatus \ {"completed"}
          /\ turns[t].status \in ActiveStatus
      BY <2>4 DEF TurnStatus, ActiveStatus, SuspendTurn, SuspendTurnAllowed, TurnIs
    <3> QED BY <2>4, <3>1, StatusKeeps DEF SuspendTurn
  <2>5. ASSUME NEW id \in ConfirmationIDs, NEW at \in Times,
               ClaimConfirmation(o, c, t, id, at) \/ ClaimExpired(o, c, t, id, at)
        PROVE  Kept
    <3>1. {"running", "failed"} \subseteq TurnStatus \ {"completed"}
          /\ turns[t].status \in ActiveStatus
      BY <2>5 DEF TurnStatus, ActiveStatus, Terminal, ClaimConfirmation, ClaimExpired,
                  Pending, TurnIs
    <3> QED BY <2>5, <3>1, StatusKeeps DEF ClaimConfirmation, ClaimExpired
  <2> QED BY <1>1, <1>4, <2>1, <2>2, <2>3, <2>4, <2>5, KeptAccount DEF TurnStep
<1>5. CASE UNCHANGED storeVars
  <2>1. Kept
    BY <1>5 DEF storeVars, Kept
  <2> QED BY <1>1, <2>1, KeptAccount
<1> QED BY <1>2, <1>3, <1>4, <1>5 DEF StoreNext

LEMMA AccountInit == StoreInit => AccountInv
<1> SUFFICES ASSUME StoreInit PROVE AccountInv
  OBVIOUS
<1>1. \A c \in Conversations :
        History(c) = {} /\ conversations[c].storedBytes = 0 /\ Stored[c] = 0
  <2>1. \A c \in Conversations : conversations[c].storedBytes = 0
    BY DEF StoreInit, NoConversationRow
  <2>2. \A t \in Turns : turns[t].status = "unused"
    BY DEF StoreInit, NoTurnRow
  <2> QED BY <2>1, <2>2 DEF History, TurnsOf, Stored
<1>2. \A f : SumOf(f, {}) = 0
  BY SumUnfolds, FS_EmptySet
<1>3. SumOf(Stored, Conversations) = 0
  <2> DEFINE none == [c \in Conversations |-> 0]
      kind == {A \in SUBSET Conversations : SumOf(Stored, A) # 0}
  <2>1. kind = {}
    <3> SUFFICES ASSUME kind # {} PROVE FALSE
      OBVIOUS
    <3>1. PICK A \in kind : \A B \in SUBSET A : B # A => B \notin kind
      <4>1. kind \in SUBSET SUBSET Conversations
        OBVIOUS
      <4> HIDE DEF kind
      <4> QED BY <4>1, LeastSubset, StoreConstants
    <3>2. A # {}
      BY <1>2, <3>1
    <3> DEFINE B == A \ {Chosen(A)}
    <3>3. /\ Chosen(A) \in A /\ A \in SUBSET Conversations
          /\ B \in SUBSET A /\ B # A /\ B \in SUBSET Conversations
      BY <3>1, <3>2, ChosenIsElement
    <3>4. SumOf(Stored, B) = 0 /\ Stored[Chosen(A)] = 0
      BY <1>1, <3>1, <3>3
    <3>5. SumOf(Stored, A) = Stored[Chosen(A)] + SumOf(Stored, B)
      BY <3>2, <3>3, SumUnfolds, FS_Subset, StoreConstants
    <3> QED BY <3>1, <3>4, <3>5
  <2> QED BY <2>1
<1>4. SumOf(Bytes, {}) = 0 /\ SumOf(Messages, {}) = 0
  BY <1>2
<1> QED BY <1>1, <1>3, <1>4, StoreConstants DEF AccountInv

\* What the database says a conversation holds is what its messages add up to,
\* and no completion takes a conversation or the database over a limit.
THEOREM StoreBytesAccounted == StoreSpec => []BytesAccounted
<1>1. StoreInit => StoreInv /\ AccountInv
  BY StoreInitInv, AccountInit
<1>2. (StoreInv /\ AccountInv) /\ [StoreNext]_storeVars => (StoreInv /\ AccountInv)'
  BY StoreStepInv, AccountStep
<1>3. StoreInv /\ AccountInv => BytesAccounted
  BY AccountedByRows DEF StoreInv
<1> QED BY <1>1, <1>2, <1>3, PTL DEF StoreSpec

-------------------------------------------------------------------------------
(* The service *)

USE DEF processVars, historyVars

-------------------------------------------------------------------------------
(* What a handler keeps in its local variables *)

PCs == {"idle", "get", "begin", "claim", "load", "run",
        "complete", "suspend", "fail", "tell_completed", "tell_confirmation",
        "delete", "rename", "purge", "create"}

Tells == {"tell_completed", "tell_confirmation"}

\* The request names what its next step uses.
RequestFits(r) ==
    /\ r.pc # "idle" => r.owner \in Owners
    /\ r.pc \notin {"idle", "purge", "create"} => r.conversation \in Conversations
    /\ r.pc = "get" => r.kind \in {"turn", "confirm", "delete", "rename"}
    /\ r.pc = "claim" \/ (r.pc = "get" /\ r.kind = "confirm")
         => /\ r.turn \in Turns
            /\ r.confirmation \in ConfirmationIDs
            /\ r.decision \in Decisions
    /\ r.pc = "begin" \/ (r.pc = "get" /\ r.kind = "turn") => r.decision = "none"
    /\ r.pc \in Executing \cup Tells => r.turn \in Turns
    /\ r.pc \in {"load", "run"} /\ r.decision # "none"
         => r.confirmation \in ConfirmationIDs
    /\ r.pc = "tell_confirmation" => r.confirmation \in ConfirmationIDs

HandlersFit ==
    \A h \in Handlers : /\ RequestFits(handlers[h])
                        /\ agent.phase # "up" => handlers[h] = Idle

LocalInv == ServiceTypeOK /\ HandlersFit

-------------------------------------------------------------------------------
(* Lemmas about the local variables *)

\* A handler that does nothing fits.
LEMMA IdleFits == Idle \in HandlerRow /\ RequestFits(Idle)
BY DEF Idle, HandlerRow, RequestFits, Executing, Tells, Streams

\* Moving on changes the pc and the time stamp of a handler, nothing else.
LEMMA StepRow ==
    ASSUME LocalInv, NEW h \in Handlers, NEW pc \in PCs
    PROVE  /\ Step(h, pc) \in HandlerRow
           /\ Step(h, pc).pc = pc
           /\ Step(h, pc).kind = handlers[h].kind
           /\ Step(h, pc).owner = handlers[h].owner
           /\ Step(h, pc).conversation = handlers[h].conversation
           /\ Step(h, pc).turn = handlers[h].turn
           /\ Step(h, pc).confirmation = handlers[h].confirmation
           /\ Step(h, pc).decision = handlers[h].decision
           /\ Step(h, pc).history = handlers[h].history
           /\ Step(h, pc).asOf =
                IF pc \in {"load", "run", "tell_completed", "tell_confirmation"}
                THEN 0 ELSE clock
<1> DEFINE row == handlers[h]
           asOf == IF pc \in {"load", "run", "tell_completed", "tell_confirmation"}
                   THEN 0 ELSE clock
<1>1. row \in HandlerRow /\ asOf \in Nat
  BY DEF LocalInv, ServiceTypeOK
<1>2. Step(h, pc) = [row EXCEPT !.pc = pc, !.asOf = asOf]
  BY DEF Step
<1> DEFINE after == Step(h, pc)
<1> HIDE DEF row, asOf, after
<1>3. after = [row EXCEPT !.pc = pc, !.asOf = asOf]
  BY <1>2 DEF after
<1>4. /\ after \in HandlerRow /\ after.pc = pc /\ after.asOf = asOf
      /\ after.kind = row.kind /\ after.owner = row.owner
      /\ after.conversation = row.conversation /\ after.turn = row.turn
      /\ after.confirmation = row.confirmation /\ after.decision = row.decision
      /\ after.history = row.history
  BY <1>1, <1>3 DEF HandlerRow, PCs
<1> QED BY <1>4 DEF row, asOf, after

\* The requests that name a conversation start with its lookup.
LEMMA LookupFits ==
    ASSUME NEW r, r.pc = "get", r.kind \in {"turn", "confirm", "delete", "rename"},
           r.owner \in Owners, r.conversation \in Conversations,
           r.kind = "turn" => r.decision = "none",
           r.kind = "confirm" => /\ r.turn \in Turns
                                 /\ r.confirmation \in ConfirmationIDs
                                 /\ r.decision \in Decisions
    PROVE  RequestFits(r)
BY DEF RequestFits, Executing, Tells

\* A request that creates or lists conversations starts with the purge.
LEMMA PurgeFits ==
    ASSUME NEW r, r.pc \in {"purge", "create"}, r.owner \in Owners
    PROVE  RequestFits(r)
BY DEF RequestFits, Executing, Tells

\* A new request fits; its confirmation, if it names one, was given out.
NewRequest(row) ==
    /\ row \in HandlerRow /\ RequestFits(row)
    /\ row.pc \in {"get", "purge"}
    /\ row.asOf \in {0, clock}
    /\ row.pc = "get" /\ row.kind = "confirm" => decided[row.confirmation] # "unused"

\* Every request handler starts so.
LEMMA RequestRow ==
    ASSUME clock \in Nat, NEW h \in Handlers, Request(h)
    PROVE  \E row : Accept(h, row) /\ NewRequest(row)
<1>1. ASSUME NEW o \in Owners, NEW c \in Conversations,
             NEW kind \in {"turn", "delete", "rename"}, NEW row,
             row = [Idle EXCEPT !.pc = "get", !.kind = kind, !.owner = o,
                                !.conversation = c]
      PROVE  NewRequest(row)
  <2>1. /\ row \in HandlerRow /\ row.pc = "get" /\ row.kind = kind /\ row.owner = o
        /\ row.conversation = c /\ row.asOf = Idle.asOf
        /\ row.decision = Idle.decision
    BY <1>1, IdleFits DEF HandlerRow, Streams
  <2>2. Idle.asOf = 0 /\ Idle.decision = "none"
    BY DEF Idle
  <2>3. RequestFits(row)
    BY <2>1, <2>2, LookupFits
  <2> QED BY <2>1, <2>2, <2>3 DEF NewRequest
<1>2. ASSUME NEW o \in Owners, NEW c \in Conversations, NEW t \in Turns,
             NEW id \in ConfirmationIDs, NEW decision \in Decisions,
             decided[id] # "unused", NEW row,
             row = [Idle EXCEPT !.pc = "get", !.kind = "confirm", !.owner = o,
                      !.conversation = c, !.turn = t, !.confirmation = id,
                      !.decision = decision]
      PROVE  NewRequest(row)
  <2>1. /\ row \in HandlerRow /\ row.pc = "get" /\ row.kind = "confirm"
        /\ row.owner = o /\ row.conversation = c /\ row.turn = t
        /\ row.confirmation = id /\ row.decision = decision
        /\ row.asOf = Idle.asOf
    BY <1>2, IdleFits DEF HandlerRow, Streams
  <2>2. Idle.asOf = 0
    BY DEF Idle
  <2>3. RequestFits(row)
    BY <2>1, LookupFits
  <2> QED BY <1>2, <2>1, <2>2, <2>3 DEF NewRequest
<1>3. ASSUME NEW o \in Owners, NEW kind \in {"create", "list"}, NEW row,
             row = [Idle EXCEPT !.pc = "purge", !.kind = kind, !.owner = o,
                                !.asOf = clock]
      PROVE  NewRequest(row)
  <2>1. /\ row \in HandlerRow /\ row.pc = "purge" /\ row.owner = o
        /\ row.asOf = clock
    BY <1>3, IdleFits DEF HandlerRow, Streams
  <2>2. RequestFits(row)
    BY <2>1, PurgeFits
  <2> QED BY <2>1, <2>2 DEF NewRequest
<1> HIDE DEF processVars, historyVars
<1>4. ASSUME NEW o \in Owners,
             serveCreateConversation(h, o) \/ serveListConversations(h, o)
      PROVE  \E row : Accept(h, row) /\ NewRequest(row)
  BY <1>3, <1>4 DEF serveCreateConversation, serveListConversations
<1>5. ASSUME NEW o \in Owners, NEW c \in Conversations,
             \/ serveConversationTurn(h, o, c)
             \/ serveDeleteConversation(h, o, c)
             \/ serveUpdateConversationTitle(h, o, c)
      PROVE  \E row : Accept(h, row) /\ NewRequest(row)
  BY <1>1, <1>5 DEF serveConversationTurn, serveDeleteConversation,
                    serveUpdateConversationTitle
<1>6. ASSUME NEW o \in Owners, NEW c \in Conversations, NEW t \in Turns,
             NEW id \in ConfirmationIDs, NEW decision \in Decisions,
             serveConversationConfirmation(h, o, c, t, id, decision)
      PROVE  \E row : Accept(h, row) /\ NewRequest(row)
  BY <1>2, <1>6 DEF serveConversationConfirmation
<1> QED BY <1>4, <1>5, <1>6 DEF Request

\* A step to a row that fits keeps what the handlers are.
LEMMA GotoFits ==
    ASSUME LocalInv, NEW h \in Handlers, NEW row \in HandlerRow, RequestFits(row),
           agent.phase = "up", UNCHANGED agent, Goto(h, row)
    PROVE  handlers' \in [Handlers -> HandlerRow] /\ HandlersFit'
<1>1. /\ handlers' = [handlers EXCEPT ![h] = row]
      /\ handlers \in [Handlers -> HandlerRow]
  BY DEF Goto, LocalInv, ServiceTypeOK
<1>2. \A g \in Handlers : handlers'[g] = IF g = h THEN row ELSE handlers[g]
  BY <1>1
<1>3. \A g \in Handlers : RequestFits(handlers[g])
  BY DEF LocalInv, HandlersFit
<1>4. \A g \in Handlers : RequestFits(handlers'[g])
  BY <1>2, <1>3
<1> QED BY <1>1, <1>4 DEF HandlersFit

\* A step of an execution to one of its later pcs fits.
LEMMA ExecutionFits ==
    ASSUME NEW r, r.pc \in Executing \cup Tells, r.owner \in Owners,
           r.conversation \in Conversations, r.turn \in Turns,
           r.decision # "none" => r.confirmation \in ConfirmationIDs,
           r.pc = "tell_confirmation" => r.confirmation \in ConfirmationIDs
    PROVE  RequestFits(r)
BY DEF RequestFits, Executing, Tells

\* The row of a handler that serves, before its step.
LEMMA ServingRow ==
    ASSUME LocalInv, NEW h \in Handlers
    PROVE  handlers[h] \in HandlerRow /\ RequestFits(handlers[h])
BY DEF LocalInv, ServiceTypeOK, HandlersFit

\* The handlers whose row changes: every action of Serve goes to a row that
\* fits.
LEMMA ServeRow ==
    ASSUME LocalInv, NEW h \in Handlers, Serve(h)
    PROVE  /\ agent.phase = "up" /\ UNCHANGED <<clock, agent>>
           /\ \E row \in HandlerRow : /\ RequestFits(row) /\ Goto(h, row)
                                    /\ row.asOf \in {0, clock, handlers[h].asOf}
<1> DEFINE r == handlers[h]
           Fits(row) == /\ row \in HandlerRow /\ RequestFits(row)
                        /\ row.asOf \in {0, clock, r.asOf}
<1> USE DEF At
<1>1. r \in HandlerRow /\ RequestFits(r)
  BY ServingRow
<1>2. handlers = [handlers EXCEPT ![h] = r]
  BY DEF LocalInv, ServiceTypeOK
<1>3. CASE Get(h)
  <2>1. ASSUME NEW pc \in {"begin", "claim", "delete", "rename"},
               pc = "begin" => r.kind = "turn", pc = "claim" => r.kind = "confirm",
               r.pc = "get"
        PROVE  Fits(Step(h, pc))
    <3>1. pc \in PCs
      BY DEF PCs
    <3> QED BY <1>1, <2>1, <3>1, StepRow DEF RequestFits, Executing, Tells
  <2>2. r.pc = "get" /\ r.kind \in {"turn", "confirm", "delete", "rename"}
    BY <1>1, <1>3 DEF Get, RequestFits
  <2> HIDE DEF Fits
  <2>3. CASE r.kind = "turn"
    BY <2>1, <2>2, <2>3, <1>3 DEF Get, Fits
  <2>4. CASE r.kind = "confirm"
    BY <2>1, <2>2, <2>4, <1>3 DEF Get, Fits
  <2>5. CASE r.kind \in {"delete", "rename"}
    <3>1. Goto(h, Step(h, r.kind))
      BY <2>5, <1>3 DEF Get
    <3> QED BY <2>1, <2>2, <2>5, <3>1, <1>3 DEF Get, Fits
  <2> QED BY <2>2, <2>3, <2>4, <2>5
<1>4. CASE Respond(h) /\ agent.phase = "up" /\ UNCHANGED <<clock, agent>>
  <2>1. Idle.asOf = 0
    BY DEF Idle
  <2> QED BY <1>4, <2>1, IdleFits DEF Respond
<1>5. CASE PrepareTurn(h)
  <2>1. PICK t \in Turns : Goto(h, [Step(h, "load") EXCEPT !.turn = t])
    BY <1>5 DEF PrepareTurn
  <2> DEFINE row == Step(h, "load")
             after == [row EXCEPT !.turn = t]
  <2>2. /\ row \in HandlerRow /\ row.pc = "load" /\ row.owner = r.owner
        /\ row.conversation = r.conversation /\ row.decision = r.decision
        /\ row.asOf \in {0, clock}
    BY StepRow DEF PCs
  <2>3. /\ r.owner \in Owners /\ r.conversation \in Conversations
        /\ r.decision = "none" /\ r.pc = "begin"
    BY <1>1, <1>5 DEF PrepareTurn, RequestFits
  <2>4. after \in HandlerRow /\ after.pc = "load" /\ after.owner = row.owner
        /\ after.conversation = row.conversation /\ after.turn = t
        /\ after.decision = row.decision /\ after.asOf = row.asOf
    <3> HIDE DEF row
    <3> QED BY <2>2 DEF HandlerRow
  <2>5. RequestFits(after)
    <3> HIDE DEF after, row
    <3> QED BY <2>2, <2>3, <2>4, ExecutionFits DEF Executing
  <2> QED BY <1>5, <2>1, <2>2, <2>4, <2>5 DEF PrepareTurn
<1>6. CASE PrepareConfirmation(h)
  <2>1. Goto(h, Step(h, "load")) \/ Respond(h)
    BY <1>6 DEF PrepareConfirmation
  <2>2. Fits(Step(h, "load"))
    <3>1. /\ r.owner \in Owners /\ r.conversation \in Conversations /\ r.turn \in Turns
          /\ r.confirmation \in ConfirmationIDs
      BY <1>1, <1>6 DEF PrepareConfirmation, RequestFits
    <3> QED BY <3>1, StepRow, ExecutionFits DEF Executing, PCs
  <2> QED BY <1>4, <1>6, <2>1, <2>2 DEF PrepareConfirmation
<1>7. CASE LoadHistory(h)
  <2> DEFINE row == Step(h, "run")
             after == [row EXCEPT !.history = History(r.conversation)]
  <2>1. /\ row \in HandlerRow /\ row.pc = "run" /\ row.owner = r.owner
        /\ row.conversation = r.conversation /\ row.decision = r.decision
        /\ row.turn = r.turn /\ row.confirmation = r.confirmation
        /\ row.asOf \in {0, clock}
    BY StepRow DEF PCs
  <2>2. /\ r.owner \in Owners /\ r.conversation \in Conversations /\ r.turn \in Turns
        /\ r.decision # "none" => r.confirmation \in ConfirmationIDs
    BY <1>1, <1>7 DEF LoadHistory, RequestFits, Executing
  <2>3. History(r.conversation) \in SUBSET Turns
    BY DEF History, TurnsOf
  <2>4. after \in HandlerRow /\ after.pc = "run" /\ after.owner = row.owner
        /\ after.conversation = row.conversation /\ after.turn = row.turn
        /\ after.decision = row.decision /\ after.confirmation = row.confirmation
        /\ after.asOf = row.asOf
    <3> HIDE DEF row
    <3> QED BY <2>1, <2>3 DEF HandlerRow
  <2>5. RequestFits(after)
    <3> HIDE DEF after, row
    <3> QED BY <2>1, <2>2, <2>4, ExecutionFits DEF Executing
  <2> QED BY <1>7, <2>1, <2>4, <2>5 DEF LoadHistory
<1>8. CASE ApplyDecision(h)
  <2> DEFINE after == [r EXCEPT !.confirmation = NoConfirmation, !.decision = "none"]
  <2>1. /\ after \in HandlerRow /\ after.pc = r.pc /\ after.owner = r.owner
        /\ after.conversation = r.conversation /\ after.turn = r.turn
        /\ after.decision = "none" /\ after.asOf = r.asOf
    <3> HIDE DEF r
    <3> QED BY <1>1 DEF HandlerRow
  <2>2. /\ r.owner \in Owners /\ r.conversation \in Conversations /\ r.turn \in Turns
        /\ r.pc = "run"
    BY <1>1, <1>8 DEF ApplyDecision, RequestFits, Executing
  <2>3. RequestFits(after)
    <3> HIDE DEF after
    <3> QED BY <2>1, <2>2, ExecutionFits DEF Executing
  <2> QED BY <1>8, <2>1, <2>3 DEF ApplyDecision
<1>9. ASSUME NEW pc \in {"complete", "suspend", "fail", "tell_completed"},
             r.pc \in Executing
      PROVE  Fits(Step(h, pc))
  <2>1. /\ r.owner \in Owners /\ r.conversation \in Conversations /\ r.turn \in Turns
    BY <1>1, <1>9 DEF RequestFits, Executing
  <2>2. pc \in PCs
    BY DEF PCs
  <2> QED BY <2>1, <2>2, StepRow DEF RequestFits, Executing, Tells
<1>10. CASE RunEnds(h)
  BY <1>9, <1>10 DEF RunEnds, Executing
<1>11. CASE Abort(h)
  BY <1>9, <1>11 DEF Abort, Executing
<1>12. CASE Complete(h)
  BY <1>9, <1>12 DEF Complete, Executing
<1>13. CASE PersistenceFails(h)
  BY <1>9, <1>13 DEF PersistenceFails, Executing
<1>14. CASE Suspend(h)
  <2>1. PICK id \in ConfirmationIDs :
          Goto(h, [Step(h, "tell_confirmation") EXCEPT !.confirmation = id])
    BY <1>14 DEF Suspend
  <2> DEFINE row == Step(h, "tell_confirmation")
             after == [row EXCEPT !.confirmation = id]
  <2>2. /\ row \in HandlerRow /\ row.pc = "tell_confirmation" /\ row.owner = r.owner
        /\ row.conversation = r.conversation /\ row.turn = r.turn
        /\ row.asOf \in {0, clock}
    BY StepRow DEF PCs
  <2>3. /\ r.owner \in Owners /\ r.conversation \in Conversations /\ r.turn \in Turns
    BY <1>1, <1>14 DEF Suspend, RequestFits, Executing
  <2>4. after \in HandlerRow /\ after.pc = "tell_confirmation" /\ after.owner = row.owner
        /\ after.conversation = row.conversation /\ after.turn = row.turn
        /\ after.confirmation = id /\ after.asOf = row.asOf
    <3> HIDE DEF row
    <3> QED BY <2>2 DEF HandlerRow
  <2>5. RequestFits(after)
    <3> HIDE DEF after, row
    <3> QED BY <2>2, <2>3, <2>4, ExecutionFits DEF Tells
  <2> QED BY <1>14, <2>1, <2>2, <2>4, <2>5 DEF Suspend
<1>15. CASE Purge(h)
  <2> DEFINE after == [r EXCEPT !.pc = "create"]
  <2>1. handlers' = handlers \/ Goto(h, after) \/ Respond(h)
    BY <1>15 DEF Purge
  <2>2. after \in HandlerRow /\ after.pc = "create" /\ after.owner = r.owner
        /\ after.asOf = r.asOf
    <3> HIDE DEF r
    <3> QED BY <1>1 DEF HandlerRow
  <2>3. RequestFits(after)
    <3>1. r.owner \in Owners
      BY <1>1, <1>15 DEF Purge, RequestFits
    <3> HIDE DEF after
    <3> QED BY <2>2, <3>1, PurgeFits
  <2>4. handlers' = handlers => Goto(h, r)
    BY <1>2 DEF Goto
  <2> QED BY <1>1, <1>4, <1>15, <2>1, <2>2, <2>3, <2>4 DEF Purge
<1> QED
  BY <1>3, <1>4, <1>5, <1>6, <1>7, <1>8, <1>10, <1>11, <1>12, <1>13, <1>14, <1>15
     DEF Serve, Refuse, Fail, FailFails, Tell, Delete, UpdateTitle, Create

\* What a handler's step does to the history of the decisions.
LEMMA ServeHistory ==
    ASSUME LocalInv, NEW h \in Handlers, Serve(h)
    PROVE  /\ decided' \in [ConfirmationIDs -> Decisions \cup {"unused", "waiting"}]
           /\ ran' \in [ConfirmationIDs -> Nat]
           /\ stranded' \subseteq Turns
<1> DEFINE r == handlers[h]
<1> USE DEF At
<1>1. /\ decided \in [ConfirmationIDs -> Decisions \cup {"unused", "waiting"}]
      /\ ran \in [ConfirmationIDs -> Nat]
      /\ stranded \subseteq Turns
  BY DEF LocalInv, ServiceTypeOK
<1>2. RequestFits(r)
  BY ServingRow
<1>3. CASE PrepareConfirmation(h)
  BY <1>1, <1>2, <1>3 DEF PrepareConfirmation, RequestFits
<1>4. CASE ApplyDecision(h)
  <2>1. r.confirmation \in ConfirmationIDs
    BY <1>2, <1>4 DEF ApplyDecision, RequestFits
  <2>2. ran[r.confirmation] + 1 \in Nat
    BY <1>1, <2>1
  <2>3. CASE r.decision = "approve"
    <3>1. ran' = [ran EXCEPT ![r.confirmation] = ran[r.confirmation] + 1]
      BY <1>4, <2>3 DEF ApplyDecision
    <3> QED BY <1>1, <1>4, <2>1, <2>2, <3>1 DEF ApplyDecision
  <2>4. CASE r.decision # "approve"
    BY <1>1, <1>4, <2>4 DEF ApplyDecision
  <2> QED BY <2>3, <2>4
<1>5. CASE Suspend(h)
  BY <1>1, <1>5 DEF Suspend
<1>6. CASE FailFails(h)
  BY <1>1, <1>2, <1>6 DEF FailFails, RequestFits, Executing
<1>7. CASE UNCHANGED historyVars
  BY <1>1, <1>7
<1>8. \/ PrepareConfirmation(h) \/ ApplyDecision(h) \/ Suspend(h) \/ FailFails(h)
      \/ UNCHANGED historyVars
  <2> HIDE DEF historyVars, storeVars, At
  <2> QED
    BY DEF Serve, Get, Refuse, PrepareTurn, LoadHistory, RunEnds, Abort, Complete,
           PersistenceFails, Fail, Tell, Delete, UpdateTitle, Purge, Create
<1> QED BY <1>3, <1>4, <1>5, <1>6, <1>7, <1>8

\* Every step keeps the types and the shape of the handlers' rows.
LEMMA LocalStep == LocalInv /\ [Next]_vars => LocalInv'
<1> SUFFICES ASSUME LocalInv, [Next]_vars PROVE LocalInv'
  OBVIOUS
<1>1. ASSUME NEW h \in Handlers, Serve(h) PROVE LocalInv'
  <2>1. handlers' \in [Handlers -> HandlerRow] /\ HandlersFit'
    BY <1>1, ServeRow, GotoFits
  <2>2. clock' \in Nat /\ agent' \in [phase: {"down", "purging", "up"}, at: Nat]
    BY <1>1, ServeRow DEF LocalInv, ServiceTypeOK
  <2> QED BY <1>1, <2>1, <2>2, ServeHistory DEF LocalInv, ServiceTypeOK
<1>2. ASSUME NEW h \in Handlers, Request(h) PROVE LocalInv'
  <2>1. PICK row : Accept(h, row) /\ NewRequest(row)
    BY <1>2, RequestRow DEF LocalInv, ServiceTypeOK
  <2>2. handlers' \in [Handlers -> HandlerRow] /\ HandlersFit'
    BY <2>1, GotoFits DEF Accept, NewRequest, Goto
  <2> QED BY <2>1, <2>2 DEF LocalInv, ServiceTypeOK, Accept
<1>3. CASE Recover
  <2>1. agent' \in [phase: {"down", "purging", "up"}, at: Nat]
    BY <1>3 DEF LocalInv, ServiceTypeOK, Recover
  <2>2. HandlersFit'
    BY <1>3 DEF LocalInv, HandlersFit, Recover
  <2> QED BY <1>3, <2>1, <2>2 DEF LocalInv, ServiceTypeOK, Recover
<1>4. CASE StartupPurge
  <2>1. agent' \in [phase: {"down", "purging", "up"}, at: Nat]
    BY <1>4 DEF LocalInv, ServiceTypeOK, StartupPurge
  <2>2. HandlersFit'
    BY <1>4 DEF LocalInv, HandlersFit, StartupPurge
  <2> QED BY <1>4, <2>1, <2>2 DEF LocalInv, ServiceTypeOK, StartupPurge
<1>5. CASE Stop
  BY <1>5, IdleFits DEF LocalInv, ServiceTypeOK, HandlersFit, Stop
<1>6. CASE Tick
  BY <1>6 DEF LocalInv, ServiceTypeOK, HandlersFit, Tick
<1>7. CASE UNCHANGED vars
  BY <1>7 DEF LocalInv, ServiceTypeOK, HandlersFit, vars
<1> QED BY <1>1, <1>2, <1>3, <1>4, <1>5, <1>6, <1>7 DEF Next

\* The handlers always fit.
LEMMA LocalInvariant == Spec => []LocalInv
<1>1. Init => LocalInv
  <2> SUFFICES ASSUME Init PROVE LocalInv
    OBVIOUS
  <2> QED BY IdleFits DEF Init, LocalInv, ServiceTypeOK, HandlersFit
<1> QED BY <1>1, LocalStep, PTL DEF Spec

-------------------------------------------------------------------------------
(* The service keeps the types *)

\* Every variable of the process has its type, and every handler, whatever was
\* interleaved with it, has the fields its next step uses.
THEOREM ServiceTyped == Spec => []ServiceTypeOK
<1>1. LocalInv => ServiceTypeOK
  BY DEF LocalInv
<1> QED BY <1>1, LocalInvariant, PTL

-------------------------------------------------------------------------------
(* What a transaction leaves alone *)

\* The transaction does not reach the conversation d: its row keeps owner and
\* state, and its turns stay what they were.
Spared(d) ==
    /\ conversations'[d].state = conversations[d].state
    /\ conversations'[d].owner = conversations[d].owner
    /\ \A t \in Turns : turns[t].conversation = d \/ turns'[t].conversation = d
         => turns'[t] = turns[t]

\* The transaction is one on the turn t of the conversation c.
OnTurn(c, t) ==
    /\ \A d \in Conversations \ {c} : Spared(d)
    /\ conversations'[c].state = conversations[c].state
    /\ conversations'[c].owner = conversations[c].owner
    /\ turns'[t].conversation = c
    /\ \A u \in Turns \ {t} : /\ turns'[u].status = "running"
                                => turns[u].status = "running"
                              /\ turns'[u].startedAt = turns[u].startedAt

\* The transaction changes the status of the turn and no other turn.
StatusChange(c, t, status, at) ==
    /\ turns[t].conversation = c
    /\ turns' = [turns EXCEPT ![t].status = status]
    /\ \/ conversations' = conversations
       \/ conversations' = [conversations EXCEPT ![c].updatedAt = at]

\* A turn that only changes its status is the only one that changes.
LEMMA StatusSpares ==
    ASSUME StoreInv, NEW c \in Conversations, NEW t \in Turns,
           NEW status \in TurnStatus, NEW at \in Times,
           StatusChange(c, t, status, at)
    PROVE  /\ OnTurn(c, t)
           /\ turns'[t].status = status
           /\ turns'[t].startedAt = turns[t].startedAt
<1>1. /\ turns'[t].status = status
      /\ \A u \in Turns \ {t} : turns'[u] = turns[u]
      /\ \A u \in Turns : /\ turns'[u].conversation = turns[u].conversation
                         /\ turns'[u].startedAt = turns[u].startedAt
  BY StatusUpdate DEF StoreInv, StatusChange
<1>2. \A d \in Conversations : /\ conversations'[d].state = conversations[d].state
                            /\ conversations'[d].owner = conversations[d].owner
  BY TimeUpdate DEF StoreInv, StatusChange
<1>3. ASSUME NEW d \in Conversations \ {c} PROVE Spared(d)
  BY <1>1, <1>2 DEF Spared, StatusChange
<1> QED BY <1>1, <1>2, <1>3 DEF OnTurn, StatusChange

\* FailTurn ends the running turn.
LEMMA FailSpares ==
    ASSUME StoreInv, NEW o, NEW c \in Conversations, NEW t \in Turns,
           NEW status \in Terminal, NEW at \in Times, FailTurn(o, c, t, status, at)
    PROVE  /\ OnTurn(c, t)
           /\ turns'[t].status = status
           /\ turns'[t].startedAt = turns[t].startedAt
<1>1. status \in TurnStatus
  BY DEF TurnStatus
<1>2. StatusChange(c, t, status, at)
  BY DEF StatusChange, FailTurn, FailTurnAllowed, TurnIs
<1> QED BY <1>1, <1>2, StatusSpares

\* SuspendTurn makes the running turn wait.
LEMMA SuspendSpares ==
    ASSUME StoreInv, NEW o, NEW c \in Conversations, NEW t \in Turns,
           NEW id \in ConfirmationIDs, NEW at \in Times, NEW exp \in Times,
           SuspendTurn(o, c, t, id, at, exp)
    PROVE  /\ OnTurn(c, t)
           /\ turns'[t].status = "awaiting_confirmation"
           /\ turns'[t].startedAt = turns[t].startedAt
<1>1. "awaiting_confirmation" \in TurnStatus
  BY DEF TurnStatus, ActiveStatus
<1>2. StatusChange(c, t, "awaiting_confirmation", at)
  BY DEF StatusChange, SuspendTurn, SuspendTurnAllowed, TurnIs
<1> QED BY <1>1, <1>2, StatusSpares

\* ClaimConfirmation makes the waiting turn run again.
LEMMA ClaimSpares ==
    ASSUME StoreInv, NEW o, NEW c \in Conversations, NEW t \in Turns,
           NEW id \in ConfirmationIDs, NEW at \in Times,
           ClaimConfirmation(o, c, t, id, at)
    PROVE  /\ OnTurn(c, t)
           /\ turns'[t].status = "running"
           /\ turns'[t].startedAt = turns[t].startedAt
<1>1. "running" \in TurnStatus
  BY DEF TurnStatus, ActiveStatus
<1>2. StatusChange(c, t, "running", at)
  BY DEF StatusChange, ClaimConfirmation, Pending, TurnIs
<1> QED BY <1>1, <1>2, StatusSpares

\* A late decision fails the waiting turn.
LEMMA ClaimExpiredSpares ==
    ASSUME StoreInv, NEW o, NEW c \in Conversations, NEW t \in Turns,
           NEW id \in ConfirmationIDs, NEW at \in Times,
           ClaimExpired(o, c, t, id, at)
    PROVE  /\ OnTurn(c, t)
           /\ turns'[t].status = "failed"
           /\ turns'[t].startedAt = turns[t].startedAt
<1>1. "failed" \in TurnStatus
  BY DEF TurnStatus, Terminal
<1>2. StatusChange(c, t, "failed", at)
  BY DEF StatusChange, ClaimExpired, Pending, TurnIs
<1> QED BY <1>1, <1>2, StatusSpares

\* CompleteTurn completes the running turn.
LEMMA CompleteSpares ==
    ASSUME StoreInv, NEW o, NEW c \in Conversations, NEW t \in Turns,
           NEW at \in Times, NEW exp \in Times, NEW m \in Sizes, NEW b \in Sizes,
           CompleteTurn(o, c, t, at, exp, m, b)
    PROVE  /\ OnTurn(c, t)
           /\ turns'[t].status = "completed"
           /\ turns'[t].startedAt = turns[t].startedAt
<1>1. at \in Nat /\ exp \in Nat /\ m \in Nat /\ b \in Nat
  BY StoreConstants
<1>2. /\ turns'[t].status = "completed"
      /\ \A u \in Turns \ {t} : turns'[u] = turns[u]
      /\ \A u \in Turns : /\ turns'[u].conversation = turns[u].conversation
                         /\ turns'[u].startedAt = turns[u].startedAt
  BY <1>1, CompletedTurnUpdate DEF CompleteTurn, StoreInv
<1>3. /\ conversations'[c].state = conversations[c].state
      /\ conversations'[c].owner = conversations[c].owner
      /\ \A d \in Conversations \ {c} : conversations'[d] = conversations[d]
  BY <1>1, CompletedConversationUpdate DEF CompleteTurn, StoreInv
<1>4. turns[t].conversation = c
  BY DEF CompleteTurn, CompleteTurnAllowed, TurnIs
<1>5. ASSUME NEW d \in Conversations \ {c} PROVE Spared(d)
  BY <1>2, <1>3, <1>4 DEF Spared
<1> QED BY <1>2, <1>3, <1>4, <1>5 DEF OnTurn

\* BeginTurn fails the turn that waited too long and adds the new one.
LEMMA BeginSpares ==
    ASSUME StoreInv, NEW o, NEW c \in Conversations, NEW t \in Turns,
           NEW at \in Times, BeginTurn(o, c, t, at)
    PROVE  /\ OnTurn(c, t)
           /\ turns'[t].status = "running"
           /\ turns'[t].startedAt = at
           /\ turns[t].status = "unused" /\ turns[t].conversation \notin Conversations
           /\ \A u \in Turns \ {t} : /\ turns'[u].conversation = turns[u].conversation
                                     /\ turns'[u].status = "completed"
                                          <=> turns[u].status = "completed"
<1> DEFINE expired == ExpiredWaits(c, at)
<1>1. /\ turns[t].status = "unused"
      /\ \A u \in expired : /\ u \in Turns
                            /\ turns[u].conversation = c
                            /\ turns[u].status = "awaiting_confirmation"
  BY DEF BeginTurn, ExpiredWaits, Waiting, TurnsOf
<1>2. turns[t].conversation \notin Conversations
  BY <1>1 DEF StoreInv, TurnInv, RowsNameConversation, TurnStatus, ActiveStatus,
              Terminal
<1>3. /\ turns'[t] = [status |-> "running", conversation |-> c,
                      sequence |-> NextSequence(c), startedAt |-> at,
                      messages |-> 0, bytes |-> 0]
      /\ \A u \in Turns \ {t} : turns'[u] =
           IF u \in expired THEN [turns[u] EXCEPT !.status = "failed"] ELSE turns[u]
  BY <1>1 DEF BeginTurn, expired
<1>4. \A u \in Turns : turns[u] \in TurnRow
  BY DEF StoreInv, StoreTypeOK
<1> HIDE DEF expired
<1>5. /\ turns'[t].status = "running" /\ turns'[t].startedAt = at
      /\ turns'[t].conversation = c
  BY <1>3
<1>6. ASSUME NEW u \in Turns \ {t}
      PROVE  /\ turns'[u].conversation = turns[u].conversation
             /\ turns'[u].startedAt = turns[u].startedAt
             /\ turns'[u].status = IF u \in expired THEN "failed" ELSE turns[u].status
  <2>1. turns[u] \in TurnRow
    BY <1>4
  <2>2. [turns[u] EXCEPT !.status = "failed"].conversation = turns[u].conversation
        /\ [turns[u] EXCEPT !.status = "failed"].startedAt = turns[u].startedAt
        /\ [turns[u] EXCEPT !.status = "failed"].status = "failed"
    BY <2>1 DEF TurnRow
  <2> QED BY <2>2, <1>3
<1>7. \A d \in Conversations : /\ conversations'[d].state = conversations[d].state
                            /\ conversations'[d].owner = conversations[d].owner
  BY TimeUpdate DEF BeginTurn, StoreInv
<1>8. ASSUME NEW d \in Conversations \ {c} PROVE Spared(d)
  <2>1. ASSUME NEW u \in Turns, turns[u].conversation = d \/ turns'[u].conversation = d
        PROVE  turns'[u] = turns[u]
    <3>1. u # t
      BY <1>2, <1>5, <2>1
    <3>2. u \notin expired
      BY <1>1, <1>6, <2>1, <3>1
    <3> QED BY <1>3, <3>1, <3>2
  <2> QED BY <1>7, <2>1 DEF Spared
<1>9. \A u \in Turns \ {t} : turns'[u].status = "completed"
                               <=> turns[u].status = "completed"
  BY <1>1, <1>6
<1>10. \A u \in Turns \ {t} : turns'[u].status = "running"
                                => turns[u].status = "running"
  BY <1>6
<1>11. OnTurn(c, t)
  BY <1>5, <1>6, <1>7, <1>8, <1>10 DEF OnTurn
<1> QED BY <1>1, <1>2, <1>5, <1>6, <1>9, <1>11

\* A transaction on conversations creates no running turn and starts none.
OnConversations ==
    /\ \A u \in Turns : turns'[u].status = "running" => turns[u].status = "running"
    /\ \A u \in Turns : turns'[u].startedAt \in {0, turns[u].startedAt}
    /\ \A u \in Turns : turns[u].status = "running" => turns'[u] = turns[u]
    /\ \A d \in Conversations : Running(d) # {} => Spared(d)

\* Neither an expiry nor a deletion reaches a conversation under a running turn.
LEMMA RemoveSpares ==
    ASSUME StoreInv, NEW D \in SUBSET Conversations, Remove(D),
           \A d \in D : Running(d) = {}
    PROVE  OnConversations
<1>1. /\ \A c \in Conversations : conversations'[c] =
           IF c \in D THEN NoConversationRow("deleted") ELSE conversations[c]
      /\ \A t \in Turns : turns'[t] =
           IF turns[t].conversation \in D THEN NoTurnRow("deleted") ELSE turns[t]
  BY DEF Remove
<1>2. NoTurnRow("deleted").status = "deleted" /\ NoTurnRow("deleted").startedAt = 0
      /\ NoTurnRow("deleted").conversation = NoConversation
  BY DEF NoTurnRow
<1>3. ASSUME NEW d \in Conversations, Running(d) # {} PROVE Spared(d)
  <2>1. d \notin D /\ d # NoConversation
    BY <1>3, StoreConstants
  <2> QED BY <1>1, <1>2, <2>1 DEF Spared
<1>4. \A u \in Turns : turns[u].status = "running" => turns[u].conversation \notin D
  BY DEF Running, TurnsOf
<1> QED BY <1>1, <1>2, <1>3, <1>4 DEF OnConversations

\* A rename changes no turn.
LEMMA RenameSpares ==
    ASSUME StoreInv, NEW o, NEW c \in Conversations, NEW at \in Times,
           UpdateConversationTitle(o, c, at)
    PROVE  OnConversations
<1>1. turns' = turns
  BY DEF UpdateConversationTitle
<1>2. \A d \in Conversations : /\ conversations'[d].state = conversations[d].state
                            /\ conversations'[d].owner = conversations[d].owner
  BY DEF UpdateConversationTitle, StoreInv, StoreTypeOK, ConversationRow
<1> QED BY <1>1, <1>2 DEF OnConversations, Spared

\* A new conversation has no turns.
LEMMA CreateSpares ==
    ASSUME StoreInv, NEW o, NEW c \in Conversations, NEW at \in Times,
           NEW exp \in Times, CreateConversation(o, c, at, exp)
    PROVE  OnConversations
<1>1. turns' = turns /\ conversations[c].state = "unused"
  BY DEF CreateConversation
<1>2. \A d \in Conversations \ {c} : conversations'[d] = conversations[d]
  BY DEF CreateConversation
<1>3. Running(c) = {}
  BY <1>1 DEF Running, TurnsOf, StoreInv, TurnInv, TurnsHaveConversation, TurnStatus,
              ActiveStatus
<1>4. ASSUME NEW d \in Conversations, Running(d) # {} PROVE Spared(d)
  <2>1. conversations'[d] = conversations[d]
    BY <1>2, <1>3, <1>4
  <2> QED BY <1>1, <2>1 DEF Spared
<1> QED BY <1>1, <1>4 DEF OnConversations

\* The purge of expired conversations spares those under a running turn.
LEMMA ExpirySpares ==
    ASSUME StoreInv, NEW D \in SUBSET Conversations, NEW at, NEW limit,
           DeleteExpired(D, at, limit)
    PROVE  OnConversations
<1>1. Remove(D) /\ \A d \in D : Running(d) = {}
  BY DEF DeleteExpired, ExpiredBatch, Expired
<1> QED BY <1>1, RemoveSpares

\* So does a deletion its owner asks for.
LEMMA DeletionSpares ==
    ASSUME StoreInv, NEW o, NEW c \in Conversations, DeleteConversation(o, c)
    PROVE  OnConversations
<1>1. Remove({c}) /\ \A d \in {c} : Running(d) = {}
  BY DEF DeleteConversation
<1> QED BY <1>1, RemoveSpares

-------------------------------------------------------------------------------
(* The clock, and the store under the service *)

\* No time stamp is ahead of the clock.
TimesOrdered ==
    /\ clock <= MaxClock
    /\ agent.at <= clock
    /\ \A h \in Handlers : handlers[h].asOf <= clock
    /\ \A t \in Turns : turns[t].startedAt <= clock

ServiceInv == StoreInv /\ LocalInv /\ TimesOrdered

\* The times a handler passes are times the store takes.
LEMMA StampsFit ==
    ASSUME LocalInv, TimesOrdered, NEW h \in Handlers, NEW at \in Stamps(h)
    PROVE  /\ at \in Times /\ at \in Nat /\ at <= clock /\ handlers[h].asOf <= at
           /\ at + Lifetime \in Times /\ at + ConfirmationLifetime \in Times
<1>1. handlers[h].asOf \in Nat /\ clock \in Nat
  BY ServingRow DEF HandlerRow, LocalInv, ServiceTypeOK
<1>2. at \in handlers[h].asOf .. clock
  BY DEF Stamps
<1>3. at \in Nat /\ at <= clock /\ handlers[h].asOf <= at
  BY <1>1, <1>2
<1>4. MaxClock \in Nat /\ Lifetime \in Nat /\ ConfirmationLifetime \in Nat
      /\ clock <= MaxClock
  BY ServiceConstants DEF TimesOrdered
<1>5. /\ at \in 0 .. (MaxClock + Lifetime + ConfirmationLifetime)
      /\ at + Lifetime \in 0 .. (MaxClock + Lifetime + ConfirmationLifetime)
      /\ at + ConfirmationLifetime \in 0 .. (MaxClock + Lifetime + ConfirmationLifetime)
  BY <1>1, <1>3, <1>4
<1> QED BY <1>3, <1>5, ServiceConstants

\* The time a handler read before its purge is one of them.
LEMMA AsOfFits ==
    ASSUME LocalInv, TimesOrdered, NEW h \in Handlers
    PROVE  handlers[h].asOf \in Stamps(h)
<1>1. handlers[h].asOf \in Nat /\ clock \in Nat
  BY ServingRow DEF HandlerRow, LocalInv, ServiceTypeOK
<1>2. handlers[h].asOf <= clock
  BY DEF TimesOrdered
<1> QED BY <1>1, <1>2 DEF Stamps

\* So is the clock when it is read now, and the time of the startup purge.
LEMMA ClockFits ==
    ASSUME LocalInv, TimesOrdered
    PROVE  clock \in Times /\ agent.at \in Times
<1>1. agent.at \in Nat /\ clock \in Nat
  BY DEF LocalInv, ServiceTypeOK
<1>2. agent.at <= clock /\ clock <= MaxClock
  BY DEF TimesOrdered
<1>3. MaxClock \in Nat /\ Lifetime \in Nat /\ ConfirmationLifetime \in Nat
  BY ServiceConstants
<1>4. /\ clock \in 0 .. (MaxClock + Lifetime + ConfirmationLifetime)
      /\ agent.at \in 0 .. (MaxClock + Lifetime + ConfirmationLifetime)
  BY <1>1, <1>2, <1>3
<1> QED BY <1>4, ServiceConstants

\* A conversation whose turn waits has none that runs.
LEMMA WaitingExcludesRunning ==
    ASSUME StoreInv, NEW c \in Conversations, NEW t \in Turns,
           TurnIs(c, t, "awaiting_confirmation")
    PROVE  Running(c) = {}
<1>1. ASSUME NEW u \in Running(c) PROVE FALSE
  <2>1. /\ turns[u].status = "running" /\ turns[u].conversation = c /\ u \in Turns
        /\ turns[t].status = "awaiting_confirmation" /\ turns[t].conversation = c
    BY DEF Running, TurnsOf, TurnIs
  <2>2. u = t
    BY <2>1 DEF StoreInv, TurnInv, OneActiveTurn, ActiveStatus
  <2> QED BY <2>1, <2>2
<1> QED BY <1>1

\* What a handler does to the store: nothing, a transaction on conversations,
\* or one on the turn it works for.
LEMMA ServeTransaction ==
    ASSUME ServiceInv, NEW h \in Handlers, Serve(h)
    PROVE  /\ [StoreNext]_storeVars
           /\ \/ UNCHANGED storeVars
              \/ OnConversations
              \/ \E t \in Turns :
                   /\ handlers[h].conversation \in Conversations
                   /\ OnTurn(handlers[h].conversation, t)
                   /\ turns'[t].startedAt \in Stamps(h) \cup {turns[t].startedAt}
                   /\ \/ handlers[h].pc \in Executing
                      \/ Running(handlers[h].conversation) = {}
<1> DEFINE r == handlers[h]
<1> USE DEF At, ServiceInv
<1> HIDE DEF storeVars, processVars, historyVars
<1>1. r \in HandlerRow /\ RequestFits(r)
  BY ServingRow
<1>2. /\ r.pc # "idle" => r.owner \in Owners
      /\ r.pc \notin {"idle", "purge", "create"} => r.conversation \in Conversations
      /\ r.pc \in Executing => r.turn \in Turns
      /\ r.pc = "claim" => r.turn \in Turns /\ r.confirmation \in ConfirmationIDs
  BY <1>1 DEF RequestFits
<1>3. CASE PrepareTurn(h)
  <2>1. PICK t \in Turns, at \in Stamps(h) : BeginTurn(r.owner, r.conversation, t, at)
    BY <1>3 DEF PrepareTurn
  <2>2. at \in Times
    BY <2>1, StampsFit
  <2>3. r.owner \in Owners /\ r.conversation \in Conversations
    BY <1>2, <1>3 DEF PrepareTurn
  <2>4. StoreNext
    BY <2>1, <2>2, <2>3 DEF StoreNext, TurnStep
  <2>5. OnTurn(r.conversation, t) /\ turns'[t].startedAt = at
    BY <2>1, <2>2, <2>3, BeginSpares
  <2>6. Running(r.conversation) = {}
    BY <2>1 DEF BeginTurn, BeginTurnAllowed
  <2> QED BY <2>1, <2>3, <2>4, <2>5, <2>6
<1>4. CASE PrepareConfirmation(h)
  <2>1. PICK at \in Stamps(h) :
          \/ ClaimConfirmation(r.owner, r.conversation, r.turn, r.confirmation, at)
          \/ ClaimExpired(r.owner, r.conversation, r.turn, r.confirmation, at)
    BY <1>4 DEF PrepareConfirmation
  <2>2. at \in Times
    BY <2>1, StampsFit
  <2>3. /\ r.owner \in Owners /\ r.conversation \in Conversations /\ r.turn \in Turns
        /\ r.confirmation \in ConfirmationIDs
    BY <1>2, <1>4 DEF PrepareConfirmation
  <2>4. StoreNext
    BY <2>1, <2>2, <2>3 DEF StoreNext, TurnStep
  <2>5. OnTurn(r.conversation, r.turn)
        /\ turns'[r.turn].startedAt = turns[r.turn].startedAt
    BY <2>1, <2>2, <2>3, ClaimSpares, ClaimExpiredSpares
  <2>6. Running(r.conversation) = {}
    BY <2>1, <2>3, WaitingExcludesRunning DEF ClaimConfirmation, ClaimExpired, Pending
  <2> QED BY <2>3, <2>4, <2>5, <2>6
<1>5. CASE Complete(h)
  <2>1. PICK at \in Stamps(h), m \in Sizes, b \in Sizes :
          CompleteTurn(r.owner, r.conversation, r.turn, at, at + Lifetime, m, b)
    BY <1>5 DEF Complete
  <2>2. at \in Times /\ at + Lifetime \in Times
    BY <2>1, StampsFit
  <2>3. /\ r.owner \in Owners /\ r.conversation \in Conversations /\ r.turn \in Turns
    BY <1>2, <1>5 DEF Complete, Executing
  <2>4. StoreNext
    BY <2>1, <2>2, <2>3 DEF StoreNext, TurnStep
  <2>5. OnTurn(r.conversation, r.turn)
        /\ turns'[r.turn].startedAt = turns[r.turn].startedAt
    BY <2>1, <2>2, <2>3, CompleteSpares
  <2>6. r.pc \in Executing
    BY <1>5 DEF Complete, Executing
  <2> QED BY <2>3, <2>4, <2>5, <2>6
<1>6. CASE Suspend(h)
  <2>1. PICK at \in Stamps(h), id \in ConfirmationIDs :
          SuspendTurn(r.owner, r.conversation, r.turn, id, at,
                      at + ConfirmationLifetime)
    BY <1>6 DEF Suspend
  <2>2. at \in Times /\ at + ConfirmationLifetime \in Times
    BY <2>1, StampsFit
  <2>3. /\ r.owner \in Owners /\ r.conversation \in Conversations /\ r.turn \in Turns
    BY <1>2, <1>6 DEF Suspend, Executing
  <2>4. StoreNext
    BY <2>1, <2>2, <2>3 DEF StoreNext, TurnStep
  <2>5. OnTurn(r.conversation, r.turn)
        /\ turns'[r.turn].startedAt = turns[r.turn].startedAt
    BY <2>1, <2>2, <2>3, SuspendSpares
  <2>6. r.pc \in Executing
    BY <1>6 DEF Suspend, Executing
  <2> QED BY <2>3, <2>4, <2>5, <2>6
<1>7. CASE Fail(h)
  <2>1. PICK at \in Stamps(h), status \in {"failed", "canceled"} :
          FailTurn(r.owner, r.conversation, r.turn, status, at)
    BY <1>7 DEF Fail
  <2>2. at \in Times /\ status \in Terminal \ {"completed"} /\ status \in Terminal
    BY <2>1, StampsFit DEF Terminal
  <2>3. /\ r.owner \in Owners /\ r.conversation \in Conversations /\ r.turn \in Turns
    BY <1>2, <1>7 DEF Fail, Executing
  <2>4. StoreNext
    BY <2>1, <2>2, <2>3 DEF StoreNext, TurnStep
  <2>5. OnTurn(r.conversation, r.turn)
        /\ turns'[r.turn].startedAt = turns[r.turn].startedAt
    BY <2>1, <2>2, <2>3, FailSpares
  <2>6. r.pc \in Executing
    BY <1>7 DEF Fail, Executing
  <2> QED BY <2>3, <2>4, <2>5, <2>6
<1>8. CASE Delete(h)
  <2>1. /\ DeleteConversation(r.owner, r.conversation)
        /\ r.owner \in Owners /\ r.conversation \in Conversations
    BY <1>2, <1>8 DEF Delete
  <2>2. StoreNext
    BY <2>1 DEF StoreNext, ConversationStep
  <2> QED BY <2>1, <2>2, DeletionSpares
<1>9. CASE UpdateTitle(h)
  <2>1. PICK at \in Stamps(h) : UpdateConversationTitle(r.owner, r.conversation, at)
    BY <1>9 DEF UpdateTitle
  <2>2. at \in Times /\ r.owner \in Owners /\ r.conversation \in Conversations
    BY <1>2, <1>9, <2>1, StampsFit DEF UpdateTitle
  <2>3. StoreNext
    BY <2>1, <2>2 DEF StoreNext, ConversationStep
  <2> QED BY <2>1, <2>2, <2>3, RenameSpares
<1>10. CASE Purge(h)
  <2>1. PICK D \in SUBSET Conversations : DeleteExpired(D, r.asOf, ExpiryDeleteBatch)
    BY <1>10 DEF Purge
  <2>2. r.asOf \in Times /\ ExpiryDeleteBatch \in 1 .. MaxConversations
    BY AsOfFits, StampsFit, ServiceConstants
  <2>3. StoreNext
    BY <2>1, <2>2 DEF StoreNext, ConversationStep
  <2> QED BY <2>1, <2>3, ExpirySpares
<1>11. CASE Create(h)
  <2>1. PICK c \in Conversations :
          CreateConversation(r.owner, c, r.asOf, r.asOf + Lifetime)
    BY <1>11 DEF Create
  <2>2. r.asOf \in Times /\ r.asOf + Lifetime \in Times /\ r.owner \in Owners
    BY <1>2, <1>11, AsOfFits, StampsFit DEF Create
  <2>3. StoreNext
    BY <2>1, <2>2 DEF StoreNext, ConversationStep
  <2> QED BY <2>1, <2>2, <2>3, CreateSpares
<1>12. CASE UNCHANGED storeVars
  BY <1>12
<1> QED
  BY <1>3, <1>4, <1>5, <1>6, <1>7, <1>8, <1>9, <1>10, <1>11, <1>12
     DEF Serve, Get, Refuse, LoadHistory, ApplyDecision, RunEnds, Abort,
         PersistenceFails, FailFails, Tell

\* Recovery changes the status of turns, not when they started.
LEMMA RecoverEffect ==
    ASSUME StoreInv, NEW at, RecoverInterrupted(at)
    PROVE  \A t \in Turns : /\ turns'[t].startedAt = turns[t].startedAt
                            /\ turns'[t].status # "running"
<1> SUFFICES ASSUME NEW t \in Turns
             PROVE  /\ turns'[t].startedAt = turns[t].startedAt
                    /\ turns'[t].status # "running"
  OBVIOUS
<1>1. turns[t] \in TurnRow
  BY DEF StoreInv, StoreTypeOK
<1>2. turns'[t] = IF turns[t].status = "running"
        THEN [turns[t] EXCEPT !.status = "interrupted"] ELSE turns[t]
  BY DEF RecoverInterrupted
<1> QED BY <1>1, <1>2 DEF TurnRow

\* Every step of the service is a transaction of the store or leaves it alone.
LEMMA ServiceStoreStep ==
    ASSUME ServiceInv, [Next]_vars
    PROVE  [StoreNext]_storeVars
<1> USE DEF ServiceInv
<1> HIDE DEF storeVars, processVars, historyVars
<1>1. ASSUME NEW h \in Handlers, Serve(h) PROVE [StoreNext]_storeVars
  BY <1>1, ServeTransaction
<1>2. ASSUME NEW h \in Handlers, Request(h) PROVE UNCHANGED storeVars
  BY <1>2, RequestRow DEF Accept, LocalInv, ServiceTypeOK
<1>3. CASE Recover
  BY <1>3, ClockFits DEF Recover, StoreNext
<1>4. CASE StartupPurge
  <2>1. PICK D \in SUBSET Conversations :
          DeleteExpired(D, agent.at, ExpiryDeleteBatch)
    BY <1>4 DEF StartupPurge
  <2> QED BY <2>1, ClockFits, ServiceConstants DEF StoreNext, ConversationStep
<1>5. CASE Stop \/ Tick \/ UNCHANGED vars
  BY <1>5 DEF Stop, Tick, vars
<1> QED BY <1>1, <1>2, <1>3, <1>4, <1>5 DEF Next

\* The clock runs forward, and every time stamp is read from it.
LEMMA TimesStep ==
    ASSUME ServiceInv, [Next]_vars
    PROVE  TimesOrdered'
<1> USE DEF ServiceInv
<1>1. /\ clock \in Nat /\ agent.at \in Nat /\ MaxClock \in Nat
      /\ \A h \in Handlers : handlers[h].asOf \in Nat
      /\ \A t \in Turns : turns[t].startedAt \in Nat
      /\ handlers \in [Handlers -> HandlerRow]
  BY ServiceConstants
     DEF LocalInv, ServiceTypeOK, HandlerRow, StoreTypeOK, StoreInv, TurnRow
<1>2. /\ clock <= MaxClock /\ agent.at <= clock
      /\ \A h \in Handlers : handlers[h].asOf <= clock
      /\ \A t \in Turns : turns[t].startedAt <= clock
  BY DEF TimesOrdered
<1>3. ASSUME NEW h \in Handlers, NEW row, Goto(h, row),
             row.asOf \in {0, clock, handlers[h].asOf}
      PROVE  \A g \in Handlers : handlers'[g].asOf <= clock
  BY <1>1, <1>2, <1>3 DEF Goto
<1>4. ASSUME NEW h \in Handlers, Serve(h) PROVE TimesOrdered'
  <2>1. UNCHANGED <<clock, agent>>
        /\ \A g \in Handlers : handlers'[g].asOf <= clock
    BY <1>3, <1>4, ServeRow
  <2>2. \A t \in Turns : turns'[t].startedAt <= clock
    <3>1. CASE UNCHANGED storeVars
      BY <1>2, <3>1 DEF storeVars
    <3>2. CASE OnConversations
      BY <1>1, <1>2, <3>2 DEF OnConversations
    <3>3. ASSUME NEW c \in Conversations, NEW t \in Turns, OnTurn(c, t),
                 turns'[t].startedAt \in Stamps(h) \cup {turns[t].startedAt}
          PROVE  \A u \in Turns : turns'[u].startedAt <= clock
      <4>1. turns'[t].startedAt <= clock
        BY <1>2, <3>3, StampsFit
      <4> QED BY <1>2, <3>3, <4>1 DEF OnTurn
    <3> QED BY <1>4, <3>1, <3>2, <3>3, ServeTransaction
  <2> QED BY <1>2, <2>1, <2>2 DEF TimesOrdered
<1>5. ASSUME NEW h \in Handlers, Request(h) PROVE TimesOrdered'
  <2>1. PICK row : Accept(h, row) /\ NewRequest(row)
    BY <1>1, <1>5, RequestRow
  <2>2. /\ UNCHANGED <<turns, clock, agent>>
        /\ \A g \in Handlers : handlers'[g].asOf <= clock
    BY <1>3, <2>1 DEF Accept, NewRequest, Goto, storeVars
  <2> QED BY <1>2, <2>2 DEF TimesOrdered
<1>6. CASE Recover
  <2>1. \A t \in Turns : turns'[t].startedAt <= clock
    BY <1>2, <1>6, RecoverEffect DEF Recover
  <2> QED BY <1>1, <1>2, <1>6, <2>1 DEF TimesOrdered, Recover
<1>7. CASE StartupPurge
  <2>1. PICK D \in SUBSET Conversations :
          DeleteExpired(D, agent.at, ExpiryDeleteBatch)
    BY <1>7 DEF StartupPurge
  <2>2. OnConversations
    BY <2>1, ExpirySpares
  <2>3. \A t \in Turns : turns'[t].startedAt <= clock
    BY <1>1, <1>2, <2>2 DEF OnConversations
  <2>4. agent'.at <= clock
    BY <1>1, <1>2, <1>7 DEF StartupPurge
  <2> QED BY <1>2, <1>7, <2>3, <2>4 DEF TimesOrdered, StartupPurge
<1>8. CASE Stop
  <2>1. Idle.asOf = 0
    BY DEF Idle
  <2> QED BY <1>1, <1>2, <1>8, <2>1 DEF TimesOrdered, Stop, storeVars
<1>9. CASE Tick
  <2>1. UNCHANGED <<turns, agent, handlers>> /\ clock' = clock + 1 /\ clock < MaxClock
    BY <1>9 DEF Tick, storeVars
  <2> QED BY <1>1, <1>2, <2>1 DEF TimesOrdered
<1>10. CASE UNCHANGED vars
  BY <1>2, <1>10 DEF TimesOrdered, vars, storeVars
<1> QED BY <1>4, <1>5, <1>6, <1>7, <1>8, <1>9, <1>10 DEF Next

\* The invariant that the service and its store keep together.
LEMMA ServiceInvariant == Spec => []ServiceInv
<1>1. Init => ServiceInv
  <2> SUFFICES ASSUME Init PROVE ServiceInv
    OBVIOUS
  <2>1. StoreInv
    BY StoreInitInv DEF Init
  <2>2. LocalInv
    BY IdleFits DEF Init, LocalInv, ServiceTypeOK, HandlersFit
  <2>3. TimesOrdered
    <3>1. MaxClock \in Nat
      BY ServiceConstants
    <3>2. \A t \in Turns : turns[t].startedAt = 0
      BY DEF Init, StoreInit, NoTurnRow
    <3>3. Idle.asOf = 0
      BY DEF Idle
    <3> QED BY <3>1, <3>2, <3>3 DEF Init, TimesOrdered
  <2> QED BY <2>1, <2>2, <2>3 DEF ServiceInv
<1>2. ServiceInv /\ [Next]_vars => ServiceInv'
  BY ServiceStoreStep, StoreStepInv, LocalStep, TimesStep DEF ServiceInv
<1> QED BY <1>1, <1>2, PTL DEF Spec

\* The service implements the store's specification: whatever the handlers,
\* the startup, the clock and a crash do, the database only ever takes the
\* steps of ConversationStore, with arguments that specification allows.
THEOREM ServiceImplementsStore == Spec => StoreSpec
<1>1. Init => StoreInit
  BY DEF Init
<1>2. ServiceInv /\ [Next]_vars => [StoreNext]_storeVars
  BY ServiceStoreStep
<1> QED BY <1>1, <1>2, ServiceInvariant, PTL DEF Spec, StoreSpec

\* So whatever was proved of the database alone holds under its service.
THEOREM ServiceKeepsStoreProperties ==
    Spec => /\ [](/\ OneActiveTurn /\ WaitingHasConfirmation
                  /\ TurnsHaveConversation /\ BytesAccounted)
            /\ OutcomeIsFinal /\ HistoryGrowsAtEnd /\ RenameKept
<1>1. StoreSpec => [](/\ OneActiveTurn /\ WaitingHasConfirmation
                      /\ TurnsHaveConversation /\ BytesAccounted)
  BY StoreOneActiveTurn, StoreWaitingHasConfirmation, StoreTurnsHaveConversation,
     StoreBytesAccounted, PTL
<1> QED BY <1>1, ServiceImplementsStore, StoreOutcomeIsFinal, StoreHistoryGrowsAtEnd,
           StoreRenameKept

-------------------------------------------------------------------------------
(* Executions *)

\* What ExecutionOwnsTurn says of one handler, without its being the only one.
OwnsTurn(h) ==
    LET r == handlers[h]
    IN  /\ Owned(r.owner, r.conversation)
        /\ TurnIs(r.conversation, r.turn, "running")
        /\ r.pc \in {"complete", "suspend", "fail"}
             => turns[r.turn].startedAt <= r.asOf

HasHistory(h) ==
    handlers[h].pc \in {"run", "complete", "suspend"} =>
        handlers[h].history = History(handlers[h].conversation)

OneExecution ==
    \A g, h \in Handlers :
        /\ handlers[g].pc \in Executing /\ handlers[h].pc \in Executing
        /\ handlers[g].conversation = handlers[h].conversation
        => g = h

ExecutionInv ==
    /\ \A h \in Handlers : handlers[h].pc \in Executing => OwnsTurn(h)
    /\ OneExecution
    /\ RunningHasExecution
    /\ HistoryIsCurrent

\* The rows of the other handlers stay as they are.
LEMMA OthersWait ==
    ASSUME LocalInv, NEW h \in Handlers, NEW row, Goto(h, row)
    PROVE  /\ handlers'[h] = row
           /\ \A g \in Handlers \ {h} : handlers'[g] = handlers[g]
BY DEF Goto, LocalInv, ServiceTypeOK

\* An execution in a conversation that is spared goes on as it was.
LEMMA SparedExecution ==
    ASSUME ServiceInv, NEW g \in Handlers, handlers[g].pc \in Executing,
           OwnsTurn(g), HasHistory(g), handlers'[g] = handlers[g],
           Spared(handlers[g].conversation)
    PROVE  OwnsTurn(g)' /\ HasHistory(g)'
<1> DEFINE r == handlers[g]
           c == r.conversation
<1>1. /\ c \in Conversations /\ r.turn \in Turns
  BY ServingRow DEF ServiceInv, RequestFits, Executing
<1>2. turns'[r.turn] = turns[r.turn]
  BY <1>1 DEF Spared, OwnsTurn, TurnIs
<1>3. OwnsTurn(g)'
  BY <1>1, <1>2 DEF OwnsTurn, TurnIs, Owned, Spared
<1>4. History(c)' = History(c)
  BY DEF History, TurnsOf, Spared
<1> QED BY <1>3, <1>4 DEF HasHistory

\* What the step of a handler does to its own execution: before and after it,
\* the running turns are those that are executed.
SelfKept(h) ==
    /\ handlers'[h].pc \in Executing =>
         /\ OwnsTurn(h)'
         /\ handlers'[h].conversation = handlers[h].conversation
         /\ handlers[h].pc \in Executing \/ Running(handlers[h].conversation) = {}
    /\ HasHistory(h)'
    /\ stranded \subseteq stranded'
    /\ \A u \in Turns : turns'[u].status = "running" =>
         turns[u].status = "running" \/ Executes(h, u)'
    /\ \A u \in Turns : Executes(h, u) /\ turns'[u].status = "running" =>
         u \in stranded' \/ Executes(h, u)'

\* The lookup is followed by what the request is for.
LEMMA GetRoutes ==
    ASSUME LocalInv, NEW h \in Handlers, Get(h)
    PROVE  \E pc \in {"begin", "claim", "delete", "rename"} : Goto(h, Step(h, pc))
<1> DEFINE r == handlers[h]
<1>1. r.kind \in {"turn", "confirm", "delete", "rename"}
  BY ServingRow DEF Get, At, RequestFits
<1>2. CASE r.kind = "turn"
  BY <1>2 DEF Get
<1>3. CASE r.kind = "confirm"
  BY <1>3 DEF Get
<1>4. CASE r.kind \in {"delete", "rename"}
  <2>1. Goto(h, Step(h, r.kind))
    BY <1>4 DEF Get
  <2> QED BY <1>4, <2>1
<1> QED BY <1>1, <1>2, <1>3, <1>4

\* The steps of a handler that executes nothing lead to no execution.
LEMMA OutsideRow ==
    ASSUME LocalInv, NEW h \in Handlers,
           \/ Get(h) \/ Refuse(h) \/ Tell(h) \/ Delete(h) \/ UpdateTitle(h)
           \/ Purge(h) \/ Create(h)
    PROVE  handlers'[h].pc \notin Executing
<1> DEFINE r == handlers[h]
<1> USE DEF At
<1>1. Idle.pc = "idle"
  BY DEF Idle
<1>2. CASE Goto(h, Idle)
  BY <1>1, <1>2, OthersWait DEF Executing
<1>3. CASE Get(h)
  <2>1. PICK pc \in {"begin", "claim", "delete", "rename"} : Goto(h, Step(h, pc))
    BY <1>3, GetRoutes
  <2>2. pc \in PCs
    BY <2>1 DEF PCs
  <2>3. handlers'[h].pc = pc
    BY <2>1, <2>2, OthersWait, StepRow
  <2> QED BY <2>1, <2>3 DEF Executing
<1>4. CASE Purge(h)
  <2>1. \/ handlers' = handlers
        \/ Goto(h, [handlers[h] EXCEPT !.pc = "create"])
        \/ Goto(h, Idle)
    BY <1>4 DEF Purge, Respond
  <2>2. CASE Goto(h, [handlers[h] EXCEPT !.pc = "create"])
    <3>1. handlers'[h] = [handlers[h] EXCEPT !.pc = "create"]
      BY <2>2, OthersWait
    <3>2. handlers'[h].pc = "create"
      BY <3>1, ServingRow DEF HandlerRow
    <3> QED BY <3>2 DEF Executing
  <2>3. r.pc \notin Executing
    BY <1>4 DEF Purge, Executing
  <2> QED BY <1>2, <2>1, <2>2, <2>3
<1> QED BY <1>2, <1>3, <1>4 DEF Respond, Refuse, Tell, Delete, UpdateTitle, Create

\* The steps of a handler that executes nothing, before or after.
LEMMA OutsideExecution ==
    ASSUME ServiceInv, NEW h \in Handlers,
           \/ Get(h) \/ Refuse(h) \/ Tell(h) \/ Delete(h) \/ UpdateTitle(h)
           \/ Purge(h) \/ Create(h)
    PROVE  SelfKept(h)
<1> DEFINE r == handlers[h]
<1> USE DEF At, ServiceInv
<1>1. r.pc \notin Executing /\ stranded' = stranded
  BY DEF Get, Refuse, Tell, Delete, UpdateTitle, Purge, Create, Executing
<1>2. handlers'[h].pc \notin Executing
  BY OutsideRow
<1>3. OnConversations \/ UNCHANGED turns
  <2>1. r.pc \notin {"idle", "purge", "create"} => r.conversation \in Conversations
    BY ServingRow DEF RequestFits
  <2>2. CASE Delete(h)
    BY <2>1, <2>2, DeletionSpares DEF Delete
  <2>3. CASE UpdateTitle(h)
    BY <2>3 DEF UpdateTitle, UpdateConversationTitle
  <2>4. CASE Purge(h)
    BY <2>4, ExpirySpares DEF Purge
  <2>5. CASE Create(h)
    BY <2>5 DEF Create, CreateConversation
  <2>6. CASE UNCHANGED storeVars
    BY <2>6 DEF storeVars
  <2> HIDE DEF storeVars, historyVars
  <2> QED BY <2>2, <2>3, <2>4, <2>5, <2>6 DEF Get, Refuse, Tell
<1>4. \A u \in Turns : turns'[u].status = "running" => turns[u].status = "running"
  BY <1>3 DEF OnConversations
<1>5. HasHistory(h)'
  BY <1>2 DEF HasHistory, Executing
<1> QED BY <1>1, <1>2, <1>4, <1>5 DEF SelfKept, Executes

\* The steps of an execution between its transactions.
LEMMA DuringExecution ==
    ASSUME ServiceInv, NEW h \in Handlers,
           handlers[h].pc \in Executing => OwnsTurn(h), HasHistory(h),
           \/ LoadHistory(h) \/ ApplyDecision(h) \/ RunEnds(h) \/ Abort(h)
           \/ PersistenceFails(h)
    PROVE  SelfKept(h)
<1> DEFINE r == handlers[h]
           after == handlers'[h]
<1> USE DEF At, ServiceInv
<1>1. r.pc \in {"load", "run", "complete", "suspend"} /\ r.pc \in Executing
  BY DEF LoadHistory, ApplyDecision, RunEnds, Abort, PersistenceFails, Executing
<1>2. UNCHANGED storeVars /\ UNCHANGED clock /\ stranded' = stranded
  BY DEF LoadHistory, ApplyDecision, RunEnds, Abort, PersistenceFails
<1>3. UNCHANGED <<conversations, turns, confirmations>>
  BY <1>2 DEF storeVars
<1>4. r \in HandlerRow /\ RequestFits(r) /\ r.turn \in Turns
      /\ r.conversation \in Conversations
  BY <1>1, ServingRow DEF RequestFits, Executing
<1>5. ASSUME NEW pc \in PCs \cap Executing, Goto(h, Step(h, pc))
      PROVE  /\ after.pc = pc /\ after.owner = r.owner
             /\ after.conversation = r.conversation /\ after.turn = r.turn
             /\ after.history = r.history
             /\ pc \in {"complete", "suspend", "fail"} => after.asOf = clock
  BY <1>5, OthersWait, StepRow
<1>6. /\ after.pc \in Executing /\ after.owner = r.owner
      /\ after.conversation = r.conversation /\ after.turn = r.turn
      /\ after.pc \in {"complete", "suspend", "fail"} => after.asOf = clock
      /\ after.pc \in {"run", "complete", "suspend"} =>
           after.history = History(r.conversation)
  <2>1. CASE LoadHistory(h)
    <3> DEFINE row == Step(h, "run")
               loaded == [row EXCEPT !.history = History(r.conversation)]
    <3>1. /\ row \in HandlerRow /\ row.pc = "run" /\ row.owner = r.owner
          /\ row.conversation = r.conversation /\ row.turn = r.turn
      BY StepRow DEF PCs
    <3>2. /\ loaded.pc = "run" /\ loaded.owner = row.owner
          /\ loaded.conversation = row.conversation /\ loaded.turn = row.turn
          /\ loaded.history = History(r.conversation)
      <4> HIDE DEF row
      <4> QED BY <3>1 DEF HandlerRow
    <3>3. after = loaded
      BY <2>1, OthersWait DEF LoadHistory
    <3> HIDE DEF loaded, row, after
    <3> QED BY <3>1, <3>2, <3>3 DEF Executing
  <2>2. CASE ApplyDecision(h)
    <3> DEFINE applied == [r EXCEPT !.confirmation = NoConfirmation,
                                    !.decision = "none"]
    <3>1. /\ applied.pc = r.pc /\ applied.owner = r.owner
          /\ applied.conversation = r.conversation /\ applied.turn = r.turn
          /\ applied.history = r.history
      <4> HIDE DEF r
      <4> QED BY <1>4 DEF HandlerRow
    <3>2. after = applied /\ r.pc = "run"
      BY <2>2, OthersWait DEF ApplyDecision
    <3>3. r.history = History(r.conversation)
      BY <3>2 DEF HasHistory
    <3> HIDE DEF applied, after
    <3> QED BY <3>1, <3>2, <3>3 DEF Executing
  <2>3. CASE RunEnds(h)
    <3>1. PICK pc \in {"complete", "suspend"} : Goto(h, Step(h, pc))
      BY <2>3 DEF RunEnds
    <3>2. pc \in PCs \cap Executing
      BY <3>1 DEF PCs, Executing
    <3>3. r.history = History(r.conversation)
      BY <2>3 DEF RunEnds, HasHistory
    <3> QED BY <1>5, <3>1, <3>2, <3>3
  <2>4. CASE Abort(h) \/ PersistenceFails(h)
    <3>1. Goto(h, Step(h, "fail"))
      BY <2>4 DEF Abort, PersistenceFails
    <3>2. "fail" \in PCs \cap Executing
      BY DEF PCs, Executing
    <3> HIDE DEF after
    <3> QED BY <1>5, <3>1, <3>2
  <2> QED BY <2>1, <2>2, <2>3, <2>4
<1>7. OwnsTurn(h)
  BY <1>1
<1>8. turns[r.turn].startedAt <= clock
  BY <1>4 DEF TimesOrdered
<1>9. OwnsTurn(h)'
  <2>1. /\ Owned(r.owner, r.conversation)
        /\ TurnIs(r.conversation, r.turn, "running")
    BY <1>7 DEF OwnsTurn
  <2>2. /\ conversations'[after.conversation].state = "stored"
        /\ conversations'[after.conversation].owner = after.owner
        /\ turns'[after.turn].conversation = after.conversation
        /\ turns'[after.turn].status = "running"
    BY <1>3, <1>6, <2>1 DEF Owned, TurnIs
  <2>3. after.pc \in {"complete", "suspend", "fail"}
          => turns'[after.turn].startedAt <= after.asOf
    BY <1>3, <1>6, <1>8
  <2> QED BY <2>2, <2>3 DEF OwnsTurn, Owned, TurnIs
<1>10. HasHistory(h)'
  <2>1. \A d \in Conversations : History(d)' = History(d)
    BY <1>3 DEF History, TurnsOf
  <2> QED BY <1>4, <1>6, <2>1 DEF HasHistory
<1>11. \A u \in Turns : Executes(h, u) => Executes(h, u)'
  BY <1>6 DEF Executes
<1> QED BY <1>1, <1>2, <1>3, <1>6, <1>9, <1>10, <1>11 DEF SelfKept

\* The transactions that start an execution, and the decision that comes late.
LEMMA StartsExecution ==
    ASSUME ServiceInv, NEW h \in Handlers, PrepareTurn(h) \/ PrepareConfirmation(h)
    PROVE  SelfKept(h)
<1> DEFINE r == handlers[h]
           after == handlers'[h]
           c == r.conversation
<1> USE DEF At, ServiceInv
<1>1. r.pc \in {"begin", "claim"} /\ r.pc \notin Executing /\ stranded' = stranded
  BY DEF PrepareTurn, PrepareConfirmation, Executing
<1>2. /\ r \in HandlerRow /\ r.owner \in Owners /\ c \in Conversations
      /\ r.pc = "claim" => r.turn \in Turns /\ r.confirmation \in ConfirmationIDs
  BY <1>1, ServingRow DEF RequestFits
<1> DEFINE row == Step(h, "load")
<1>3. /\ row \in HandlerRow /\ row.pc = "load" /\ row.owner = r.owner
      /\ row.conversation = c /\ row.turn = r.turn
  BY StepRow DEF PCs
<1>4. ASSUME NEW t \in Turns, OnTurn(c, t), turns'[t].status = "running",
             Owned(r.owner, c), Running(c) = {},
             after.pc = "load", after.owner = r.owner, after.conversation = c,
             after.turn = t
      PROVE  SelfKept(h)
  <2>1. Owned(r.owner, c)' /\ TurnIs(c, t, "running")'
    BY <1>4 DEF OnTurn, Owned, TurnIs
  <2>2. OwnsTurn(h)'
    BY <1>4, <2>1 DEF OwnsTurn, Owned, TurnIs
  <2>3. HasHistory(h)'
    BY <1>4 DEF HasHistory
  <2>4. Executes(h, t)'
    BY <1>4 DEF Executes, Executing
  <2>5. \A u \in Turns : turns'[u].status = "running" =>
          turns[u].status = "running" \/ Executes(h, u)'
    BY <1>4, <2>4 DEF OnTurn
  <2>6. \A u \in Turns : ~Executes(h, u)
    BY <1>1 DEF Executes
  <2> QED BY <1>1, <1>4, <2>2, <2>3, <2>5, <2>6 DEF SelfKept
<1>5. CASE PrepareTurn(h)
  <2>1. PICK t \in Turns, at \in Stamps(h) :
          BeginTurn(r.owner, c, t, at) /\ Goto(h, [row EXCEPT !.turn = t])
    BY <1>5 DEF PrepareTurn
  <2>2. at \in Times
    BY <2>1, StampsFit
  <2>3. OnTurn(c, t) /\ turns'[t].status = "running"
    BY <1>2, <2>1, <2>2, BeginSpares
  <2>4. Owned(r.owner, c) /\ Running(c) = {}
    BY <2>1 DEF BeginTurn, BeginTurnAllowed
  <2>5. after = [row EXCEPT !.turn = t]
    BY <2>1, OthersWait
  <2>6. /\ after.pc = "load" /\ after.owner = r.owner /\ after.conversation = c
        /\ after.turn = t
    <3> HIDE DEF after, row
    <3> QED BY <1>3, <2>5 DEF HandlerRow
  <2> QED BY <1>4, <2>3, <2>4, <2>6
<1>6. CASE PrepareConfirmation(h)
  <2>1. PICK at \in Stamps(h) :
          \/ /\ ClaimConfirmation(r.owner, c, r.turn, r.confirmation, at)
             /\ Goto(h, row)
          \/ /\ ClaimExpired(r.owner, c, r.turn, r.confirmation, at)
             /\ Respond(h)
    BY <1>6 DEF PrepareConfirmation
  <2>2. at \in Times /\ r.pc = "claim"
    BY <1>6, <2>1, StampsFit DEF PrepareConfirmation
  <2>3. CASE ClaimConfirmation(r.owner, c, r.turn, r.confirmation, at)
             /\ Goto(h, row)
    <3>1. OnTurn(c, r.turn) /\ turns'[r.turn].status = "running"
      BY <1>2, <2>2, <2>3, ClaimSpares
    <3>2. Owned(r.owner, c) /\ Running(c) = {}
      BY <1>2, <2>2, <2>3, WaitingExcludesRunning DEF ClaimConfirmation, Pending
    <3>3. after = row
      BY <2>3, OthersWait
    <3>4. /\ after.pc = "load" /\ after.owner = r.owner /\ after.conversation = c
          /\ after.turn = r.turn
      <4> HIDE DEF after, row
      <4> QED BY <1>3, <3>3
    <3> QED BY <1>2, <1>4, <2>2, <3>1, <3>2, <3>4
  <2>4. CASE ClaimExpired(r.owner, c, r.turn, r.confirmation, at) /\ Respond(h)
    <3>1. OnTurn(c, r.turn) /\ turns'[r.turn].status = "failed"
      BY <1>2, <2>2, <2>4, ClaimExpiredSpares
    <3>2. after.pc = "idle"
      BY <2>4, OthersWait DEF Respond, Idle
    <3>3. \A u \in Turns : turns'[u].status = "running" => turns[u].status = "running"
      BY <1>2, <2>2, <3>1 DEF OnTurn
    <3>4. \A u \in Turns : ~Executes(h, u)
      BY <1>1 DEF Executes
    <3>5. HasHistory(h)'
      BY <3>2 DEF HasHistory
    <3> QED BY <1>1, <3>2, <3>3, <3>4, <3>5 DEF SelfKept, Executing
  <2> QED BY <2>1, <2>3, <2>4
<1> QED BY <1>5, <1>6

\* The handlers whose execution ended answer, or have answered.
LEMMA EndsRow ==
    ASSUME LocalInv, NEW h \in Handlers,
           Complete(h) \/ Suspend(h) \/ Fail(h) \/ FailFails(h)
    PROVE  handlers'[h].pc \in {"idle", "tell_completed", "tell_confirmation"}
<1> DEFINE after == handlers'[h]
<1>1. Idle.pc = "idle"
  BY DEF Idle
<1>2. CASE Goto(h, Idle)
  BY <1>1, <1>2, OthersWait
<1>3. CASE Goto(h, Step(h, "tell_completed"))
  BY <1>3, OthersWait, StepRow DEF PCs
<1>4. ASSUME NEW id \in ConfirmationIDs,
             Goto(h, [Step(h, "tell_confirmation") EXCEPT !.confirmation = id])
      PROVE  after.pc = "tell_confirmation"
  <2> DEFINE row == Step(h, "tell_confirmation")
  <2>1. row \in HandlerRow /\ row.pc = "tell_confirmation"
    BY StepRow DEF PCs
  <2>2. after = [row EXCEPT !.confirmation = id]
    BY <1>4, OthersWait
  <2> HIDE DEF row, after
  <2> QED BY <2>1, <2>2 DEF HandlerRow
<1> QED BY <1>2, <1>3, <1>4 DEF Complete, Suspend, Fail, FailFails, Respond

\* The transactions that end an execution, and the failure that is not recorded.
LEMMA EndsExecution ==
    ASSUME ServiceInv, NEW h \in Handlers,
           Complete(h) \/ Suspend(h) \/ Fail(h) \/ FailFails(h)
    PROVE  SelfKept(h)
<1> DEFINE r == handlers[h]
           after == handlers'[h]
           c == r.conversation
<1> USE DEF At, ServiceInv
<1>1. r.pc \in Executing /\ stranded \subseteq stranded'
  BY DEF Complete, Suspend, Fail, FailFails, Executing
<1>2. r \in HandlerRow /\ r.owner \in Owners /\ c \in Conversations
      /\ r.turn \in Turns
  BY <1>1, ServingRow DEF RequestFits, Executing
<1>3. after.pc \in {"idle", "tell_completed", "tell_confirmation"}
  BY EndsRow
<1>4. HasHistory(h)' /\ after.pc \notin Executing
  BY <1>3 DEF HasHistory, Executing
<1>5. CASE OnTurn(c, r.turn) /\ turns'[r.turn].status # "running"
  <2>1. \A u \in Turns : turns'[u].status = "running" => turns[u].status = "running"
    BY <1>2, <1>5 DEF OnTurn
  <2>2. \A u \in Turns : Executes(h, u) => u = r.turn
    BY DEF Executes
  <2> QED BY <1>1, <1>4, <1>5, <2>1, <2>2 DEF SelfKept
<1>6. CASE Complete(h)
  <2>1. PICK at \in Stamps(h), m \in Sizes, b \in Sizes :
          CompleteTurn(r.owner, c, r.turn, at, at + Lifetime, m, b)
    BY <1>6 DEF Complete
  <2>2. OnTurn(c, r.turn) /\ turns'[r.turn].status = "completed"
    BY <1>2, <2>1, StampsFit, CompleteSpares
  <2> QED BY <1>5, <2>2
<1>7. CASE Suspend(h)
  <2>1. PICK at \in Stamps(h), id \in ConfirmationIDs :
          SuspendTurn(r.owner, c, r.turn, id, at, at + ConfirmationLifetime)
    BY <1>7 DEF Suspend
  <2>2. OnTurn(c, r.turn) /\ turns'[r.turn].status = "awaiting_confirmation"
    BY <1>2, <2>1, StampsFit, SuspendSpares
  <2> QED BY <1>5, <2>2
<1>8. CASE Fail(h)
  <2>1. PICK at \in Stamps(h), status \in {"failed", "canceled"} :
          FailTurn(r.owner, c, r.turn, status, at)
    BY <1>8 DEF Fail
  <2>2. status \in Terminal /\ status # "running"
    BY <2>1 DEF Terminal
  <2>3. OnTurn(c, r.turn) /\ turns'[r.turn].status = status
    BY <1>2, <2>1, <2>2, StampsFit, FailSpares
  <2> QED BY <1>5, <2>2, <2>3
<1>9. CASE FailFails(h)
  <2>1. UNCHANGED turns /\ r.turn \in stranded'
    BY <1>9 DEF FailFails, storeVars
  <2>2. \A u \in Turns : Executes(h, u) => u \in stranded'
    BY <2>1 DEF Executes
  <2> QED BY <1>1, <1>4, <2>1, <2>2 DEF SelfKept
<1> QED BY <1>6, <1>7, <1>8, <1>9

\* Every step of a handler keeps its own execution.
LEMMA ServeSelf ==
    ASSUME ServiceInv, ExecutionInv, NEW h \in Handlers, Serve(h)
    PROVE  SelfKept(h)
<1>1. HasHistory(h) /\ (handlers[h].pc \in Executing => OwnsTurn(h))
  BY DEF ExecutionInv, HistoryIsCurrent, HasHistory
<1> QED
  BY <1>1, OutsideExecution, DuringExecution, StartsExecution, EndsExecution DEF Serve

\* No step of a handler reaches the conversation of another's execution.
LEMMA ServeSparesOthers ==
    ASSUME ServiceInv, ExecutionInv, NEW h \in Handlers, Serve(h),
           NEW g \in Handlers \ {h}, handlers[g].pc \in Executing
    PROVE  Spared(handlers[g].conversation)
<1> DEFINE c == handlers[g].conversation
<1>1. c \in Conversations /\ handlers[g].turn \in Turns
  BY ServingRow DEF ServiceInv, RequestFits, Executing
<1>2. Running(c) # {}
  BY <1>1 DEF ExecutionInv, OwnsTurn, TurnIs, Running, TurnsOf
<1>3. CASE UNCHANGED storeVars
  BY <1>3 DEF Spared, storeVars
<1>4. CASE OnConversations
  BY <1>1, <1>2, <1>4 DEF OnConversations
<1>5. ASSUME NEW t \in Turns, OnTurn(handlers[h].conversation, t),
             \/ handlers[h].pc \in Executing
             \/ Running(handlers[h].conversation) = {}
      PROVE  Spared(c)
  <2>1. handlers[h].conversation # c
    BY <1>2, <1>5 DEF ExecutionInv, OneExecution
  <2> QED BY <1>1, <1>5, <2>1 DEF OnTurn
<1> QED BY <1>3, <1>4, <1>5, ServeTransaction

\* While nothing is executed, whatever is stranded or executed stays so.
LEMMA QuietExecution ==
    ASSUME ServiceInv, ExecutionInv, UNCHANGED <<storeVars, stranded>>,
           \A g \in Handlers : handlers'[g] = handlers[g],
           agent'.phase # "down" => agent.phase # "down"
    PROVE  ExecutionInv'
<1>1. UNCHANGED <<conversations, turns, confirmations>>
  BY DEF storeVars
<1>2. \A h \in Handlers : handlers'[h].pc \in Executing => OwnsTurn(h)'
  BY <1>1 DEF ExecutionInv, OwnsTurn, Owned, TurnIs
<1>3. OneExecution'
  BY DEF ExecutionInv, OneExecution
<1>4. RunningHasExecution'
  BY <1>1 DEF ExecutionInv, RunningHasExecution, Executes
<1>5. HistoryIsCurrent'
  <2>1. \A c \in Conversations : History(c)' = History(c)
    BY <1>1 DEF History, TurnsOf
  <2>2. \A h \in Handlers : handlers[h].pc \in {"run", "complete", "suspend"}
          => handlers[h].conversation \in Conversations
    BY ServingRow DEF ServiceInv, RequestFits
  <2> QED BY <2>1, <2>2 DEF ExecutionInv, HistoryIsCurrent
<1> QED BY <1>2, <1>3, <1>4, <1>5 DEF ExecutionInv

\* The step of a handler keeps every execution.
LEMMA ServeExecution ==
    ASSUME ServiceInv, ExecutionInv, NEW h \in Handlers, Serve(h)
    PROVE  ExecutionInv'
<1>1. SelfKept(h)
  BY ServeSelf
<1>2. \A g \in Handlers \ {h} : handlers'[g] = handlers[g]
  <2>1. LocalInv
    BY DEF ServiceInv
  <2> QED BY <2>1, ServeRow, OthersWait
<1>3. agent.phase = "up" /\ agent' = agent
  BY ServeRow DEF ServiceInv
<1>4. ASSUME NEW g \in Handlers \ {h}, handlers[g].pc \in Executing
      PROVE  OwnsTurn(g)' /\ HasHistory(g)'
  <2>1. OwnsTurn(g) /\ HasHistory(g)
    BY <1>4 DEF ExecutionInv, HistoryIsCurrent, HasHistory
  <2> QED BY <1>2, <1>4, <2>1, ServeSparesOthers, SparedExecution
<1>5. \A g \in Handlers : handlers'[g].pc \in Executing => OwnsTurn(g)'
  BY <1>1, <1>2, <1>4 DEF SelfKept
<1>6. OneExecution'
  <2> SUFFICES ASSUME NEW g \in Handlers \ {h},
                      handlers[g].pc \in Executing, handlers'[h].pc \in Executing,
                      handlers[g].conversation = handlers'[h].conversation
               PROVE  FALSE
    BY <1>2 DEF ExecutionInv, OneExecution
  <2>1. handlers[g].conversation = handlers[h].conversation
        /\ (handlers[h].pc \in Executing \/ Running(handlers[h].conversation) = {})
    BY <1>1 DEF SelfKept
  <2>2. Running(handlers[g].conversation) # {}
    <3>1. handlers[g].turn \in Turns
      BY ServingRow DEF ServiceInv, RequestFits
    <3> QED BY <3>1 DEF ExecutionInv, OwnsTurn, TurnIs, Running, TurnsOf
  <2> QED BY <2>1, <2>2 DEF ExecutionInv, OneExecution
<1>7. RunningHasExecution'
  <2> SUFFICES ASSUME NEW u \in Turns, turns'[u].status = "running"
               PROVE  u \in stranded' \/ \E g \in Handlers : Executes(g, u)'
    BY DEF RunningHasExecution
  <2>1. CASE Executes(h, u)'
    BY <2>1
  <2>2. CASE turns[u].status = "running" /\ u \in stranded
    BY <1>1, <2>2 DEF SelfKept
  <2>3. CASE turns[u].status = "running" /\ Executes(h, u)
    BY <1>1, <2>3 DEF SelfKept
  <2>4. ASSUME NEW g \in Handlers \ {h}, Executes(g, u) PROVE Executes(g, u)'
    BY <1>2, <2>4 DEF Executes
  <2> QED
    BY <1>1, <1>3, <2>1, <2>2, <2>3, <2>4
       DEF SelfKept, ExecutionInv, RunningHasExecution
<1>8. HistoryIsCurrent'
  <2>1. ASSUME NEW g \in Handlers PROVE HasHistory(g)'
    <3>1. CASE g = h
      BY <1>1, <3>1 DEF SelfKept
    <3>2. CASE g # h /\ handlers[g].pc \in Executing
      BY <1>4, <3>2
    <3>3. CASE g # h /\ handlers[g].pc \notin Executing
      BY <1>2, <3>3 DEF HasHistory, Executing
    <3> QED BY <3>1, <3>2, <3>3
  <2> QED BY <2>1 DEF HistoryIsCurrent, HasHistory
<1> QED BY <1>5, <1>6, <1>7, <1>8 DEF ExecutionInv

\* While the agent is not up no handler executes.
LEMMA DownExecutesNothing ==
    ASSUME LocalInv, agent.phase # "up"
    PROVE  \A h \in Handlers : handlers[h].pc = "idle"
<1>1. Idle.pc = "idle"
  BY DEF Idle
<1> QED BY <1>1 DEF LocalInv, HandlersFit

\* Every step of the service keeps every execution.
LEMMA ExecutionStep ==
    ASSUME ServiceInv, ServiceInv', ExecutionInv, [Next]_vars
    PROVE  ExecutionInv'
<1>1. ASSUME NEW h \in Handlers, Serve(h) PROVE ExecutionInv'
  BY <1>1, ServeExecution
<1>2. ASSUME NEW h \in Handlers, Request(h) PROVE ExecutionInv'
  <2>1. PICK row : Accept(h, row) /\ NewRequest(row)
    BY <1>2, RequestRow DEF ServiceInv, LocalInv, ServiceTypeOK
  <2>2. /\ handlers'[h] = row /\ row.pc \in {"get", "purge"}
        /\ \A g \in Handlers \ {h} : handlers'[g] = handlers[g]
        /\ handlers[h].pc = "idle"
        /\ agent.phase = "up" /\ agent' = agent
    BY <2>1, OthersWait DEF Accept, Goto, NewRequest, ServiceInv
  <2>3. UNCHANGED <<conversations, turns, confirmations, stranded>>
    BY <2>1 DEF Accept, storeVars
  <2>4. /\ handlers[h].pc \notin Executing /\ handlers'[h].pc \notin Executing
        /\ handlers'[h].pc \notin {"run", "complete", "suspend"}
    BY <2>2 DEF Executing
  <2>5. \A g \in Handlers : handlers'[g].pc \in Executing => OwnsTurn(g)'
    BY <2>2, <2>3, <2>4 DEF ExecutionInv, OwnsTurn, Owned, TurnIs
  <2>6. OneExecution'
    BY <2>2, <2>4 DEF ExecutionInv, OneExecution
  <2>7. RunningHasExecution'
    BY <2>2, <2>3, <2>4 DEF ExecutionInv, RunningHasExecution, Executes
  <2>8. HistoryIsCurrent'
    <3>1. \A c \in Conversations : History(c)' = History(c)
      BY <2>3 DEF History, TurnsOf
    <3>2. \A g \in Handlers : handlers[g].pc \in {"run", "complete", "suspend"}
            => handlers[g].conversation \in Conversations
      BY ServingRow DEF ServiceInv, RequestFits
    <3> QED BY <2>2, <2>4, <3>1, <3>2 DEF ExecutionInv, HistoryIsCurrent
  <2> QED BY <2>5, <2>6, <2>7, <2>8 DEF ExecutionInv
<1>3. ASSUME \A h \in Handlers : handlers'[h].pc = "idle",
             agent'.phase # "down" =>
               \A u \in Turns : turns'[u].status = "running" => u \in stranded'
      PROVE  ExecutionInv'
  BY <1>3 DEF ExecutionInv, Executing, OneExecution, RunningHasExecution,
              HistoryIsCurrent
<1>4. CASE Recover
  <2>1. \A h \in Handlers : handlers'[h].pc = "idle"
    BY <1>4, DownExecutesNothing DEF Recover, ServiceInv
  <2>2. \A u \in Turns : turns'[u].status # "running"
    BY <1>4, RecoverEffect DEF Recover, ServiceInv
  <2> QED BY <1>3, <2>1, <2>2
<1>5. CASE StartupPurge
  <2>1. \A h \in Handlers : handlers[h].pc = "idle"
    BY <1>5, DownExecutesNothing DEF StartupPurge, ServiceInv
  <2>2. OnConversations
    BY <1>5, ExpirySpares DEF StartupPurge, ServiceInv
  <2>3. \A u \in Turns : turns[u].status = "running" => u \in stranded
    BY <1>5, <2>1 DEF StartupPurge, ExecutionInv, RunningHasExecution, Executes,
                      Executing
  <2>4. \A u \in Turns : turns'[u].status = "running" => u \in stranded'
    BY <1>5, <2>2, <2>3 DEF StartupPurge, OnConversations
  <2> QED BY <1>3, <1>5, <2>1, <2>4 DEF StartupPurge
<1>6. CASE Stop
  <2>1. Idle.pc = "idle"
    BY DEF Idle
  <2> QED BY <1>3, <1>6, <2>1 DEF Stop
<1>7. CASE Tick
  BY <1>7, QuietExecution DEF Tick, storeVars
<1>8. CASE UNCHANGED vars
  BY <1>8, QuietExecution DEF vars, storeVars
<1> QED BY <1>1, <1>2, <1>4, <1>5, <1>6, <1>7, <1>8 DEF Next

\* The executions and the running turns always match.
LEMMA ExecutionInvariant == Spec => []ExecutionInv
<1>1. Init => ExecutionInv
  <2> SUFFICES ASSUME Init PROVE ExecutionInv
    OBVIOUS
  <2>1. \A h \in Handlers : handlers[h].pc = "idle"
    BY DEF Init, Idle
  <2>2. agent.phase = "down"
    BY DEF Init
  <2> QED BY <2>1, <2>2 DEF ExecutionInv, Executing, OneExecution,
                            RunningHasExecution, HistoryIsCurrent
<1>2. ServiceInv /\ ServiceInv' /\ ExecutionInv /\ [Next]_vars => ExecutionInv'
  BY ExecutionStep
<1> QED BY <1>1, <1>2, ServiceInvariant, PTL DEF Spec

\* The turn a handler executes stays running, its owner's, in a stored
\* conversation that no other handler executes in, whatever interleaves.
THEOREM ServiceExecutionOwnsTurn == Spec => []ExecutionOwnsTurn
<1>1. ServiceInv /\ ExecutionInv => ExecutionOwnsTurn
  <2> SUFFICES ASSUME ServiceInv, ExecutionInv, NEW h \in Handlers,
                      handlers[h].pc \in Executing
               PROVE  /\ OwnsTurn(h)
                      /\ turns[handlers[h].turn].startedAt <= clock
                      /\ \A g \in Handlers \ {h} : handlers[g].pc \in Executing =>
                           handlers[g].conversation # handlers[h].conversation
    BY DEF ExecutionOwnsTurn, OwnsTurn
  <2>1. handlers[h].turn \in Turns
    BY ServingRow DEF ServiceInv, RequestFits
  <2> QED BY <2>1 DEF ServiceInv, TimesOrdered, ExecutionInv, OneExecution
<1> QED BY <1>1, ServiceInvariant, ExecutionInvariant, PTL

\* While the agent is up no turn runs that nobody will end, but for those whose
\* failure the database refused to record.
THEOREM ServiceRunningHasExecution == Spec => []RunningHasExecution
<1>1. ExecutionInv => RunningHasExecution
  BY DEF ExecutionInv
<1> QED BY <1>1, ExecutionInvariant, PTL

\* The history a model answers from is that of its conversation until its own
\* turn completes.
THEOREM ServiceHistoryIsCurrent == Spec => []HistoryIsCurrent
<1>1. ExecutionInv => HistoryIsCurrent
  BY DEF ExecutionInv
<1> QED BY <1>1, ExecutionInvariant, PTL

-------------------------------------------------------------------------------
(* Decisions *)

\* A handler holds a decision from its claim until it applies it.
Decides(h) == handlers[h].pc \in {"load", "run"} /\ handlers[h].decision # "none"

AnswerInv ==
    /\ \A r \in confirmations : decided[r.id] = "waiting"
    /\ \A id \in ConfirmationIDs : decided[id] \in {"unused", "waiting"} => ran[id] = 0
    /\ \A h \in Handlers : Decides(h) =>
         /\ decided[handlers[h].confirmation] = handlers[h].decision
         /\ ran[handlers[h].confirmation] = 0
    /\ \A g, h \in Handlers :
         /\ Decides(g) /\ Decides(h)
         /\ handlers[g].confirmation = handlers[h].confirmation
         => g = h
    /\ CallRunsOnceApproved

\* The handler holds no decision after the step that it did not hold before.
HoldsNoMore(h) ==
    Decides(h)' => /\ Decides(h)
                   /\ handlers'[h].confirmation = handlers[h].confirmation
                   /\ handlers'[h].decision = handlers[h].decision

\* A step that asks nothing, decides nothing and runs nothing.
LEMMA QuietDecision ==
    ASSUME AnswerInv, confirmations' \subseteq confirmations,
           UNCHANGED <<decided, ran>>, \A h \in Handlers : HoldsNoMore(h)
    PROVE  AnswerInv'
BY DEF AnswerInv, HoldsNoMore, CallRunsOnceApproved

\* Most steps of a handler are such.
LEMMA ServeHoldsNoMore ==
    ASSUME ServiceInv, NEW h \in Handlers, Serve(h),
           ~PrepareConfirmation(h), ~ApplyDecision(h), ~Suspend(h)
    PROVE  /\ confirmations' \subseteq confirmations
           /\ UNCHANGED <<decided, ran>>
           /\ \A g \in Handlers : HoldsNoMore(g)
<1> DEFINE r == handlers[h]
           after == handlers'[h]
<1> USE DEF At, ServiceInv
<1>1. UNCHANGED <<decided, ran>>
  <2> HIDE DEF storeVars, At
  <2> QED
    BY DEF Serve, Get, Refuse, PrepareTurn, LoadHistory, RunEnds, Abort, Complete,
           PersistenceFails, Fail, FailFails, Tell, Delete, UpdateTitle, Purge,
           Create
<1>2. confirmations' \subseteq confirmations
  <2>1. CASE PrepareTurn(h)
    BY <2>1 DEF PrepareTurn, BeginTurn
  <2>2. CASE Complete(h) \/ Fail(h)
    BY <2>2 DEF Complete, CompleteTurn, Fail, FailTurn
  <2>3. CASE Delete(h) \/ Purge(h)
    BY <2>3 DEF Delete, DeleteConversation, Purge, DeleteExpired, Remove
  <2>4. CASE UpdateTitle(h) \/ Create(h)
    BY <2>4 DEF UpdateTitle, UpdateConversationTitle, Create, CreateConversation
  <2>5. CASE UNCHANGED storeVars
    BY <2>5 DEF storeVars
  <2> HIDE DEF storeVars, At
  <2> QED
    BY <2>1, <2>2, <2>3, <2>4, <2>5
       DEF Serve, Get, Refuse, LoadHistory, RunEnds, Abort, PersistenceFails,
           FailFails, Tell
<1>3. HoldsNoMore(h)
  <2>1. CASE \/ Get(h) \/ Refuse(h) \/ Tell(h) \/ Delete(h) \/ UpdateTitle(h)
             \/ Purge(h) \/ Create(h)
    <3>1. after.pc \notin Executing
      BY <2>1, OutsideRow
    <3> QED BY <3>1 DEF HoldsNoMore, Decides, Executing
  <2>2. CASE Complete(h) \/ Fail(h) \/ FailFails(h)
    <3>1. after.pc \in {"idle", "tell_completed", "tell_confirmation"}
      BY <2>2, EndsRow
    <3> QED BY <3>1 DEF HoldsNoMore, Decides
  <2>3. CASE RunEnds(h) \/ Abort(h) \/ PersistenceFails(h)
    <3>1. PICK pc \in {"complete", "suspend", "fail"} : Goto(h, Step(h, pc))
      BY <2>3 DEF RunEnds, Abort, PersistenceFails
    <3>2. after.pc = pc
      BY <3>1, OthersWait, StepRow DEF PCs
    <3> QED BY <3>1, <3>2 DEF HoldsNoMore, Decides
  <2>4. CASE PrepareTurn(h)
    <3> DEFINE row == Step(h, "load")
    <3>1. PICK t \in Turns : Goto(h, [row EXCEPT !.turn = t])
      BY <2>4 DEF PrepareTurn
    <3>2. row \in HandlerRow /\ row.decision = r.decision
      BY StepRow DEF PCs
    <3>3. r.decision = "none"
      BY <2>4, ServingRow DEF PrepareTurn, RequestFits
    <3>4. after = [row EXCEPT !.turn = t]
      BY <3>1, OthersWait
    <3>5. after.decision = "none"
      <4> HIDE DEF row, after
      <4> QED BY <3>2, <3>3, <3>4 DEF HandlerRow
    <3> QED BY <3>5 DEF HoldsNoMore, Decides
  <2>5. CASE LoadHistory(h)
    <3> DEFINE row == Step(h, "run")
               loaded == [row EXCEPT !.history = History(r.conversation)]
    <3>1. /\ row \in HandlerRow /\ row.decision = r.decision
          /\ row.confirmation = r.confirmation
      BY StepRow DEF PCs
    <3>2. loaded.decision = row.decision /\ loaded.confirmation = row.confirmation
      <4> HIDE DEF row
      <4> QED BY <3>1 DEF HandlerRow
    <3>3. after = loaded /\ r.pc = "load"
      BY <2>5, OthersWait DEF LoadHistory
    <3> HIDE DEF row, loaded
    <3> QED BY <3>1, <3>2, <3>3 DEF HoldsNoMore, Decides
  <2> HIDE DEF At
  <2> QED BY <2>1, <2>2, <2>3, <2>4, <2>5 DEF Serve
<1>4. \A g \in Handlers \ {h} : handlers'[g] = handlers[g]
  BY ServeRow, OthersWait
<1> QED BY <1>1, <1>2, <1>3, <1>4 DEF HoldsNoMore, Decides

\* A claim takes the only confirmation of its ID: nobody else can decide it.
LEMMA ClaimDecides ==
    ASSUME ServiceInv, AnswerInv, NEW h \in Handlers, PrepareConfirmation(h)
    PROVE  AnswerInv'
<1> DEFINE r == handlers[h]
           id == r.confirmation
<1> USE DEF At, ServiceInv
<1>1. /\ r.turn \in Turns /\ id \in ConfirmationIDs /\ r.decision \in Decisions
      /\ r.conversation \in Conversations
  BY ServingRow DEF PrepareConfirmation, RequestFits
<1>2. PICK at \in Stamps(h) :
        \/ /\ ClaimConfirmation(r.owner, r.conversation, r.turn, id, at)
           /\ Goto(h, Step(h, "load"))
           /\ decided' = [decided EXCEPT ![id] = r.decision]
        \/ /\ ClaimExpired(r.owner, r.conversation, r.turn, id, at)
           /\ Respond(h)
           /\ UNCHANGED decided
  BY DEF PrepareConfirmation
<1>3. confirmations' = {q \in confirmations : q.turn # r.turn} /\ ran' = ran
  BY <1>2 DEF ClaimConfirmation, ClaimExpired, PrepareConfirmation
<1>4. PICK q \in confirmations : q.turn = r.turn /\ q.id = id
  BY <1>2 DEF ClaimConfirmation, ClaimExpired, Pending
<1>5. decided[id] = "waiting" /\ ran[id] = 0
  BY <1>1, <1>4 DEF AnswerInv
<1>6. \A p \in confirmations' : p \in confirmations /\ p.id # id
  BY <1>3, <1>4 DEF StoreInv, WaitingHasConfirmation
<1>7. CASE /\ ClaimConfirmation(r.owner, r.conversation, r.turn, id, at)
           /\ Goto(h, Step(h, "load"))
           /\ decided' = [decided EXCEPT ![id] = r.decision]
  <2>1. /\ decided'[id] = r.decision
        /\ \A k \in ConfirmationIDs \ {id} : decided'[k] = decided[k]
    BY <1>1, <1>7 DEF LocalInv, ServiceTypeOK
  <2>2. /\ handlers'[h].confirmation = id /\ handlers'[h].decision = r.decision
        /\ \A g \in Handlers \ {h} : handlers'[g] = handlers[g]
    <3>1. handlers'[h] = Step(h, "load")
      BY <1>7, OthersWait
    <3> QED BY <1>7, <3>1, OthersWait, StepRow DEF PCs
  <2>3. ASSUME NEW g \in Handlers \ {h}, Decides(g)
        PROVE  /\ handlers[g].confirmation # id
               /\ handlers[g].confirmation \in ConfirmationIDs
    <3>1. /\ handlers[g].decision \in Decisions
          /\ handlers[g].confirmation \in ConfirmationIDs
      BY <2>3, ServingRow DEF Decides, RequestFits, HandlerRow
    <3> QED BY <1>5, <2>3, <3>1 DEF AnswerInv, Decisions
  <2>4. \A p \in confirmations' : decided'[p.id] = "waiting"
    <3>1. \A p \in confirmations : p.id \in ConfirmationIDs
      BY DEF StoreInv, StoreTypeOK, ConfirmationRow
    <3> QED BY <1>6, <2>1, <3>1 DEF AnswerInv
  <2>5. \A k \in ConfirmationIDs : decided'[k] \in {"unused", "waiting"} => ran'[k] = 0
    BY <1>3, <1>5, <2>1 DEF AnswerInv
  <2>6. \A g \in Handlers : Decides(g)' =>
          /\ decided'[handlers'[g].confirmation] = handlers'[g].decision
          /\ ran'[handlers'[g].confirmation] = 0
    BY <1>3, <1>5, <2>1, <2>2, <2>3 DEF AnswerInv, Decides
  <2>7. \A g, f \in Handlers :
          /\ Decides(g)' /\ Decides(f)'
          /\ handlers'[g].confirmation = handlers'[f].confirmation
          => g = f
    BY <2>2, <2>3 DEF AnswerInv, Decides
  <2>8. CallRunsOnceApproved'
    BY <1>3, <1>5, <2>1 DEF AnswerInv, CallRunsOnceApproved
  <2> QED BY <2>4, <2>5, <2>6, <2>7, <2>8 DEF AnswerInv
<1>8. CASE Respond(h) /\ UNCHANGED decided
  <2>1. handlers'[h].pc = "idle"
    BY <1>8, OthersWait DEF Respond, Idle
  <2>2. \A g \in Handlers \ {h} : handlers'[g] = handlers[g]
    BY <1>8, OthersWait DEF Respond
  <2>3. \A g \in Handlers : HoldsNoMore(g)
    BY <2>1, <2>2 DEF HoldsNoMore, Decides
  <2> QED BY <1>3, <1>6, <1>8, <2>3, QuietDecision
<1> QED BY <1>2, <1>7, <1>8

\* The decision is applied once: the handler that holds it lets go of it.
LEMMA ApplyRunsOnce ==
    ASSUME ServiceInv, AnswerInv, NEW h \in Handlers, ApplyDecision(h)
    PROVE  AnswerInv'
<1> DEFINE r == handlers[h]
           id == r.confirmation
<1> USE DEF At, ServiceInv
<1>1. Decides(h) /\ r \in HandlerRow
  BY ServingRow DEF ApplyDecision, Decides
<1>2. id \in ConfirmationIDs /\ r.decision \in Decisions
  BY <1>1, ServingRow DEF Decides, RequestFits, HandlerRow
<1>3. decided[id] = r.decision /\ ran[id] = 0
  BY <1>1 DEF AnswerInv
<1>4. UNCHANGED <<decided, confirmations>>
  BY DEF ApplyDecision, storeVars
<1>5. /\ ran'[id] = IF r.decision = "approve" THEN 1 ELSE 0
      /\ \A k \in ConfirmationIDs \ {id} : ran'[k] = ran[k]
  <2>1. ran \in [ConfirmationIDs -> Nat]
    BY DEF LocalInv, ServiceTypeOK
  <2>2. CASE r.decision = "approve"
    <3>1. ran' = [ran EXCEPT ![id] = ran[id] + 1]
      BY <2>2 DEF ApplyDecision
    <3>2. ran' = [ran EXCEPT ![id] = 1]
      BY <1>3, <3>1
    <3> QED BY <1>2, <2>1, <2>2, <3>2
  <2>3. CASE r.decision # "approve"
    BY <1>3, <2>3 DEF ApplyDecision
  <2> QED BY <2>2, <2>3
<1>6. /\ handlers'[h].decision = "none"
      /\ \A g \in Handlers \ {h} : handlers'[g] = handlers[g]
  <2> DEFINE applied == [r EXCEPT !.confirmation = NoConfirmation, !.decision = "none"]
  <2>1. applied.decision = "none"
    <3> HIDE DEF r
    <3> QED BY <1>1 DEF HandlerRow
  <2> QED BY <2>1, OthersWait DEF ApplyDecision
<1>7. \A g \in Handlers : Decides(g)' => g # h /\ Decides(g)
  BY <1>6 DEF Decides
<1>8. ASSUME NEW g \in Handlers \ {h}, Decides(g)
      PROVE  /\ handlers[g].confirmation # id
             /\ handlers[g].confirmation \in ConfirmationIDs
  BY <1>1, <1>8, ServingRow DEF AnswerInv, Decides, RequestFits
<1>9. \A k \in ConfirmationIDs : decided'[k] \in {"unused", "waiting"} => ran'[k] = 0
  BY <1>2, <1>3, <1>4, <1>5 DEF AnswerInv, Decisions
<1>10. \A g \in Handlers : Decides(g)' =>
         /\ decided'[handlers'[g].confirmation] = handlers'[g].decision
         /\ ran'[handlers'[g].confirmation] = 0
  BY <1>4, <1>5, <1>6, <1>7, <1>8 DEF AnswerInv
<1>11. \A g, f \in Handlers :
         /\ Decides(g)' /\ Decides(f)'
         /\ handlers'[g].confirmation = handlers'[f].confirmation
         => g = f
  BY <1>6, <1>7 DEF AnswerInv
<1>12. CallRunsOnceApproved'
  BY <1>2, <1>3, <1>4, <1>5 DEF AnswerInv, CallRunsOnceApproved
<1> QED BY <1>4, <1>9, <1>10, <1>11, <1>12 DEF AnswerInv

\* A fresh ID is asked about: nobody has decided it.
LEMMA SuspendAsks ==
    ASSUME ServiceInv, AnswerInv, NEW h \in Handlers, Suspend(h)
    PROVE  AnswerInv'
<1> USE DEF At, ServiceInv
<1>1. PICK id \in ConfirmationIDs, at \in Stamps(h) :
        /\ decided[id] = "unused"
        /\ confirmations' = confirmations \cup
             {[turn |-> handlers[h].turn, id |-> id,
               expiresAt |-> at + ConfirmationLifetime]}
        /\ decided' = [decided EXCEPT ![id] = "waiting"]
  BY DEF Suspend, SuspendTurn
<1>2. ran' = ran
  BY DEF Suspend
<1>3. /\ decided'[id] = "waiting"
      /\ \A k \in ConfirmationIDs \ {id} : decided'[k] = decided[k]
  BY <1>1 DEF LocalInv, ServiceTypeOK
<1>4. handlers'[h].pc \in {"idle", "tell_completed", "tell_confirmation"}
  BY EndsRow
<1>5. \A g \in Handlers \ {h} : handlers'[g] = handlers[g]
  BY OthersWait DEF Suspend
<1>6. \A g \in Handlers : Decides(g)' => g # h /\ Decides(g)
  BY <1>4, <1>5 DEF Decides
<1>7. ASSUME NEW g \in Handlers, Decides(g)
      PROVE  /\ handlers[g].confirmation # id
             /\ handlers[g].confirmation \in ConfirmationIDs
  <2>1. /\ handlers[g].decision \in Decisions
        /\ handlers[g].confirmation \in ConfirmationIDs
    BY <1>7, ServingRow DEF Decides, RequestFits, HandlerRow
  <2> QED BY <1>1, <1>7, <2>1 DEF AnswerInv, Decisions
<1>8. \A q \in confirmations' : decided'[q.id] = "waiting"
  <2>1. \A q \in confirmations : q.id \in ConfirmationIDs
    BY DEF StoreInv, StoreTypeOK, ConfirmationRow
  <2> QED BY <1>1, <1>3, <2>1 DEF AnswerInv
<1>9. \A k \in ConfirmationIDs : decided'[k] \in {"unused", "waiting"} => ran'[k] = 0
  BY <1>1, <1>2, <1>3 DEF AnswerInv
<1>10. \A g \in Handlers : Decides(g)' =>
         /\ decided'[handlers'[g].confirmation] = handlers'[g].decision
         /\ ran'[handlers'[g].confirmation] = 0
  BY <1>2, <1>3, <1>5, <1>6, <1>7 DEF AnswerInv
<1>11. \A g, f \in Handlers :
         /\ Decides(g)' /\ Decides(f)'
         /\ handlers'[g].confirmation = handlers'[f].confirmation
         => g = f
  BY <1>5, <1>6 DEF AnswerInv
<1>12. CallRunsOnceApproved'
  BY <1>1, <1>2, <1>3 DEF AnswerInv, CallRunsOnceApproved
<1> QED BY <1>8, <1>9, <1>10, <1>11, <1>12 DEF AnswerInv

\* Every step keeps what is known of the decisions.
LEMMA DecisionStep ==
    ASSUME ServiceInv, AnswerInv, [Next]_vars
    PROVE  AnswerInv'
<1> USE DEF ServiceInv
<1>1. ASSUME NEW h \in Handlers, Serve(h) PROVE AnswerInv'
  BY <1>1, ClaimDecides, ApplyRunsOnce, SuspendAsks, ServeHoldsNoMore, QuietDecision
<1>2. ASSUME NEW h \in Handlers, Request(h) PROVE AnswerInv'
  <2>1. PICK row : Accept(h, row) /\ NewRequest(row)
    BY <1>2, RequestRow DEF LocalInv, ServiceTypeOK
  <2>2. UNCHANGED <<confirmations, decided, ran>>
    BY <2>1 DEF Accept, storeVars
  <2>3. \A g \in Handlers : HoldsNoMore(g)
    BY <2>1, OthersWait DEF Accept, Goto, NewRequest, HoldsNoMore, Decides
  <2> QED BY <2>2, <2>3, QuietDecision
<1>3. CASE Recover \/ StartupPurge
  <2>1. confirmations' \subseteq confirmations /\ UNCHANGED <<decided, ran, handlers>>
    BY <1>3 DEF Recover, RecoverInterrupted, StartupPurge, DeleteExpired, Remove
  <2>2. \A g \in Handlers : HoldsNoMore(g)
    BY <2>1 DEF HoldsNoMore, Decides
  <2> QED BY <2>1, <2>2, QuietDecision
<1>4. CASE Stop
  <2>1. UNCHANGED <<confirmations, decided, ran>>
    BY <1>4 DEF Stop, storeVars
  <2>2. \A g \in Handlers : handlers'[g].pc = "idle"
    BY <1>4 DEF Stop, Idle
  <2>3. \A g \in Handlers : HoldsNoMore(g)
    BY <2>2 DEF HoldsNoMore, Decides
  <2> QED BY <2>1, <2>3, QuietDecision
<1>5. CASE Tick \/ UNCHANGED vars
  <2>1. UNCHANGED <<confirmations, decided, ran, handlers>>
    BY <1>5 DEF Tick, vars, storeVars
  <2>2. \A g \in Handlers : HoldsNoMore(g)
    BY <2>1 DEF HoldsNoMore, Decides
  <2> QED BY <2>1, <2>2, QuietDecision
<1> QED BY <1>1, <1>2, <1>3, <1>4, <1>5 DEF Next

\* The call behind a confirmation runs at most once, and only if its approval
\* was accepted in time: for any number of answers, in any order, late or
\* repeated, with deletions, new turns, crashes and restarts between them.
THEOREM ServiceCallRunsOnceApproved == Spec => []CallRunsOnceApproved
<1>1. Init => AnswerInv
  <2> SUFFICES ASSUME Init PROVE AnswerInv
    OBVIOUS
  <2>1. \A h \in Handlers : handlers[h].pc = "idle"
    BY DEF Init, Idle
  <2> QED BY <2>1 DEF Init, StoreInit, AnswerInv, Decides, CallRunsOnceApproved
<1>2. ServiceInv /\ AnswerInv /\ [Next]_vars => AnswerInv'
  BY DecisionStep
<1>3. AnswerInv => CallRunsOnceApproved
  BY DEF AnswerInv
<1> QED BY <1>1, <1>2, <1>3, ServiceInvariant, PTL DEF Spec

-------------------------------------------------------------------------------
(* The client is told only of what is committed *)

\* What is told stays so: a completed turn is at most deleted, and a confirmation
\* stays where it is offered until it is answered or its turn ends.
Told(r) ==
    /\ r.pc = "tell_completed" => turns[r.turn].status \in {"completed", "deleted"}
    /\ r.pc = "tell_confirmation" => Offered(r.turn, r.confirmation)

KeepsTold ==
    /\ \A t \in Turns : turns[t].status \in {"completed", "deleted"}
         => turns'[t].status \in {"completed", "deleted"}
    /\ \A t \in Turns, id \in ConfirmationIDs : Offered(t, id) => Offered(t, id)'

\* A row goes away without an answer only with its turn: the turn that expired
\* fails, the turn of a conversation that is removed is deleted.
LEMMA RowGoesWithTurn ==
    ASSUME StoreInv, NEW row \in confirmations, row.turn \in Turns,
           \/ \E o \in Owners, c \in Conversations, t \in Turns, at \in Times :
                BeginTurn(o, c, t, at)
           \/ \E D \in SUBSET Conversations : Remove(D)
    PROVE  \/ row \in confirmations'
           \/ turns'[row.turn].status \in {"failed", "deleted"}
<1>1. ASSUME NEW o \in Owners, NEW c \in Conversations, NEW t \in Turns,
             NEW at \in Times, BeginTurn(o, c, t, at), row \notin confirmations'
      PROVE  turns'[row.turn].status = "failed"
  <2>1. row.turn \in ExpiredWaits(c, at)
    BY <1>1 DEF BeginTurn
  <2>2. row.turn # t
    BY <1>1, <2>1 DEF BeginTurn, ExpiredWaits, Waiting
  <2>3. turns'[row.turn] = [turns[row.turn] EXCEPT !.status = "failed"]
    BY <1>1, <2>1, <2>2 DEF BeginTurn
  <2> QED BY <2>3 DEF StoreInv, StoreTypeOK, TurnRow
<1>2. ASSUME NEW D \in SUBSET Conversations, Remove(D), row \notin confirmations'
      PROVE  turns'[row.turn].status = "deleted"
  <2>1. turns[row.turn].conversation \in D
    BY <1>2 DEF Remove
  <2> QED BY <1>2, <2>1 DEF Remove, NoTurnRow
<1> QED BY <1>1, <1>2

\* A claim of the confirmation answers it or fails its turn, and a claim of
\* another one leaves it where it is.
LEMMA ClaimAnswers ==
    ASSUME ServiceInv, NEW h \in Handlers, PrepareConfirmation(h),
           NEW row \in confirmations
    PROVE  row \in confirmations' \/ Offered(row.turn, row.id)'
<1> DEFINE r == handlers[h]
<1> USE DEF ServiceInv
<1>1. /\ r.turn \in Turns /\ r.conversation \in Conversations
      /\ r.confirmation \in ConfirmationIDs /\ r.decision \in Decisions
  BY ServingRow DEF PrepareConfirmation, At, RequestFits
<1>2. PICK at \in Stamps(h) :
        \/ /\ ClaimConfirmation(r.owner, r.conversation, r.turn, r.confirmation, at)
           /\ decided' = [decided EXCEPT ![r.confirmation] = r.decision]
        \/ ClaimExpired(r.owner, r.conversation, r.turn, r.confirmation, at)
  BY DEF PrepareConfirmation
<1>3. confirmations' = {q \in confirmations : q.turn # r.turn}
  BY <1>2 DEF ClaimConfirmation, ClaimExpired
<1>4. PICK q \in confirmations : q.turn = r.turn /\ q.id = r.confirmation
  BY <1>2 DEF ClaimConfirmation, ClaimExpired, Pending
<1>5. CASE row.turn # r.turn
  BY <1>3, <1>5
<1>6. CASE row.turn = r.turn
  <2>1. row.id = r.confirmation
    BY <1>4, <1>6 DEF StoreInv, WaitingHasConfirmation
  <2>2. CASE decided' = [decided EXCEPT ![r.confirmation] = r.decision]
    <3>1. decided'[r.confirmation] = r.decision
      BY <1>1, <2>2 DEF LocalInv, ServiceTypeOK
    <3> QED BY <1>1, <2>1, <3>1 DEF Offered
  <2>3. CASE ClaimExpired(r.owner, r.conversation, r.turn, r.confirmation, at)
    <3>1. turns'[r.turn].status = "failed"
      BY <1>1, <2>3, StampsFit, ClaimExpiredSpares
    <3> QED BY <1>6, <3>1 DEF Offered, Terminal
  <2> QED BY <1>2, <2>2, <2>3
<1> QED BY <1>5, <1>6

\* No step takes away a confirmation without an answer or the end of its turn.
LEMMA RowStaysOffered ==
    ASSUME ServiceInv, [Next]_vars, NEW row \in confirmations, row.turn \in Turns
    PROVE  row \in confirmations' \/ Offered(row.turn, row.id)'
<1> USE DEF ServiceInv
<1>1. CASE \/ \E o \in Owners, c \in Conversations, t \in Turns, at \in Times :
                BeginTurn(o, c, t, at)
           \/ \E D \in SUBSET Conversations : Remove(D)
  BY <1>1, RowGoesWithTurn DEF Offered, Terminal
<1>2. ASSUME NEW h \in Handlers, Serve(h)
      PROVE  row \in confirmations' \/ Offered(row.turn, row.id)'
  <2>1. CASE PrepareConfirmation(h)
    BY <2>1, ClaimAnswers
  <2>2. CASE PrepareTurn(h)
    <3>1. handlers[h].owner \in Owners /\ handlers[h].conversation \in Conversations
      BY <2>2, ServingRow DEF PrepareTurn, At, RequestFits
    <3> QED BY <1>1, <2>2, <3>1, StampsFit DEF PrepareTurn
  <2>3. CASE Delete(h)
    <3>1. handlers[h].conversation \in Conversations
      BY <2>3, ServingRow DEF Delete, At, RequestFits
    <3> QED BY <1>1, <2>3, <3>1 DEF Delete, DeleteConversation
  <2>4. CASE Purge(h)
    BY <1>1, <2>4 DEF Purge, DeleteExpired, storeVars
  <2>5. CASE Suspend(h)
    BY <2>5 DEF Suspend, SuspendTurn
  <2>6. CASE Complete(h) \/ Fail(h)
    <3>1. UNCHANGED confirmations
      BY <2>6, Zenon DEF Complete, CompleteTurn, Fail, FailTurn
    <3> QED BY <3>1
  <2>7. CASE UpdateTitle(h) \/ Create(h)
    BY <2>7 DEF UpdateTitle, UpdateConversationTitle, Create, CreateConversation
  <2>8. CASE UNCHANGED storeVars
    BY <2>8 DEF storeVars
  <2> HIDE DEF storeVars
  <2> QED
    BY <1>2, <2>1, <2>2, <2>3, <2>4, <2>5, <2>6, <2>7, <2>8
       DEF Serve, Get, Refuse, LoadHistory, ApplyDecision, RunEnds, Abort,
           PersistenceFails, FailFails, Tell
<1>3. ASSUME NEW h \in Handlers, Request(h) PROVE row \in confirmations'
  <2>1. UNCHANGED storeVars
    BY <1>3, RequestRow DEF Accept, LocalInv, ServiceTypeOK
  <2> QED BY <2>1 DEF storeVars
<1>4. CASE Recover
  BY <1>4 DEF Recover, RecoverInterrupted
<1>5. CASE StartupPurge
  BY <1>1, <1>5 DEF StartupPurge, DeleteExpired
<1>6. CASE Stop \/ Tick \/ UNCHANGED vars
  BY <1>6 DEF Stop, Tick, vars, storeVars
<1> QED BY <1>2, <1>3, <1>4, <1>5, <1>6 DEF Next

\* An answer is never taken back.
LEMMA AnswerStays ==
    ASSUME ServiceInv, [Next]_vars, NEW id \in ConfirmationIDs,
           decided[id] \in Decisions
    PROVE  decided'[id] \in Decisions
<1> USE DEF ServiceInv
<1>1. decided \in [ConfirmationIDs -> Decisions \cup {"unused", "waiting"}]
  BY DEF LocalInv, ServiceTypeOK
<1>2. CASE UNCHANGED decided
  BY <1>2
<1>3. ASSUME NEW h \in Handlers, PrepareConfirmation(h)
      PROVE  decided'[id] \in Decisions
  <2>1. handlers[h].decision \in Decisions
    BY <1>3, ServingRow DEF PrepareConfirmation, At, RequestFits
  <2>2. \/ decided' = [decided EXCEPT ![handlers[h].confirmation] =
                         handlers[h].decision]
        \/ decided' = decided
    BY <1>3 DEF PrepareConfirmation
  <2> QED BY <1>1, <2>1, <2>2
<1>4. ASSUME NEW h \in Handlers, Suspend(h)
      PROVE  decided'[id] \in Decisions
  <2>1. PICK k \in ConfirmationIDs :
          decided[k] = "unused" /\ decided' = [decided EXCEPT ![k] = "waiting"]
    BY <1>4 DEF Suspend
  <2>2. k # id
    BY <2>1 DEF Decisions
  <2> QED BY <1>1, <2>1, <2>2
<1>5. \/ UNCHANGED decided
      \/ \E h \in Handlers : PrepareConfirmation(h) \/ Suspend(h)
  <2>1. ASSUME NEW h \in Handlers, Serve(h), ~PrepareConfirmation(h), ~Suspend(h)
        PROVE  UNCHANGED decided
    <3>1. CASE ApplyDecision(h)
      BY <3>1 DEF ApplyDecision
    <3> QED BY <2>1, <3>1, ServeHoldsNoMore
  <2>2. ASSUME NEW h \in Handlers, Request(h) PROVE UNCHANGED decided
    BY <2>2, RequestRow DEF Accept, LocalInv, ServiceTypeOK
  <2> QED BY <2>1, <2>2 DEF Next, Recover, StartupPurge, Stop, Tick, vars
<1> QED BY <1>2, <1>3, <1>4, <1>5

\* No step takes back what a handler tells.
LEMMA ToldStays ==
    ASSUME ServiceInv, [Next]_vars
    PROVE  KeepsTold
<1> USE DEF ServiceInv
<1>1. ASSUME NEW t \in Turns, turns[t].status \in Terminal \cup {"deleted"}
      PROVE  turns'[t].status \in {turns[t].status, "deleted"}
  BY <1>1, ServiceStoreStep, OutcomeStep
<1>2. ASSUME NEW t \in Turns, turns[t].status \in {"completed", "deleted"}
      PROVE  turns'[t].status \in {"completed", "deleted"}
  BY <1>1, <1>2 DEF Terminal
<1>3. ASSUME NEW t \in Turns, NEW id \in ConfirmationIDs, Offered(t, id)
      PROVE  Offered(t, id)'
  <2>1. CASE turns[t].status \in Terminal \cup {"deleted"}
    BY <1>1, <2>1 DEF Offered
  <2>2. CASE decided[id] \in Decisions
    BY <2>2, AnswerStays DEF Offered
  <2>3. ASSUME NEW row \in confirmations, row.turn = t, row.id = id
        PROVE  Offered(t, id)'
    BY <2>3, RowStaysOffered DEF Offered
  <2> QED BY <1>3, <2>1, <2>2, <2>3 DEF Offered
<1> QED BY <1>2, <1>3 DEF KeepsTold

\* The other fields of a row are set without touching its pc.
LEMMA EditKeepsPc ==
    ASSUME NEW r \in HandlerRow
    PROVE  /\ \A t : [r EXCEPT !.turn = t].pc = r.pc
           /\ \A H : [r EXCEPT !.history = H].pc = r.pc
           /\ \A id, d : [r EXCEPT !.confirmation = id, !.decision = d].pc = r.pc
           /\ \A pc : [r EXCEPT !.pc = pc].pc = pc
BY DEF HandlerRow

\* Only the two transactions that a client is told of lead to the telling.
LEMMA ServeTells ==
    ASSUME ServiceInv, NEW h \in Handlers, Serve(h), handlers'[h].pc \in Tells
    PROVE  Complete(h) \/ Suspend(h)
<1> DEFINE r == handlers[h]
           after == handlers'[h]
<1> USE DEF At, ServiceInv
<1>1. ASSUME NEW pc \in PCs \ Tells, Goto(h, Step(h, pc)) PROVE after.pc \notin Tells
  BY <1>1, OthersWait, StepRow
<1>2. CASE Respond(h)
  <2>1. after.pc = "idle"
    BY <1>2, OthersWait DEF Respond, Idle
  <2> QED BY <2>1 DEF Tells
<1>3. CASE Get(h)
  <2>1. PICK pc \in {"begin", "claim", "delete", "rename"} : Goto(h, Step(h, pc))
    BY <1>3, GetRoutes
  <2>2. pc \in PCs \ Tells
    BY <2>1 DEF PCs, Tells
  <2> QED BY <1>1, <2>1, <2>2
<1>4. CASE RunEnds(h) \/ Abort(h) \/ PersistenceFails(h)
  <2>1. PICK pc \in {"complete", "suspend", "fail"} : Goto(h, Step(h, pc))
    BY <1>4 DEF RunEnds, Abort, PersistenceFails
  <2>2. pc \in PCs \ Tells
    BY <2>1 DEF PCs, Tells
  <2> QED BY <1>1, <2>1, <2>2
<1>5. CASE PrepareTurn(h) \/ LoadHistory(h) \/ ApplyDecision(h) \/ Purge(h)
  <2>1. r \in HandlerRow
    BY ServingRow
  <2>2. /\ Step(h, "load") \in HandlerRow /\ Step(h, "load").pc = "load"
        /\ Step(h, "run") \in HandlerRow /\ Step(h, "run").pc = "run"
    BY StepRow DEF PCs
  <2>3. CASE PrepareTurn(h)
    <3>1. PICK t \in Turns : after = [Step(h, "load") EXCEPT !.turn = t]
      BY <2>3, OthersWait DEF PrepareTurn
    <3> QED BY <2>2, <3>1, EditKeepsPc DEF Tells
  <2>4. CASE LoadHistory(h)
    <3>1. after = [Step(h, "run") EXCEPT !.history = History(r.conversation)]
      BY <2>4, OthersWait DEF LoadHistory
    <3> QED BY <2>2, <3>1, EditKeepsPc DEF Tells
  <2>5. CASE ApplyDecision(h)
    <3>1. after = [r EXCEPT !.confirmation = NoConfirmation, !.decision = "none"]
      BY <2>5, OthersWait DEF ApplyDecision
    <3>2. after.pc = "run"
      BY <2>1, <2>5, <3>1, EditKeepsPc DEF ApplyDecision
    <3> QED BY <3>2 DEF Tells
  <2>6. CASE Purge(h)
    <3>1. \/ handlers' = handlers
          \/ Goto(h, [r EXCEPT !.pc = "create"])
          \/ Respond(h)
      BY <2>6 DEF Purge
    <3>2. CASE Goto(h, [r EXCEPT !.pc = "create"])
      <4>1. after = [r EXCEPT !.pc = "create"]
        BY <3>2, OthersWait
      <4>2. after.pc = "create"
        BY <2>1, <4>1, EditKeepsPc
      <4> QED BY <4>2 DEF Tells
    <3> QED BY <1>2, <2>6, <3>1, <3>2 DEF Purge, Tells
  <2> QED BY <1>5, <2>3, <2>4, <2>5, <2>6
<1>6. CASE PrepareConfirmation(h)
  <2>1. Goto(h, Step(h, "load")) \/ Respond(h)
    BY <1>6 DEF PrepareConfirmation
  <2>2. "load" \in PCs \ Tells
    BY DEF PCs, Tells
  <2> QED BY <1>1, <1>2, <2>1, <2>2
<1> QED
  BY <1>2, <1>3, <1>4, <1>5, <1>6
     DEF Serve, Refuse, Fail, FailFails, Tell, Delete, UpdateTitle, Create


\* A handler starts to tell in the step that committed.
LEMMA TellsCommitted ==
    ASSUME ServiceInv, NEW h \in Handlers, Complete(h) \/ Suspend(h)
    PROVE  Told(handlers[h])'
<1> DEFINE r == handlers[h]
           after == handlers'[h]
<1> USE DEF At, ServiceInv
<1>1. /\ r.owner \in Owners /\ r.conversation \in Conversations /\ r.turn \in Turns
  BY ServingRow DEF RequestFits, Complete, Suspend, Executing
<1>2. CASE Complete(h)
  <2>1. PICK at \in Stamps(h), m \in Sizes, b \in Sizes :
          CompleteTurn(r.owner, r.conversation, r.turn, at, at + Lifetime, m, b)
    BY <1>2 DEF Complete
  <2>2. turns'[r.turn].status = "completed"
    BY <1>1, <2>1, StampsFit, CompleteSpares
  <2>3. after = Step(h, "tell_completed")
    BY <1>2, OthersWait DEF Complete
  <2>4. after.pc = "tell_completed" /\ after.turn = r.turn
    BY <2>3, StepRow DEF PCs
  <2> QED BY <2>2, <2>4 DEF Told
<1>3. CASE Suspend(h)
  <2> DEFINE row == Step(h, "tell_confirmation")
  <2>1. PICK id \in ConfirmationIDs, exp \in Times :
          /\ Goto(h, [row EXCEPT !.confirmation = id])
          /\ [turn |-> r.turn, id |-> id, expiresAt |-> exp] \in confirmations'
    BY <1>3, StampsFit DEF Suspend, SuspendTurn
  <2>2. row \in HandlerRow /\ row.pc = "tell_confirmation" /\ row.turn = r.turn
    BY StepRow DEF PCs
  <2>3. after = [row EXCEPT !.confirmation = id]
    BY <2>1, OthersWait
  <2>4. /\ after.pc = "tell_confirmation" /\ after.confirmation = id
        /\ after.turn = r.turn
    <3> HIDE DEF row, after
    <3> QED BY <2>2, <2>3 DEF HandlerRow
  <2>5. \E q \in confirmations' : q.turn = after.turn /\ q.id = id
    <3> DEFINE q == [turn |-> r.turn, id |-> id, expiresAt |-> exp]
    <3>1. q \in confirmations' /\ q.turn = r.turn /\ q.id = id
      BY <2>1
    <3> HIDE DEF q, r, after
    <3> QED BY <2>4, <3>1
  <2> QED BY <2>4, <2>5 DEF Told, Offered
<1> QED BY <1>2, <1>3

\* What a handler tells stays true while it tells it.
LEMMA ToldKept ==
    ASSUME ServiceInv, [Next]_vars, NEW h \in Handlers, Told(handlers[h]),
           handlers'[h] = handlers[h]
    PROVE  Told(handlers[h])'
<1>1. /\ handlers[h].pc \in Tells => handlers[h].turn \in Turns
      /\ handlers[h].pc = "tell_confirmation"
           => handlers[h].confirmation \in ConfirmationIDs
  BY ServingRow DEF ServiceInv, RequestFits
<1> QED BY <1>1, ToldStays DEF Told, KeepsTold, Tells

\* Every step keeps that what is told is committed.
LEMMA TellsStep ==
    ASSUME ServiceInv, TellsWhatIsStored, [Next]_vars
    PROVE  TellsWhatIsStored'
<1> USE DEF ServiceInv
<1>1. \A g \in Handlers : Told(handlers[g])
  BY DEF TellsWhatIsStored, Told
<1>2. ASSUME NEW g \in Handlers PROVE Told(handlers[g])'
  <2>1. CASE handlers'[g].pc \notin Tells
    BY <2>1 DEF Told, Tells
  <2>2. CASE handlers'[g] = handlers[g]
    BY <1>1, <2>2, ToldKept
  <2>3. ASSUME NEW h \in Handlers, Serve(h) PROVE Told(handlers[g])'
    BY <2>1, <2>2, <2>3, ServeTells, TellsCommitted, ServeRow, OthersWait
  <2>4. ASSUME NEW h \in Handlers, Request(h) PROVE Told(handlers[g])'
    <3>1. PICK row : Accept(h, row) /\ NewRequest(row)
      BY <2>4, RequestRow DEF LocalInv, ServiceTypeOK
    <3> QED BY <2>1, <2>2, <3>1, OthersWait DEF Accept, Goto, NewRequest, Tells
  <2>5. CASE Stop
    BY <2>1, <2>5 DEF Stop, Idle, Tells
  <2>6. CASE Recover \/ StartupPurge \/ Tick \/ UNCHANGED vars
    BY <2>2, <2>6 DEF Recover, StartupPurge, Tick, vars
  <2> QED BY <2>3, <2>4, <2>5, <2>6 DEF Next
<1> QED BY <1>2 DEF TellsWhatIsStored, Told

\* The client hears of a completion or of a confirmation only once it is in the
\* database.  From then on nothing but a deletion takes the completion away before
\* the event is written, and the confirmation waits on its turn until it is
\* answered or the turn ends.
THEOREM ServiceTellsWhatIsStored == Spec => []TellsWhatIsStored
<1>1. Init => TellsWhatIsStored
  <2> SUFFICES ASSUME Init PROVE TellsWhatIsStored
    OBVIOUS
  <2> QED BY DEF Init, Idle, TellsWhatIsStored
<1> QED BY <1>1, TellsStep, ServiceInvariant, PTL DEF Spec


===============================================================================
