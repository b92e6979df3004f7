SPECIFICATION StoreSpec
CONSTANTS
    Owners = {o1, o2}
    NoOwner = NoOwner
    Conversations = {c1, c2}
    NoConversation = NoConversation
    Turns = {t1, t2, t3}
    ConfirmationIDs = {k1, k2}
    Times = {0, 1}
    Sizes = {1, 2}
    MaxConversations = 2
    MaxTurns = 2
    MaxMessages = 2
    MaxConversationBytes = 2
    MaxDatabaseBytes = 3
SYMMETRY Symmetry
CHECK_DEADLOCK FALSE
INVARIANTS
    StoreTypeOK
    OneActiveTurn
    WaitingHasConfirmation
    TurnsHaveConversation
    BytesAccounted
PROPERTIES
    OutcomeIsFinal
    HistoryGrowsAtEnd
    RenameKept
