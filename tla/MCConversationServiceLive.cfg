SPECIFICATION FairSpec
CONSTANTS
    Owners = {o1}
    NoOwner = NoOwner
    Conversations = {c1}
    NoConversation = NoConversation
    Turns = {t1, t2}
    NoTurn = NoTurn
    ConfirmationIDs = {k1}
    NoConfirmation = NoConfirmation
    Handlers = {h1}
    Times = {0, 1, 2, 3, 4, 5, 6}
    Sizes = {1}
    MaxConversations = 1
    MaxTurns = 2
    MaxMessages = 2
    MaxConversationBytes = 2
    MaxDatabaseBytes = 2
    MaxConcurrentAsks = 2
    Lifetime = 2
    ConfirmationLifetime = 1
    ExpiryDeleteBatch = 1
    MaxClock = 3
CHECK_DEADLOCK FALSE
PROPERTIES
    ConversationUnblocks
