SPECIFICATION Spec
CONSTANTS
    Owners = {o1}
    NoOwner = NoOwner
    Conversations = {c1}
    NoConversation = NoConversation
    Turns = {t1, t2}
    NoTurn = NoTurn
    ConfirmationIDs = {k1, k2}
    NoConfirmation = NoConfirmation
    Handlers = {h1}
    Times = {0, 1, 2, 3, 4, 5, 6, 7, 8, 9}
    Sizes = {1}
    MaxConversations = 1
    MaxTurns = 2
    MaxMessages = 2
    MaxConversationBytes = 2
    MaxDatabaseBytes = 2
    MaxConcurrentAsks = 2
    Lifetime = 3
    ConfirmationLifetime = 2
    ExpiryDeleteBatch = 1
    MaxClock = 3
SYMMETRY Symmetry
CHECK_DEADLOCK FALSE
INVARIANTS
    AnswerableOnceAsked
