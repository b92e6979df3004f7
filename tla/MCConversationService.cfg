SPECIFICATION Spec
CONSTANTS
    Owners = {o1}
    NoOwner = NoOwner
    Conversations = {c1}
    NoConversation = NoConversation
    Turns = {t1, t2}
    NoTurn = NoTurn
    ConfirmationIDs = {k1, k2}
    NoConfirmation = NoConfirmation
    Handlers = {h1, h2}
    Times = {0, 1, 2, 3, 4, 5}
    Sizes = {1}
    MaxConversations = 1
    MaxTurns = 2
    MaxMessages = 2
    MaxConversationBytes = 2
    MaxDatabaseBytes = 2
    MaxConcurrentAsks = 2
    Lifetime = 1
    ConfirmationLifetime = 1
    ExpiryDeleteBatch = 1
    MaxClock = 1
SYMMETRY Symmetry
CHECK_DEADLOCK FALSE
INVARIANTS
    ServiceTypeOK
    ExecutionOwnsTurn
    RunningHasExecution
    CallRunsOnceApproved
    HistoryIsCurrent
    TellsWhatIsStored
