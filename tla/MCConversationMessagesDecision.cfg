SPECIFICATION Spec
CONSTANTS
    Prompts = {2, 6}
    CallIDs = {1, 2, 3}
    Answers = {1, 2, 7}
    Requests <- SomeRequests
    MaxIterations = 2
    MaxToolCallsPerTurn = 2
    MaxToolArguments = 8
    MaxTurns = 3
    MaxMessages = 6
    MaxConversationBytes = 40
    MaxConfirmationState = 33
    MaxHistoryMessages = 4
    MaxHistoryBytes = 20
    AgentHistoryMessages = 5
    AgentHistoryBytes = 24
    PageLimits = {1, 3}
    PageBytes = 7
    NoConfirmation = NoConfirmation
CHECK_DEADLOCK FALSE
INVARIANTS
    DecisionApplies
