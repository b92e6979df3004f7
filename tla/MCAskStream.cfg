SPECIFICATION Spec
CONSTANTS
    Tools = {stop, show}
    NoTool = NoTool
    MaxIterations = 2
    MaxToolCallsPerTurn = 2
    MaxAskStreamBytes = 5
    Tokens = {1, 2}
    MaxInt64 = 3
SYMMETRY Symmetry
CHECK_DEADLOCK FALSE
INVARIANTS
    AskTypeOK
    EveryCallIsAudited
    StreamEndsOnce
    AuditTellsOutcome
    TokensSumOrSaturate
