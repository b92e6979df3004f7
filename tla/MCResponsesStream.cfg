SPECIFICATION Spec
CONSTANTS
    OutputIndexes = {1, 2}
    CallIDs = {i1}
    NoID = NoID
    Full = 1
    MaxOutput = 2
    MaxPendingToolCalls = 2
    MaxEmitted = 4
CHECK_DEADLOCK FALSE
INVARIANTS
    ResponsesTypeOK
    FinalCallsEmitted
PROPERTIES
    ResponsesContract
