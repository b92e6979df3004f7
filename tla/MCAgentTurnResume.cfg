SPECIFICATION Spec
CONSTANTS
    Tools = {stop, show}
    CallIDs = {i1, i2}
    MaxIterations = 3
    MaxToolCallsPerTurn = 2
    MaxToolCallsPerAsk = 3
SYMMETRY Symmetry
CHECK_DEADLOCK FALSE
INVARIANTS
    SuspensionIsResumable
