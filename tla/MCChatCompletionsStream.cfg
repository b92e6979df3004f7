SPECIFICATION Spec
CONSTANTS
    Indexes = {0, 2, 3}
    CallIDs = {i1, i2}
    Fragments = {f1, f2}
    Empty = Empty
    MaxPendingToolCalls = 2
    MaxDeltas = 3
SYMMETRY Symmetry
CHECK_DEADLOCK FALSE
INVARIANTS
    ChatTypeOK
    CallsAsStreamed
PROPERTIES
    ChatContract
