SPECIFICATION Spec
CONSTANTS
    CallIDs = {i1, i2, i3}
    Full = 2
    MaxContentBlocks = 4
    MaxToolCalls = 3
SYMMETRY Symmetry
CHECK_DEADLOCK FALSE
INVARIANTS
    MessagesTypeOK
    AllOrNothing
    DistinctCallIDs
PROPERTIES
    MessagesContract
