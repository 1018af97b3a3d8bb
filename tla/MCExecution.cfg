SPECIFICATION LoopSpec
CONSTANTS
    p1 = p1
    p2 = p2
    Cmd <- MCCmd
    Replica <- MCReplica
INVARIANTS
    LoopInv
    SameOrder
    DependencyFirst
    NothingWaits
PROPERTIES
    ImplementsOrder
CHECK_DEADLOCK FALSE
