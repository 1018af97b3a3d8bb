SPECIFICATION Spec
CONSTANTS
    c1 = c1
    N = 4
    Cmd <- OneCommand
    Owner <- ByLast
    Rotating = TRUE
    Ordered = TRUE
    MaxBlocks = 5
INVARIANTS
    TypeOK
    HoldsChain
    CommandKept
PROPERTIES
    ImplementsLedger
CHECK_DEADLOCK FALSE
