SPECIFICATION Spec
CONSTANTS
    c1 = c1
    N = 4
    Cmd <- NoCommand
    Owner <- ByLast
    Rotating = TRUE
    Ordered = FALSE
    MaxBlocks = 5
INVARIANTS
    OneChain
    NoStaleQuorums
CHECK_DEADLOCK FALSE
