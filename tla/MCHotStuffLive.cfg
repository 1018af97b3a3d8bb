SPECIFICATION FairSpec
CONSTANTS
    c1 = c1
    N = 4
    Cmd <- NoCommand
    Owner <- ByLast
    Rotating = FALSE
    Ordered = TRUE
    MaxBlocks = 4
PROPERTIES
    EventuallyExecuted
CHECK_DEADLOCK FALSE
