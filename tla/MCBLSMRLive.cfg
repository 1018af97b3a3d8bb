SPECIFICATION FairSpec
CONSTANTS
    p1 = p1
    p2 = p2
    p3 = p3
    p4 = p4
    k1 = k1
    Replica <- TwoReplicas
    Cmd <- TwoCmds
    Key <- MCKey
    KeyOf <- MCKeyOf
    Protocol = "Wintermute"
    Owner <- TwoOwners
    System <- TwoDissemination
    Committee <- Everybody
    Causal = FALSE
    Timely = FALSE
INVARIANTS
    TypeOK
PROPERTIES
    ImplementsReplicas
    EventuallyStable
CHECK_DEADLOCK FALSE
