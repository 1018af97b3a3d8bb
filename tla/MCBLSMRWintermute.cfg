SPECIFICATION Spec
CONSTANTS
    p1 = p1
    p2 = p2
    p3 = p3
    p4 = p4
    k1 = k1
    Replica <- FourReplicas
    Cmd <- TwoCmds
    Key <- MCKey
    KeyOf <- MCKeyOf
    Protocol = "Wintermute"
    Owner <- TwoOwners
    System <- FourDissemination
    Committee <- Everybody
    Causal = TRUE
    Timely = FALSE
SYMMETRY Symmetry
INVARIANTS
    ConflictOrder
    DecisionVisible
VIEW LiveState
CHECK_DEADLOCK FALSE
