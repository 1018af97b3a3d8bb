SPECIFICATION Spec
CONSTANTS
    p1 = p1
    p2 = p2
    p3 = p3
    p4 = p4
    k1 = k1
    Replica <- FourReplicas
    Cmd <- TwoCmds
    Key <- MCKey
    KeyOf <- MCKeyOf
    Protocol = "ThreeJane"
    Owner <- TwoOwners
    System <- Grid
    Committee <- Everybody
    Causal = TRUE
    Timely = FALSE
SYMMETRY Symmetry
INVARIANT
    ExecutedHasBody
CHECK_DEADLOCK FALSE
