SPECIFICATION TrackedSpec
CONSTANTS
    p1 = p1
    p2 = p2
    p3 = p3
    p4 = p4
    k1 = k1
    Replica <- TwoReplicas
    Cmd <- ThreeCmds
    Key <- MCKey
    KeyOf <- MCKeyOf
    Protocol = "Wintermute"
    Owner <- TwoOwners
    System <- TwoDissemination
    Committee <- Everybody
    Causal = FALSE
    Timely = TRUE
INVARIANTS
    TrackerExact
    CyclesCounted
    TrackerDrained
    ConflictOrder
    ExecutedHasBody
CHECK_DEADLOCK FALSE
