SPECIFICATION Spec
CONSTANTS
    p1 = p1
    p2 = p2
    k1 = k1
    k2 = k2
    Cmd <- MCCmd
    Key <- MCKey
    KeyOf <- MCKeyOf
    Replica <- MCReplica
SYMMETRY Symmetry
INVARIANTS
    TypeOK
    LogsExact
    NoneStranded
PROPERTY
    ImplementsDependencyOrder
CHECK_DEADLOCK FALSE
