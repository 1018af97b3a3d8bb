SPECIFICATION Spec
CONSTANTS
    N = 4
    Positions = {0, 1, 4, 9, 11}
    Latencies <- OnALine
    Timeouts = {20, 200}
    MaxTime = 200
    MaxLag = 4
    SubmitInterval = 30
    SubmitLimit = 1
INVARIANTS
    TypeOK
    OrderAgreement
    AnchorAgreement
    CausalOrder
    KeepsOrdering
    CommandKept
    Running
CHECK_DEADLOCK FALSE
