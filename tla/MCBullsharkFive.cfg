SPECIFICATION Spec
CONSTANTS
    N = 5
    Positions = {0, 100, 430, 970, 1160}
    Latencies <- InTurns
    Timeouts = {600, 1200, 12000}
    MaxTime = 60000
    MaxLag = 8
    SubmitInterval = 30
    SubmitLimit = 0
INVARIANTS
    AnchorAgreement
    KeepsOrdering
CHECK_DEADLOCK FALSE
