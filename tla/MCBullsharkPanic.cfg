SPECIFICATION Spec
CONSTANTS
    N = 5
    Positions = {0, 100, 430, 970, 1160}
    Latencies <- InTurns
    Timeouts = {12000}
    MaxTime = 60000
    MaxLag = 8
    SubmitInterval = 30
    SubmitLimit = 0
INVARIANTS
    Running
CHECK_DEADLOCK FALSE
