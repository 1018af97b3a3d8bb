SPECIFICATION FairSpec
CONSTANTS
    p1 = p1
    p2 = p2
    p3 = p3
    p4 = p4
    Process <- FourProcesses
    MessageId <- TwoMessages
INVARIANTS
    TypeOK
    NothingKept
PROPERTIES
    EventuallyDelivered
    ImplementsCertified
CHECK_DEADLOCK FALSE
