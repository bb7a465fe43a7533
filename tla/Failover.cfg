SPECIFICATION FairSpec
CONSTANTS
    n1 = n1
    n2 = n2
    Node = {n1, n2}
    Primary = {n1}
    LockPath <- OnePath
    DefaultPath = "default"
    Peer <- Other
    Free = Free
    Threshold = 2
    Cooloff = 1
    MaxOutages = 2
    MaxManual = 1
    MaxInspections = 2
INVARIANT TypeOK
PROPERTIES ImplementsLeadership FailoverHappens
CHECK_DEADLOCK FALSE
