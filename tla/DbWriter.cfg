SPECIFICATION FairSpec
CONSTANTS
    Clients = {c1, c2}
    Background = {b1}
    Detached = {d1}
    QueueCap = 2
    Attempts = 3
    MaxWrites = 5
    MaxErrors = 4
INVARIANTS TypeOK CommitOrder OrderlyStopIsComplete
PROPERTIES EveryWriteCommits ShutdownEnds
CHECK_DEADLOCK FALSE
