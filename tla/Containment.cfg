SPECIFICATION FairSpec
CONSTANTS
    Ip = {ip1}
    Kinds <- KindsMixed
    NoRow = NoRow
    Mode = "auto_defend"
    BlockDuration = 1
    Cooldown = 1
    EscalationWindow = 2
    DedupWindow = 1
    QueueCap = 2
    Threshold = 2
    Durations = {0, 1}
    Lag = 0
    Ahead = 1
    MaxTime = 3
    MaxLogs = 2
    MaxManual = 1
    MaxCrashes = 1
INVARIANTS TypeOK EvidenceFirst
PROPERTIES ImplementsBlockTable ExpiredRowGoes
CHECK_DEADLOCK FALSE
