SPECIFICATION FairSpec
CONSTANTS
    Ip = {ip1}
    Kinds <- KindsHigh
    NoRow = NoRow
    Mode = "auto_defend"
    BlockDuration = 1
    Cooldown = 1
    EscalationWindow = 2
    DedupWindow = 1
    QueueCap = 4
    Threshold = 2
    Durations = {0}
    Lag = 0
    Ahead = 0
    MaxTime = 4
    MaxLogs = 1
    MaxManual = 0
    MaxCrashes = 0
PROPERTIES RuleFollowsRow
CHECK_DEADLOCK FALSE
