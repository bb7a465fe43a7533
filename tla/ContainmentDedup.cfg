SPECIFICATION FairSpec
CONSTANTS
    Ip = {ip1}
    Kinds <- KindsMedium
    NoRow = NoRow
    Mode = "auto_defend"
    BlockDuration = 2
    Cooldown = 1
    EscalationWindow = 3
    DedupWindow = 2
    QueueCap = 4
    Threshold = 3
    Durations = {0}
    Lag = 0
    Ahead = 0
    MaxTime = 4
    MaxLogs = 3
    MaxManual = 0
    MaxCrashes = 0
PROPERTIES EscalationSurvivesDedup
CHECK_DEADLOCK FALSE
