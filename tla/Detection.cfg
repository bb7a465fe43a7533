SPECIFICATION DSpec
CONSTANTS
    a = a
    b = b
    Ip = {a, b}
    NoIp = NoIp
    Line <- Lines
    Window <- Windows
    Threshold <- Thresholds
    Enabled <- AllEnabled
    Label = {"ssh_brute_force"}
    MaxLines = 4
    MaxTime = 2
    MaxCount = 2
INVARIANTS TypeOK SinceLastAlert NeverWeaker
PROPERTY AlertsWhenDue
CHECK_DEADLOCK FALSE
