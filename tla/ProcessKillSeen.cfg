SPECIFICATION KillSpec
CONSTANTS
    Request = {r1, r2}
    NoRequest = NoRequest
    MaxMs = 2
    Process = {first, second, sshd}
    NoProcess = NoProcess
    PidOf <- MCPidOf
    ProtectedProcess = {sshd}
INVARIANTS SignalledIsWhatUiSaw
CHECK_DEADLOCK FALSE
SYMMETRY Symmetric
