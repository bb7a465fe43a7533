SPECIFICATION KillSpec
CONSTANTS
    Request = {r1, r2}
    NoRequest = NoRequest
    MaxMs = 2
    Process = {first, second, sshd}
    NoProcess = NoProcess
    PidOf <- MCPidOf
    ProtectedProcess = {sshd}
INVARIANTS KillTypeOK AnswersFindTheirRequest OneProcessPerCommand StrangerIsNewer SuccessMeansGone
CHECK_DEADLOCK FALSE
SYMMETRY Symmetric
