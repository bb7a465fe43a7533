SPECIFICATION FairSpec
CONSTANTS
    Session = {s1, s2, s3}
    NoSession = NoSession
PROPERTY ServedAgentIsReported
CHECK_DEADLOCK FALSE
