SPECIFICATION FairSpec
CONSTANTS
    Session = {s1, s2, s3, s4}
    NoSession = NoSession
INVARIANTS TypeOK RegisteredServes
PROPERTY AbsenceIsNoticed
CHECK_DEADLOCK FALSE
