SPECIFICATION FairSpec
CONSTANTS
    d = d
    f1 = f1
    s1 = s1
    Dispatcher = d
    Followups = {f1}
    Sweeps = {s1}
    ClaimantDies = FALSE
CHECK_DEADLOCK FALSE
INVARIANTS
    TypeOK
    ReportedOnce
    ReportsAreReal
PROPERTIES
    EndIsReported
    BlockedIsTold
