CONSTANTS
    s1 = s1
    s2 = s2
    r1 = r1
    w1 = w1
    c1 = c1
    NoMessage = NoMessage
    Scans = {s1, s2}
    Requests = {r1}
    Workers = {w1}
    Columns = {c1}
    Kinds <- AnyKind
    Faults <- OnceFaults
    MaxFaults = 1
SPECIFICATION FairSpec
INVARIANTS
    TypeOK
    ScanningHasScan
    ClassifiedAfterIngest
PROPERTIES
    ScanEnds
    CompletedStays
CHECK_DEADLOCK FALSE
