CONSTANTS
    s1 = s1
    r1 = r1
    r2 = r2
    w1 = w1
    w2 = w2
    c1 = c1
    NoMessage = NoMessage
    Scans = {s1}
    Requests = {r1, r2}
    Workers = {w1, w2}
    Columns = {c1}
    Kinds <- AnyKind
    Faults <- AllFaults
    MaxFaults = 2
SPECIFICATION FairSpec
INVARIANTS
    RowsBounded
PROPERTIES
    LogEnds
CHECK_DEADLOCK FALSE
