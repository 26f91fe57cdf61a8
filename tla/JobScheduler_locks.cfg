CONSTANTS
    j1 = j1
    j2 = j2
    w1 = w1
    w2 = w2
    NoWorker = NoWorker
    NoJob = NoJob
    Jobs = {j1}
    Workers = {w1, w2}
    Requests = {}
    Recurrence = {FALSE}
    MaxRetries <- OneRetry
    DueLimit = 1
    RetryLimit = 1
    Faults <- LockFaults
    MaxFaults = 1
    MaxExecs = 2
SPECIFICATION FairSpec
PROPERTIES
    LockReleased
