CONSTANTS
    j1 = j1
    j2 = j2
    w1 = w1
    w2 = w2
    NoWorker = NoWorker
    NoJob = NoJob
    r1 = r1
    Jobs = {j1}
    Workers = {w1, w2}
    Requests = {r1}
    Recurrence = {FALSE}
    MaxRetries <- NoRetries
    DueLimit = 1
    RetryLimit = 1
    Faults <- SteadyFaults
    MaxFaults = 1
    MaxExecs = 2
SPECIFICATION Spec
SYMMETRY WorkerSymmetry
INVARIANTS
    TypeOK
    NoneForgotten
PROPERTIES
    RunsOnce
