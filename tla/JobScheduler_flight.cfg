CONSTANTS
    j1 = j1
    j2 = j2
    w1 = w1
    w2 = w2
    NoWorker = NoWorker
    NoJob = NoJob
    Jobs = {j1, j2}
    Workers = {w1, w2}
    Requests = {}
    Recurrence = {TRUE, FALSE}
    MaxRetries <- MixedRetries
    DueLimit = 2
    RetryLimit = 1
    Faults <- QueueFaults
    MaxFaults = 1
    MaxExecs = 2
SPECIFICATION Spec
SYMMETRY WorkerSymmetry
INVARIANTS
    SingleFlight
    SettledAgrees
