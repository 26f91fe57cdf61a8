SPECIFICATION Spec
CONSTANTS
    KnownGaps <- Gaps
    MaxIssues = 2
    MaxLoads = 2
INVARIANT ShowsItsEffect
PROPERTIES NeverOlder PollCatchesUp
