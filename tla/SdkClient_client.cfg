CONSTANTS
    Calls = {plain, signalled}
    Signals = {signalled}
    Bodies = {body}
    NoBody = NoBody
    Statuses <- MCStatuses
    Retries = 2
    Faults = {"connection", "truncated", "stall"}
SPECIFICATION Spec
INVARIANTS TypeOK ExecutionsAccounted
PROPERTIES QuietAfter PromiseKept Settles
