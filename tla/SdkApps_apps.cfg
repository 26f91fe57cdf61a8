CONSTANTS
    Calls <- MCCalls
    Bodies = {"allowed", "refused"}
    NoBody = "nothing"
    Statuses <- MCStatuses
    Retrievers = {"docs"}
    Lone = {"alone"}
    Docs = {"d1", "d2"}
    MaxEvents = 3
SPECIFICATION Spec
INVARIANTS FailsClosed AnsweredOnce ContextsReleased StreamDelivered
PROPERTIES EveryRequestAnswered
CHECK_DEADLOCK FALSE
