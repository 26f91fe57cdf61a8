SPECIFICATION Spec
CONSTANTS
    MaxClicks = 2
    MaxVisits = 1
    MaxInbox = 1
INVARIANT TypeOK
PROPERTIES BusyWhileRunning BecomesFree
CHECK_DEADLOCK FALSE
