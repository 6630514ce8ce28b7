CONSTANTS
    c1 = c1
    c2 = c2
    Callers = {c1, c2}
    MaxAttempts = 2
    MaxCalls = 4
    Staging = FALSE
    Workers = 1
    Lease = 3
    MaxEvents = 5
    MaxNotifications = 2
SPECIFICATION DeliveriesSpec
INVARIANT CallsSound
PROPERTIES DeliveriesEnd OldestFirst
CHECK_DEADLOCK FALSE
