\* One stream of each store, its client reconnecting once and its session
\* deleted; one session and one MicroVM with two clients; a rate limiter with
\* two; one task that may be cancelled.
CONSTANTS
    None = None
    a = a
    s1 = s1
    v1 = v1
    c1 = c1
    c2 = c2
    Callers = {c1, c2}
    Poller = c1
    Sessions = {s1}
    VMs = {v1}
    MaxCommands = 2
    MaxGeneration = 1
SPECIFICATION ProgressSpec
PROPERTIES ToolSubscriptionsEnd SessionDeletionEnds RecordsConverge CallsEnd TaskSettles
CHECK_DEADLOCK FALSE
