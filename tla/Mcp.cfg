\* Tasks of a session do not interact: one is enough.  Two messages of a session
\* are served by two processes.  There are sessions of each version, and tools
\* that stream or run as tasks.  A list has three tasks, two to a page.
CONSTANTS
    None = None
    t1 = t1
    c1 = c1
    c2 = c2
    r1 = r1
    r2 = r2
    Tasks = {t1}
    Cancels = {c1, c2}
    Waits = {r1, r2}
    p1 = p1
    p2 = p2
    k1 = k1
    Messages = {c1, c2}
    Processes = {p1, p2}
    Keys = {k1}
    TTL = 2
    CallTime = 1
    Staleness = 0
    MaxBatch = 2
    MaxClock = 3
    MaxSessions = 2
    Headers = {"absent", "2026-07-28", "2025-11-25", "2025-03-26", "unknown"}
    Metas = {"absent", "2026-07-28", "unknown"}
    Methods = {"initialize", "server/discover", "resources/read", "tools/call", "tasks/result", "notifications/initialized"}
    PageTasks = {1, 2, 3}
    PageTimes = {1, 2}
    PageLimit = 2
CHECK_DEADLOCK FALSE
SPECIFICATION McpSpec
INVARIANTS McpTypeOK RecordsSafe AnswersTrue
PROPERTIES ImplementsTaskBoard DeletedStaysGone
