\* Two streams: an event committed behind the cursor.
CONSTANTS
    a = a
    b = b
    Streams = {a, b}
    Final = 2
    Spilled = {}
    Oversized = {}
    BatchSize = 2
    MaxFaults = 0
    MaxDisconnects = 0
    Deletable = FALSE
SPECIFICATION Spec
INVARIANTS ClosedAfterAll
CHECK_DEADLOCK FALSE
