\* A stream closed while the session is deleted.
CONSTANTS
    a = a
    b = b
    Streams = {a}
    Final = 2
    Spilled = {}
    Oversized = {}
    BatchSize = 2
    MaxFaults = 0
    MaxDisconnects = 0
    Deletable = TRUE
SPECIFICATION Spec
INVARIANTS AllStreamStateDeleted
CHECK_DEADLOCK FALSE
