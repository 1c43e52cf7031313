\* DynamoDB: one stream with faults and a deletion (ONE); two streams of one
\* session (TWO).
\* The memory store: two streams and a deletion (MEMORY).
\* The event bus: two events, each published twice at most, and pages of one (BUS).
\* A response of up to three events (SSE).
CONSTANTS
    Streams = {a}
    Final = 3
    Spilled = {3}
    Oversized = {}
    BatchSize = 2
    MaxFaults = 2
    MaxDisconnects = 1
    Deletable = TRUE
    Pair = {a, b}
    PairFinal = 2
    Events = {1, 2}
    RetryAttempts = 1
    Limit = 1
    MaxClock = 2
    MaxCalls = 2
    MaxEvents = 3
SPECIFICATION StreamsSpec
INVARIANTS StreamsTypeOK ClientsReceive EventsStayGone OthersSafe
PROPERTIES StreamsImplementStreamLog
CHECK_DEADLOCK FALSE
