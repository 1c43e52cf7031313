\* One window of two sub-windows, which admits its limit in each.
CONSTANTS
    c1 = c1
    c2 = c2
    Callers = {c1, c2}
    Strategies <- SlidingOnly
    Grace = 1
    CallTime = 1
    MaxClock = 4
    MaxRecorded = 3
SPECIFICATION Spec
INVARIANTS SlidingWindowHolds
