\* Some calls set a TTL and some do not.
CONSTANTS
    w1 = w1
    w2 = w2
    None = None
    Workers = {w1, w2}
    Duration = 3
    MaxSkew = 0
    Ahead <- MCAhead
    TTLs = {0, 4}
    MaxLate = 0
    MaxClock = 7
    MayBeLate = FALSE
SPECIFICATION LeaseSpec
PROPERTIES AcquireFailsClosed
