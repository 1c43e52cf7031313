\* Every call sets a TTL no shorter than the lease.  A call that is given up was
\* applied before, or never is; that of the other instance may land later.
CONSTANTS
    w1 = w1
    w2 = w2
    None = None
    Workers = {w1, w2}
    Duration = 3
    MaxSkew = 1
    Ahead <- MCAhead
    TTLs = {3, 4}
    MaxLate = 0
    MaxClock = 6
    MayBeLate = TRUE
SPECIFICATION LeaseSpec
INVARIANTS TypeOK MutualExclusion LeaseBounded ReleaseFrees
PROPERTIES ImplementsLeaseLock FailsClosed LateFailsClosed
