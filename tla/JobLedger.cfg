\* Three workers contend for two slots, two workers transition a job that may
\* be deleted and created again, three callers use one idempotency key.
CONSTANTS
    w1 = w1
    w2 = w2
    w3 = w3
    j1 = j1
    j2 = j2
    c1 = c1
    c2 = c2
    c3 = c3
    None = None
    Workers = {w1, w2, w3}
    Duration = 1
    Limits = {2}
    Limit = 2
    MaxSkew = 0
    Ahead <- MCAhead
    TTLs = {1}
    MaxClock = 3
    JobWorkers = {j1, j2}
    Statuses = {"RUNNING", "SUCCEEDED"}
    MaxVersion = 3
    MaxLives = 2
    Callers = {c1, c2, c3}
SYMMETRY Same
CHECK_DEADLOCK FALSE
SPECIFICATION LedgerSpec
INVARIANTS LedgerTypeOK SlotExclusion OccupancyCoversHolders LeakedSlotsLapse VersionNamesState RequestsSafe
PROPERTIES ImplementsSemaphore NoLostUpdate
