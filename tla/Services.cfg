CONSTANTS
    None = None
    c1 = c1
    c2 = c2
    s1 = s1
    s2 = s2
    v1 = v1
    v2 = v2
    e1 = e1
    e2 = e2
    e3 = e3
    f1 = f1
    Callers = {c1, c2}
    Strategies <- AllStrategies
    Grace = 1
    CallTime = 1
    MaxClock = 4
    Sessions = {s1, s2}
    VMs = {v1, v2}
    MaxCommands = 3
    MaxGeneration = 3
    Entries = {e1, e2, e3}
    Flushes = {f1}
    BufferSize = 1
    MaxRetries = 2
    Texts = 3
    Records = {1, 2, 3}
    MaxInvocations = 3
    MaxResponseBytes = 3
    Sizes = {1, 2}
    MaxChunks = 2
    MaxRecorded = 3
    Words = {"u"}
    Params = {"x", "y"}
    Methods = {"GET"}
    MaxLength = 2
    MaxRoutes = 3
    Models <- SmallModels
    BindConfigs <- SmallConfigs
    Requests <- SmallRequests
SPECIFICATION ServicesSpec
SYMMETRY Same
INVARIANTS ServicesTypeOK EndIsTrue SerialCommandsKept HandlersSafe NotifierSafe ResponsesTrue RequestsUnderstood BatchEmbedded WindowsHold
PROPERTIES DeniedOnlyWhenUsed
CHECK_DEADLOCK FALSE
