\* One window, which is denied although it has room.
CONSTANTS
    c1 = c1
    c2 = c2
    Callers = {c1, c2}
    Strategies <- SingleWindow
    Grace = 1
    CallTime = 1
    MaxClock = 4
    MaxRecorded = 3
SPECIFICATION Spec
PROPERTIES DeniedOnlyWhenFull
