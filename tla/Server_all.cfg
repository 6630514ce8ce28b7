CONSTANTS
    p1 = p1
    p2 = p2
    p3 = p3
    live = live
    ready = ready
    login = login
    None = None
    Processes = {p1, p2, p3}
    Down = {p3}
    Files <- MixedFiles
    TableThere = FALSE
    Faults = TRUE
    Requests = {live, ready, login}
    Path <- MCPath
    Workers = {w1}
    SharedLimits = TRUE
    MaxTx = 1
    MaxWork = 1
    MaxSignals = 2
    Kinds <- MCKinds
    RouteCap = 2
    Window = 2
    RecentCap = 3
    SampleCap = 3
    Cooldown = 3
    Critical = 50
    Elevated = 25
    Slow = 40
    MaxRequests = 4
SPECIFICATION ServerSpec
INVARIANTS MigrationsSound ServerSound
PROPERTIES AlertsInTime ServerProgress
CHECK_DEADLOCK FALSE
