\* Two clients at the same time, or one whose pid is used again.
SPECIFICATION ManagerSpec
CONSTANTS
    Clients = {c1, c2}
    MaxConnects = 2
    MaxBroken = 1
    MaxCount = 1
    NoClient = NoClient
INVARIANTS NothingOutlivesMain
PROPERTIES PidReuseStartsClean ShutdownEnds WaitsEnd
CHECK_DEADLOCK FALSE
