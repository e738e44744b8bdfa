SPECIFICATION Spec
CONSTANTS
    a = a
    Arbs = {a}
    QueueCap = 1
    MaxFaults = 3
INVARIANTS
    RunningIsWatched
    WatchedIsRunning
    OnlyAcceptedRun
PROPERTY RunIsHonoured
CHECK_DEADLOCK FALSE
