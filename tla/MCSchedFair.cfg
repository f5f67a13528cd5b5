SPECIFICATION FairSpec
CONSTANTS
    t1 = t1
    t2 = t2
    t3 = t3
    Idle = Idle
    NumCores = 2
    Threads = {t1, t2, t3}
    Killable = {t1}
    Milliseconds = {}
    RawBound = 0
    KeyCapacity = 1
    EpilogueBound = 1
PROPERTIES ReadyRuns KilledStops
CHECK_DEADLOCK FALSE
