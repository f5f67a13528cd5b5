SPECIFICATION FairSpec
CONSTANTS
    t1 = t1
    t2 = t2
    t3 = t3
    Idle = Idle
    NumCores = 2
    Threads = {t1, t2}
    Killable = {}
    Milliseconds = {10}
    RawBound = 0
    KeyCapacity = 1
    EpilogueBound = 1
PROPERTIES SleepEnds
CHECK_DEADLOCK FALSE
