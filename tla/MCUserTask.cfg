SPECIFICATION FairSpec
CONSTANTS
    Cores = {c1, c2}
    Tasks = {t1, t2}
    Idle = idle
    Vectors = {14}
    Statuses = {0}
    Blocking = {t1}
CHECK_DEADLOCK FALSE
INVARIANTS OwnKernelStack OwnUserStack ReaderHasStatus
PROPERTIES DoomedDie
