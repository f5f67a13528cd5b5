SPECIFICATION Spec
CONSTANTS
    Cores = {c1, c2}
    Tasks = {t1, t2}
    Idle = idle
    Vectors = {6, 14}
    Statuses = {0}
    Blocking = {}
CHECK_DEADLOCK FALSE
INVARIANT ReportedOwn
