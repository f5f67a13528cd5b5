SPECIFICATION Spec
CONSTANTS
    t1 = t1
    t2 = t2
    t3 = t3
    Idle = Idle
    NumCores = 2
    Threads = {t1, t2}
    Killable = {t1, t2}
    Milliseconds = {10}
    RawBound = 0
    KeyCapacity = 1
    EpilogueBound = 2
SYMMETRY Symmetry
CHECK_DEADLOCK FALSE
INVARIANTS OnePlace
PROPERTIES KilledNotDispatched
