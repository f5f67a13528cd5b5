SPECIFICATION Spec
CONSTANTS
    t1 = t1
    t2 = t2
    t3 = t3
    Idle = Idle
    NumCores = 2
    Threads = {t1, t2}
    Killable = {}
    Milliseconds = {}
    RawBound = 1
    KeyCapacity = 2
    EpilogueBound = 1
SYMMETRY Symmetry
INVARIANTS KeysAccounted NoMissedWork
