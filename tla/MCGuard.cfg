SPECIFICATION Spec
CONSTANTS
    c1 = c1
    c2 = c2
    t1 = t1
    t2 = t2
    t3 = t3
    Cores = {c1, c2}
    Threads = {t1, t2, t3}
    Epilogues = {"Timer", "Keyboard"}
    TicketModulus = 3
    QueueCapacity = 2
SYMMETRY Symmetry
INVARIANTS NoStrandedEpilogue
PROPERTIES InterruptsRestored ImplementsLevel
