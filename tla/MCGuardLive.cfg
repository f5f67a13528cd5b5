SPECIFICATION FairSpec
CONSTANTS
    c1 = c1
    c2 = c2
    t1 = t1
    t2 = t2
    t3 = t3
    Cores = {c1, c2}
    Threads = {t1, t2, t3}
    Epilogues = {"Timer"}
    TicketModulus = 3
    QueueCapacity = 1
PROPERTIES LevelGranted
