SPECIFICATION MCSpec
CONSTANTS
    Values = {a, b}
    CAPACITY = 4
    Queues = {ready, waiting}
    Items = {i1, i2, i3, i4}
    Null = null
    Threads = {t1, t2, t3, t4}
    Milliseconds = {0, 9, 10, 25, 40}
    MaxTicks = 4
PROPERTIES ImplementsFifo ImplementsSequences KeepsPromise ImplementsAddressSpace
