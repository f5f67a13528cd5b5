SPECIFICATION MCSpec
CONSTANTS
    SIZE = 2
    MIB = 2
    IDENTITY_MAPPED_LIMIT = 18
    BITS_PER_WORD = 4
    WORD_SIZE = 2
    KernelRange <- MCKernelRange
    Boots <- MCBoots
    Counts = {1, 2}
CHECK_DEADLOCK FALSE
INVARIANTS AccessedIsReserved Accounting HandedOutUsable StartedLate SetUp NotDead StreamInOrder
    ModifiersTrue GetKeyTrue Recovers ResultTrue WindowsShowTheirTails
PROPERTIES AllComeUp Returns AllDecoded
