SPECIFICATION MCSpec
CONSTANTS
    Callers = {c1, c2}
    PAGE_SIZE = 2
    WORD = 96
    HK_USER_MIN = 2
    HK_USER_MAX = 32
    HK_USER_STACK_TOP = 30
    HK_USER_STACK_SIZE = 4
    KERNEL_STACK_BASE = 64
    THREAD_STACK_SIZE = 4
    BootSpans <- MCBootSpans
    KernelImage <- MCKernelImage
    Images <- MCImages
    Buffers <- MCBuffers
    FirstFrame = 5
    MAX_FRAMES = 6
    MAX_CALLS = 2
SYMMETRY CallerSymmetry
CHECK_DEADLOCK FALSE
INVARIANTS Tiling NoLostSpace
    GuardsUnmapped FramesOwned UserOnlyItsOwn CopyInSafe
