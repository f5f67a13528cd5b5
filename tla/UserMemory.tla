------------------------------ MODULE UserMemory ------------------------------
(* Who maps what: Paging::Initialize, KernelStack::Allocate, User::Load with   *)
(* its segments and User::AllocateStack, and the reader of it all,             *)
(* User::CopyIn.  Callers run on several cores.  The page tables are the flat  *)
(* map of AddressSpace; a Map holds the paging lock from its first page to its *)
(* last, and other callers see its pages appear one by one.                    *)
EXTENDS Integers, Sequences, FiniteSets

CONSTANTS
    Callers,
    PAGE_SIZE, WORD,            \* bytes of a page; addresses are modulo WORD
    HK_USER_MIN, HK_USER_MAX, HK_USER_STACK_TOP, HK_USER_STACK_SIZE,
    KERNEL_STACK_BASE, THREAD_STACK_SIZE,
    BootSpans,                  \* Initialize's calls of Map, in order
    KernelImage,                \* page to access that the linker script asks for
    Images,                     \* ELF images that may be loaded
    Buffers,                    \* [start, length] that a program passes to Write
    FirstFrame, MAX_FRAMES,     \* frames that Frame::Allocate has to give
    MAX_CALLS                   \* calls of a caller

VARIABLES
    phase,          \* "off", "up" or "panic"
    space,          \* page to what is granted there
    nextSlot,       \* KernelStack's s_NextSlot
    nextStackTop,   \* s_NextStackTop
    nextFrame,      \* the first frame that was not handed out
    content,        \* frame to "junk", "zero", "image" or, from elsewhere, "other"
    mapLock,        \* who is inside Map
    slotLock,       \* who is inside KernelStack::Allocate
    call            \* what each caller is doing

vars == <<phase, space, nextSlot, nextStackTop, nextFrame, content, mapLock, slotLock, call>>

Nobody == "nobody"
PageOf(a) == a \div PAGE_SIZE
Accesses == {"RO", "RW", "RX"}

\* What Config.h and HK.h lay down: everything is a multiple of a page, and the
\* user half lies below the kernel stacks.
LayoutAssumption ==
    /\ Nobody \notin Callers
    /\ PAGE_SIZE \in Nat \ {0} /\ FirstFrame \in Nat /\ MAX_FRAMES \in Nat /\ MAX_CALLS \in Nat
    /\ \A n \in {WORD, HK_USER_MIN, HK_USER_MAX, HK_USER_STACK_TOP, HK_USER_STACK_SIZE,
                 KERNEL_STACK_BASE, THREAD_STACK_SIZE} : n \in Nat /\ n % PAGE_SIZE = 0
    /\ HK_USER_STACK_SIZE > 0 /\ THREAD_STACK_SIZE > 0
    /\ HK_USER_STACK_TOP <= HK_USER_MAX /\ HK_USER_MAX <= KERNEL_STACK_BASE /\ KERNEL_STACK_BASE <= WORD

Words == 0 .. WORD - 1
Segments == [load : BOOLEAN, virtual : Words, memorySize : Words, fileSize : Words, offset : Words,
             write : BOOLEAN, execute : BOOLEAN]

\* Spans, segments and buffers are made of machine words.
WordsAssumption ==
    /\ BootSpans \in Seq([first : Nat, count : Nat, physical : Nat, access : Accesses])
    /\ \A image \in Images : image.segments \in Seq(Segments)
    /\ Buffers \subseteq [start : Words, length : Words]
Pages == 0 .. PageOf(WORD) - 1
AllFrames == FirstFrame .. FirstFrame + MAX_FRAMES - 1
GUARD_SIZE == PAGE_SIZE
STRIDE == THREAD_STACK_SIZE + GUARD_SIZE
STACK_STRIDE == HK_USER_STACK_SIZE + GUARD_SIZE

Unmapped == [present |-> FALSE]
Mapped(frame, access, user) == [present |-> TRUE, frame |-> frame, access |-> access, user |-> user]

Idle(left) == [at |-> "idle", left |-> left]

Init ==
    /\ phase = "off"
    /\ space = [p \in Pages |-> Unmapped]
    /\ nextSlot = KERNEL_STACK_BASE
    /\ nextStackTop = HK_USER_STACK_TOP
    /\ nextFrame = FirstFrame
    /\ content = [f \in AllFrames |-> "junk"]
    /\ mapLock = Nobody /\ slotLock = Nobody
    /\ call = [c \in Callers |-> Idle(MAX_CALLS)]

-----------------------------------------------------------------------------
\* Paging::Initialize runs alone.  Low memory and device registers one to
\* one, then all of memory, then the kernel's image: the last Map of a page
\* wins.
SpanOf(p) == {n \in DOMAIN BootSpans : BootSpans[n].first <= p /\ p < BootSpans[n].first + BootSpans[n].count}

Winner(p) == CHOOSE n \in SpanOf(p) : \A m \in SpanOf(p) : m <= n

KernelSpace ==
    [p \in Pages |->
        IF SpanOf(p) = {} THEN Unmapped
        ELSE LET s == BootSpans[Winner(p)] IN Mapped(s.physical + (p - s.first), s.access, FALSE)]

Initialize ==
    /\ phase = "off"
    /\ \/ phase' = "up" /\ space' = KernelSpace
       \/ phase' = "panic" /\ UNCHANGED space       \* no memory for the tables
    /\ UNCHANGED <<nextSlot, nextStackTop, nextFrame, content, mapLock, slotLock, call>>
-----------------------------------------------------------------------------
\* Frame::Allocate.
HasFrames(n) == nextFrame + n <= FirstFrame + MAX_FRAMES
TakeFrames(n) == nextFrame' = nextFrame + n

At(c, where) == phase = "up" /\ call[c].at = where
Goto(c, to) == call' = [call EXCEPT ![c] = to]
Return(c) == Goto(c, Idle(call[c].left))

\* A call of Paging::Map: pages from first on get frames from frame on.
MapCall(c, first, count, frame, access, user, then) ==
    [at |-> "map", left |-> call[c].left, page |-> first, end |-> first + count, frame |-> frame,
     access |-> access, user |-> user, then |-> then]

MapBegin(c) ==
    /\ At(c, "map") /\ mapLock = Nobody
    /\ mapLock' = c
    /\ UNCHANGED <<phase, space, nextSlot, nextStackTop, nextFrame, content, slotLock, call>>

FurtherSameFrame(c) == [call[c] EXCEPT !.page = @ + 1]
Further(c) == [call[c] EXCEPT !.page = @ + 1, !.frame = @ + 1]

MapPage(c) ==
    /\ At(c, "map") /\ mapLock = c
    /\ space' = [space EXCEPT ![call[c].page] = Mapped(call[c].frame, call[c].access, call[c].user)]
    /\ IF call[c].page + 1 < call[c].end
       THEN /\ Goto(c, Further(c))
            /\ UNCHANGED <<mapLock, slotLock>>
       ELSE /\ mapLock' = Nobody
            /\ slotLock' = IF slotLock = c THEN Nobody ELSE slotLock
            /\ Goto(c, call[c].then)
    /\ UNCHANGED <<phase, nextSlot, nextStackTop, nextFrame, content>>

\* No frame for a table: a kernel stack panics, the others report failure.
MapFails(c) ==
    /\ At(c, "map") /\ mapLock = c
    /\ mapLock' = Nobody
    /\ phase' = IF slotLock = c THEN "panic" ELSE phase
    /\ Return(c)
    /\ UNCHANGED <<space, nextSlot, nextStackTop, nextFrame, content, slotLock>>
-----------------------------------------------------------------------------
Begin(c) == At(c, "idle") /\ call[c].left > 0

\* KernelStack::Allocate, under its own lock to the end.
StackStartNoGuard(slot) == slot
StackStart(slot) == slot + GUARD_SIZE

KernelStack_Allocate(c) ==
    /\ Begin(c) /\ slotLock = Nobody
    /\ nextSlot + STRIDE <= WORD
    /\ LET pages == PageOf(THREAD_STACK_SIZE)
       IN  /\ nextSlot' = nextSlot + STRIDE
           /\ slotLock' = c
           /\ IF HasFrames(pages)
              THEN /\ TakeFrames(pages)
                   /\ Goto(c, MapCall(c, PageOf(StackStart(nextSlot)), pages, nextFrame, "RW", FALSE,
                                      Idle(call[c].left - 1)))
                   /\ UNCHANGED phase
              ELSE phase' = "panic" /\ UNCHANGED <<nextFrame, call>>
    /\ UNCHANGED <<space, nextStackTop, content, mapLock>>

IsGuardPage(a) ==
    /\ a >= KERNEL_STACK_BASE /\ a < nextSlot
    /\ (a - KERNEL_STACK_BASE) % STRIDE < GUARD_SIZE
-----------------------------------------------------------------------------
\* User::Load: the header, then segment after segment.
InUserHalf(start, length) ==
    LET end == (start + length) % WORD
    IN  start >= HK_USER_MIN /\ end >= start /\ end <= HK_USER_MAX

Load(c) ==
    /\ Begin(c)
    /\ \E image \in Images :
        Goto(c, IF image.runnable
                THEN [at |-> "segment", left |-> call[c].left - 1, image |-> image, index |-> 1]
                ELSE Idle(call[c].left - 1))
    /\ UNCHANGED <<phase, space, nextSlot, nextStackTop, nextFrame, content, mapLock, slotLock>>

Segment(c) == call[c].image.segments[call[c].index]
AfterSegment(c) == [call[c] EXCEPT !.index = @ + 1]
MoreSegments(c) == call[c].index <= Len(call[c].image.segments)
AccessFor(s) == IF s.execute THEN "RX" ELSE IF s.write THEN "RW" ELSE "RO"

Skipped(s) == ~s.load \/ s.memorySize = 0

\* The sum of 64 bits wraps around, so an offset may pass that is not in the
\* image.
Rejected(c, s) ==
    \/ s.write /\ s.execute
    \/ (s.offset + s.fileSize) % WORD > call[c].image.size
    \/ s.fileSize > s.memorySize
    \/ ~InUserHalf(s.virtual, s.memorySize)

SkipSegment(c) ==
    /\ At(c, "segment") /\ MoreSegments(c) /\ Skipped(Segment(c))
    /\ Goto(c, AfterSegment(c))
    /\ UNCHANGED <<phase, space, nextSlot, nextStackTop, nextFrame, content, mapLock, slotLock>>

\* The pages that a segment's bytes lie on.
SegmentPages(s) == PageOf(s.virtual + s.memorySize + PAGE_SIZE - 1) - PageOf(s.virtual)

RejectSegment(c) ==
    /\ At(c, "segment") /\ MoreSegments(c) /\ ~Skipped(Segment(c))
    /\ Rejected(c, Segment(c)) \/ ~HasFrames(SegmentPages(Segment(c)))
    /\ Return(c)
    /\ UNCHANGED <<phase, space, nextSlot, nextStackTop, nextFrame, content, mapLock, slotLock>>

\* Frames are cleared, filled through the direct map, and only then mapped.
Filled(n, what) == [f \in AllFrames |-> IF f \in nextFrame .. nextFrame + n - 1 THEN what ELSE content[f]]

\* What the copy reads: the image, or what lies before it in memory.
Source(c, s) == IF s.offset + s.fileSize <= call[c].image.size THEN "image" ELSE "other"

LoadSegment(c) ==
    LET s == Segment(c)
        pages == SegmentPages(s)
    IN  /\ At(c, "segment") /\ MoreSegments(c) /\ ~Skipped(s) /\ ~Rejected(c, s) /\ HasFrames(pages)
        /\ TakeFrames(pages)
        /\ content' = Filled(pages, Source(c, s))
        /\ Goto(c, MapCall(c, PageOf(s.virtual), pages, nextFrame, AccessFor(s), TRUE, AfterSegment(c)))
        /\ UNCHANGED <<phase, space, nextSlot, nextStackTop, mapLock, slotLock>>

\* The entry point must be executable; then the watermark moves.
EntryOk(image) ==
    /\ InUserHalf(image.entry, 1)
    /\ space[PageOf(image.entry)].present /\ space[PageOf(image.entry)].access = "RX"

Lowered == nextStackTop - STACK_STRIDE

LoadEntry(c) ==
    /\ At(c, "segment") /\ ~MoreSegments(c)
    /\ IF EntryOk(call[c].image)
       THEN /\ Goto(c, [at |-> "stack", left |-> call[c].left, top |-> nextStackTop])
            /\ nextStackTop' = Lowered
       ELSE Return(c) /\ UNCHANGED nextStackTop
    /\ UNCHANGED <<phase, space, nextSlot, nextFrame, content, mapLock, slotLock>>

\* The rest of AllocateStack, after its lock is released.
StackContentLeft == content
StackContent == Filled(PageOf(HK_USER_STACK_SIZE), "zero")

AllocateStack(c) ==
    LET pages == PageOf(HK_USER_STACK_SIZE)
    IN  /\ At(c, "stack")
        /\ IF HasFrames(pages)
           THEN /\ TakeFrames(pages)
                /\ content' = StackContent
                /\ Goto(c, MapCall(c, PageOf(call[c].top - HK_USER_STACK_SIZE), pages, nextFrame, "RW", TRUE,
                                   Idle(call[c].left)))
           ELSE Return(c) /\ UNCHANGED <<nextFrame, content>>
        /\ UNCHANGED <<phase, space, nextSlot, nextStackTop, mapLock, slotLock>>
-----------------------------------------------------------------------------
\* User::CopyIn: a check per page, then the copy.
CopyIn(c) ==
    /\ Begin(c)
    /\ \E b \in Buffers :
        Goto(c, IF b.length = 0 \/ ~InUserHalf(b.start, b.length) THEN Idle(call[c].left - 1)
                ELSE [at |-> "check", left |-> call[c].left - 1, buffer |-> b, page |-> PageOf(b.start)])
    /\ UNCHANGED <<phase, space, nextSlot, nextStackTop, nextFrame, content, mapLock, slotLock>>

PastBufferShort(b, page) == page * PAGE_SIZE + PAGE_SIZE >= b.start + b.length - 1
PastBuffer(b, page) == page * PAGE_SIZE >= b.start + b.length

IsUserReadable(p) == space[p].present /\ space[p].user

CopyIn_Page(c) ==
    /\ At(c, "check") /\ ~PastBuffer(call[c].buffer, call[c].page)
    /\ IF IsUserReadable(call[c].page) THEN Goto(c, [call[c] EXCEPT !.page = @ + 1]) ELSE Return(c)
    /\ UNCHANGED <<phase, space, nextSlot, nextStackTop, nextFrame, content, mapLock, slotLock>>

CopyIn_Copy(c) ==
    /\ At(c, "check") /\ PastBuffer(call[c].buffer, call[c].page)
    /\ Return(c)
    /\ UNCHANGED <<phase, space, nextSlot, nextStackTop, nextFrame, content, mapLock, slotLock>>

Next ==
    \/ Initialize
    \/ \E c \in Callers :
        \/ MapBegin(c) \/ MapPage(c) \/ MapFails(c)
        \/ KernelStack_Allocate(c)
        \/ Load(c) \/ SkipSegment(c) \/ RejectSegment(c) \/ LoadSegment(c) \/ LoadEntry(c) \/ AllocateStack(c)
        \/ CopyIn(c) \/ CopyIn_Page(c) \/ CopyIn_Copy(c)

Spec == Init /\ [][Next]_vars
-----------------------------------------------------------------------------
Loadable(s) == ~Skipped(s) /\ InUserHalf(s.virtual, s.memorySize)

\* How the address space is to be used, for the guard pages' sake: Initialize
\* maps nothing between page floor and the first user stack, nor between the
\* kernel stacks and page ceiling, and programs are linked below floor.  Load
\* does not look into the last.
RoomAssumption(floor, ceiling) ==
    /\ floor \in Nat /\ PageOf(HK_USER_MIN) <= floor /\ ceiling \in 0 .. PageOf(WORD)
    /\ \A p \in Pages : floor <= p /\ p < PageOf(HK_USER_STACK_TOP) => SpanOf(p) = {}
    /\ \A p \in Pages : PageOf(KERNEL_STACK_BASE) <= p /\ p < ceiling => SpanOf(p) = {}
    /\ \A image \in Images : \A n \in DOMAIN image.segments :
        LET s == image.segments[n]
        IN  Loadable(s) => PageOf(s.virtual) + SegmentPages(s) <= floor

\* Neither kind of stack has outgrown its part: AllocateStack and
\* KernelStack::Allocate count on it.
HasRoom(floor, ceiling) == floor * PAGE_SIZE <= nextStackTop /\ nextSlot <= ceiling * PAGE_SIZE

KernelSlots == {a \in KERNEL_STACK_BASE .. nextSlot - 1 : (a - KERNEL_STACK_BASE) % STRIDE = 0}
UserTops == {a \in nextStackTop + 1 .. HK_USER_STACK_TOP : (HK_USER_STACK_TOP - a) % STACK_STRIDE = 0}

KernelGuards == {PageOf(a) : a \in KernelSlots}
UserGuards == {PageOf(a - HK_USER_STACK_SIZE) - 1 : a \in UserTops}

(* The page below every stack that was handed out, kernel or user, is mapped  *)
(* by nobody, and IsGuardPage, which tells an overflow from any other fault,  *)
(* says so for exactly the kernel's guard pages.                              *)
GuardsUnmapped ==
    LET kernel == KernelGuards
    IN  phase = "up" =>
            /\ \A p \in kernel \cup UserGuards : ~space[p].present
            /\ \A a \in 0 .. WORD - 1 : IsGuardPage(a) <=> PageOf(a) \in kernel

\* Pages that are mapped, and not as Initialize left them.
Own == {p \in Pages : space[p].present /\ space[p] # KernelSpace[p]}

(* Two pages share a frame only through Initialize's own maps: what several   *)
(* cores map at once, stacks and segments, also segments where Initialize had *)
(* mapped before, never ends up on the same memory.  (A second Load at the    *)
(* same address does take the page over, with a frame of its own.)            *)
FramesOwned == \A p, q \in Own : p # q => space[p].frame # space[q].frame

(* Ring 3 reaches only pages of its own half, and on them only frames from    *)
(* Frame::Allocate that were cleared before they were mapped: no memory that  *)
(* Initialize maps for the kernel, and nothing "the frame held before"        *)
(* (Task.cpp:70; SPECIFICATION "U/S is clear on the kernel's entries").  This *)
(* goes for a program linked at HK_USER_MIN too, whose pages replace the low  *)
(* identity map's.                                                            *)
UserOnlyItsOwn ==
    \A p \in Pages : space[p].present /\ space[p].user =>
        /\ p * PAGE_SIZE >= HK_USER_MIN /\ (p + 1) * PAGE_SIZE <= HK_USER_MAX
        /\ space[p].frame \in AllFrames /\ content[space[p].frame] # "junk"

(* When CopyIn copies, every byte of the buffer is readable for ring 3,       *)
(* although the check went page by page while other cores kept mapping.       *)
CopyInSafe ==
    \A c \in Callers : At(c, "check") /\ PastBuffer(call[c].buffer, call[c].page) =>
        \A a \in call[c].buffer.start .. call[c].buffer.start + call[c].buffer.length - 1 :
            IsUserReadable(PageOf(a))
=============================================================================
