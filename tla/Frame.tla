-------------------------------- MODULE Frame --------------------------------
(* Memory/Frame.cpp: the physical frame allocator.  Initialize sorts out the  *)
(* boot loader's memory map; Allocate and Free run under one spin lock with   *)
(* interrupts off and are one step each.                                      *)
EXTENDS Integers, FiniteSets, Sequences

CONSTANTS SIZE,                     \* bytes of a frame
          MIB,                      \* end of the memory that belongs to the BIOS
          IDENTITY_MAPPED_LIMIT,    \* end of the boot map
          BITS_PER_WORD, WORD_SIZE, \* frames and bytes of a word of the bitmap
          KernelRange,              \* where the kernel was loaded, a Span
          Boots,                    \* what the boot loader may have reported
          Counts                    \* numbers of frames asked for

\* A boot report: memory regions, and the bytes that its own structures and
\* the modules occupy.
Span(start, end) == [start |-> start, end |-> end]

Spans == [start : Nat, end : Nat]

ASSUME BootsAssumption ==
    /\ SIZE \in Nat \ {0}
    /\ Counts \subseteq Nat \ {0}

ASSUME RangesAssumption ==
    /\ MIB \in Nat /\ BITS_PER_WORD \in Nat \ {0} /\ WORD_SIZE \in Nat
    /\ KernelRange \in Spans
    /\ \A b \in Boots : /\ b.info \in Seq(Spans) /\ b.modules \in Seq(Spans)
                        /\ b.regions \in Seq([start : Nat, end : Nat, available : BOOLEAN])

ASSUME LimitAssumption == IDENTITY_MAPPED_LIMIT \in Nat

VARIABLES
    phase,          \* "off", "up" or "panic"
    boot,           \* the report of this boot
    bitmap,         \* where the bitmap lies: a Span
    frameCount,     \* s_FrameCount
    taken,          \* s_Taken: the frames whose bit is set
    reachable,      \* s_ReachableFrames
    total, free,    \* s_TotalFrames, s_FreeFrames
    nextIndex,      \* s_NextIndex
    held,           \* blocks in the callers' hands: [first, count]
    reserved        \* frames that Initialize left taken

vars == <<phase, boot, bitmap, frameCount, taken, reachable, total, free,
          nextIndex, held, reserved>>

Least(S) == CHOOSE n \in S : \A m \in S : n <= m
Smaller(m, n) == IF m < n THEN m ELSE n
Larger(m, n) == IF m < n THEN n ELSE m

RoundUp(n) == (n + SIZE - 1) \div SIZE
AlignUp(n) == RoundUp(n) * SIZE

NOT_FOUND == -1
-----------------------------------------------------------------------------
Available(b) == {n \in DOMAIN b.regions : b.regions[n].available}

HighestAvailableAddress(b) ==
    LET ends == {b.regions[n].end : n \in Available(b)}
    IN  IF ends = {} THEN 0 ELSE CHOOSE e \in ends : \A f \in ends : f <= e

ASSUME AddressAssumption == \A b \in Boots : HighestAvailableAddress(b) \in Nat

FrameCount(b) == RoundUp(HighestAvailableAddress(b))
BitmapBytes(b) == ((FrameCount(b) + BITS_PER_WORD - 1) \div BITS_PER_WORD) * WORD_SIZE

Overlaps(left, right) == left.start < right.end /\ right.start < left.end

\* The ranges that block the bitmap, in the order IsBlocked asks them.
Blockers(b) == <<KernelRange>> \o b.info \o b.modules

\* Structures of the loader that have no length are skipped.
Skipped(b, n) == n - 1 \in DOMAIN b.info /\ b.info[n - 1].end = b.info[n - 1].start

Blocking(b, range) ==
    {n \in DOMAIN Blockers(b) : ~Skipped(b, n) /\ Overlaps(range, Blockers(b)[n])}
IsBlocked(b, range) == Blocking(b, range) # {}
RetryAt(b, range) == Blockers(b)[Least(Blocking(b, range))].end

\* The loop of FirstFit from start on; 0 is failure.
Fit(b, range, bytes) ==
    LET from[start \in Nat] ==
            IF start + bytes > range.end THEN 0
            ELSE IF IsBlocked(b, Span(start, start + bytes))
                 THEN from[AlignUp(RetryAt(b, Span(start, start + bytes)))]
                 ELSE start
    IN  from

FirstFit(b, range, bytes) == Fit(b, range, bytes)[AlignUp(range.start)]

Usable(region) == Span(Larger(region.start, MIB), Smaller(region.end, IDENTITY_MAPPED_LIMIT))

\* The first available region that has room decides.
ChooseBitmapLocation(b, bytes) ==
    LET places == {n \in Available(b) : /\ Usable(b.regions[n]).start < Usable(b.regions[n]).end
                                        /\ FirstFit(b, Usable(b.regions[n]), bytes) # 0}
    IN  IF places = {} THEN 0 ELSE FirstFit(b, Usable(b.regions[Least(places)]), bytes)

\* The frames that lie whole in a range, and those it touches.
Add(range) == {i \in 0 .. range.end \div SIZE - 1 : i >= RoundUp(range.start)}

ReserveWhole(range) == {i \in 0 .. range.end \div SIZE - 1 : i >= RoundUp(range.start)}
Reserve(range) == {i \in 0 .. RoundUp(range.end) - 1 : i >= range.start \div SIZE /\ range.start < range.end}

AddAvailableMemory(b) == UNION {Add(b.regions[n]) : n \in Available(b)}

ReserveKnownUsers(b) ==
    Reserve(Span(0, MIB)) \cup Reserve(KernelRange)
        \cup (UNION {Reserve(b.info[n]) : n \in DOMAIN b.info})
        \cup (UNION {Reserve(b.modules[n]) : n \in DOMAIN b.modules})

Init ==
    /\ phase = "off"
    /\ boot \in Boots
    /\ bitmap = Span(0, 0)
    /\ frameCount = 0 /\ taken = {} /\ reachable = 0
    /\ total = 0 /\ free = 0 /\ nextIndex = 0
    /\ held = {} /\ reserved = {}

\* Everything starts taken; available memory is released; its users take
\* theirs back.
Initialize ==
    LET bytes == BitmapBytes(boot)
        location == ChooseBitmapLocation(boot, bytes)
        place == Span(location, location + bytes)
        added == AddAvailableMemory(boot) \cap (0 .. FrameCount(boot) - 1)
        left == added \ (ReserveKnownUsers(boot) \cup Reserve(place))
    IN  /\ phase = "off"
        /\ frameCount' = FrameCount(boot)
        /\ IF location = 0
           THEN phase' = "panic" /\ UNCHANGED <<bitmap, taken, reachable, total, free, reserved>>
           ELSE /\ bitmap' = place
                /\ taken' = (0 .. FrameCount(boot) - 1) \ left
                /\ reserved' = (0 .. FrameCount(boot) - 1) \ left
                /\ reachable' = Smaller(IDENTITY_MAPPED_LIMIT \div SIZE, FrameCount(boot))
                /\ total' = Cardinality(added)
                /\ free' = Cardinality(left)
                /\ phase' = IF left = {} THEN "panic" ELSE "up"
        /\ UNCHANGED <<boot, nextIndex, held>>

\* Paging::Initialize raises the limit to the end of the memory it has mapped.
SetReachableLimit ==
    /\ phase = "up"
    /\ reachable' = Smaller(HighestAvailableAddress(boot) \div SIZE, frameCount)
    /\ UNCHANGED <<phase, boot, bitmap, frameCount, taken, total, free, nextIndex, held, reserved>>

Run(first, count) == first .. first + count - 1

\* The lowest run of free frames from there on.
FindRun(from, count) ==
    LET starts == {s \in from .. reachable - count : Run(s, count) \cap taken = {}}
    IN  IF starts = {} THEN NOT_FOUND ELSE Least(starts)

\* Next fit: from where the last allocation ended, then once more from the
\* start.
First(count) ==
    LET ahead == FindRun(nextIndex, count)
    IN  IF ahead = NOT_FOUND /\ nextIndex # 0 THEN FindRun(0, count) ELSE ahead

Allocate(count) ==
    LET first == First(count)
    IN  /\ phase = "up"
        /\ first # NOT_FOUND
        /\ taken' = taken \cup Run(first, count)
        /\ free' = free - count
        /\ nextIndex' = IF first + count < reachable THEN first + count ELSE 0
        /\ held' = held \cup {[first |-> first, count |-> count]}
        /\ UNCHANGED <<phase, boot, bitmap, frameCount, reachable, total, reserved>>

\* Nothing is left: Allocate returns 0, and changes nothing.
AllocateFails(count) == phase = "up" /\ First(count) = NOT_FOUND /\ UNCHANGED vars

\* Free with the address and the count of an earlier Allocate.
FreedOne(block) == {block.first}
Freed(block) == Run(block.first, block.count)

Free(block) ==
    /\ phase = "up"
    /\ block \in held
    /\ taken' = taken \ Freed(block)
    /\ free' = free + block.count
    /\ held' = held \ {block}
    /\ UNCHANGED <<phase, boot, bitmap, frameCount, reachable, total, nextIndex, reserved>>

Next ==
    \/ Initialize
    \/ SetReachableLimit
    \/ \E count \in Counts : Allocate(count) \/ AllocateFails(count)
    \/ \E block \in held : Free(block)

Spec == Init /\ [][Next]_vars
-----------------------------------------------------------------------------
Frames == 0 .. frameCount - 1
HeldFrames == UNION {Run(block.first, block.count) : block \in held}
Bytes(range) == range.start .. range.end - 1
FrameBytes(i) == i * SIZE .. i * SIZE + SIZE - 1

(* The bitmap and the counter agree with who holds what: a frame is taken     *)
(* exactly when Initialize kept it back or some caller has it, the counter is *)
(* the number of the others, and no frame has two owners.                     *)
Accounting ==
    /\ taken = reserved \cup HeldFrames
    /\ reserved \cap HeldFrames = {}
    /\ phase = "up" => free = Cardinality(Frames \ taken)
    /\ \A a, b \in held : a # b => Run(a.first, a.count) \cap Run(b.first, b.count) = {}

(* Every byte that Allocate hands out was reported as available, and none of  *)
(* it belongs to the BIOS, the kernel, the loader's structures, a module or   *)
(* the bitmap itself, whatever their alignment (Frame.h, "Only memory the     *)
(* loader reported as available is ever handed out").                         *)
HandedOutUsable ==
    phase = "up" => \A i \in Frames \ reserved : \A a \in FrameBytes(i) :
        /\ \E n \in Available(boot) : a \in Bytes(boot.regions[n])
        /\ a >= MIB
        /\ a \notin Bytes(KernelRange) \cup Bytes(bitmap)
        /\ \A n \in DOMAIN boot.info : a \notin Bytes(boot.info[n])
        /\ \A n \in DOMAIN boot.modules : a \notin Bytes(boot.modules[n])

(* The bitmap lies in available memory that the boot map covers, and on none  *)
(* of those it must not overwrite (FirstFit, ChooseBitmapLocation).           *)
BitmapPlaced ==
    phase = "up" =>
        /\ \E n \in Available(boot) : Bytes(bitmap) \subseteq Bytes(boot.regions[n])
        /\ bitmap.start >= MIB /\ bitmap.end <= IDENTITY_MAPPED_LIMIT
        /\ Bytes(bitmap) \cap Bytes(KernelRange) = {}
        /\ \A n \in DOMAIN boot.info : Bytes(bitmap) \cap Bytes(boot.info[n]) = {}
        /\ \A n \in DOMAIN boot.modules : Bytes(bitmap) \cap Bytes(boot.modules[n]) = {}

(* Allocate returns 0 only when there is no run of that length anywhere below *)
(* the reachable limit, and otherwise one that lies below it.                 *)
SearchComplete ==
    phase = "up" => \A count \in Counts :
        LET runs == {s \in 0 .. reachable - count : Run(s, count) \cap taken = {}}
        IN  IF runs = {} THEN First(count) = NOT_FOUND ELSE First(count) \in runs
=============================================================================
