------------------------------ MODULE MCMemory ------------------------------
(* Memory that is handed out: UserMemory, extended so that what is checked    *)
(* here is what UserMemoryProofs proves, and Heap.  They have no variable in  *)
(* common, so one moves at a time while the other rests in an initial state,  *)
(* and the states add up instead of multiplying.                              *)
EXTENDS UserMemory, TLC
-----------------------------------------------------------------------------
(* Heap: eight smallest blocks, a header of one byte, and sizes from nothing  *)
(* to more than the heap.                                                     *)
VARIABLES freeLists, header, usedBytes, blocks, moving
heap == <<freeLists, header, usedBytes, blocks, moving>>

H == INSTANCE Heap WITH
    held <- blocks, MIN_ORDER <- 1, MAX_ORDER <- 4, HEADER <- 1, WORD <- 64,
    Sizes <- {0, 1, 3, 33}, Callers <- {"reallocating"}
-----------------------------------------------------------------------------
(* UserMemory: 48 pages of 2 bytes: low memory 0 and 1 (the boot code is page *)
(* 1), user half 1 to 15, memory from 16 on, the kernel's image at 28 to 30,  *)
(* kernel stacks from 32 on.                                                  *)
Part(first, count, physical, access) ==
    [first |-> first, count |-> count, physical |-> physical, access |-> access]

MCBootSpans == <<Part(0, 2, 0, "RW"), Part(16, 12, 0, "RW"), Part(1, 1, 1, "RX"),
                 Part(28, 1, 2, "RX"), Part(29, 1, 3, "RO"), Part(30, 1, 4, "RW")>>
MCKernelImage == [p \in {1, 28, 29, 30} |-> CASE p = 29 -> "RO" [] p = 30 -> "RW" [] OTHER -> "RX"]

Seg(virtual, memorySize, fileSize, write, execute) ==
    [load |-> TRUE, virtual |-> virtual, memorySize |-> memorySize, fileSize |-> fileSize,
     offset |-> 1, write |-> write, execute |-> execute]

Image(entry, segments) == [runnable |-> TRUE, size |-> 6, entry |-> entry, segments |-> segments]

Text == Seg(5, 3, 3, FALSE, TRUE)
Note == [Seg(0, 0, 0, FALSE, FALSE) EXCEPT !.load = FALSE]

MCImages == {Image(5, <<Note, Text, Seg(8, 1, 0, TRUE, FALSE)>>),   \* a program
             Image(4, <<Seg(4, 1, 1, FALSE, TRUE)>>),               \* two of these fit
             Image(5, <<Seg(4, 2, 2, TRUE, TRUE)>>),                \* writable code
             Image(8, <<Seg(8, 1, 1, FALSE, FALSE)>>),              \* entry in data
             Image(90, <<Seg(90, 8, 1, FALSE, TRUE)>>),             \* wraps around
             Image(2, <<Seg(2, 1, 1, FALSE, TRUE)>>),               \* at HK_USER_MIN
             Image(4, <<[Text EXCEPT !.offset = 95, !.fileSize = 1]>>),  \* its end wraps
             [Image(0, <<>>) EXCEPT !.runnable = FALSE]}

MCBuffers == {[start |-> 7, length |-> 2], [start |-> 27, length |-> 3], [start |-> 29, length |-> 2],
              [start |-> 4, length |-> 0]}

CallerSymmetry == Permutations(Callers)
-----------------------------------------------------------------------------
VARIABLE moves      \* the component that moves

ASSUME HeapAssumption == H!OrdersAssumption
ASSUME UserAssumption == LayoutAssumption /\ WordsAssumption /\ RoomAssumption(5, 48)

MCInit == moves \in {"heap", "user"} /\ H!Init /\ Init

MCNext ==
    \/ moves = "heap" /\ H!Next /\ UNCHANGED <<moves, vars>>
    \/ moves = "user" /\ Next /\ UNCHANGED <<moves, heap>>

MCSpec == MCInit /\ [][MCNext]_<<moves, vars, heap>>
-----------------------------------------------------------------------------
(* Free and held blocks tile the heap: no byte belongs to two callers, none  *)
(* is on a list while it is used, and none is lost.  Free goes by what lies  *)
(* at the buddy's address, so this is also what keeps it from taking a       *)
(* caller's bytes or a stale header for a free block.                        *)
Tiling == moves = "heap" => H!Tiling

(* Free space is never fragmented beyond need: if every byte of an aligned   *)
(* block is free, some free block contains it, so Allocate fails only when   *)
(* there is no room, and when all is freed one block is left.                *)
NoLostSpace == moves = "heap" => H!NoLostSpace
=============================================================================
