-------------------------------- MODULE Heap --------------------------------
(* Memory/Heap.cpp: the buddy allocator behind malloc and operator new.      *)
(* Allocate and Free run under a spin lock with interrupts off and are one   *)
(* step each; Reallocate reads its header without the lock and calls both,   *)
(* so other callers get in between.                                          *)
EXTENDS Naturals, Sequences, FiniteSets, FiniteSetsExt

CONSTANTS MIN_ORDER, MAX_ORDER,     \* log2 of the smallest block and of the heap
          HEADER,                   \* sizeof(BlockHeader)
          WORD,                     \* 2^64: size_t arithmetic is modulo WORD
          Sizes,                    \* sizes that are asked for
          Callers                   \* threads inside Reallocate

OrdersAssumption == 0 < MIN_ORDER /\ MIN_ORDER < MAX_ORDER /\ 2^MAX_ORDER < WORD

VARIABLES
    freeLists,      \* s_FreeLists: offsets of the free blocks, by order
    header,         \* what lies in memory where a block may start
    usedBytes,      \* s_UsedBytes
    held,           \* blocks in the callers' hands: offset to the size asked for
    moving          \* the two blocks of a caller that is inside Reallocate

vars == <<freeLists, header, usedBytes, held, moving>>

Orders == MIN_ORDER .. MAX_ORDER
HEAP_SIZE == 2^MAX_ORDER
Offsets == {n * 2^MIN_ORDER : n \in 0 .. 2^(MAX_ORDER - MIN_ORDER) - 1}

\* A block's header, and bytes that are none.
BlockHeader(order, isFree) == [magic |-> TRUE, order |-> order, isFree |-> isFree]
Junk == [magic |-> FALSE, order |-> MIN_ORDER, isFree |-> FALSE]

NoMove == [old |-> 0, new |-> 0, busy |-> FALSE]

Init ==
    /\ freeLists = [o \in Orders |-> IF o = MAX_ORDER THEN <<0>> ELSE <<>>]
    /\ header = [p \in Offsets |-> IF p = 0 THEN BlockHeader(MAX_ORDER, TRUE) ELSE Junk]
    /\ usedBytes = 0
    /\ held = <<>>
    /\ moving = [t \in Callers |-> NoMove]

\* The smallest order whose block holds that many bytes.
OrderFor(bytes) == Min({o \in Orders : 2^o >= bytes} \cup {MAX_ORDER})

Needed(size) == (size + HEADER) % WORD

\* Orders from the wanted one up that have a free block.
Candidates(size) == {o \in OrderFor(Needed(size)) .. MAX_ORDER : freeLists[o] # <<>>}

Fails(size) == size = 0 \/ Needed(size) > HEAP_SIZE \/ Candidates(size) = {}

\* The block Allocate takes off its list, and the order it cuts it down to.
Cut(size) ==
    LET from == Min(Candidates(size))
    IN  [block |-> Head(freeLists[from]), from |-> from, wanted |-> OrderFor(Needed(size))]

\* Its upper halves go back, one on each order that it is split through.
UpperHalf(cut, o) == cut.block + 2^o
Through(cut) == cut.wanted .. cut.from - 1

ListsAfterCutForgetful(cut) == [freeLists EXCEPT ![cut.from] = Tail(@)]
ListsAfterCut(cut) ==
    [o \in Orders |-> CASE o \in Through(cut) -> <<UpperHalf(cut, o)>> \o freeLists[o]
                        [] o = cut.from -> Tail(freeLists[o])
                        [] OTHER -> freeLists[o]]

Allocated(cut) ==
    /\ freeLists' = ListsAfterCut(cut)
    /\ header' = [p \in Offsets |->
            IF p = cut.block THEN BlockHeader(cut.wanted, FALSE)
            ELSE IF \E o \in Through(cut) : UpperHalf(cut, o) = p
                 THEN BlockHeader(CHOOSE o \in Through(cut) : UpperHalf(cut, o) = p, TRUE)
                 ELSE header[p]]
    /\ usedBytes' = usedBytes + 2^cut.wanted

\* held with one more block, and with one less.
With(p, size) == [q \in DOMAIN held \cup {p} |-> IF q = p THEN size ELSE held[q]]
Without(p) == [q \in DOMAIN held \ {p} |-> held[q]]

Allocate(size) ==
    /\ ~Fails(size)
    /\ LET cut == Cut(size) IN Allocated(cut) /\ held' = With(cut.block, size)
    /\ UNCHANGED moving

AllocateFails(size) == Fails(size) /\ UNCHANGED vars

\* calloc: the product may wrap, and is then refused.
Overflows(count, size) == count # 0 /\ ((count * size) % WORD) \div count # size

Calloc(count, size) ==
    LET total == (count * size) % WORD
    IN  IF Overflows(count, size) \/ Fails(total)
        THEN UNCHANGED vars
        ELSE /\ LET cut == Cut(total) IN Allocated(cut) /\ held' = With(cut.block, count * size)
             /\ UNCHANGED moving

Buddy(offset, order) ==
    IF (offset \div 2^order) % 2 = 0 THEN offset + 2^order ELSE offset - 2^order

\* Whether the buddy can be merged with: its header says so and it is on the
\* list (RemoveFree finds it).
SaysFree(h, order) == h.magic /\ h.isFree /\ h.order = order
Listed(block, order) == \E n \in DOMAIN freeLists[order] : freeLists[order][n] = block

MergeableOnce(offset, order) == order = MIN_ORDER /\ Listed(Buddy(offset, order), order)
Mergeable(offset, order) ==
    SaysFree(header[Buddy(offset, order)], order) /\ Listed(Buddy(offset, order), order)

\* Where the merge loop stops, and the buddies it removed on the way.
RECURSIVE Merge(_, _, _)
Merge(offset, order, removed) ==
    IF order < MAX_ORDER /\ Mergeable(offset, order)
    THEN LET buddy == Buddy(offset, order)
         IN  Merge(Min({offset, buddy}), order + 1, removed \cup {<<order, buddy>>})
    ELSE [offset |-> offset, order |-> order, removed |-> removed]

\* Free of a block that was handed out.
Freed(p) ==
    LET merged == Merge(p, header[p].order, {})
        Kept(o) == SelectSeq(freeLists[o], LAMBDA b : <<o, b>> \notin merged.removed)
    IN  /\ freeLists' = [o \in Orders |->
                            IF o = merged.order THEN <<merged.offset>> \o Kept(o) ELSE Kept(o)]
        /\ header' = [q \in Offsets |->
                IF q = merged.offset THEN BlockHeader(merged.order, TRUE)
                ELSE IF \E r \in merged.removed : r[2] = q THEN [header[q] EXCEPT !.isFree = FALSE]
                ELSE header[q]]
        /\ usedBytes' = usedBytes - 2^header[p].order

\* Blocks that are not being moved belong to their callers alone.
Settled(p) == p \in DOMAIN held /\ \A t \in Callers : moving[t].busy => p \notin {moving[t].old, moving[t].new}

Free(p) ==
    /\ Settled(p)
    /\ header[p].magic /\ ~header[p].isFree
    /\ Freed(p)
    /\ held' = Without(p)
    /\ UNCHANGED moving

OldPayload(p) == 2^header[p].order - HEADER

\* Reallocate with a size that the block already fits, with a size for which
\* there is no room, and with one that needs another block.
Fitting(p, size) == size <= OldPayload(p) /\ OrderFor(size + HEADER) = header[p].order

ReallocateInPlace(p, size) ==
    /\ Settled(p) /\ size # 0
    /\ Fitting(p, size)
    /\ held' = [held EXCEPT ![p] = size]
    /\ UNCHANGED <<freeLists, header, usedBytes, moving>>

ReallocateFails(p, size) ==
    /\ Settled(p) /\ size # 0
    /\ ~Fitting(p, size) /\ Fails(size)
    /\ UNCHANGED vars

ReallocateBegin(t, p, size) ==
    /\ Settled(p) /\ size # 0 /\ ~moving[t].busy
    /\ ~Fitting(p, size) /\ ~Fails(size)
    /\ LET cut == Cut(size)
       IN  /\ Allocated(cut)
           /\ held' = With(cut.block, size)
           /\ moving' = [moving EXCEPT ![t] = [old |-> p, new |-> cut.block, busy |-> TRUE]]

ReallocateEnd(t) ==
    /\ moving[t].busy
    /\ Freed(moving[t].old)
    /\ held' = Without(moving[t].old)
    /\ moving' = [moving EXCEPT ![t] = NoMove]

\* A caller fills its payload with bytes that happen to look like the headers
\* of free blocks.
WritePayload(p) ==
    /\ Settled(p)
    /\ header' = [q \in Offsets |-> IF p < q /\ q < p + 2^header[p].order
                                    THEN BlockHeader(MIN_ORDER, TRUE) ELSE header[q]]
    /\ UNCHANGED <<freeLists, usedBytes, held, moving>>

Next ==
    \/ \E size \in Sizes : Allocate(size) \/ AllocateFails(size)
    \/ \E count, size \in Sizes : Calloc(count, size)
    \/ \E p \in Offsets : Free(p)
    \/ \E p \in Offsets, size \in Sizes : ReallocateInPlace(p, size) \/ ReallocateFails(p, size)
    \/ \E t \in Callers, p \in Offsets, size \in Sizes : ReallocateBegin(t, p, size)
    \/ \E t \in Callers : ReallocateEnd(t)
    \/ \E p \in Offsets : WritePayload(p)

Spec == Init /\ [][Next]_vars
-----------------------------------------------------------------------------
Cells(p, order) == {q \in Offsets : p <= q /\ q < p + 2^order}

FreeBlocks == {<<freeLists[o][n], o>> : <<o, n>> \in {x \in Orders \X (1 .. Cardinality(Offsets)) :
                                                        x[2] \in DOMAIN freeLists[x[1]]}}
HeldBlocks == {<<p, header[p].order>> : p \in DOMAIN held}

(* Free and held blocks tile the heap: no byte belongs to two callers, none  *)
(* is on a list while it is used, and none is lost.  Free goes by what lies  *)
(* at the buddy's address, so this is also what keeps it from taking a       *)
(* caller's bytes or a stale header for a free block.                        *)
Tiling ==
    LET blocks == FreeBlocks \cup HeldBlocks
    IN  /\ UNION {Cells(b[1], b[2]) : b \in blocks} = Offsets
        /\ \A a, b \in blocks : a # b => Cells(a[1], a[2]) \cap Cells(b[1], b[2]) = {}
        /\ \A o \in Orders : \A m, n \in DOMAIN freeLists[o] :
               freeLists[o][m] = freeLists[o][n] => m = n

(* Free space is never fragmented beyond need: if every byte of an aligned   *)
(* block is free, some free block contains it, so Allocate fails only when   *)
(* there is no room, and when all is freed one block is left.                *)
NoLostSpace ==
    LET free == {Cells(b[1], b[2]) : b \in FreeBlocks}
        room == UNION free
    IN  \A o \in Orders : \A p \in {q \in Offsets : q % 2^o = 0} :
            Cells(p, o) \subseteq room => \E block \in free : Cells(p, o) \subseteq block
=============================================================================
