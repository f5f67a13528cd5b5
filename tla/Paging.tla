------------------------------- MODULE Paging -------------------------------
(* Memory/Paging.cpp: Map walks down a tree of tables, creating the missing   *)
(* ones, and writes a leaf per page.  It holds a lock, but the processors     *)
(* walk the tree, and IsUserReadable and its like read it, without the lock:  *)
(* every store to a table is a step of its own.                               *)
EXTENDS Integers, FiniteSets

CONSTANTS TOP_LEVEL, ENTRIES_PER_TABLE,
          TableFrames,          \* frames that AllocateTable may get: 1 .. n
          Requests              \* calls of Map: first page, count, physical
                                \* frame, access "RO", "RW" or "RX", and user

TablesAssumption == 1 \in TableFrames /\ TOP_LEVEL > 1 /\ ENTRIES_PER_TABLE > 1

VARIABLES memory,               \* the tables: what lies in each frame
          tables,               \* frames that AllocateTable has handed out
          job                   \* the Map that holds the lock

vars == <<memory, tables, job>>

LEAF_LEVEL == 1
Root == 1
Pages == 0 .. ENTRIES_PER_TABLE^TOP_LEVEL - 1
Slots == 0 .. ENTRIES_PER_TABLE - 1

IndexAt(page, level) == (page \div ENTRIES_PER_TABLE^(level - 1)) % ENTRIES_PER_TABLE

Entry(present, writable, user, noExecute, address) ==
    [present |-> present, writable |-> writable, user |-> user,
     noExecute |-> noExecute, address |-> address]

Zero == Entry(FALSE, FALSE, FALSE, FALSE, 0)
Garbage(f) == [slot \in Slots |-> Entry(TRUE, TRUE, TRUE, FALSE, f)]

Idle == [busy |-> FALSE]

\* Initialize has got a frame for the root.
Init ==
    /\ memory = [f \in TableFrames |-> IF f = Root THEN [s \in Slots |-> Zero] ELSE Garbage(f)]
    /\ tables = {Root}
    /\ job = Idle

\* A frame that was allocated for a table is cleared before it is used.
Cleared(f) == [slot \in Slots |-> Zero]

FlagsFor(r, address) == Entry(TRUE, r.access = "RW", r.user, r.access # "RX", address)

Down(r, page, table, level) ==
    [busy |-> TRUE, what |-> r, page |-> page, table |-> table, level |-> level]

Map(r) == ~job.busy /\ job' = Down(r, r.first, Root, TOP_LEVEL) /\ UNCHANGED <<memory, tables>>

\* The entry that Descend looks at.
Slot == IndexAt(job.page, job.level)
Current == memory[job.table][Slot]

\* AllocateTable got a frame; the table is cleared and then linked.
Descend_Create ==
    /\ job.busy /\ job.level > LEAF_LEVEL /\ ~Current.present
    /\ \E f \in TableFrames \ tables :
        /\ \A g \in TableFrames \ tables : f <= g
        /\ memory' = [memory EXCEPT ![f] = Cleared(f),
                                    ![job.table][Slot] = Entry(TRUE, TRUE, FALSE, FALSE, f)]
        /\ tables' = tables \cup {f}
    /\ UNCHANGED job

\* Frame::Allocate had none: Map returns false, what it did so far stays.
Descend_Fail ==
    /\ job.busy /\ job.level > LEAF_LEVEL /\ ~Current.present
    /\ job' = Idle
    /\ UNCHANGED <<memory, tables>>

\* A table on the way to a user page is opened to the user, also when it
\* existed before.
OpenedNot(entry, r) == entry
Opened(entry, r) == [entry EXCEPT !.user = @ \/ r.user]

Descend_Open ==
    /\ job.busy /\ job.level > LEAF_LEVEL /\ Current.present
    /\ memory' = [memory EXCEPT ![job.table][Slot] = Opened(@, job.what)]
    /\ job' = Down(job.what, job.page, Current.address, job.level - 1)
    /\ UNCHANGED tables

SetLeaf ==
    /\ job.busy /\ job.level = LEAF_LEVEL
    /\ LET r == job.what
       IN  /\ memory' = [memory EXCEPT ![job.table][Slot] =
                            FlagsFor(r, r.physical + (job.page - r.first))]
           /\ job' = IF job.page + 1 < r.first + r.count
                     THEN Down(r, job.page + 1, Root, TOP_LEVEL) ELSE Idle
    /\ UNCHANGED tables

Next == (\E r \in Requests : Map(r)) \/ Descend_Create \/ Descend_Fail \/ Descend_Open \/ SetLeaf

Spec == Init /\ [][Next]_vars
-----------------------------------------------------------------------------
\* What the processor grants for a page: writable and user are the
\* conjunction over the levels, no-execute the disjunction.
Effective(page) ==
    LET walk[level \in LEAF_LEVEL .. TOP_LEVEL + 1] ==
            IF level > TOP_LEVEL THEN Entry(TRUE, TRUE, TRUE, FALSE, Root)
            ELSE LET above == walk[level + 1]
                     e == memory[above.address][IndexAt(page, level)]
                 IN  IF above.present /\ e.present
                     THEN Entry(TRUE, above.writable /\ e.writable, above.user /\ e.user,
                                above.noExecute \/ e.noExecute, e.address)
                     ELSE Zero
    IN  walk[LEAF_LEVEL]

\* Translate, IsWritable, IsExecutable and IsUserReadable.
Granted(page) ==
    LET e == Effective(page)
    IN  IF e.present
        THEN [present |-> TRUE, frame |-> e.address, writable |-> e.writable,
              execute |-> ~e.noExecute, user |-> e.user]
        ELSE [present |-> FALSE]

Flat == INSTANCE AddressSpace WITH
    space <- [p \in Pages |-> Granted(p)],
    request <- IF job.busy THEN [busy |-> TRUE, what |-> job.what, next |-> job.page] ELSE Idle

(* At every single store, what the processors see is a flat map in which one  *)
(* leaf store changes one page and all others change nothing: a half-built    *)
(* path grants nothing, opening a shared table to the user exposes no kernel  *)
(* page below it, and a failed Map leaves whole pages behind.                 *)
ImplementsAddressSpace == Flat!Spec
=============================================================================
