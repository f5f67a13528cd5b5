---------------------------- MODULE MCStructures ----------------------------
(* The data structures: RingBuffer, Queue, the Bellringer's list and the page *)
(* tables.  They have no state in common, so what one of them does does not   *)
(* depend on the others, and it is enough to let one move while the others    *)
(* rest in an initial state: the states add up instead of multiplying.        *)
EXTENDS RingBuffer

CONSTANTS
    Queues, Items, Null,                \* Queue
    Threads, Milliseconds, MaxTicks     \* Bellringer

VARIABLES
    moves,                              \* the component that moves
    head, tail, link, called, returned, \* Queue
    m_Bells, asked, woken,              \* Bellringer
    memory, tables, job                 \* Paging

queue == <<head, tail, link, called, returned>>
bells == <<m_Bells, asked, woken>>
paging == <<memory, tables, job>>

Q == INSTANCE Queue
B == INSTANCE Bellringer WITH called <- asked

(* Three levels of two entries, eight pages, and tables for five of the seven *)
(* that would be needed.  Kernel and user requests share tables and pages.    *)
Call(first, count, physical, access, user) ==
    [first |-> first, count |-> count, physical |-> physical, access |-> access, user |-> user]

MCRequests == {Call(0, 2, 0, "RW", FALSE), Call(1, 2, 10, "RX", TRUE),
               Call(6, 1, 30, "RX", FALSE), Call(5, 3, 40, "RO", TRUE)}

P == INSTANCE Paging WITH
    TOP_LEVEL <- 3, ENTRIES_PER_TABLE <- 2, TableFrames <- 1 .. 5, Requests <- MCRequests

ASSUME QueueAssumption == Q!NullIsNoItem
ASSUME BellsAssumption == B!MillisecondsAssumption
ASSUME PagingAssumption == P!TablesAssumption

AnyValue == CHOOSE v \in Values : TRUE

MCInit ==
    /\ moves \in {"ring", "queue", "bells", "paging"}
    /\ Init /\ Q!Init /\ B!Init /\ P!Init
    /\ moves # "ring" => data = [s \in Slots |-> AnyValue] /\ value = AnyValue /\ out = AnyValue

MCNext ==
    \/ moves = "ring" /\ Next /\ UNCHANGED <<moves, queue, bells, paging>>
    \/ moves = "queue" /\ Q!Next /\ UNCHANGED <<moves, vars, bells, paging>>
    \/ moves = "bells" /\ B!Next /\ UNCHANGED <<moves, vars, queue, paging>>
    \/ moves = "paging" /\ P!Next /\ UNCHANGED <<moves, vars, queue, bells>>

MCSpec == MCInit /\ [][MCNext]_<<moves, vars, queue, bells, paging>>
-----------------------------------------------------------------------------
(* The linked lists behave as sequences: every call does to its own items    *)
(* what it was asked to, and reports it.  Contains, which only looks at the  *)
(* link and the tail, never makes Append, Prepend, InsertAfter or Remove     *)
(* mistake an item's place, although queues share the link and Remove is     *)
(* asked for items of other queues.                                          *)
ImplementsSequences == Q!ImplementsSequences

\* The delta list wakes every sleeper at exactly the tick its milliseconds
\* round to, and ties in order, whatever was inserted before and after it
\* (Bellringer.cpp Sleep and Check against the promise of Bellringer.h).
KeepsPromise == B!KeepsPromise

(* At every single store, what the processors see is a flat map in which one  *)
(* leaf store changes one page and all others change nothing: a half-built    *)
(* path grants nothing, opening a shared table to the user exposes no kernel  *)
(* page below it, and a failed Map leaves whole pages behind.                 *)
ImplementsAddressSpace == P!ImplementsAddressSpace
=============================================================================
