------------------------------- MODULE Queue --------------------------------
(* Lib/Queue.h: the intrusive list behind the ready queue, the semaphore's   *)
(* waiting list and the bells.  The link lives in the item, and queues of    *)
(* one type share it: Scheduler::m_ReadyQueue and Semaphore::m_Waiting both  *)
(* go through Thread::m_QueueLink.                                           *)
EXTENDS Naturals, Sequences, FiniteSets

CONSTANTS Queues, Items,
          Null      \* nullptr

NullIsNoItem == Null \notin Items

VARIABLES
    head, tail,     \* m_Head and m_Tail of each queue
    link,           \* the item's LinkMember
    called,         \* the last call: the method, its queue and its items
    returned        \* what it returned

vars == <<head, tail, link, called, returned>>

Init ==
    /\ head = [q \in Queues |-> Null]
    /\ tail = [q \in Queues |-> Null]
    /\ link = [i \in Items |-> Null]
    /\ called = <<>> /\ returned = FALSE

\* What an iterator from begin() to end() visits; the bound only matters for
\* a list that has become cyclic.
Walk(q) ==
    LET visited[n \in 1 .. Cardinality(Items) + 1] ==
            IF n = 1 THEN head[q]
                     ELSE LET last == visited[n - 1] IN IF last = Null THEN Null ELSE link[last]
    IN  SelectSeq([n \in DOMAIN visited |-> visited[n]], LAMBDA p : p # Null)

InList(q, i) == LET walk == Walk(q) IN \E n \in DOMAIN walk : walk[n] = i

\* An approximation: a link that is set, or being the tail, stands for being
\* in this queue.
ContainsByTail(q, i) == head[q] # Null /\ tail[q] = i
Contains(q, i) == head[q] # Null /\ (link[i] # Null \/ tail[q] = i)

\* The callers' side: an item is handed over only when no other queue that
\* shares its link has it.
MayGo(q, i) == \A other \in Queues \ {q} : ~InList(other, i)

Refuse == returned' = FALSE /\ UNCHANGED <<head, tail, link>>

\* The list with i behind the tail.
Appended(q, i) ==
    /\ head' = IF head[q] = Null THEN [head EXCEPT ![q] = i] ELSE head
    /\ link' = IF head[q] = Null THEN [link EXCEPT ![i] = Null]
                                 ELSE [link EXCEPT ![i] = Null, ![tail[q]] = i]
    /\ tail' = [tail EXCEPT ![q] = i]
    /\ returned' = TRUE

Append_(q, i) ==
    /\ MayGo(q, i)
    /\ called' = <<"Append", q, i>>
    /\ IF Contains(q, i) THEN Refuse ELSE Appended(q, i)

Prepend(q, i) ==
    /\ MayGo(q, i)
    /\ called' = <<"Prepend", q, i>>
    /\ IF Contains(q, i)
       THEN Refuse
       ELSE /\ link' = [link EXCEPT ![i] = head[q]]
            /\ head' = [head EXCEPT ![q] = i]
            /\ tail' = [tail EXCEPT ![q] = IF @ = Null THEN i ELSE @]
            /\ returned' = TRUE

InsertAfter(q, a, i) ==
    /\ MayGo(q, i) /\ MayGo(q, a)
    /\ called' = <<"InsertAfter", q, a, i>>
    /\ CASE ~Contains(q, a) \/ Contains(q, i) -> Refuse
         [] Contains(q, a) /\ ~Contains(q, i) /\ a = tail[q] -> Appended(q, i)
         [] OTHER -> /\ link' = [link EXCEPT ![i] = link[a], ![a] = i]
                     /\ returned' = TRUE
                     /\ UNCHANGED <<head, tail>>

\* The list without its first item.
NextTail(q) == IF link[head[q]] = Null THEN Null ELSE tail[q]

Dequeued(q) ==
    /\ head' = [head EXCEPT ![q] = link[head[q]]]
    /\ link' = [link EXCEPT ![head[q]] = Null]
    /\ tail' = [tail EXCEPT ![q] = NextTail(q)]

Dequeue(q) ==
    /\ called' = <<"Dequeue", q>>
    /\ IF head[q] = Null THEN returned' = Null /\ UNCHANGED <<head, tail, link>>
                         ELSE returned' = head[q] /\ Dequeued(q)

\* Scheduler::Kill asks the ready queue for a thread that may wait elsewhere.
Remove(q, i) ==
    LET before == {p \in Items : InList(q, p) /\ link[p] = i}
    IN  /\ called' = <<"Remove", q, i>>
        /\ CASE Contains(q, i) /\ head[q] = i -> Dequeued(q) /\ returned' = TRUE
             [] Contains(q, i) /\ head[q] # i /\ before # {} ->
                   LET current == CHOOSE p \in before : TRUE
                   IN  /\ link' = [link EXCEPT ![current] = link[i], ![i] = Null]
                       /\ tail' = [tail EXCEPT ![q] = IF @ = i THEN current ELSE @]
                       /\ returned' = TRUE
                       /\ UNCHANGED head
             [] OTHER -> Refuse

Next ==
    \E q \in Queues :
        \/ Dequeue(q)
        \/ \E i \in Items : Append_(q, i) \/ Prepend(q, i) \/ Remove(q, i)
        \/ \E a, i \in Items : InsertAfter(q, a, i)

Spec == Init /\ [][Next]_vars

Lists == INSTANCE OrderedQueues WITH items <- [q \in Queues |-> Walk(q)]

(* The linked lists behave as sequences: every call does to its own items    *)
(* what it was asked to, and reports it.  Contains, which only looks at the  *)
(* link and the tail, never makes Append, Prepend, InsertAfter or Remove     *)
(* mistake an item's place, although queues share the link and Remove is     *)
(* asked for items of other queues.                                          *)
ImplementsSequences == Lists!Spec
=============================================================================
