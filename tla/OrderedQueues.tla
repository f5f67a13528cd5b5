--------------------------- MODULE OrderedQueues ----------------------------
(* What the users of Lib/Queue.h rely on: every queue is a sequence, an item *)
(* is in at most one place, and a call tells whether it did anything.  The    *)
(* call is part of the state, so that nothing implements these queues but to *)
(* do to the same item what was asked, and to answer for it.                 *)
EXTENDS Sequences, SequencesExt

CONSTANTS Queues, Items, Null

VARIABLES
    items,      \* items[q]: the items of queue q, first one first
    called,     \* the last call: the method, its queue and its items
    returned    \* what it returned

vars == <<items, called, returned>>

Members(q) == ToSet(items[q])

\* An item may be handed to a queue when it is in no other one.
MayGo(q, i) == \A other \in Queues \ {q} : i \notin Members(other)

Becomes(q, s) == items' = [items EXCEPT ![q] = s]

Init == items = [q \in Queues |-> <<>>] /\ called = <<>> /\ returned = FALSE

Refuse == returned' = FALSE /\ UNCHANGED items

Append_(q, i) ==
    /\ called' = <<"Append", q, i>>
    /\ MayGo(q, i)
    /\ IF i \in Members(q) THEN Refuse
                           ELSE Becomes(q, Append(items[q], i)) /\ returned' = TRUE

Prepend_(q, i) ==
    /\ called' = <<"Prepend", q, i>>
    /\ MayGo(q, i)
    /\ IF i \in Members(q) THEN Refuse
                           ELSE Becomes(q, <<i>> \o items[q]) /\ returned' = TRUE

InsertAfter_(q, a, i) ==
    /\ called' = <<"InsertAfter", q, a, i>>
    /\ MayGo(q, i) /\ MayGo(q, a)
    /\ IF a \notin Members(q) \/ i \in Members(q)
       THEN Refuse
       ELSE /\ \E n \in DOMAIN items[q] : items[q][n] = a /\ Becomes(q, InsertAt(items[q], n + 1, i))
            /\ returned' = TRUE

Dequeue_(q) ==
    /\ called' = <<"Dequeue", q>>
    /\ IF items[q] = <<>> THEN returned' = Null /\ UNCHANGED items
                          ELSE returned' = Head(items[q]) /\ Becomes(q, Tail(items[q]))

\* Any item may be asked for, wherever it is.
Remove_(q, i) ==
    /\ called' = <<"Remove", q, i>>
    /\ IF i \notin Members(q) THEN Refuse
                              ELSE Becomes(q, SelectSeq(items[q], LAMBDA j : j # i)) /\ returned' = TRUE

Next ==
    \E q \in Queues :
        \/ Dequeue_(q)
        \/ \E i \in Items : Append_(q, i) \/ Prepend_(q, i) \/ Remove_(q, i)
        \/ \E a, i \in Items : InsertAfter_(q, a, i)

Spec == Init /\ [][Next]_vars
=============================================================================
