---------------------------- MODULE BoundedFifo -----------------------------
(* What a RingBuffer promises one producer and one consumer: the values the  *)
(* producer calls with come out once, in order; a value is dropped only when *)
(* the buffer is full.                                                       *)
EXTENDS Naturals, Sequences

CONSTANTS Values, Room

VARIABLES queue, calling, value, dropped, got

vars == <<queue, calling, value, dropped, got>>

Init == queue = <<>> /\ ~calling /\ value \in Values /\ dropped = FALSE /\ got \in Values

Call(v) == ~calling /\ calling' /\ value' = v /\ UNCHANGED <<queue, dropped, got>>

Put ==
    /\ calling /\ ~calling' /\ Len(queue) < Room
    /\ queue' = Append(queue, value) /\ dropped' = FALSE
    /\ UNCHANGED <<value, got>>

Drop == ~calling /\ Len(queue) = Room /\ dropped' = TRUE /\ UNCHANGED <<queue, calling, value, got>>

Get == queue # <<>> /\ got' = Head(queue) /\ queue' = Tail(queue) /\ UNCHANGED <<calling, value, dropped>>

Next == (\E v \in Values : Call(v)) \/ Put \/ Drop \/ Get

Spec == Init /\ [][Next]_vars
=============================================================================
