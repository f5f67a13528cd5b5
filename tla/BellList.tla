------------------------------ MODULE BellList ------------------------------
(***************************************************************************)
(* The Bellringer's list of bells (Sync/Bellringer.cpp), delta encoded:    *)
(* a bell's Ticks count from the moment the bell before it rings.          *)
(***************************************************************************)
EXTENDS Integers, Sequences

\* Config::SCHEDULER_TICK_MS
SCHEDULER_TICK_MS == 10

\* Milliseconds to ticks: rounded down, but at least one.
TicksFor(ms) ==
    IF ms \div SCHEDULER_TICK_MS = 0 THEN 1 ELSE ms \div SCHEDULER_TICK_MS

\* When each bell rings, in ticks from now; 0 for "before the first".
DueIn(bells) ==
    LET due[i \in 0 .. Len(bells)] ==
            IF i = 0 THEN 0 ELSE due[i - 1] + bells[i].Ticks
    IN due

\* Mutant of Insert: "<" for "<=" in the walk, which puts a bell in front of
\* those that ring at the same tick.
InsertBeforeTies(bells, owner, ticks) ==
    LET due == DueIn(bells)
        pos == CHOOSE i \in 0 .. Len(bells) :
                  /\ i = 0 \/ due[i] < ticks
                  /\ \A j \in i + 1 .. Len(bells) : due[j] >= ticks
        new == [Owner |-> owner, Ticks |-> ticks - due[pos]]
        rest == SubSeq(bells, pos + 1, Len(bells))
    IN SubSeq(bells, 1, pos) \o <<new>> \o
       [i \in DOMAIN rest |->
           IF i = 1 THEN [rest[i] EXCEPT !.Ticks = @ - new.Ticks] ELSE rest[i]]

\* Sleep's walk and insertion: behind every bell that rings no later, with
\* the remaining ticks, which the successor gives up.
Insert(bells, owner, ticks) ==
    LET due == DueIn(bells)
        pos == CHOOSE i \in 0 .. Len(bells) :
                  /\ due[i] <= ticks
                  /\ \A j \in i + 1 .. Len(bells) : due[j] > ticks
        new == [Owner |-> owner, Ticks |-> ticks - due[pos]]
        rest == SubSeq(bells, pos + 1, Len(bells))
    IN SubSeq(bells, 1, pos) \o <<new>> \o
       [i \in DOMAIN rest |->
           IF i = 1 THEN [rest[i] EXCEPT !.Ticks = @ - new.Ticks] ELSE rest[i]]

\* Check's decrement of the first bell.
Tick(bells) ==
    IF bells # << >> /\ bells[1].Ticks > 0
    THEN [bells EXCEPT ![1].Ticks = @ - 1]
    ELSE bells

\* How many bells Check's loop dequeues: the leading ones with nothing left.
DueCount(bells) ==
    CHOOSE k \in 0 .. Len(bells) :
        /\ \A i \in 1 .. k : bells[i].Ticks = 0
        /\ k < Len(bells) => bells[k + 1].Ticks # 0

\* Check: the owners to make ready, in order, and the bells that stay.
Rung(bells) ==
    LET ticked == Tick(bells)
    IN [i \in 1 .. DueCount(ticked) |-> ticked[i].Owner]

\* Mutant of Unrung: First() for Dequeue().
UnrungKeepsLast(bells) ==
    LET ticked == Tick(bells)
        k == DueCount(ticked)
    IN SubSeq(ticked, IF k = 0 THEN 1 ELSE k, Len(ticked))

Unrung(bells) ==
    LET ticked == Tick(bells)
    IN SubSeq(ticked, DueCount(ticked) + 1, Len(ticked))
=============================================================================
