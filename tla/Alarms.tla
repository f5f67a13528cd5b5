------------------------------- MODULE Alarms -------------------------------
(***************************************************************************)
(* What the Bellringer promises (Sync/Bellringer.h): a thread that sleeps  *)
(* some milliseconds, "rounded to the scheduler tick", is woken by just    *)
(* that tick, neither earlier nor later, and threads that are due together *)
(* wake in the order in which they went to sleep.  The promise as a timing *)
(* wheel: one queue per future tick.                                       *)
(***************************************************************************)
EXTENDS Integers, Sequences

CONSTANTS
    Threads,
    Milliseconds,        \* the arguments of Sleep
    SCHEDULER_TICK_MS,
    MaxTicks             \* the longest sleep, in ticks

VARIABLES
    wheel,     \* wheel[n]: the threads to wake n ticks from now
    called,    \* the last call, with its arguments
    woken      \* the threads it has woken

Init ==
    /\ called = << >>
    /\ wheel = [n \in 1 .. MaxTicks |-> << >>]
    /\ woken = << >>

Asleep(t) == \E n \in 1 .. MaxTicks : \E i \in DOMAIN wheel[n] : wheel[n][i] = t

\* A sleep of ms milliseconds takes n ticks: those that fit into it, but one
\* at least.
Takes(ms, n) ==
    /\ ms < (n + 1) * SCHEDULER_TICK_MS
    /\ n = 1 \/ n * SCHEDULER_TICK_MS <= ms

Sleep(t, ms) ==
    /\ called' = <<"Sleep", t, ms>>
    /\ ~Asleep(t)
    /\ \/ ms = 0 /\ UNCHANGED wheel
       \/ /\ ms > 0
          /\ \E n \in 1 .. MaxTicks :
                Takes(ms, n) /\ wheel' = [wheel EXCEPT ![n] = Append(@, t)]
    /\ woken' = << >>

Check ==
    /\ called' = <<"Check">>
    /\ woken' = wheel[1]
    /\ wheel' = [n \in 1 .. MaxTicks |->
                    IF n = MaxTicks THEN << >> ELSE wheel[n + 1]]

Next == Check \/ \E t \in Threads, ms \in Milliseconds : Sleep(t, ms)

Spec == Init /\ [][Next]_<<wheel, called, woken>>
=============================================================================
