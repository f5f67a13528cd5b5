----------------------------- MODULE Bellringer -----------------------------
(***************************************************************************)
(* Sync/Bellringer.cpp on its own: threads that sleep and core 0's ticks.  *)
(* The calls are serialised by the Guard.  How a sleeper is taken off its  *)
(* core, and core 0 kept ticking, is in module Scheduling.                 *)
(***************************************************************************)
EXTENDS BellList, FiniteSets

CONSTANTS
    Threads,
    Milliseconds,   \* the arguments of Sleep
    MaxTicks        \* no argument of Sleep is longer than this many ticks

MillisecondsAssumption ==
    /\ MaxTicks \in Nat \ {0}
    /\ \A ms \in Milliseconds : ms \in Nat /\ TicksFor(ms) <= MaxTicks

VARIABLES
    m_Bells,        \* sequence of [Owner, Ticks]
    called,         \* the last call, with its arguments
    woken           \* what it has made ready

vars == <<m_Bells, called, woken>>

Init ==
    /\ called = << >>
    /\ m_Bells = << >>
    /\ woken = << >>

\* Only a thread that runs can call Sleep: none that still has a bell.
Awake(t) == \A i \in DOMAIN m_Bells : m_Bells[i].Owner # t

Sleep(t, ms) ==
    /\ Awake(t)
    /\ ms > 0
    /\ called' = <<"Sleep", t, ms>>
    /\ m_Bells' = Insert(m_Bells, t, TicksFor(ms))
    /\ woken' = << >>

\* Sleep(0) returns at once.
SleepZero(t, ms) ==
    /\ Awake(t)
    /\ ms = 0
    /\ called' = <<"Sleep", t, ms>>
    /\ woken' = << >>
    /\ UNCHANGED m_Bells

Check ==
    /\ called' = <<"Check">>
    /\ m_Bells' = Unrung(m_Bells)
    /\ woken' = Rung(m_Bells)

Next ==
    \/ Check
    \/ \E t \in Threads, ms \in Milliseconds : Sleep(t, ms) \/ SleepZero(t, ms)

Spec == Init /\ [][Next]_vars

-----------------------------------------------------------------------------
\* How many bells ring before the n-th tick from now: a prefix of the list.
Before(bells, n) == Cardinality({i \in DOMAIN bells : DueIn(bells)[i] < n})

\* The list as a timing wheel: its stretch of bells for each tick.
WheelOf(bells) ==
    [n \in 1 .. MaxTicks |->
        [k \in 1 .. Before(bells, n + 1) - Before(bells, n) |->
            bells[Before(bells, n) + k].Owner]]

Wheel == WheelOf(m_Bells)

Promise == INSTANCE Alarms WITH wheel <- Wheel

\* The delta list wakes every sleeper at exactly the tick its milliseconds
\* round to, and ties in order, whatever was inserted before and after it
\* (Bellringer.cpp Sleep and Check against the promise of Bellringer.h).
KeepsPromise == Promise!Spec
=============================================================================
