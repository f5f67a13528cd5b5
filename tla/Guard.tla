------------------------------- MODULE Guard -------------------------------
(***************************************************************************)
(* Prologue/epilogue synchronisation: Interrupt/Guard.cpp on top of the    *)
(* ticket lock of Sync/TicketLock.h.                                       *)
(*                                                                         *)
(* A core is outside the epilogue level, or somewhere on the way through   *)
(* it; pc[c] says where.  What survives a context switch (which section    *)
(* the stack is in the middle of, the wasEnabled local of Leave, whether   *)
(* the stack lies on top of an interrupt frame) belongs to the context     *)
(* whose stack it is on.  The boot stack of core c is the context c.       *)
(*                                                                         *)
(* Which thread a switch picks is the scheduler's business (module         *)
(* Scheduling): here it is any thread that no core is running.             *)
(***************************************************************************)
EXTENDS Integers, Sequences, FiniteSets

CONSTANTS
    Cores,          \* the cores that reach MainAp
    Threads,        \* threads with a prepared context (Thread::Prepare)
    Epilogues,      \* what prologues relay
    TicketModulus,  \* 2^32 in the code: the tickets are uint32_t
    QueueCapacity   \* what an epilogue ring buffer can hold

ASSUME CoresAssumption == IsFiniteSet(Cores)
\* Every core has an idle thread of its own (s_IdleThread).
ASSUME ContextsAssumption ==
    /\ Cores \cap Threads = {}
    /\ IsFiniteSet(Threads)
    /\ Cardinality(Threads) >= Cardinality(Cores)
ASSUME EpiloguesAssumption == {"Enter", "Relay"} \cap Epilogues = {}
\* MAX_CORES is far below 2^32.
ASSUME TicketAssumption ==
    TicketModulus \in Nat /\ Cardinality(Cores) < TicketModulus
ASSUME CapacityAssumption == QueueCapacity \in Nat \ {0}

VARIABLES
    pc,              \* where each core is with respect to the level
    active,          \* the context each core executes
    enabled,         \* RFLAGS.IF of each core
    s_InEpilogue,    \* the per-core flag
    s_EpilogueQueue, \* the per-core ring buffer
    m_NextTicket,    \* s_GlobalLock: the next ticket to hand out
    m_NowServing,    \* s_GlobalLock: the ticket that may go in
    ticket,          \* the ticket each core has drawn last
    doing,           \* what a context uses the level for
    wasEnabled,      \* the local of Leave, per context
    nested           \* TRUE while a context is below an interrupt frame

lockVars == <<m_NextTicket, m_NowServing, ticket>>
contextVars == <<doing, wasEnabled, nested>>
vars == <<pc, active, enabled, s_InEpilogue, s_EpilogueQueue, lockVars,
          contextVars>>

Contexts == Threads \cup Cores
Tickets == 0 .. TicketModulus - 1
Uses == {"Enter", "Relay"} \cup Epilogues
Places == {"outside", "draw", "spin", "inside", "drain"}

\* Tickets wrap within the modulus (TicketLock.h), queues hold epilogues only.
TypeOK ==
    /\ pc \in [Cores -> Places]
    /\ active \in [Cores -> Contexts]
    /\ enabled \in [Cores -> BOOLEAN]
    /\ s_InEpilogue \in [Cores -> BOOLEAN]
    /\ s_EpilogueQueue \in [Cores -> Seq(Epilogues)]
    /\ m_NextTicket \in Tickets
    /\ m_NowServing \in Tickets
    /\ ticket \in [Cores -> Tickets]
    /\ doing \in [Contexts -> Uses]
    /\ wasEnabled \in [Contexts -> BOOLEAN]
    /\ nested \in [Contexts -> BOOLEAN]

\* Every core has just entered MainAp: interrupts still off, the lock free
\* after however many sections Main needed.  A thread that has never run
\* starts in Kickoff, whose first act is to leave the section it was
\* dispatched in, so it looks like a thread suspended inside Enter's section.
Init ==
    /\ pc = [c \in Cores |-> "outside"]
    /\ active = [c \in Cores |-> c]
    /\ enabled = [c \in Cores |-> FALSE]
    /\ s_InEpilogue = [c \in Cores |-> FALSE]
    /\ s_EpilogueQueue = [c \in Cores |-> << >>]
    /\ m_NextTicket \in Tickets
    /\ m_NowServing = m_NextTicket
    /\ ticket = [c \in Cores |-> m_NextTicket]
    /\ doing = [x \in Contexts |-> "Enter"]
    /\ wasEnabled = [x \in Contexts |-> FALSE]
    /\ nested = [x \in Contexts |-> FALSE]

-----------------------------------------------------------------------------
(* The ticket lock.                                                        *)

\* uint32_t addition of one.
After(n) == IF n = TicketModulus - 1 THEN 0 ELSE n + 1

\* Lock(), first half: fetch_add on m_NextTicket.
DrawTicket(c) ==
    /\ pc[c] = "draw"
    /\ pc' = [pc EXCEPT ![c] = "spin"]
    /\ ticket' = [ticket EXCEPT ![c] = m_NextTicket]
    /\ m_NextTicket' = After(m_NextTicket)
    /\ UNCHANGED <<active, enabled, s_InEpilogue, s_EpilogueQueue,
                   m_NowServing, contextVars>>

\* The condition that ends the spin.  Mutant: a lock that goes to whoever
\* looks first.
IsServedByChance(c) == \A d \in Cores : pc[d] # "inside"

IsServed(c) == m_NowServing = ticket[c]

\* Lock(), second half: the load of m_NowServing that ends the spin.
Acquire(c) ==
    /\ pc[c] = "spin"
    /\ IsServed(c)
    /\ pc' = [pc EXCEPT ![c] = "inside"]
    /\ UNCHANGED <<active, enabled, s_InEpilogue, s_EpilogueQueue, lockVars,
                   contextVars>>

\* Unlock(): fetch_add on m_NowServing.
Unlock == m_NowServing' = After(m_NowServing)

-----------------------------------------------------------------------------
(* Entering and leaving the level.                                         *)

\* Enter() up to the lock.  Threads call it with interrupts on, MainAp still
\* with interrupts off.
Enter(c) ==
    /\ pc[c] = "outside"
    /\ active[c] \in Threads => enabled[c]
    /\ s_InEpilogue' = [s_InEpilogue EXCEPT ![c] = TRUE]
    /\ pc' = [pc EXCEPT ![c] = "draw"]
    /\ UNCHANGED <<active, enabled, s_EpilogueQueue, lockVars, contextVars>>

\* What Leave notes in wasEnabled.  Mutant: it looks after its Disable.
IsEnabledTooLate(c) == FALSE

IsEnabled(c) == enabled[c]

\* Leave() up to its loop, from ~Guarded, from Kickoff or from Relay.
Leave(c) ==
    /\ pc[c] = "inside"
    /\ active[c] \in Threads
    /\ doing[active[c]] \in {"Enter", "Relay"}
    /\ wasEnabled' = [wasEnabled EXCEPT ![active[c]] = IsEnabled(c)]
    /\ Unlock
    /\ pc' = [pc EXCEPT ![c] = "drain"]
    /\ UNCHANGED <<active, enabled, s_InEpilogue, s_EpilogueQueue,
                   m_NextTicket, ticket, doing, nested>>

\* RingBuffer::Consume of a non-empty queue.
Consume(c) == s_EpilogueQueue' = [s_EpilogueQueue EXCEPT ![c] = Tail(@)]

\* What ends the loop.  Mutant: "if" for "while", the rest is left behind.
DrainedOnce(c) == TRUE

Drained(c) == s_EpilogueQueue[c] = << >>

\* One turn of Leave's loop up to the lock: Disable, Consume, Enable.
TakeEpilogue(c) ==
    /\ pc[c] = "drain"
    /\ s_EpilogueQueue[c] # << >>
    /\ doing' = [doing EXCEPT ![active[c]] = Head(s_EpilogueQueue[c])]
    /\ Consume(c)
    /\ enabled' = [enabled EXCEPT ![c] = TRUE]
    /\ pc' = [pc EXCEPT ![c] = "draw"]
    /\ UNCHANGED <<active, s_InEpilogue, lockVars, wasEnabled, nested>>

\* The epilogue returns: Unlock and back to the top of Leave's loop.
EpilogueDone(c) ==
    /\ pc[c] = "inside"
    /\ doing[active[c]] \in Epilogues
    /\ Unlock
    /\ pc' = [pc EXCEPT ![c] = "drain"]
    /\ UNCHANGED <<active, enabled, s_InEpilogue, s_EpilogueQueue,
                   m_NextTicket, ticket, contextVars>>

\* Leave()'s way out: Disable, nothing to consume, clear the flag, Restore.
\* Below an interrupt frame the prologue's iretq then turns interrupts on:
\* the frame was pushed with the flag set.  What the stack frames held is gone.
LeaveLevel(c) ==
    /\ pc[c] = "drain"
    /\ Drained(c)
    /\ s_InEpilogue' = [s_InEpilogue EXCEPT ![c] = FALSE]
    /\ enabled' = [enabled EXCEPT ![c] = wasEnabled[active[c]] \/ nested[active[c]]]
    /\ doing' = [doing EXCEPT ![active[c]] = "Enter"]
    /\ wasEnabled' = [wasEnabled EXCEPT ![active[c]] = FALSE]
    /\ nested' = [nested EXCEPT ![active[c]] = FALSE]
    /\ pc' = [pc EXCEPT ![c] = "outside"]
    /\ UNCHANGED <<active, s_EpilogueQueue, lockVars>>

-----------------------------------------------------------------------------
(* Prologues.  An interrupt gate clears IF; Relay runs with it off.  The   *)
(* environment does not overrun a ring buffer (Relay asserts as much).     *)

\* RingBuffer::Produce.  Mutant: it is called twice.
ProduceTwice(c, e) ==
    /\ Len(s_EpilogueQueue[c]) < QueueCapacity
    /\ s_EpilogueQueue' = [s_EpilogueQueue EXCEPT ![c] = @ \o <<e, e>>]

Produce(c, e) ==
    /\ Len(s_EpilogueQueue[c]) < QueueCapacity
    /\ s_EpilogueQueue' = [s_EpilogueQueue EXCEPT ![c] = Append(@, e)]

\* Relay() with the level taken on this core: queue, return, iretq.
RelayBusy(c, e) ==
    /\ enabled[c]
    /\ s_InEpilogue[c]
    /\ Produce(c, e)
    /\ UNCHANGED <<pc, active, enabled, s_InEpilogue, lockVars, contextVars>>

\* Relay() with the level free on this core, up to the lock.
RelayFree(c, e) ==
    /\ enabled[c]
    /\ ~s_InEpilogue[c]
    /\ Produce(c, e)
    /\ s_InEpilogue' = [s_InEpilogue EXCEPT ![c] = TRUE]
    /\ enabled' = [enabled EXCEPT ![c] = FALSE]
    /\ nested' = [nested EXCEPT ![active[c]] = TRUE]
    /\ doing' = [doing EXCEPT ![active[c]] = "Relay"]
    /\ pc' = [pc EXCEPT ![c] = "draw"]
    /\ UNCHANGED <<active, lockVars, wasEnabled>>

-----------------------------------------------------------------------------
(* What code does that the Guard does not see.                             *)

\* Cpu::Interrupt::Disable and Enable outside the level (the idle loop, and
\* the allocators' interrupt guards).
Mask(c) ==
    /\ pc[c] = "outside"
    /\ active[c] \in Threads
    /\ enabled' = [enabled EXCEPT ![c] = ~@]
    /\ UNCHANGED <<pc, active, s_InEpilogue, s_EpilogueQueue, lockVars,
                   contextVars>>

\* MainAp's Interrupt::Enable, between Enter and Schedule.
EnableAtBoot(c) ==
    /\ pc[c] = "inside"
    /\ active[c] \in Cores
    /\ ~enabled[c]
    /\ enabled' = [enabled EXCEPT ![c] = TRUE]
    /\ UNCHANGED <<pc, active, s_InEpilogue, s_EpilogueQueue, lockVars,
                   contextVars>>

Suspended(t) == \A c \in Cores : active[c] # t

\* Dispatcher::Go from the boot stack, the last thing MainAp does.
Go(c, t) ==
    /\ pc[c] = "inside"
    /\ active[c] \in Cores
    /\ enabled[c]
    /\ Suspended(t)
    /\ active' = [active EXCEPT ![c] = t]
    /\ UNCHANGED <<pc, enabled, s_InEpilogue, s_EpilogueQueue, lockVars,
                   contextVars>>

\* Dispatcher::Dispatch: the section changes hands, the core keeps the lock
\* and the flag, and RFLAGS is not part of the saved context.
Dispatch(c, t) ==
    /\ pc[c] = "inside"
    /\ active[c] \in Threads
    /\ doing[active[c]] # "Relay"
    /\ Suspended(t)
    /\ active' = [active EXCEPT ![c] = t]
    /\ UNCHANGED <<pc, enabled, s_InEpilogue, s_EpilogueQueue, lockVars,
                   contextVars>>

-----------------------------------------------------------------------------
Next ==
    \E c \in Cores :
        \/ Enter(c)
        \/ DrawTicket(c)
        \/ Acquire(c)
        \/ Leave(c)
        \/ TakeEpilogue(c)
        \/ EpilogueDone(c)
        \/ LeaveLevel(c)
        \/ \E e \in Epilogues : RelayBusy(c, e) \/ RelayFree(c, e)
        \/ Mask(c)
        \/ EnableAtBoot(c)
        \/ \E t \in Threads : Go(c, t) \/ Dispatch(c, t)

Spec == Init /\ [][Next]_vars

\* A core keeps executing, and every section and every epilogue is finite
\* straight-line code: a context inside leaves or launches a thread.
Proceed(c) ==
    \/ DrawTicket(c) \/ Acquire(c)
    \/ Leave(c) \/ EpilogueDone(c)
    \/ TakeEpilogue(c) \/ LeaveLevel(c)
    \/ EnableAtBoot(c) \/ \E t \in Threads : Go(c, t)

Fairness == \A c \in Cores : WF_vars(Proceed(c))

FairSpec == Spec /\ Fairness
-----------------------------------------------------------------------------
(* What the level promises.                                                *)

\* "At most one epilogue runs anywhere at a time" (Guard.cpp:13): no two
\* cores are between Lock and Unlock at once, however the section has
\* changed hands in between and also when the tickets wrap.
MutualExclusion ==
    \A c, d \in Cores : pc[c] = "inside" /\ pc[d] = "inside" => c = d

\* "They will pick it up on their way out" (Guard.cpp:73): a core that has
\* left the level, or is back in a thread's own code after a switch, has no
\* epilogue left in its queue.
NoStrandedEpilogue ==
    \A c \in Cores : pc[c] = "outside" => s_EpilogueQueue[c] = << >>

\* "Interrupts are re-enabled while an epilogue runs" (Guard.h:66), also on
\* the core that an interrupted epilogue or a blocked section is resumed on
\* later: only MainAp and a prologue's own pass over the lock have them off.
SectionInterruptible ==
    \A c \in Cores :
        pc[c] = "inside" /\ active[c] \in Threads /\ doing[active[c]] # "Relay"
            => enabled[c]

\* Leave restores the interrupt flag its context came in with, and nobody
\* came in with interrupts off: a thread back in its own code, on whichever
\* core, can be interrupted again (Guard.cpp:59-62, Thread.cpp:30-33).
InterruptsRestored ==
    [][\A c \in Cores :
          pc[c] # "outside" /\ pc'[c] = "outside" => enabled'[c]]_vars

\* "Ticket based so a busy core cannot starve the others" (Guard.cpp:14).
LevelGranted ==
    \A c \in Cores : (pc[c] = "draw") ~> (pc[c] = "inside")

-----------------------------------------------------------------------------
\* Why the level stays consistent although contexts move between cores: the
\* flag of a core says where that core is; no context is on two cores; a boot
\* stack never leaves; only a context below an interrupt frame spins with
\* interrupts off, and it is never switched away; and whoever is on the way
\* through Leave gets interrupts back at its end.
LevelConsistent ==
    /\ \A c \in Cores : s_InEpilogue[c] <=> pc[c] # "outside"
    /\ NoStrandedEpilogue
    /\ \A c, d \in Cores : active[c] = active[d] => c = d
    /\ \A c \in Cores :
          active[c] \in Cores =>
              /\ pc[c] # "drain"
              /\ doing[active[c]] = "Enter"
              /\ enabled[c] => pc[c] = "inside"
    /\ \A c \in Cores :
          active[c] \in Threads /\ pc[c] # "outside" =>
              enabled[c] \/ doing[active[c]] = "Relay"
    /\ \A x \in Contexts : doing[x] = "Relay" => nested[x]
    /\ \A t \in Threads : Suspended(t) => doing[t] # "Relay"
    /\ \A x \in Contexts : doing[x] \in Epilogues => wasEnabled[x] \/ nested[x]
    /\ \A c \in Cores :
          pc[c] = "drain" => wasEnabled[active[c]] \/ nested[active[c]]

-----------------------------------------------------------------------------
(* The ticket lock is a queue: the cores that have drawn a ticket, by the  *)
(* distance of their ticket from the one being served.                     *)

Contenders == {c \in Cores : pc[c] \in {"spin", "inside"}}

\* a - b and a + b in uint32_t.
Minus(a, b) == IF a >= b THEN a - b ELSE a - b + TicketModulus
Plus(a, b) == IF a + b < TicketModulus THEN a + b ELSE a + b - TicketModulus

Rank(c) == Minus(ticket[c], m_NowServing)

\* The tickets that are out are the ones from m_NowServing up to
\* m_NextTicket, each held by one core, the owner's being the first of them.
TicketsInOrder ==
    /\ m_NextTicket = Plus(m_NowServing, Cardinality(Contenders))
    /\ \A c \in Contenders : Rank(c) < Cardinality(Contenders)
    /\ \A c, d \in Contenders : ticket[c] = ticket[d] => c = d
    /\ \A c \in Cores : pc[c] = "inside" => ticket[c] = m_NowServing

Line ==
    [i \in 1 .. Cardinality(Contenders) |->
        CHOOSE c \in Contenders : Rank(c) = i - 1]

Level == INSTANCE EpilogueLevel
         WITH line <- Line,
              admitted <- \E c \in Cores : pc[c] = "inside",
              pending <- s_EpilogueQueue

\* The level is first come, first served, and epilogues leave a core's queue
\* in the order in which its prologues relayed them, one at a time.
ImplementsLevel == Level!Spec
=============================================================================
