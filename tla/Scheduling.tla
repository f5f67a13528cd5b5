----------------------------- MODULE Scheduling -----------------------------
(***************************************************************************)
(* Threads on the cores: Thread/Scheduler.cpp, Thread/Dispatcher.cpp, the  *)
(* idle loop with the LAPIC timer it masks, the inter-processor            *)
(* interrupts, the epilogues, and the two things a thread can block on     *)
(* (Sync/Semaphore.cpp under the GetKey system call, Sync/Bellringer.cpp). *)
(*                                                                         *)
(* What happens under the Guard is one step here, the Unlock of whoever is *)
(* switched to included; only a thread that is switched to in the middle   *)
(* of GetKey goes on in a step of its own, still inside.  Module Guard     *)
(* justifies that (one core inside at a time, epilogues queued while a     *)
(* core is in, drained before it is out).  What the code does outside the  *)
(* Guard is a step per access to shared state.                             *)
(***************************************************************************)
EXTENDS BellList, FiniteSets

CONSTANTS
    NumCores,        \* Cpu::Count()
    Threads,         \* the threads Main makes ready
    Idle,            \* the idle thread of whichever core
    Killable,        \* threads that some thread may pass to Kill
    Milliseconds,    \* arguments of Sleep
    RawBound,        \* keys that fit the raw byte ring; 0: no keyboard
    KeyCapacity,     \* RingBuffer<Key, KEY_BUFFER_SIZE>::Capacity()
    EpilogueBound    \* epilogues queued on one core

Cores == 0 .. NumCores - 1

\* What m_ActiveThread holds on a core that has not dispatched yet.
Boot == "boot"

ASSUME CoresAssumption == NumCores \in Nat \ {0}
ASSUME ThreadsAssumption ==
    /\ IsFiniteSet(Threads) /\ Killable \subseteq Threads
    /\ Idle \notin Threads /\ Boot \notin Threads
ASSUME SleepAssumption == Milliseconds \subseteq Nat
ASSUME BoundsAssumption ==
    RawBound \in Nat /\ KeyCapacity \in Nat \ {0} /\ EpilogueBound \in Nat \ {0}

\* Arch/CpuInterrupt.h; the local APIC delivers the highest one first.
TIMER == 32
KEYBOARD == 33
ASSASSIN == 34
WAKEUP == 35
Vectors == {TIMER, KEYBOARD, ASSASSIN, WAKEUP}

VARIABLES
    pc,              \* where each core is
    back,            \* where an idle thread goes on when it leaves the level
    m_ReadyQueue,    \* Scheduler
    m_ActiveThread,  \* Dispatcher, per core; Boot before MainAp's Schedule
    dying,           \* threads with m_Dying set
    exited,          \* threads that have called Exit
    m_Waiting,       \* KeysAvailable: the threads parked in P
    m_Counter,       \* KeysAvailable: the counter
    Keys,            \* how many keys the Vault's ring buffer holds
    getting,         \* threads in the middle of GetKey
    raw,             \* keys in the raw byte ring, not yet decoded
    m_Bells,         \* Bellringer
    masked,          \* per core: the timer's mask bit
    sent,            \* per core: interrupts from other cores on their way
    pending,         \* per core: the local APIC's latched vectors
    s_EpilogueQueue  \* per core

readyVars == <<m_ReadyQueue, m_ActiveThread>>
lifeVars == <<dying, exited>>
keyVars == <<m_Waiting, m_Counter, Keys, getting>>
timeVars == <<m_Bells, masked>>
apicVars == <<sent, pending>>
vars == <<pc, back, readyVars, lifeVars, keyVars, raw, timeVars, apicVars,
          s_EpilogueQueue>>

\* Main has made the threads ready, in some order; every core is in MainAp,
\* where the first thing is to start the timer.
Init ==
    /\ pc = [c \in Cores |-> "boot"]
    /\ back = [c \in Cores |-> "check"]
    /\ m_ReadyQueue \in {q \in [1 .. Cardinality(Threads) -> Threads] :
                           \A t \in Threads : \E i \in DOMAIN q : q[i] = t}
    /\ m_ActiveThread = [c \in Cores |-> Boot]
    /\ dying = {}
    /\ exited = {}
    /\ m_Waiting = << >>
    /\ m_Counter = 0
    /\ Keys = 0
    /\ getting = {}
    /\ raw = 0
    /\ m_Bells = << >>
    /\ masked = [c \in Cores |-> TRUE]
    /\ sent = [c \in Cores |-> {}]
    /\ pending = [c \in Cores |-> {}]
    /\ s_EpilogueQueue = [c \in Cores |-> << >>]

-----------------------------------------------------------------------------
(* The scheduler.                                                          *)

LockFree == \A c \in Cores : pc[c] # "inside"

IsIdle(c) == m_ActiveThread[c] = Idle

\* The first thread in a queue that is not dying, as a set of its index.
\* Mutant: GetNext does not look at the flag.
FirstOfAll(q) == {i \in DOMAIN q : i = 1}

FirstAlive(q) ==
    {i \in DOMAIN q : q[i] \notin dying /\ \A j \in 1 .. i - 1 : q[j] \in dying}

\* Queue::Dequeue of everything up to index i.
Behind(q, i) == SubSeq(q, i + 1, Len(q))

\* What GetNext returns when the queue has run dry: the core's idle thread.
\* Mutant: the current thread stays.
FallBackToCurrent(c) == m_ActiveThread[c]

FallBack(c) == Idle

\* Dispatcher::Dispatch and Go.  Whoever is switched to has nothing left to do
\* inside, and leaves: from Kickoff, or at the end of its own section.
Dispatch(c, t) ==
    /\ m_ActiveThread' = [m_ActiveThread EXCEPT ![c] = t]
    /\ pc' = [pc EXCEPT ![c] = IF t \in getting THEN "inside" ELSE "drain"]

\* Dispatch(GetNext()) with ready queue q: dying threads in front of the next
\* one are dropped.
DispatchNext(c, q) ==
    \/ /\ FirstAlive(q) = {}
       /\ m_ReadyQueue' = << >>
       /\ Dispatch(c, FallBack(c))
    \/ \E i \in FirstAlive(q) :
          /\ m_ReadyQueue' = Behind(q, i)
          /\ Dispatch(c, q[i])

\* Resume(true)'s half before the dispatch: idle and dying threads are not
\* put back.  Mutant: Prepend for Append.
RequeueInFront(c, q) ==
    IF m_ActiveThread[c] \in Threads \ dying
    THEN <<m_ActiveThread[c]>> \o q
    ELSE q

Requeue(c, q) ==
    IF m_ActiveThread[c] \in Threads \ dying
    THEN Append(q, m_ActiveThread[c])
    ELSE q

\* The core Ready pokes: the first idle one other than the caller's.
CoreToWake(c) ==
    {d \in Cores \ {c} :
        IsIdle(d) /\ \A e \in Cores \ {c} : IsIdle(e) => d <= e}

\* LocalApic::Ipi::Send
Send(cores, vector) ==
    sent' = [d \in Cores |->
                IF d \in cores THEN sent[d] \cup {vector} ELSE sent[d]]

\* Whom n calls of Ready in a row poke: the target does not change.
ReadyPokes(c, threads) == IF threads = << >> THEN {} ELSE CoreToWake(c)

-----------------------------------------------------------------------------
(* Booting and the idle loop.                                              *)

\* MainAp: Timer::Activate, Enter, Enable, Schedule.
MainAp(c) ==
    /\ pc[c] = "boot"
    /\ LockFree
    /\ masked' = [masked EXCEPT ![c] = FALSE]
    /\ DispatchNext(c, m_ReadyQueue)
    /\ UNCHANGED <<back, lifeVars, keyVars, raw, m_Bells, apicVars,
                   s_EpilogueQueue>>

\* Scheduler::IsEmpty.  Mutant: the idle loop halts without looking.
NotLookedAt == TRUE

IsEmpty == m_ReadyQueue = << >>

\* IdleLoop reads IsEmpty, without the lock, interrupts off.
IdleCheck(c) ==
    /\ pc[c] = "check"
    /\ \/ /\ ~IsEmpty
          /\ masked' = [masked EXCEPT ![c] = FALSE]
          /\ pc' = [pc EXCEPT ![c] = "run"]
       \/ /\ IsEmpty
          /\ pc' = [pc EXCEPT ![c] = "mask"]
          /\ UNCHANGED masked
    /\ UNCHANGED <<back, readyVars, lifeVars, keyVars, raw, m_Bells, apicVars,
                   s_EpilogueQueue>>

\* Mutant of KeepTicking: core 0 is treated like the others.
NeverKeepTicking(c) == FALSE

KeepTicking(c) == c = 0 /\ m_Bells # << >>

\* IdleLoop reads HasPendingBells, also without the lock, sets the timer's
\* mask, and halts: sti takes effect with hlt.
IdleHalt(c) ==
    /\ pc[c] = "mask"
    /\ masked' = [masked EXCEPT ![c] = ~KeepTicking(c)]
    /\ pc' = [pc EXCEPT ![c] = "halt"]
    /\ UNCHANGED <<back, readyVars, lifeVars, keyVars, raw, m_Bells, apicVars,
                   s_EpilogueQueue>>

\* Guard::Enter, up to the lock: whatever the thread wants inside, and for
\* the idle thread Resume.
EnterLevel(c) ==
    /\ pc[c] = "run"
    /\ pc' = [pc EXCEPT ![c] = "enter"]
    /\ UNCHANGED <<back, readyVars, lifeVars, keyVars, raw, timeVars,
                   apicVars, s_EpilogueQueue>>

-----------------------------------------------------------------------------
(* Sections entered by threads.                                            *)

InSection(c, t) == pc[c] = "enter" /\ LockFree /\ m_ActiveThread[c] = t

\* IdleLoop's Resume.
IdleResume(c) ==
    /\ InSection(c, Idle)
    /\ DispatchNext(c, m_ReadyQueue)
    /\ UNCHANGED <<back, lifeVars, keyVars, raw, timeVars, apicVars,
                   s_EpilogueQueue>>

\* The Yield system call.
Yield(c, t) ==
    /\ InSection(c, t)
    /\ DispatchNext(c, Requeue(c, m_ReadyQueue))
    /\ UNCHANGED <<back, lifeVars, keyVars, raw, timeVars, apicVars,
                   s_EpilogueQueue>>

\* Kickoff's last call, and Terminate's.
Exit(c, t) ==
    /\ InSection(c, t)
    /\ exited' = exited \cup {t}
    /\ DispatchNext(c, m_ReadyQueue)
    /\ UNCHANGED <<back, dying, keyVars, raw, timeVars, apicVars,
                   s_EpilogueQueue>>

\* Whether Sleep pokes core 0, which has masked its timer if it was idle with
\* no bell pending.
ClockMaySleep == m_Bells = << >> /\ IsIdle(0)

\* Bellringer::Sleep.
Sleep(c, t, ms) ==
    /\ InSection(c, t)
    /\ ms > 0
    /\ m_Bells' = Insert(m_Bells, t, TicksFor(ms))
    /\ Send(IF ClockMaySleep THEN {0} ELSE {}, WAKEUP)
    /\ DispatchNext(c, m_ReadyQueue)
    /\ UNCHANGED <<back, lifeVars, keyVars, raw, masked, pending,
                   s_EpilogueQueue>>

\* A section that touches nothing modelled here (Write, CounterThread's
\* output) and Sleep(0).
Other(c, t) ==
    /\ InSection(c, t)
    /\ pc' = [pc EXCEPT ![c] = "drain"]
    /\ UNCHANGED <<back, readyVars, lifeVars, keyVars, raw, timeVars,
                   apicVars, s_EpilogueQueue>>

\* Semaphore::P by the active thread of c, which is in GetKey: it goes on
\* inside, or is parked without being put back on the ready queue.
P(c) ==
    \/ /\ m_Counter > 0
       /\ m_Counter' = m_Counter - 1
       /\ pc' = [pc EXCEPT ![c] = "inside"]
       /\ UNCHANGED <<m_Waiting, m_ReadyQueue, m_ActiveThread>>
    \/ /\ m_Counter = 0
       /\ m_Waiting' = Append(m_Waiting, m_ActiveThread[c])
       /\ DispatchNext(c, m_ReadyQueue)
       /\ UNCHANGED m_Counter

\* The GetKey system call up to its first P; GetKeyConsume is the rest.
GetKey(c, t) ==
    /\ InSection(c, t)
    /\ getting' = getting \cup {t}
    /\ P(c)
    /\ UNCHANGED <<back, lifeVars, Keys, raw, timeVars, apicVars,
                   s_EpilogueQueue>>

\* Queue::Remove of t, if it is queued.
Remove(q, t) ==
    IF \E i \in DOMAIN q : q[i] = t
    THEN LET i == CHOOSE i \in DOMAIN q : q[i] = t /\ \A j \in 1 .. i - 1 : q[j] # t
         IN  SubSeq(q, 1, i - 1) \o SubSeq(q, i + 1, Len(q))
    ELSE q

\* Scheduler::Kill of t, which is queued, active on some core, or blocked.
Kill(c, t) ==
    /\ InSection(c, m_ActiveThread[c])
    /\ ~IsIdle(c)
    /\ dying' = dying \cup {t}
    /\ m_ReadyQueue' = Remove(m_ReadyQueue, t)
    /\ Send({d \in Cores : m_ActiveThread[d] = t}, ASSASSIN)
    /\ pc' = [pc EXCEPT ![c] = "drain"]
    /\ UNCHANGED <<back, m_ActiveThread, exited, keyVars, raw, timeVars,
                   pending, s_EpilogueQueue>>

\* GetKey goes on behind P: take a key, or wait again.
GetKeyConsume(c) ==
    /\ pc[c] = "inside"
    /\ m_ActiveThread[c] \in getting
    /\ \/ /\ Keys > 0
          /\ Keys' = Keys - 1
          /\ getting' = getting \ {m_ActiveThread[c]}
          /\ pc' = [pc EXCEPT ![c] = "drain"]
          /\ UNCHANGED <<m_Waiting, m_Counter, m_ReadyQueue, m_ActiveThread>>
       \/ /\ Keys = 0
          /\ P(c)
          /\ UNCHANGED <<Keys, getting>>
    /\ UNCHANGED <<back, lifeVars, raw, timeVars, apicVars, s_EpilogueQueue>>

-----------------------------------------------------------------------------
(* Interrupts.                                                             *)

InterruptsOn(c) == pc[c] \in {"run", "enter", "inside", "drain", "halt"}

Accepts(c) == InterruptsOn(c) /\ Len(s_EpilogueQueue[c]) < EpilogueBound

\* A core with interrupts on takes a latched one before its next instruction.
Interrupted(c) == Accepts(c) /\ pending[c] # {}

\* DrainToQueue: what the keyboard has sent by now amounts to some number of
\* keys, none if a key was released; what does not fit is dropped.
DrainToQueue == raw' \in raw .. RawBound

\* The handler relays its epilogue, and takes the level if it is free.  An
\* interrupted hlt is followed by the top of the idle loop.
Prologue(c, v) ==
    /\ s_EpilogueQueue' = [s_EpilogueQueue EXCEPT ![c] = Append(@, v)]
    /\ pc' = [pc EXCEPT ![c] = IF @ \in {"run", "halt"} THEN "drain" ELSE @]
    /\ back' = IF IsIdle(c) /\ pc[c] = "run"
               THEN [back EXCEPT ![c] = "run"]
               ELSE back
    /\ IF v = KEYBOARD THEN DrainToQueue ELSE UNCHANGED raw

\* Vector v reaches the local APIC of core c: it is taken at once, or latched,
\* one bit per vector.  At EpilogueBound no more are raised.
Raise(c, v) ==
    /\ InterruptsOn(c) => Accepts(c)
    /\ IF Accepts(c) /\ pending[c] = {}
       THEN Prologue(c, v) /\ UNCHANGED pending
       ELSE /\ pending' = [pending EXCEPT ![c] = @ \cup {v}]
            /\ UNCHANGED <<pc, back, raw, s_EpilogueQueue>>
    /\ UNCHANGED <<readyVars, lifeVars, keyVars, timeVars>>

\* The periodic timer of a core; a latched interrupt survives masking.
TimerFires(c) == ~masked[c] /\ Raise(c, TIMER) /\ UNCHANGED sent

\* The keyboard has something to say.  The I/O APIC may route the interrupt to
\* any core; being level triggered it sends no other until that one is taken.
KeyPress(c) ==
    /\ RawBound > 0
    /\ \A d \in Cores : KEYBOARD \notin pending[d]
    /\ Raise(c, KEYBOARD)
    /\ UNCHANGED sent

\* An interrupt from another core arrives.
Arrive(c, v) ==
    /\ v \in sent[c]
    /\ sent' = [sent EXCEPT ![c] = @ \ {v}]
    /\ Raise(c, v)

\* The core takes the highest of the vectors it found latched.
Deliver(c, v) ==
    /\ Interrupted(c)
    /\ v \in pending[c] /\ \A w \in pending[c] : w <= v
    /\ pending' = [pending EXCEPT ![c] = @ \ {v}]
    /\ Prologue(c, v)
    /\ UNCHANGED <<readyVars, lifeVars, keyVars, timeVars, sent>>

\* Leave's loop is about to run epilogue v.
Draining(c, v) ==
    /\ pc[c] = "drain"
    /\ s_EpilogueQueue[c] # << >>
    /\ Head(s_EpilogueQueue[c]) = v
    /\ LockFree
    /\ s_EpilogueQueue' = [s_EpilogueQueue EXCEPT ![c] = Tail(@)]

\* Epilogues::Timer: core 0 owns the clock; every core preempts.
Timer(c) ==
    LET rung == IF c = 0 THEN Rung(m_Bells) ELSE << >>
    IN /\ Draining(c, TIMER)
       /\ m_Bells' = IF c = 0 THEN Unrung(m_Bells) ELSE m_Bells
       /\ Send(ReadyPokes(c, rung), WAKEUP)
       /\ DispatchNext(c, Requeue(c, m_ReadyQueue \o rung))
       /\ UNCHANGED <<back, lifeVars, keyVars, raw, masked, pending>>

\* Keys the Vault's buffer still takes.
Room == KeyCapacity - Keys

Smaller(m, n) == IF m < n THEN m ELSE n

\* Semaphore::V, n times: how many waiters it frees, and what it adds to the
\* counter.  Mutant: it counts even if it has freed a waiter.
Freed(n) == Smaller(n, Len(m_Waiting))
CountedAlways(n) == n

Counted(n) == n - Freed(n)

\* Epilogues::Keyboard: a Produce, and a V, for every keystroke there is room
\* for; the others are dropped.
Keyboard(c) ==
    LET n == Smaller(raw, Room)
        waiters == SubSeq(m_Waiting, 1, Freed(n))
    IN /\ Draining(c, KEYBOARD)
       /\ raw' = 0
       /\ Keys' = Keys + n
       /\ m_Waiting' = SubSeq(m_Waiting, Freed(n) + 1, Len(m_Waiting))
       /\ m_Counter' = m_Counter + Counted(n)
       /\ m_ReadyQueue' = m_ReadyQueue \o waiters
       /\ Send(ReadyPokes(c, waiters), WAKEUP)
       /\ UNCHANGED <<pc, back, m_ActiveThread, lifeVars, getting, timeVars,
                      pending>>

\* Epilogues::Assassin.
Assassin(c) ==
    /\ Draining(c, ASSASSIN)
    /\ DispatchNext(c, Requeue(c, m_ReadyQueue))
    /\ UNCHANGED <<back, lifeVars, keyVars, raw, timeVars, apicVars>>

\* Epilogues::Wakeup.
Wakeup(c) ==
    /\ Draining(c, WAKEUP)
    /\ masked' = [masked EXCEPT ![c] = FALSE]
    /\ DispatchNext(c, Requeue(c, m_ReadyQueue))
    /\ UNCHANGED <<back, lifeVars, keyVars, raw, m_Bells, apicVars>>

\* Leave's way out, and iretq: back to what the context was doing.
LeaveLevel(c) ==
    /\ pc[c] = "drain"
    /\ s_EpilogueQueue[c] = << >>
    /\ pc' = [pc EXCEPT ![c] = IF IsIdle(c) THEN back[c] ELSE "run"]
    /\ back' = IF IsIdle(c) THEN [back EXCEPT ![c] = "check"] ELSE back
    /\ UNCHANGED <<readyVars, lifeVars, keyVars, raw, timeVars,
                   apicVars, s_EpilogueQueue>>

-----------------------------------------------------------------------------
Epilogue(c) == Timer(c) \/ Keyboard(c) \/ Assassin(c) \/ Wakeup(c)

Section(c) ==
    \/ IdleResume(c)
    \/ \E t \in Threads :
          \/ Yield(c, t)
          \/ Exit(c, t)
          \/ \E ms \in Milliseconds : Sleep(c, t, ms)
          \/ Other(c, t)
          \/ RawBound > 0 /\ GetKey(c, t)
    \/ \E t \in Killable : Kill(c, t)

\* What a core does next if it needs nobody else, and what needs the lock.
\* Nothing makes a thread ever enter the level: it may compute forever.
Step(c) ==
    /\ ~Interrupted(c)
    /\ \/ IdleCheck(c)
       \/ IdleHalt(c)
       \/ IsIdle(c) /\ EnterLevel(c)
       \/ GetKeyConsume(c)
       \/ LeaveLevel(c)

LockedStep(c) ==
    /\ ~Interrupted(c)
    /\ \/ MainAp(c)
       \/ Section(c)
       \/ Epilogue(c)

ThreadEnters(c) == ~Interrupted(c) /\ ~IsIdle(c) /\ EnterLevel(c)

Next ==
    \E c \in Cores :
        \/ Step(c)
        \/ LockedStep(c)
        \/ ThreadEnters(c)
        \/ TimerFires(c)
        \/ KeyPress(c)
        \/ \E v \in Vectors : Arrive(c, v) \/ Deliver(c, v)

Spec == Init /\ [][Next]_vars

\* Cores execute; the lock is first come, first served (Guard!LevelGranted),
\* hence the strong fairness of what waits for it; unmasked timers fire and
\* interrupts arrive, each time EpilogueBound allows it at last; the timer's
\* is not held up forever by vectors of higher priority.
Fairness ==
    \A c \in Cores :
        /\ WF_vars(Step(c))
        /\ SF_vars(LockedStep(c))
        /\ SF_vars(TimerFires(c))
        /\ SF_vars(\E v \in Vectors : Arrive(c, v))
        /\ WF_vars(\E v \in Vectors : Deliver(c, v))
        /\ SF_vars(Deliver(c, TIMER))

FairSpec == Spec /\ Fairness

-----------------------------------------------------------------------------
(* Safety.                                                                 *)

Count(q, t) == Cardinality({i \in DOMAIN q : q[i] = t})

\* In how many places a thread is: queued, running, parked or asleep.
PlacesOf(t) ==
    Count(m_ReadyQueue, t) + Count(m_Waiting, t)
       + Cardinality({i \in DOMAIN m_Bells : m_Bells[i].Owner = t})
       + Cardinality({c \in Cores : m_ActiveThread[c] = t})

\* "A thread is only ever in one queue at a time" (Thread.h:58), which is what
\* its one link and Queue::Contains rely on; and it is in no queue while a
\* core runs it, never on two cores, and never lost before it has exited.
OnePlace ==
    \A t \in Threads :
        /\ PlacesOf(t) <= 1
        /\ t \notin exited \cup dying => PlacesOf(t) = 1
        /\ t \in exited => PlacesOf(t) = 0

\* "Resume() drops the current thread if its dying flag is set" (Epilogue.cpp:
\* 40) and GetNext skips the queued ones: a killed thread gets no core again,
\* also when a bell or a keystroke makes it ready afterwards.
KilledNotDispatched ==
    [][\A c \in Cores, t \in dying :
          m_ActiveThread'[c] = t => m_ActiveThread[c] = t]_vars

Waiters == {m_Waiting[i] : i \in DOMAIN m_Waiting}

\* The semaphore and the key buffer agree although they are updated apart:
\* every buffered key is either counted or owed to one woken GetKey, so
\* exactly one waiter is woken per keystroke and none finds the buffer empty
\* (Epilogue.cpp:25-27, Syscall.cpp:105-108).
KeysAccounted ==
    /\ Keys = m_Counter + Cardinality(getting \ Waiters)
    /\ m_Waiting # << >> => m_Counter = 0

Awake(c) == pc[c] # "halt" \/ pending[c] # {} \/ sent[c] # {}

\* "Otherwise a thread could become ready between the check and the halt, and
\* this core would sleep through it" (Scheduler.cpp:15): while a thread is
\* ready, an idle core sleeps only if another idle one is awake or about to be,
\* so that new work is "picked up without waiting for the next timer tick".
\* Of two cores: Ready wakes one, whatever the number.
NoMissedWork ==
    m_ReadyQueue # << >> =>
        \A c \in Cores : Awake(c) \/ \E d \in Cores : m_ActiveThread[d] \notin Threads /\ Awake(d)

\* The same of any number of cores: they do not all sleep while a thread is
\* ready, whichever of them Ready pokes.
SomeCoreAwake == m_ReadyQueue # << >> => \E c \in Cores : Awake(c)

WakeupOnItsWay(c) ==
    \/ WAKEUP \in sent[c] \cup pending[c]
    \/ \E i \in DOMAIN s_EpilogueQueue[c] : s_EpilogueQueue[c][i] = WAKEUP

\* "The idle thread masked the timer before halting; preemption is needed
\* again now that there is a real thread to run" (Epilogue.cpp:45): a core
\* in a thread's own code has its timer on, or is about to.
RunningIsPreemptible ==
    \A c \in Cores :
        pc[c] = "run" /\ m_ActiveThread[c] \in Threads
            => ~masked[c] \/ WakeupOnItsWay(c)

-----------------------------------------------------------------------------
(* Liveness.                                                               *)

Active(t) == \E c \in Cores : m_ActiveThread[c] = t

\* "Round-robin scheduler over one global ready queue" (Scheduler.h:8): a
\* thread in the queue gets a core, whatever the others do.
ReadyRuns ==
    \A t \in Threads : (Count(m_ReadyQueue, t) > 0) ~> (Active(t) \/ t \in dying)

Asleep(t) == \E i \in DOMAIN m_Bells : m_Bells[i].Owner = t

\* Every sleep ends, also if every core is idle meanwhile (Bellringer.cpp:67).
SleepEnds == \A t \in Threads : Asleep(t) ~> ~Asleep(t)

\* A killed thread comes off its core, and stays off (Scheduler.cpp:106).
KilledStops == \A t \in Threads : (t \in dying) ~> [](~Active(t))
=============================================================================
