------------------------------- MODULE UserTask -------------------------------
(* Tasks in ring 3 and their ways into the kernel: the system call entry with *)
(* its per core Area, interrupts and faults with the stack of the TSS, the    *)
(* dispatcher that keeps both in step with the running thread, the frame that *)
(* KillUserTask rewrites, and Terminate with its report.  A kernel stack is   *)
(* named after the task it belongs to.                                        *)
EXTENDS Integers, Sequences, FiniteSets

CONSTANTS
    Cores, Tasks,
    Idle,       \* the idle thread of whichever core
    Vectors,    \* faults that a task may run into
    Statuses,   \* what a task may pass to Exit
    Blocking    \* tasks that call GetKey

\* The idle threads are no tasks, and there are finitely many of those.
ASSUME TasksAssumption == IsFiniteSet(Tasks) /\ Idle \notin Tasks

VARIABLES
    active,     \* core to its m_ActiveThread
    ready,      \* m_ReadyQueue
    waiting,    \* tasks parked in GetKey
    place,      \* where a task is
    rsp,        \* whose user stack a task's rsp is on, in ring 3 and up to the switch
    stackOf,    \* the kernel stack a task is on
    parked,     \* kernel stack to the user stack pointer at its top
    tss,        \* core to the TSS's Rsp[0]
    area,       \* core to the Area's KernelStack and UserStack
    death,      \* core to s_Death
    dying,      \* task to what Terminate was called with, or NoStatus
    cause,      \* task to the vector or status that ends it, or NoStatus
    count,      \* s_TerminationCount
    last,       \* s_LastStatus, and how many stores it has seen
    reader,     \* a reader in LastTermination
    panicked    \* the ring that a panic came from, or NoRing

scheduling == <<active, ready, waiting>>
entries == <<tss, area>>
stacks == <<rsp, stackOf, parked>>
reports == <<count, last, reader>>
vars == <<scheduling, place, stacks, entries, death, dying, cause, reports, panicked>>

NoStatus == -1
NoRing == -1
HK_EXIT_FAULT_BASE == 128

Init ==
    /\ active = [c \in Cores |-> Idle]
    /\ ready \in {s \in [1 .. Cardinality(Tasks) -> Tasks] : \A m, n \in DOMAIN s : s[m] = s[n] => m = n}
    /\ waiting = {}
    /\ place = [t \in Tasks |-> "kickoff"]
    /\ rsp = [t \in Tasks |-> t]
    /\ stackOf = [t \in Tasks |-> t] /\ parked = [t \in Tasks |-> Idle]
    /\ tss = [c \in Cores |-> Idle] /\ area = [c \in Cores |-> [kernel |-> Idle, user |-> Idle]]
    /\ death = [c \in Cores |-> NoStatus]
    /\ dying = [t \in Tasks |-> NoStatus] /\ cause = [t \in Tasks |-> NoStatus]
    /\ count = 0 /\ last = [status |-> 0, stores |-> 0]
    /\ reader = [at |-> "start", count |-> 0, stores |-> 0]
    /\ panicked = NoRing
-----------------------------------------------------------------------------
Runs(c, t, where) == panicked = NoRing /\ active[c] = t /\ place[t] = where
Goto(t, where) == place' = [place EXCEPT ![t] = where]

\* SetEntryStack: both ways in follow the thread.
AreaForgotten(c, t) == area[c]
AreaFor(c, t) == [area[c] EXCEPT !.kernel = t]

\* Dispatcher::Dispatch to GetNext of a queue.
Dequeued(queue) == IF queue = <<>> THEN <<>> ELSE Tail(queue)

SwitchFrom(c, queue) ==
    LET next == IF queue = <<>> THEN Idle ELSE Head(queue)
    IN  /\ active' = [active EXCEPT ![c] = next]
        /\ ready' = Dequeued(queue)
        /\ tss' = [tss EXCEPT ![c] = next]
        /\ area' = [area EXCEPT ![c] = AreaFor(c, next)]

\* An idle core finds a thread.
PickUp(c) ==
    /\ panicked = NoRing /\ active[c] = Idle /\ ready # <<>>
    /\ SwitchFrom(c, ready)
    /\ UNCHANGED <<waiting, place, stacks, death, dying, cause, reports, panicked>>

\* User::Run and EnterUserMode.
Run(c, t) ==
    /\ Runs(c, t, "kickoff")
    /\ Goto(t, "user")
    /\ rsp' = [rsp EXCEPT ![t] = t]
    /\ UNCHANGED <<scheduling, stackOf, parked, entries, death, dying, cause, reports, panicked>>
-----------------------------------------------------------------------------
\* SyscallEntry, with interrupts off up to its sti: park the stack pointer in
\* the Area, switch, push it.
Syscall(c, t) ==
    /\ Runs(c, t, "user")
    /\ Goto(t, "park")
    /\ UNCHANGED <<scheduling, stacks, entries, death, dying, cause, reports, panicked>>

Park(c, t) ==
    /\ Runs(c, t, "park")
    /\ area' = [area EXCEPT ![c].user = rsp[t]]
    /\ Goto(t, "switch")
    /\ UNCHANGED <<scheduling, stacks, tss, death, dying, cause, reports, panicked>>

SwitchStack(c, t) ==
    /\ Runs(c, t, "switch")
    /\ stackOf' = [stackOf EXCEPT ![t] = area[c].kernel]
    /\ Goto(t, "push")
    /\ UNCHANGED <<scheduling, rsp, parked, entries, death, dying, cause, reports, panicked>>

Push(c, t) ==
    /\ Runs(c, t, "push")
    /\ parked' = [parked EXCEPT ![stackOf[t]] = area[c].user]
    /\ Goto(t, "body")
    /\ UNCHANGED <<scheduling, rsp, stackOf, entries, death, dying, cause, reports, panicked>>

\* SyscallDispatch: refused calls and Write come back at once, Yield and GetKey
\* after a switch, Exit never.
SyscallReturns(c, t) ==
    /\ Runs(c, t, "body")
    /\ Goto(t, "leave")
    /\ UNCHANGED <<scheduling, stacks, entries, death, dying, cause, reports, panicked>>

Yield(c, t) ==
    /\ Runs(c, t, "body")
    /\ SwitchFrom(c, Append(ready, t))
    /\ Goto(t, "leave")
    /\ UNCHANGED <<waiting, stacks, death, dying, cause, reports, panicked>>

GetKey(c, t) ==
    /\ Runs(c, t, "body") /\ t \in Blocking
    /\ waiting' = waiting \cup {t}
    /\ SwitchFrom(c, ready)
    /\ Goto(t, "leave")
    /\ UNCHANGED <<stacks, death, dying, cause, reports, panicked>>

KeyArrives(t) ==
    /\ panicked = NoRing /\ t \in waiting
    /\ waiting' = waiting \ {t}
    /\ ready' = Append(ready, t)
    /\ UNCHANGED <<active, place, stacks, entries, death, dying, cause, reports, panicked>>

Exit(c, t) ==
    /\ Runs(c, t, "body")
    /\ \E s \in Statuses : dying' = [dying EXCEPT ![t] = s] /\ cause' = [cause EXCEPT ![t] = s]
    /\ Goto(t, "report")
    /\ UNCHANGED <<scheduling, stacks, entries, death, reports, panicked>>

\* cli, the pops, sysret.
Sysret(c, t) ==
    /\ Runs(c, t, "leave")
    /\ rsp' = [rsp EXCEPT ![t] = parked[stackOf[t]]]
    /\ Goto(t, "user")
    /\ UNCHANGED <<scheduling, stackOf, parked, entries, death, dying, cause, reports, panicked>>
-----------------------------------------------------------------------------
\* Places where an interrupt is taken.  MASKED_FLAGS holds IF, so not before
\* the stack pointer is pushed.
InterruptibleEarly(t) == place[t] \in {"kickoff", "user", "switch", "push", "body", "leave", "faulted", "report", "report2"}
Interruptible(t) == place[t] \in {"kickoff", "user", "body", "leave", "faulted", "report", "report2"}

\* The timer's epilogue: Resume, on the stack that the interrupt came in on.
Timer(c, t) ==
    /\ panicked = NoRing /\ active[c] = t /\ Interruptible(t) /\ ready # <<>>
    /\ SwitchFrom(c, Append(ready, t))
    /\ stackOf' = IF place[t] = "user" THEN [stackOf EXCEPT ![t] = tss[c]] ELSE stackOf
    /\ UNCHANGED <<waiting, place, rsp, parked, death, dying, cause, reports, panicked>>

\* KillUserTask: the frame goes back into the kernel, to TerminateFaultedTask.
ReturnsToTask == "user"
ReturnsTo == "faulted"

FromUser(ring) == ring = 3

KillUserTask(c, t, vector, ring) ==
    IF FromUser(ring)
    THEN /\ death' = [death EXCEPT ![c] = HK_EXIT_FAULT_BASE + vector]
         /\ stackOf' = [stackOf EXCEPT ![t] = tss[c]]
         /\ cause' = [cause EXCEPT ![t] = HK_EXIT_FAULT_BASE + vector]
         /\ Goto(t, ReturnsTo)
         /\ UNCHANGED panicked
    ELSE /\ panicked' = ring
         /\ UNCHANGED <<death, stackOf, cause, place>>

Ring(t) == IF place[t] = "user" THEN 3 ELSE 0

\* The handlers of divide error, invalid opcode, stack segment, general
\* protection and page faults, in ring 3 or in the body of a system call.
Fault(c, t) ==
    /\ Runs(c, t, "user") \/ Runs(c, t, "body")
    /\ \E v \in Vectors : KillUserTask(c, t, v, Ring(t))
    /\ UNCHANGED <<scheduling, rsp, parked, entries, dying, reports>>

\* HandlePageFault looks at the address first: a kernel stack's guard page.
GuardPageFault(c, t) ==
    /\ Runs(c, t, "user") \/ Runs(c, t, "body")
    /\ panicked' = Ring(t)
    /\ UNCHANGED <<scheduling, place, stacks, entries, death, dying, cause, reports>>

\* Double fault, invalid TSS, segment not present, NMI, machine check and the
\* unexpected ones panic, whatever they interrupt.
Fatal ==
    /\ panicked = NoRing
    /\ panicked' = 0
    /\ UNCHANGED <<scheduling, place, stacks, entries, death, dying, cause, reports>>

TerminateFaultedTask(c, t) ==
    /\ Runs(c, t, "faulted")
    /\ dying' = [dying EXCEPT ![t] = death[c]]
    /\ Goto(t, "report")
    /\ UNCHANGED <<scheduling, stacks, entries, death, cause, reports, panicked>>
-----------------------------------------------------------------------------
\* Terminate: the status, the count, then Exit under the Guard.
ReportsSwapped == <<"count", "status">>
Reports == <<"status", "count">>

Report(c, t) ==
    LET n == IF place[t] = "report" THEN 1 ELSE 2
    IN  /\ Runs(c, t, "report") \/ Runs(c, t, "report2")
        /\ \/ /\ Reports[n] = "status"
              /\ last' = [status |-> dying[t], stores |-> last.stores + 1]
              /\ UNCHANGED count
           \/ /\ Reports[n] = "count"
              /\ count' = count + 1
              /\ UNCHANGED last
        /\ Goto(t, IF n = 1 THEN "report2" ELSE "exit")
        /\ UNCHANGED <<scheduling, stacks, entries, death, dying, cause, reader, panicked>>

ExitThread(c, t) ==
    /\ Runs(c, t, "exit")
    /\ SwitchFrom(c, ready)
    /\ Goto(t, "dead")
    /\ UNCHANGED <<waiting, stacks, death, dying, cause, reports, panicked>>

\* LastTermination on some core: the count, then the status.
LoadCount ==
    /\ reader.at = "start"
    /\ reader' = [reader EXCEPT !.at = "counted", !.count = count]
    /\ UNCHANGED <<scheduling, place, stacks, entries, death, dying, cause, count, last, panicked>>

LoadStatus ==
    /\ reader.at = "counted"
    /\ reader' = [reader EXCEPT !.at = "done", !.stores = last.stores]
    /\ UNCHANGED <<scheduling, place, stacks, entries, death, dying, cause, count, last, panicked>>

Step(c, t) ==
    \/ Run(c, t)
    \/ Syscall(c, t) \/ Park(c, t) \/ SwitchStack(c, t) \/ Push(c, t)
    \/ SyscallReturns(c, t) \/ Yield(c, t) \/ GetKey(c, t) \/ Exit(c, t) \/ Sysret(c, t)
    \/ TerminateFaultedTask(c, t) \/ Report(c, t) \/ ExitThread(c, t)

Next ==
    \/ \E c \in Cores : PickUp(c) \/ \E t \in Tasks : Step(c, t) \/ Timer(c, t) \/ Fault(c, t) \/ GuardPageFault(c, t)
    \/ \E t \in Tasks : KeyArrives(t)
    \/ Fatal \/ LoadCount \/ LoadStatus

Spec == Init /\ [][Next]_vars

\* Idle cores look for a thread, timers tick, and a thread that is dispatched
\* over and over gets on inside the kernel.  Nothing makes a program issue a
\* system call: it may compute in ring 3 forever.
Proceed(t) == place[t] # "user" /\ \E c \in Cores : Step(c, t)
Fairness ==
    /\ \A c \in Cores : WF_vars(PickUp(c)) /\ WF_vars(\E t \in Tasks : Timer(c, t))
    /\ \A t \in Tasks : SF_vars(Proceed(t))
FairSpec == Spec /\ Fairness
-----------------------------------------------------------------------------
KernelPlaces == {"body", "leave", "faulted", "report", "report2", "exit"}
Doomed == {t \in Tasks : cause[t] # NoStatus}

(* In the kernel a task is on its own kernel stack, however it came in and on *)
(* whichever core it was before; no two tasks ever share one.                 *)
OwnKernelStack == \A t \in Tasks : place[t] \in KernelPlaces => stackOf[t] = t

(* Sysret gives a task its own user stack back, although the slot it was      *)
(* parked in belongs to the core and other tasks used it in between.          *)
OwnUserStack == \A t \in Tasks : place[t] = "user" => rsp[t] = t

(* "The count is the release, so a reader that sees it has the status too":   *)
(* who read the count n reads the status of the n-th store or a later one.    *)
ReaderHasStatus == reader.at = "done" => reader.stores >= reader.count

(* Only ring 3 is killed for a fault: one in the kernel panics, and leaves no *)
(* task half way through a system call that goes on without it.               *)
OnlyRing3Killed == [][\A t \in Tasks : place[t] # "faulted" /\ place'[t] = "faulted" => place[t] = "user"]_vars

(* "A task cannot survive its own fault": it never runs in ring 3 again.      *)
NoSurvivor == [][\A t \in Tasks : t \in Doomed => place'[t] # "user"]_vars

(* A task that faulted or exited is out of circulation in the end, unless the *)
(* kernel panics, and others may be preempted and blocked all the while.      *)
DoomedDie == \A t \in Tasks : t \in Doomed ~> (place[t] = "dead" \/ panicked # NoRing)

(* SPECIFICATION: "The reported exit status is HK_EXIT_FAULT_BASE + vector".  *)
ReportedOwn == \A t \in Tasks : dying[t] # NoStatus => dying[t] = cause[t]
=============================================================================
