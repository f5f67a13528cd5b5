--------------------------- MODULE UserTaskProofs ---------------------------
(* Proofs about module UserTask, for every number of cores and tasks.         *)
EXTENDS UserTask, FiniteSetTheorems, SequenceTheorems, TLAPS

\* A leaf is translated with all the definitions before it: the provers get more
\* time for that than by default.
USE SMTT(30), ZenonT(60)

Threads == Tasks \cup {Idle}

Masked == {"park", "switch", "push"}

Ended == {"faulted", "report", "report2", "exit", "dead"}

Types ==
    /\ active \in [Cores -> Threads] /\ ready \in Seq(Tasks) /\ waiting \in SUBSET Tasks
    /\ place \in [Tasks -> {"kickoff", "user"} \cup Masked \cup KernelPlaces \cup {"dead"}]
    /\ rsp \in [Tasks -> Threads] /\ stackOf \in [Tasks -> Threads] /\ parked \in [Tasks -> Threads]
    /\ tss \in [Cores -> Threads] /\ area \in [Cores -> [kernel : Threads, user : Threads]]
    /\ DOMAIN cause = Tasks

(* A task is on at most one core, or once in the ready queue, or waiting.     *)
Apart ==
    /\ \A c, d \in Cores : c # d => active[c] = Idle \/ active[c] # active[d]
    /\ \A m, n \in 1 .. Len(ready) : ready[m] = ready[n] => m = n
    /\ \A n \in 1 .. Len(ready) : ready[n] \notin waiting /\ \A c \in Cores : active[c] # ready[n]
    /\ \A t \in waiting : \A c \in Cores : active[c] # t

(* The two ways into the kernel lead to the running thread's stack.           *)
EntriesFollow == \A c \in Cores : tss[c] = active[c] /\ area[c].kernel = active[c]

(* Nobody is switched away between the park and the push, so the Area of the  *)
(* core still holds the stack pointer that was parked in it.                  *)
Uninterrupted ==
    /\ \A n \in 1 .. Len(ready) : place[ready[n]] \notin Masked
    /\ \A t \in waiting : place[t] \notin Masked
    /\ \A c \in Cores :
          active[c] \in Tasks /\ place[active[c]] \in {"switch", "push"} => area[c].user = active[c]

Owned ==
    /\ \A t \in Tasks : place[t] \in {"user", "park"} => rsp[t] = t
    /\ \A t \in Tasks : place[t] \in KernelPlaces \cup {"push"} => stackOf[t] = t
    /\ \A t \in Tasks : place[t] \in {"body", "leave"} => parked[t] = t
    /\ \A t \in Tasks : cause[t] # NoStatus => place[t] \in Ended

IInv == Types /\ Apart /\ EntriesFollow /\ Uninterrupted /\ Owned

(* At the start every task is in the queue once and nowhere else.             *)
LEMMA Initially == Init => IInv
<1> SUFFICES ASSUME Init PROVE IInv
  OBVIOUS
<1>1. Cardinality(Tasks) \in Nat
  BY TasksAssumption, FS_CardinalityType
<1>2. ready \in Seq(Tasks) /\ Len(ready) = Cardinality(Tasks)
  BY <1>1 DEF Init
<1>3. Types
  BY <1>2 DEF Init, Types, Threads
<1>4. Apart
  BY <1>2, <1>3, TasksAssumption DEF Init, Apart, Types
<1> QED
  BY <1>2, <1>3, <1>4, TasksAssumption
     DEF Init, IInv, EntriesFollow, Uninterrupted, Owned, Masked, KernelPlaces

(* A queue that may replace the ready queue while core c gives its thread up. *)
Spare(c, queue) ==
    /\ queue \in Seq(Tasks)
    /\ \A m, n \in 1 .. Len(queue) : queue[m] = queue[n] => m = n
    /\ \A n \in 1 .. Len(queue) :
          queue[n] \notin waiting' /\ \A d \in Cores \ {c} : active[d] # queue[n]

(* Dispatch to the head of such a queue keeps every task in one place, and    *)
(* the ways in follow.                                                        *)
LEMMA SwitchKeeps ==
    ASSUME IInv, NEW c \in Cores, NEW queue, Spare(c, queue), SwitchFrom(c, queue),
           waiting' \in SUBSET Tasks, \A t \in waiting' : \A d \in Cores \ {c} : active[d] # t
    PROVE  /\ active' \in [Cores -> Threads] /\ ready' \in Seq(Tasks)
           /\ tss' \in [Cores -> Threads] /\ area' \in [Cores -> [kernel : Threads, user : Threads]]
           /\ Apart' /\ EntriesFollow'
           /\ \A n \in 1 .. Len(ready') : \E m \in 1 .. Len(queue) : ready'[n] = queue[m]
           /\ active'[c] # Idle => \E m \in 1 .. Len(queue) : active'[c] = queue[m]
           /\ \A d \in Cores \ {c} : active'[d] = active[d] /\ area'[d] = area[d]
<1> DEFINE next == IF queue = <<>> THEN Idle ELSE Head(queue)
<1>1. /\ active' = [active EXCEPT ![c] = next] /\ tss' = [tss EXCEPT ![c] = next]
      /\ area' = [area EXCEPT ![c] = [area[c] EXCEPT !.kernel = next]]
      /\ ready' = IF queue = <<>> THEN <<>> ELSE Tail(queue)
  BY DEF SwitchFrom, AreaFor, Dequeued
<1>2. queue \in Seq(Tasks) /\ Types
  BY DEF Spare, IInv
<1>3. next \in Threads
  BY <1>2, HeadTailProperties DEF Threads
<1>4. /\ active' \in [Cores -> Threads] /\ tss' \in [Cores -> Threads]
      /\ area' \in [Cores -> [kernel : Threads, user : Threads]]
      /\ \A d \in Cores \ {c} : active'[d] = active[d] /\ area'[d] = area[d] /\ tss'[d] = tss[d]
      /\ active'[c] = next /\ tss'[c] = next /\ area'[c].kernel = next
  BY <1>1, <1>2, <1>3 DEF Types
<1>5. EntriesFollow'
  BY <1>4 DEF EntriesFollow, IInv
<1>6. CASE queue = <<>>
  <2>1. next = Idle /\ ready' = <<>>
    BY <1>1, <1>6
  <2>2. \A t \in waiting' : \A d \in Cores : active'[d] # t
    BY <1>4, <2>1, TasksAssumption
  <2>3. \A x, y \in Cores : x # y => active'[x] = Idle \/ active'[x] # active'[y]
    BY <1>4, <2>1 DEF Apart, IInv
  <2>4. 1 .. Len(ready') = {}
    BY <2>1
  <2>5. Apart'
    BY <2>2, <2>3, <2>4 DEF Apart
  <2> QED
    BY <1>4, <1>5, <2>1, <2>4, <2>5
<1>7. CASE queue # <<>>
  <2>1. /\ ready' \in Seq(Tasks) /\ Len(queue) \in Nat \ {0} /\ Len(ready') = Len(queue) - 1
        /\ \A n \in 1 .. Len(ready') : n + 1 \in 1 .. Len(queue) /\ ready'[n] = queue[n + 1]
        /\ next = queue[1] /\ 1 \in 1 .. Len(queue)
    BY <1>1, <1>2, <1>7, HeadTailProperties
  <2>2. \A m, n \in 1 .. Len(ready') : ready'[m] = ready'[n] => m = n
    BY <2>1 DEF Spare
  <2>3. \A n \in 1 .. Len(ready') : ready'[n] # next
    BY <2>1 DEF Spare
  <2>4. ASSUME NEW n \in 1 .. Len(ready')
        PROVE  ready'[n] \notin waiting' /\ \A d \in Cores : active'[d] # ready'[n]
    <3>1. n + 1 \in 1 .. Len(queue) /\ ready'[n] = queue[n + 1]
      BY <2>1
    <3>2. queue[n + 1] \notin waiting' /\ \A d \in Cores \ {c} : active[d] # queue[n + 1]
      BY <3>1 DEF Spare
    <3> QED
      BY <1>4, <2>3, <3>1, <3>2
  <2>5. next \in Tasks /\ next \notin waiting' /\ \A d \in Cores \ {c} : active'[d] # next
    BY <1>2, <1>4, <2>1 DEF Spare
  <2>6. \A x, y \in Cores : x # y => active'[x] = Idle \/ active'[x] # active'[y]
    BY <1>4, <2>5 DEF Apart, IInv
  <2>7. \A t \in waiting' : \A d \in Cores : active'[d] # t
    BY <1>4, <2>5
  <2>8. Apart'
    BY <2>2, <2>4, <2>6, <2>7 DEF Apart
  <2> QED
    BY <1>4, <1>5, <2>1, <2>8
<1> QED
  BY <1>6, <1>7, Zenon

(* The task that runs on a core is nowhere else.                              *)
LEMMA Alone ==
    ASSUME IInv, NEW c \in Cores, NEW t \in Tasks, active[c] = t
    PROVE  /\ \A n \in 1 .. Len(ready) : ready[n] # t
           /\ t \notin waiting
           /\ \A d \in Cores \ {c} : active[d] # t
BY TasksAssumption DEF IInv, Apart

(* A step of a task that stays on its core: it can only break what is said    *)
(* about the task itself.                                                     *)
LEMMA StaysKeeps ==
    ASSUME IInv, NEW c \in Cores, NEW t \in Tasks, active[c] = t, UNCHANGED <<scheduling, tss>>,
           NEW where \in {"kickoff", "user"} \cup Masked \cup KernelPlaces \cup {"dead"},
           Goto(t, where),
           area' \in [Cores -> [kernel : Threads, user : Threads]],
           \A d \in Cores : area'[d].kernel = area[d].kernel,
           \A d \in Cores \ {c} : area'[d] = area[d],
           where \in {"switch", "push"} => area'[c].user = t
    PROVE  /\ Apart' /\ EntriesFollow' /\ Uninterrupted'
           /\ place' \in [Tasks -> {"kickoff", "user"} \cup Masked \cup KernelPlaces \cup {"dead"}]
           /\ place'[t] = where /\ \A u \in Tasks \ {t} : place'[u] = place[u]
<1>1. /\ place' \in [Tasks -> {"kickoff", "user"} \cup Masked \cup KernelPlaces \cup {"dead"}]
      /\ place'[t] = where /\ \A u \in Tasks \ {t} : place'[u] = place[u]
  BY DEF Goto, IInv, Types
<1>2. Apart' /\ EntriesFollow'
  BY DEF IInv, Apart, EntriesFollow, scheduling
<1>3. /\ \A n \in 1 .. Len(ready) : ready[n] # t /\ ready[n] \in Tasks
      /\ t \notin waiting /\ waiting \subseteq Tasks
      /\ \A d \in Cores \ {c} : active[d] # t
  BY Alone DEF IInv, Types
<1>4. \A n \in 1 .. Len(ready) : place'[ready[n]] \notin Masked
  BY <1>1, <1>3 DEF IInv, Uninterrupted
<1>5. \A u \in waiting : place'[u] \notin Masked
  BY <1>1, <1>3 DEF IInv, Uninterrupted
<1>6. ASSUME NEW d \in Cores, active[d] \in Tasks, place'[active[d]] \in {"switch", "push"}
      PROVE  area'[d].user = active[d]
  BY <1>1, <1>3, <1>6 DEF IInv, Uninterrupted
<1>7. Uninterrupted'
  BY <1>4, <1>5, <1>6 DEF Uninterrupted, scheduling
<1> QED
  BY <1>1, <1>2, <1>7

(* Every step of a task that does not leave its core.                         *)
LEMMA StayingSteps ==
    ASSUME IInv, NEW c \in Cores, NEW t \in Tasks,
           \/ Run(c, t) \/ Syscall(c, t) \/ Park(c, t) \/ SwitchStack(c, t) \/ Push(c, t)
           \/ SyscallReturns(c, t) \/ Exit(c, t) \/ Sysret(c, t)
           \/ TerminateFaultedTask(c, t) \/ Report(c, t)
    PROVE  IInv'
<1> USE DEF Runs, stacks, entries
<1>0. Types /\ Owned /\ EntriesFollow /\ Uninterrupted
  BY DEF IInv
<1> DEFINE Rest == Apart' /\ EntriesFollow' /\ Uninterrupted'
                   /\ place' \in [Tasks -> {"kickoff", "user"} \cup Masked \cup KernelPlaces \cup {"dead"}]
           Only(where) == place'[t] = where /\ \A u \in Tasks \ {t} : place'[u] = place[u]
<1>1. CASE Run(c, t)
  <2>1. Rest /\ Only("user")
    BY <1>0, <1>1, StaysKeeps DEF Run, Types, EntriesFollow
  <2> QED
    BY <1>0, <1>1, <2>1, Zenon DEF Run, IInv, Types, Owned, scheduling, KernelPlaces, Ended, Threads
<1>2. CASE Syscall(c, t)
  <2>1. Rest /\ Only("park")
    BY <1>0, <1>2, StaysKeeps DEF Syscall, Types, EntriesFollow, Masked
  <2> QED
    BY <1>0, <1>2, <2>1, Zenon DEF Syscall, IInv, Types, Owned, scheduling, KernelPlaces, Ended, Threads
<1>3. CASE Park(c, t)
  <2>0. rsp[t] = t /\ area' = [area EXCEPT ![c] = [area[c] EXCEPT !.user = t]]
    BY <1>0, <1>3, Zenon DEF Park, Owned
  <2>1. /\ area' \in [Cores -> [kernel : Threads, user : Threads]]
        /\ \A d \in Cores : area'[d].kernel = area[d].kernel
        /\ \A d \in Cores \ {c} : area'[d] = area[d]
        /\ area'[c].user = t
    BY <1>0, <2>0 DEF Types, Threads
  <2>2. Rest /\ Only("switch")
    <3>1. active[c] = t /\ UNCHANGED <<scheduling, tss>> /\ Goto(t, "switch")
      BY <1>3, Zenon DEF Park
    <3>2. "switch" \in {"kickoff", "user"} \cup Masked \cup KernelPlaces \cup {"dead"}
      BY Zenon DEF Masked
    <3> QED
      BY <2>1, <3>1, <3>2, StaysKeeps, Zenon
  <2> QED
    BY <1>0, <1>3, <2>1, <2>2, Zenon DEF Park, IInv, Types, Owned, scheduling, KernelPlaces, Ended
<1>4. CASE SwitchStack(c, t)
  <2>1. area[c].kernel = t /\ area[c].user = t
    BY <1>0, <1>4 DEF SwitchStack, EntriesFollow, Uninterrupted
  <2>2. Rest /\ Only("push")
    BY <1>0, <1>4, <2>1, StaysKeeps DEF SwitchStack, Types, Masked
  <2> QED
    BY <1>0, <1>4, <2>1, <2>2, Zenon DEF SwitchStack, IInv, Types, Owned, scheduling, KernelPlaces, Ended, Threads
<1>5. CASE Push(c, t)
  <2>1. stackOf[t] = t /\ area[c].user = t
    BY <1>0, <1>5 DEF Push, Uninterrupted, Owned
  <2>2. Rest /\ Only("body")
    BY <1>0, <1>5, StaysKeeps DEF Push, Types, KernelPlaces
  <2> QED
    BY <1>0, <1>5, <2>1, <2>2, ZenonT(60) DEF Push, IInv, Types, Owned, scheduling, KernelPlaces, Ended, Threads
<1>6. CASE SyscallReturns(c, t)
  <2>1. Rest /\ Only("leave")
    BY <1>0, <1>6, StaysKeeps DEF SyscallReturns, Types, KernelPlaces
  <2> QED
    BY <1>0, <1>6, <2>1 DEF SyscallReturns, IInv, Types, Owned, scheduling, KernelPlaces, Ended
<1>7. CASE Exit(c, t)
  <2>1. Rest /\ Only("report")
    BY <1>0, <1>7, StaysKeeps DEF Exit, Types, KernelPlaces
  <2>2. DOMAIN cause' = Tasks /\ \A u \in Tasks \ {t} : cause'[u] = cause[u]
    BY <1>0, <1>7 DEF Exit, Types
  <2> QED
    BY <1>0, <1>7, <2>1, <2>2 DEF Exit, IInv, Types, Owned, scheduling, KernelPlaces, Ended
<1>8. CASE Sysret(c, t)
  <2>1. stackOf[t] = t /\ parked[t] = t
    BY <1>0, <1>8, Zenon DEF Sysret, Owned, KernelPlaces
  <2>2. Rest /\ Only("user")
    BY <1>0, <1>8, StaysKeeps DEF Sysret, Types
  <2> QED
    BY <1>0, <1>8, <2>1, <2>2, ZenonT(60) DEF Sysret, IInv, Types, Owned, scheduling, KernelPlaces, Ended, Threads
<1>9. CASE TerminateFaultedTask(c, t)
  <2>1. Rest /\ Only("report")
    BY <1>0, <1>9, StaysKeeps DEF TerminateFaultedTask, Types, KernelPlaces
  <2> QED
    BY <1>0, <1>9, <2>1 DEF TerminateFaultedTask, IInv, Types, Owned, scheduling, KernelPlaces, Ended
<1>10. CASE Report(c, t)
  <2>1. PICK where \in {"report2", "exit"} : Goto(t, where)
    BY <1>10 DEF Report
  <2>2. /\ place[t] \in {"report", "report2"} /\ active[c] = t
        /\ UNCHANGED <<scheduling, tss>> /\ area' = area
    BY <1>10 DEF Report
  <2>3. where \in KernelPlaces /\ where \notin {"switch", "push"}
    BY DEF KernelPlaces
  <2>4. area \in [Cores -> [kernel : Threads, user : Threads]]
    BY <1>0 DEF Types
  <2>5. Rest /\ Only(where)
    BY <2>1, <2>2, <2>3, <2>4, StaysKeeps
  <2> QED
    BY <1>0, <1>10, <2>2, <2>5, ZenonT(60) DEF Report, IInv, Types, Owned, scheduling, KernelPlaces, Ended
<1> QED
  BY <1>1, <1>2, <1>3, <1>4, <1>5, <1>6, <1>7, <1>8, <1>9, <1>10

(* What the invariant does not speak of may change freely.                    *)
LEMMA FrameKeeps ==
    ASSUME IInv, UNCHANGED <<scheduling, place, stacks, entries, cause>>
    PROVE  IInv'
<1>1. /\ active' = active /\ ready' = ready /\ waiting' = waiting /\ place' = place
      /\ rsp' = rsp /\ stackOf' = stackOf /\ parked' = parked
      /\ tss' = tss /\ area' = area /\ cause' = cause
  BY DEF scheduling, stacks, entries
<1>2. Types'
  BY <1>1 DEF IInv, Types
<1>3. Apart'
  BY <1>1 DEF IInv, Apart
<1>4. EntriesFollow'
  BY <1>1 DEF IInv, EntriesFollow
<1>5. Uninterrupted'
  BY <1>1 DEF IInv, Uninterrupted
<1>6. Owned'
  BY <1>1 DEF IInv, Owned
<1> QED
  BY <1>2, <1>3, <1>4, <1>5, <1>6 DEF IInv

(* A fault: ring 3 goes on in the kernel on its own stack, ring 0 panics.     *)
LEMMA FaultKeeps ==
    ASSUME IInv, NEW c \in Cores, NEW t \in Tasks, Fault(c, t)
    PROVE  IInv'
<1> USE DEF Runs, stacks, entries
<1>0. Types /\ Owned /\ EntriesFollow /\ active[c] = t
  BY DEF IInv, Fault
<1>1. PICK v \in Vectors : KillUserTask(c, t, v, Ring(t))
  BY DEF Fault
<1>2. CASE FromUser(Ring(t))
  <2>1. place[t] = "user" /\ tss[c] = t
    BY <1>0, <1>2 DEF FromUser, Ring, EntriesFollow
  <2>2. /\ Goto(t, "faulted") /\ stackOf' = [stackOf EXCEPT ![t] = t]
        /\ DOMAIN cause' = Tasks /\ \A u \in Tasks \ {t} : cause'[u] = cause[u]
    BY <1>0, <1>1, <1>2, <2>1 DEF KillUserTask, ReturnsTo, Types
  <2>3. /\ Apart' /\ EntriesFollow' /\ Uninterrupted'
        /\ place' \in [Tasks -> {"kickoff", "user"} \cup Masked \cup KernelPlaces \cup {"dead"}]
        /\ place'[t] = "faulted" /\ \A u \in Tasks \ {t} : place'[u] = place[u]
    BY <1>0, <2>2, StaysKeeps DEF Fault, Types, KernelPlaces
  <2> QED
    BY <1>0, <2>2, <2>3, ZenonT(30) DEF Fault, IInv, Types, Owned, scheduling, KernelPlaces, Ended, Threads
<1>3. CASE ~FromUser(Ring(t))
  <2>1. UNCHANGED <<scheduling, place, stacks, entries, cause>>
    BY <1>1, <1>3 DEF KillUserTask, Fault
  <2> QED
    BY <2>1, FrameKeeps
<1> QED
  BY <1>2, <1>3

(* A switch on core c: what it needs of the task that the core gives up.      *)
LEMMA LeavesKeeps ==
    ASSUME IInv, NEW c \in Cores, NEW queue, Spare(c, queue), SwitchFrom(c, queue),
           waiting' \in SUBSET Tasks, \A t \in waiting' : \A d \in Cores \ {c} : active[d] # t,
           place' \in [Tasks -> {"kickoff", "user"} \cup Masked \cup KernelPlaces \cup {"dead"}],
           \A u \in Tasks : place'[u] \in {"switch", "push"} => place[u] = place'[u],
           \A n \in 1 .. Len(queue) : place'[queue[n]] \notin Masked,
           \A t \in waiting' : place'[t] \notin Masked
    PROVE  /\ active' \in [Cores -> Threads] /\ ready' \in Seq(Tasks)
           /\ tss' \in [Cores -> Threads] /\ area' \in [Cores -> [kernel : Threads, user : Threads]]
           /\ Apart' /\ EntriesFollow' /\ Uninterrupted'
<1>1. /\ active' \in [Cores -> Threads] /\ ready' \in Seq(Tasks)
      /\ tss' \in [Cores -> Threads] /\ area' \in [Cores -> [kernel : Threads, user : Threads]]
      /\ Apart' /\ EntriesFollow'
      /\ \A n \in 1 .. Len(ready') : \E m \in 1 .. Len(queue) : ready'[n] = queue[m]
      /\ active'[c] # Idle => \E m \in 1 .. Len(queue) : active'[c] = queue[m]
      /\ \A d \in Cores \ {c} : active'[d] = active[d] /\ area'[d] = area[d]
  BY SwitchKeeps
<1>2. \A n \in 1 .. Len(ready') : place'[ready'[n]] \notin Masked
  BY <1>1
<1>3. ASSUME NEW d \in Cores, active'[d] \in Tasks, place'[active'[d]] \in {"switch", "push"}
      PROVE  area'[d].user = active'[d]
  <2>1. CASE d = c
    BY <1>1, <1>3, <2>1, TasksAssumption DEF Masked
  <2>2. CASE d # c
    BY <1>1, <1>3, <2>2 DEF IInv, Uninterrupted
  <2> QED
    BY <2>1, <2>2
<1>4. Uninterrupted'
  BY <1>2, <1>3 DEF Uninterrupted
<1> QED
  BY <1>1, <1>4

(* The ready queue as it is, and with the running task behind it.             *)
LEMMA ReadySpare ==
    ASSUME IInv, NEW c \in Cores, waiting' = waiting
    PROVE  Spare(c, ready)
BY DEF Spare, IInv, Types, Apart

(* Also when the task that runs goes to wait.                                 *)
LEMMA ReadySpareWaiting ==
    ASSUME IInv, NEW c \in Cores, NEW t \in Tasks, active[c] = t, waiting' = waiting \cup {t}
    PROVE  Spare(c, ready)
BY Alone DEF Spare, IInv, Types, Apart

(* The running task put behind the others.                                    *)
LEMMA AppendSpare ==
    ASSUME IInv, NEW c \in Cores, NEW t \in Tasks, active[c] = t, waiting' = waiting
    PROVE  /\ Spare(c, Append(ready, t))
           /\ \A n \in 1 .. Len(Append(ready, t)) :
                 Append(ready, t)[n] = t \/ \E m \in 1 .. Len(ready) : Append(ready, t)[n] = ready[m]
<1> DEFINE queue == Append(ready, t)
<1>1. ready \in Seq(Tasks) /\ Len(ready) \in Nat
  BY DEF IInv, Types
<1>2. /\ queue \in Seq(Tasks) /\ Len(queue) = Len(ready) + 1
      /\ \A n \in 1 .. Len(ready) : queue[n] = ready[n]
      /\ queue[Len(ready) + 1] = t
  BY <1>1, AppendProperties
<1>3. /\ \A n \in 1 .. Len(ready) : ready[n] # t /\ ready[n] \notin waiting
      /\ \A m, n \in 1 .. Len(ready) : ready[m] = ready[n] => m = n
      /\ \A n \in 1 .. Len(ready) : \A d \in Cores \ {c} : active[d] # ready[n]
      /\ t \notin waiting /\ \A d \in Cores \ {c} : active[d] # t
  BY Alone DEF IInv, Apart
<1>4. \A n \in 1 .. Len(queue) : n = Len(ready) + 1 \/ n \in 1 .. Len(ready)
  BY <1>1, <1>2
<1> HIDE DEF queue
<1>5. \A m, n \in 1 .. Len(queue) : queue[m] = queue[n] => m = n
  BY <1>2, <1>3, <1>4
<1>6. \A n \in 1 .. Len(queue) : queue[n] \notin waiting' /\ \A d \in Cores \ {c} : active[d] # queue[n]
  BY <1>2, <1>3, <1>4
<1>7. \A n \in 1 .. Len(queue) : queue[n] = t \/ \E m \in 1 .. Len(ready) : queue[n] = ready[m]
  BY <1>2, <1>4
<1>8. Spare(c, queue)
  BY <1>2, <1>5, <1>6 DEF Spare
<1> QED
  BY <1>7, <1>8 DEF queue

(* An idle core takes the first ready thread.                                 *)
LEMMA PickUpKeeps ==
    ASSUME IInv, NEW c \in Cores, PickUp(c)
    PROVE  IInv'
<1> USE DEF stacks
<1>1. Types /\ Apart /\ Uninterrupted /\ Owned /\ waiting' = waiting /\ place' = place
  BY DEF IInv, PickUp
<1>2. /\ active' \in [Cores -> Threads] /\ ready' \in Seq(Tasks)
      /\ tss' \in [Cores -> Threads] /\ area' \in [Cores -> [kernel : Threads, user : Threads]]
      /\ Apart' /\ EntriesFollow' /\ Uninterrupted'
  BY <1>1, ReadySpare, LeavesKeeps, ZenonT(30) DEF PickUp, Types, Apart, Uninterrupted
<1> QED
  BY <1>1, <1>2 DEF PickUp, IInv, Types, Owned

(* A task gives its core up for the next one in GetKey and at its end.        *)
LEMMA LeavingSteps ==
    ASSUME IInv, NEW c \in Cores, NEW t \in Tasks, GetKey(c, t) \/ ExitThread(c, t)
    PROVE  IInv'
<1> USE DEF stacks, Runs, Goto
<1>1. /\ Types /\ Apart /\ Uninterrupted /\ Owned /\ active[c] = t
      /\ place[t] \in {"body", "exit"}
      /\ place' = [place EXCEPT ![t] = IF place[t] = "body" THEN "leave" ELSE "dead"]
      /\ waiting' = waiting \/ waiting' = waiting \cup {t}
      /\ SwitchFrom(c, ready)
  BY DEF IInv, GetKey, ExitThread
<1>2. /\ place' \in [Tasks -> {"kickoff", "user"} \cup Masked \cup KernelPlaces \cup {"dead"}]
      /\ place'[t] \in {"leave", "dead"} /\ (place'[t] = "leave" => place[t] = "body")
      /\ \A u \in Tasks \ {t} : place'[u] = place[u]
  BY <1>1 DEF Types, KernelPlaces
<1>3. Spare(c, ready)
  BY <1>1, ReadySpare, ReadySpareWaiting
<1>4. waiting' \in SUBSET Tasks /\ \A u \in waiting' : u = t \/ u \in waiting
  BY <1>1 DEF Types
<1>5. \A u \in waiting' : \A d \in Cores \ {c} : active[d] # u
  BY <1>1, <1>4, Alone DEF Apart
<1>6. \A u \in Tasks : place'[u] \in {"switch", "push"} => place[u] = place'[u]
  BY <1>2
<1>7. \A n \in 1 .. Len(ready) : ready[n] \in Tasks
  BY <1>1 DEF Types
<1>8. \A n \in 1 .. Len(ready) : place'[ready[n]] \notin Masked
  BY <1>1, <1>2, <1>7 DEF Uninterrupted, Masked
<1>9. \A u \in waiting' : place'[u] \notin Masked
  BY <1>1, <1>2, <1>4 DEF Uninterrupted, Masked
<1>10. /\ active' \in [Cores -> Threads] /\ ready' \in Seq(Tasks)
       /\ tss' \in [Cores -> Threads] /\ area' \in [Cores -> [kernel : Threads, user : Threads]]
       /\ Apart' /\ EntriesFollow' /\ Uninterrupted'
  BY <1>1, <1>2, <1>3, <1>4, <1>5, <1>6, <1>8, <1>9, LeavesKeeps
<1>11. rsp' = rsp /\ stackOf' = stackOf /\ parked' = parked /\ cause' = cause
  BY DEF GetKey, ExitThread
<1>12. Types'
  BY <1>1, <1>2, <1>4, <1>10, <1>11 DEF Types
<1>13. \A u \in Tasks : cause'[u] # NoStatus => place'[u] \in Ended
  BY <1>1, <1>2, <1>11 DEF Owned, Ended
<1>14. Owned'
  BY <1>1, <1>2, <1>11, <1>13 DEF Owned, KernelPlaces
<1> QED
  BY <1>10, <1>12, <1>14 DEF IInv

(* Yield and the timer put the task behind the others.                        *)
LEMMA RequeueingSteps ==
    ASSUME IInv, NEW c \in Cores, NEW t \in Tasks, Yield(c, t) \/ Timer(c, t)
    PROVE  IInv'
<1> USE DEF stacks, Runs, Goto
<1> DEFINE queue == Append(ready, t)
<1>1. /\ Types /\ Apart /\ EntriesFollow /\ Uninterrupted /\ Owned /\ active[c] = t
      /\ place[t] \notin Masked
      /\ waiting' = waiting /\ SwitchFrom(c, queue)
      /\ rsp' = rsp /\ parked' = parked /\ cause' = cause
  BY DEF IInv, Yield, Timer, Interruptible, Masked
<1>2. /\ place' \in [Tasks -> {"kickoff", "user"} \cup Masked \cup KernelPlaces \cup {"dead"}]
      /\ place'[t] = place[t] \/ (place[t] = "body" /\ place'[t] = "leave")
      /\ \A u \in Tasks \ {t} : place'[u] = place[u]
  BY <1>1 DEF Yield, Timer, Types, KernelPlaces
<1>3. stackOf' = stackOf \/ stackOf' = [stackOf EXCEPT ![t] = t]
  BY <1>1 DEF Yield, Timer, EntriesFollow
<1>4. /\ Spare(c, queue)
      /\ \A n \in 1 .. Len(queue) : queue[n] = t \/ \E m \in 1 .. Len(ready) : queue[n] = ready[m]
  BY <1>1, AppendSpare
<1> HIDE DEF queue
<1>5. \A n \in 1 .. Len(ready) : ready[n] \in Tasks
  BY <1>1 DEF Types
<1>6. place'[t] \notin Masked /\ \A n \in 1 .. Len(ready) : place'[ready[n]] \notin Masked
  BY <1>1, <1>2, <1>5 DEF Uninterrupted, Masked
<1>7. \A n \in 1 .. Len(queue) : place'[queue[n]] \notin Masked
  BY <1>4, <1>6
<1>8. waiting' \in SUBSET Tasks /\ \A u \in waiting' : place'[u] \notin Masked
  BY <1>1, <1>2, <1>6, Zenon DEF Types, Uninterrupted
<1>9. \A u \in waiting' : \A d \in Cores \ {c} : active[d] # u
  BY <1>1 DEF Apart
<1>10. \A u \in Tasks : place'[u] \in {"switch", "push"} => place[u] = place'[u]
  BY <1>2
<1>11. /\ active' \in [Cores -> Threads] /\ ready' \in Seq(Tasks)
       /\ tss' \in [Cores -> Threads] /\ area' \in [Cores -> [kernel : Threads, user : Threads]]
       /\ Apart' /\ EntriesFollow' /\ Uninterrupted'
  BY <1>1, <1>2, <1>4, <1>7, <1>8, <1>9, <1>10, LeavesKeeps
<1>12. Types'
  BY <1>1, <1>2, <1>3, <1>11, Zenon DEF Types, Threads
<1>13. \A u \in Tasks : cause'[u] # NoStatus => place'[u] \in Ended
  BY <1>1, <1>2 DEF Owned, Ended
<1>14. \A u \in Tasks : stackOf'[u] = stackOf[u] \/ stackOf'[u] = u
  BY <1>1, <1>3 DEF Types
<1>15. Owned'
  BY <1>1, <1>2, <1>13, <1>14 DEF Owned, KernelPlaces
<1> QED
  BY <1>11, <1>12, <1>15 DEF IInv

(* A key wakes a waiting task up.                                             *)
LEMMA KeyArrivesKeeps ==
    ASSUME IInv, NEW t \in Tasks, KeyArrives(t)
    PROVE  IInv'
<1> USE DEF stacks, entries
<1>1. Types /\ Apart /\ EntriesFollow /\ Uninterrupted /\ Owned
  BY DEF IInv
<1>2. /\ t \in waiting /\ waiting' = waiting \ {t} /\ ready \in Seq(Tasks) /\ Len(ready) \in Nat
      /\ active' = active /\ place' = place /\ area' = area
  BY <1>1 DEF KeyArrives, Types
<1>3. /\ ready' \in Seq(Tasks) /\ Len(ready') = Len(ready) + 1
      /\ \A n \in 1 .. Len(ready) : ready'[n] = ready[n]
      /\ ready'[Len(ready) + 1] = t
  BY <1>2, AppendProperties DEF KeyArrives
<1>4. \A n \in 1 .. Len(ready') : n = Len(ready) + 1 \/ n \in 1 .. Len(ready)
  BY <1>2, <1>3
<1>5. \A n \in 1 .. Len(ready) : ready[n] # t
  BY <1>1, <1>2 DEF Apart
<1>6. \A m, n \in 1 .. Len(ready') : ready'[m] = ready'[n] => m = n
  BY <1>1, <1>3, <1>4, <1>5 DEF Apart
<1>7. \A n \in 1 .. Len(ready') : ready'[n] \notin waiting' /\ \A c \in Cores : active'[c] # ready'[n]
  BY <1>1, <1>2, <1>3, <1>4, <1>5 DEF Apart
<1>8. Apart'
  BY <1>1, <1>2, <1>6, <1>7 DEF Apart
<1>9. \A n \in 1 .. Len(ready') : place'[ready'[n]] \notin Masked
  BY <1>1, <1>2, <1>3, <1>4 DEF Uninterrupted
<1>10. Uninterrupted'
  BY <1>1, <1>2, <1>9 DEF Uninterrupted
<1> QED
  BY <1>1, <1>3, <1>8, <1>10 DEF KeyArrives, IInv, Types, EntriesFollow, Owned

(* Every step of the kernel and its tasks keeps the invariant.                *)
LEMMA Inductive == IInv /\ [Next]_vars => IInv'
<1> SUFFICES ASSUME IInv, [Next]_vars PROVE IInv'
  OBVIOUS
<1>1. ASSUME NEW c \in Cores, PickUp(c) PROVE IInv'
  BY <1>1, PickUpKeeps
<1>2. ASSUME NEW c \in Cores, NEW t \in Tasks, Step(c, t) PROVE IInv'
  BY <1>2, StayingSteps, LeavingSteps, RequeueingSteps DEF Step
<1>3. ASSUME NEW c \in Cores, NEW t \in Tasks, Timer(c, t) PROVE IInv'
  BY <1>3, RequeueingSteps
<1>4. ASSUME NEW c \in Cores, NEW t \in Tasks, Fault(c, t) PROVE IInv'
  BY <1>4, FaultKeeps
<1>5. ASSUME NEW t \in Tasks, KeyArrives(t) PROVE IInv'
  BY <1>5, KeyArrivesKeeps
<1>6. ASSUME UNCHANGED <<scheduling, place, stacks, entries, cause>> PROVE IInv'
  BY <1>6, FrameKeeps
<1>7. ASSUME NEW c \in Cores, NEW t \in Tasks, GuardPageFault(c, t) PROVE IInv'
  BY <1>6, <1>7 DEF GuardPageFault
<1>8. ASSUME Fatal \/ LoadCount \/ LoadStatus \/ UNCHANGED vars PROVE IInv'
  BY <1>6, <1>8 DEF Fatal, LoadCount, LoadStatus, vars
<1> QED
  BY <1>1, <1>2, <1>3, <1>4, <1>5, <1>7, <1>8 DEF Next

(* The inductive invariant holds throughout.                                  *)
THEOREM Invariance == Spec => []IInv
BY Initially, Inductive, PTL DEF Spec

(* However a task enters the kernel, by system call or by interrupt, and on   *)
(* whichever core, it is on its own kernel stack.                             *)
THEOREM KernelStacksApart == Spec => []OwnKernelStack
<1>1. IInv => OwnKernelStack
  BY DEF IInv, Owned, OwnKernelStack
<1> QED
  BY <1>1, Invariance, PTL

(* Sysret returns every task to its own user stack.                           *)
THEOREM UserStacksReturn == Spec => []OwnUserStack
<1>1. IInv => OwnUserStack
  BY DEF IInv, Owned, OwnUserStack
<1> QED
  BY <1>1, Invariance, PTL

(* KillUserTask ends a task only where its frame came from ring 3.            *)
THEOREM FaultsKillRing3 == Spec => OnlyRing3Killed
<1> DEFINE A == \A t \in Tasks : place[t] # "faulted" /\ place'[t] = "faulted" => place[t] = "user"
<1>1. ASSUME IInv, [Next]_vars PROVE A
  <2>0. place \in [Tasks -> {"kickoff", "user"} \cup Masked \cup KernelPlaces \cup {"dead"}]
    BY <1>1 DEF IInv, Types
  <2>1. ASSUME NEW c \in Cores, PickUp(c) PROVE A
    BY <2>1 DEF PickUp
  <2>2. ASSUME NEW c \in Cores, NEW t \in Tasks, Step(c, t) PROVE A
    <3>1. ASSUME NEW where, Goto(t, where), where # "faulted" PROVE A
      BY <2>0, <3>1 DEF Goto
    <3> QED
      BY <2>2, <3>1 DEF Step, Run, Syscall, Park, SwitchStack, Push, SyscallReturns, Yield, GetKey, Exit,
                        Sysret, TerminateFaultedTask, Report, ExitThread
  <2>3. ASSUME NEW c \in Cores, NEW t \in Tasks, Timer(c, t) \/ GuardPageFault(c, t) PROVE A
    BY <2>3 DEF Timer, GuardPageFault
  <2>4. ASSUME NEW c \in Cores, NEW t \in Tasks, Fault(c, t) PROVE A
    <3>1. CASE place[t] = "user"
      <4>1. \A u \in Tasks \ {t} : place'[u] = place[u]
        BY <2>0, <2>4 DEF Fault, KillUserTask, Goto
      <4> QED
        BY <3>1, <4>1
    <3>2. CASE place[t] # "user"
      BY <2>4, <3>2 DEF Fault, KillUserTask, FromUser, Ring
    <3> QED
      BY <3>1, <3>2
  <2>5. ASSUME NEW t \in Tasks, KeyArrives(t) PROVE A
    BY <2>5 DEF KeyArrives
  <2>6. ASSUME Fatal \/ LoadCount \/ LoadStatus \/ UNCHANGED vars PROVE A
    BY <2>6 DEF Fatal, LoadCount, LoadStatus, vars
  <2> QED
    BY <1>1, <2>1, <2>2, <2>3, <2>4, <2>5, <2>6 DEF Next
<1> QED
  BY <1>1, Invariance, PTL DEF Spec, OnlyRing3Killed

(* A cause of death is never taken back.                                      *)
LEMMA CauseStays ==
    ASSUME IInv, [Next]_vars, NEW t \in Tasks, cause[t] # NoStatus
    PROVE  cause'[t] # NoStatus
<1> USE DEF Goto, Types, IInv, Runs
<1>0. place[t] \in Ended
  BY DEF Owned
<1>1. ASSUME NEW c \in Cores, NEW u \in Tasks, Exit(c, u) PROVE cause'[t] # NoStatus
  BY <1>0, <1>1 DEF Exit, Ended
<1>2. ASSUME NEW c \in Cores, NEW u \in Tasks, Fault(c, u) PROVE cause'[t] # NoStatus
  BY <1>0, <1>2 DEF Fault, KillUserTask, FromUser, Ring, Ended
<1>3. ASSUME UNCHANGED cause PROVE cause'[t] # NoStatus
  BY <1>3
<1>4. ASSUME NEW c \in Cores, NEW u \in Tasks, Step(c, u) PROVE cause'[t] # NoStatus
  BY <1>1, <1>3, <1>4 DEF Step, Run, Syscall, Park, SwitchStack, Push, SyscallReturns, Yield, GetKey,
                          Sysret, TerminateFaultedTask, Report, ExitThread
<1> QED
  BY <1>2, <1>3, <1>4 DEF Next, PickUp, Timer, GuardPageFault, KeyArrives, Fatal, LoadCount, LoadStatus, vars

(* A task that faulted or exited does not run in ring 3 again.                *)
THEOREM FaultsAreFatal == Spec => NoSurvivor
<1> DEFINE A == \A t \in Tasks : t \in Doomed => place'[t] # "user"
<1>1. ASSUME IInv, [Next]_vars, IInv' PROVE A
  <2> SUFFICES ASSUME NEW t \in Tasks, cause[t] # NoStatus PROVE place'[t] # "user"
    BY DEF Doomed
  <2>1. cause'[t] # NoStatus
    BY <1>1, CauseStays
  <2> QED
    BY <1>1, <2>1 DEF IInv, Owned, Ended
<1> QED
  BY <1>1, Invariance, PTL DEF Spec, NoSurvivor

(* Tasks between the store of their status and that of the count.             *)
Reporting == {t \in Tasks : place[t] = "report2"}

(* Every count has a status stored before it; the others are being counted.   *)
Counted ==
    /\ count \in Nat /\ last.stores \in Nat
    /\ last.stores = count + Cardinality(Reporting)
    /\ reader.at \in {"start", "counted", "done"} /\ reader.count \in Nat /\ reader.stores \in Nat
    /\ DOMAIN reader = {"at", "count", "stores"}
    /\ reader.at = "counted" => reader.count <= last.stores
    /\ reader.at = "done" => reader.count <= reader.stores

(* Only Report touches the tasks that are reporting.                          *)
LEMMA OthersDoNotReport ==
    ASSUME IInv, NEW t \in Tasks, NEW where, Goto(t, where), place[t] # "report2", where # "report2"
    PROVE  Reporting' = Reporting
BY DEF IInv, Types, Goto, Reporting

(* Terminate stores the status before it counts.                              *)
LEMMA ReportCounts ==
    ASSUME IInv, Counted, NEW c \in Cores, NEW t \in Tasks, Report(c, t)
    PROVE  Counted'
<1>0. IsFiniteSet(Reporting) /\ Cardinality(Reporting) \in Nat
  BY TasksAssumption, FS_Subset, FS_CardinalityType DEF Reporting
<1>1. CASE place[t] = "report"
  <2>1. /\ last'.stores = last.stores + 1 /\ count' = count
        /\ place' = [place EXCEPT ![t] = "report2"] /\ reader' = reader
    BY <1>1 DEF Report, Reports, Runs, Goto
  <2>2. Reporting' = Reporting \cup {t} /\ t \notin Reporting
    BY <1>1, <2>1 DEF Reporting, IInv, Types
  <2>3. Cardinality(Reporting') = Cardinality(Reporting) + 1
    BY <1>0, <2>2, FS_AddElement, Zenon
  <2> QED
    BY <1>0, <2>1, <2>3 DEF Counted
<1>2. CASE place[t] = "report2"
  <2>1. /\ last' = last /\ count' = count + 1
        /\ place' = [place EXCEPT ![t] = "exit"] /\ reader' = reader
    BY <1>2 DEF Report, Reports, Runs, Goto
  <2>2. Reporting' = Reporting \ {t} /\ t \in Reporting
    BY <1>2, <2>1 DEF Reporting, IInv, Types
  <2>3. Cardinality(Reporting') = Cardinality(Reporting) - 1
    BY <1>0, <2>2, FS_RemoveElement, ZenonT(60)
  <2> QED
    BY <1>0, <2>1, <2>3 DEF Counted
<1> QED
  BY <1>1, <1>2 DEF Report, Runs

(* Every step keeps the count behind the statuses.                            *)
LEMMA CountedKept == IInv /\ Counted /\ [Next]_vars => Counted'
<1> SUFFICES ASSUME IInv, Counted, [Next]_vars PROVE Counted'
  OBVIOUS
<1>0. Cardinality(Reporting) \in Nat
  BY TasksAssumption, FS_Subset, FS_CardinalityType DEF Reporting
<1>1. ASSUME UNCHANGED reports, Reporting' = Reporting PROVE Counted'
  BY <1>1 DEF Counted, reports
<1>2. ASSUME UNCHANGED place PROVE Reporting' = Reporting
  BY <1>2 DEF Reporting
<1>3. ASSUME NEW c \in Cores, NEW t \in Tasks, Step(c, t) PROVE Counted'
  <2>1. CASE Report(c, t)
    BY <2>1, ReportCounts
  <2>2. CASE ~Report(c, t)
    BY <1>1, <1>3, <2>2, OthersDoNotReport
       DEF Step, Runs, Run, Syscall, Park, SwitchStack, Push, SyscallReturns, Yield, GetKey, Exit,
           Sysret, TerminateFaultedTask, ExitThread
  <2> QED
    BY <2>1, <2>2
<1>4. ASSUME NEW c \in Cores, NEW t \in Tasks, Fault(c, t) PROVE Counted'
  <2>1. Reporting' = Reporting
    BY <1>2, <1>4, OthersDoNotReport DEF Fault, KillUserTask, ReturnsTo, Runs
  <2> QED
    BY <1>1, <1>4, <2>1 DEF Fault
<1>5. CASE LoadCount
  <2>1. Reporting' = Reporting /\ count' = count /\ last' = last
    BY <1>2, <1>5 DEF LoadCount
  <2>2. reader' = [reader EXCEPT !.at = "counted", !.count = count]
    BY <1>5 DEF LoadCount
  <2> QED
    BY <1>0, <2>1, <2>2 DEF Counted
<1>6. CASE LoadStatus
  <2>1. Reporting' = Reporting /\ count' = count /\ last' = last
    BY <1>2, <1>6 DEF LoadStatus
  <2>2. reader' = [reader EXCEPT !.at = "done", !.stores = last.stores] /\ reader.at = "counted"
    BY <1>6 DEF LoadStatus
  <2> QED
    BY <1>0, <2>1, <2>2 DEF Counted
<1>7. ASSUME UNCHANGED <<place, reports>> PROVE Counted'
  BY <1>1, <1>2, <1>7
<1> QED
  BY <1>3, <1>4, <1>5, <1>6, <1>7 DEF Next, PickUp, Timer, GuardPageFault, KeyArrives, Fatal, vars

(* LastTermination: who reads a count reads the status that belongs to it or  *)
(* a later one, whatever the number of tasks that end at once.                *)
THEOREM StatusBeforeCount == Spec => []ReaderHasStatus
<1>1. Init => Counted
  <2> SUFFICES ASSUME Init PROVE Counted
    OBVIOUS
  <2>1. Reporting = {}
    BY DEF Init, Reporting
  <2>2. Cardinality(Reporting) = 0
    BY <2>1, FS_EmptySet
  <2>3. count = 0 /\ last.stores = 0 /\ reader = [at |-> "start", count |-> 0, stores |-> 0]
    BY DEF Init
  <2> QED
    BY <2>2, <2>3 DEF Counted
<1>2. Counted => ReaderHasStatus
  BY DEF Counted, ReaderHasStatus
<1> QED
  BY <1>1, <1>2, Invariance, CountedKept, PTL DEF Spec
=============================================================================
