# Verification of x64HK

TLA+ specifications of the x64HK kernel (`src/`), the TLC configurations that
check them on small instances, and TLAPS proofs of the results that should hold
for every size of the system. Variables, operators and constants keep the names
of the C++ code where TLA+ allows it; `PROJECT.json` gives the source lines of
every definition.

    tlc -workers 2 -config MCGuard.cfg MCGuard     # one run
    tlapm GuardProofs.tla                          # the proofs of one module

## 1. The system

x64HK is a multi-core x86-64 kernel. Every core runs threads out of one global
ready queue. Everything shared lives in one `Vault`, reached only through the
`Guard`: a thread enters with `Guard::Enter`, an interrupt handler splits into
a *prologue* (interrupts off) and an *epilogue* that runs under the Guard,
either at once or, if its core is in the level already, on that core's way out.
A context switch happens **inside** the level: the lock and the per-core flag
are handed over to whichever thread is switched to, which leaves the section on
behalf of the one that entered it. Ring 3 programs come in through `syscall`
and through interrupts; frames, heap and page tables have spin locks of their
own outside the Guard.

| Part of the kernel | Modules | Hard because | Correct means |
|---|---|---|---|
| Guard, ticket lock | Guard, EpilogueLevel, GuardProofs | prologues interrupt Enter, Leave and each other; contexts move between cores inside; tickets wrap | one owner; first come first served; no epilogue stranded; interrupt flag restored |
| Scheduler, idle loop, IPIs, timer, semaphore | Scheduling, SchedulingProofs | the idle loop reads without the lock; the timer is masked while idle; kill races with wake-ups | a thread is in one place; ready threads run; killed ones do not; no core sleeps through work; every key is owed once |
| Bellringer | BellList, Bellringer, Alarms, BellListProofs, BellringerProofs, Scheduling | unsigned deltas, ties; core 0 may be idle with its timer masked | everyone wakes at the tick its milliseconds amount to, ties in order |
| Queue, ring buffer | Queue, OrderedQueues, RingBuffer, BoundedFifo, KeyboardProofs | queues share a link; `Contains` is approximate; producer and consumer at once | behave as sequences |
| Frame allocator | Frame, BootProofs | unaligned and overlapping ranges; next-fit wrap-around | nothing handed out twice; counters agree; a search misses nothing |
| Heap | Heap | Free trusts what lies at the buddy's address | blocks tile the heap; all merge back |
| Paging | Paging, AddressSpace | tables are read while they are built; shared tables; fails halfway | a flat map of pages, changed one page at a time |
| Stacks, loading, CopyIn | UserMemory, UserMemoryProofs | locks are released before the mapping is made | stacks apart, behind guard pages; ring 3 reaches only its own |
| System call entry, faults, termination | UserTask, UserTaskProofs | per-core slots, while tasks migrate | own stacks always; a faulting task ends, and only it |
| PS/2 setup, I/O APIC pin | Ps2Setup | late, repeated and missing answers | the keyboard works or is given up; it never goes dead |
| Raw key bytes, decoder | Keyboard, KeyDecoder, KeyStrokes, KeyboardProofs | LED replies in the stream, two cores, lost bytes | each byte once and in order; modifiers match the keys held |
| Text windows, Write | TextWindow, UserWrites | windows drawn by two cores; partial writes | a window shows the tail of its text; counts are true |
| Multiboot, ACPI, SMP boot | Multiboot, Acpi, SmpBoot, BootProofs, GuardProofs | tags in any order, broken tables, lost start-up interrupts | what is read stays reserved; nobody starts before the tables are there; all come up |

## 2. Modules

### Guard, EpilogueLevel

`pc[c]` says where core `c` is: `outside`, about to `draw` a ticket, in the
`spin`, `inside`, or in Leave's `drain` loop. What lives on a stack belongs to
the context, not to the core: which use of the level it is in the middle of
(`doing`: a section of Enter, a Relay, or an epilogue), Leave's `wasEnabled`,
and whether there is an interrupt frame below (`nested`). `Dispatch` switches
the core's context inside the level and leaves everything else alone, as
`ContextSwitch` does; RFLAGS is per core. A thread that never ran is a context
about to leave a section (`Thread::Kickoff`). The boot stacks are contexts too:
they enter once (`MainAp`) and never come back.

Atomic steps are the code's atomic operations (`fetch_add`, the load that ends
the spin) and its stretches with interrupts off on one core that touch only
that core's state. Interrupts may hit wherever `enabled[c]`.

EpilogueLevel is what users of the Guard rely on: a line of cores, the first
of which may be admitted, and one FIFO of epilogues per core. The refinement
mapping orders the contenders by the distance of their ticket from
`m_NowServing`.

### BellList, Bellringer, Alarms

BellList holds Sleep's insertion and Check's dequeuing as operators on the
sequence of `[Owner, Ticks]`. Alarms is a timing wheel with a queue per future
tick; Bellringer's refinement mapping sums up the deltas. The last call, with the
thread and the milliseconds, is part of the state of both (`called`), so a Sleep
is matched only by the Sleep of the same thread and time, and Alarms says by
itself how many ticks a time amounts to (`Takes`: those that fit into it, but one
at least), with inequalities where the code divides.

### Scheduling

A section is one step, with the context switch in it and the rest of whichever
section was switched to: that is only its Unlock, except for `GetKey`, whose
loop goes on behind `P` in a step of its own, still inside (`pc = "inside"`).
`LockFree` stands for the lock; the lock's order is left to Guard. The idle
loop's reads of the ready queue and of the bells are steps of their own with
interrupts off (`check`, `mask`), because they happen without the lock; other
cores may move between them.

An interrupt from another core is first on its way (`sent`) and then reaches
the target's local APIC (`Raise`). A core with interrupts on takes it there and
then: whatever another core does before the next instruction boundary it could
have done before the interrupt came. Otherwise it is latched (`pending`, one
bit per vector) and taken, highest vector first, when interrupts are on again.
The timer is raised while it is not masked; what is latched stays so when it is
masked. The keyboard's interrupt is level triggered and comes to any core; the
prologue (`DrainToQueue`) then moves what the device holds to the raw ring,
counted in keys (`raw`), which is none for a released key.

`NoMissedWork` is about two cores: Ready wakes one sleeping core, and two threads
made ready at once on three cores wake the same one. What holds for every number
of cores is `SomeCoreAwake`: while a thread is ready, not all cores sleep. It is
proved (section 5).

`Kill` has no caller in the tree; `Killable` is the set of threads that some
thread may pass to it.

### Queue, OrderedQueues; RingBuffer, BoundedFifo

Queue keeps `m_Head`, `m_Tail` and the link inside each item; all queues go
through the same link, as the ready queue and the semaphore's do. Every call is
one action and records itself with its arguments (`called`) and what it
returned. OrderedQueues has a sequence per queue and says what each call does to
it and returns; the mapping follows the links. Because the call is part of the
state of both, an Append that refused wrongly, or put its item elsewhere, could
not pass for another call. That no item is appended while it is in another queue
(`MayGo`) is up to the callers, and a guard here; `OnePlace` in Scheduling shows
it of them.

RingBuffer takes one memory access per step: Produce reads the consumer's
index, writes the slot, publishes its own index; Consume mirrors it. In
BoundedFifo the value that Produce was called with is appended or dropped, and
the oldest one is taken, at once.

### Frame, Heap

Frame: `Initialize` as a whole (the highest address, the search for a place of
the bitmap, releases and reservations), `SetReachableLimit`, `Allocate`, `Free`.
Allocate and Free hold the lock with interrupts off throughout, so each is one
step. `held` and `reserved` are history: who owns which frames.

Heap: block headers lie in memory at the offsets where blocks may start, and
the bytes a caller writes lie there too: a payload may look like the headers of
free blocks (`WritePayload`). `Reallocate` reads its header without the lock and
then calls Allocate and Free, so it is several steps (`moving`). `Needed` is
modulo the word size.

### Paging, AddressSpace, UserMemory

Paging models `Map` store by store, under the lock: `Descend` links a cleared
table, opens the entries on the way to a user page, and a leaf is written per
page; the processors' walk (`Effective`) reads at every moment. AddressSpace is
the flat map this amounts to: one step changes one page, and nothing is taken
out. UserMemory then uses the flat map: `Initialize`'s list of maps, of which
the last one of a page wins, `KernelStack::Allocate`, `User::Load` segment by
segment, `AllocateStack`, which gives up its lock between choosing an address
and mapping it, and `CopyIn`, which checks page by page while others map.

Load checks neither that `Offset + FileSize` stays below 2^64 (`Task.cpp:123`)
nor that a segment lies beside what Initialize has mapped: the user half begins
at `HK_USER_MIN`, inside the identity map of low memory. The model follows it in
both. The sum wraps, and what is then copied is something `other` than the image
(`Source`); a segment at `HK_USER_MIN` takes over the pages of the identity map,
and a second Load at the same address those of the first. Images of each kind
are in the `memory` run. `FramesOwned` and `UserOnlyItsOwn` hold all the same,
since neither speaks about which image a page shows: what is mapped is always a
fresh frame, cleared before, in the lower half.

### UserTask

A kernel stack is named after its task. `place` walks through SyscallEntry
instruction by instruction as far as the stack switch goes (`park`, `switch`,
`push`), the body, and the way back; `area` and `tss` are the per-core slots
that `Dispatch` keeps in step with the thread. `KillUserTask` rewrites the
frame so that it returns to `TerminateFaultedTask` in ring 0, with interrupts
on. `Report` is Terminate's two stores in order, `LoadCount` and `LoadStatus`
are LastTermination's two loads. `cause` (what really ended the task) is
history. The scheduler is reduced to the ready queue and the switch.

### Ps2Setup, Keyboard, KeyDecoder, KeyStrokes

Ps2Setup runs `Ps2Controller::Initialize` as the list `Steps` against an 8042
with one input byte and a keyboard that may answer late, ask again, or be
typed on; or against a bus without a controller, which reads as all ones or all
zeros. The I/O APIC's pin is configured and opened at the end; an edge is seen
once, a level as long as it lasts.

Keyboard follows bytes: wire, controller, `DrainToQueue` on any core under the
raw queue's lock, `Fetch` and `SetLed` in the epilogue. LED commands are
answered in the same stream, and the epilogue sorts the replies out. KeyDecoder
holds `Decode`, `Ascii` and the packing as operators on numbers; KeyStrokes
lets physical keys go down, repeat and come up in every order, feeds their set
1 codes through the decoder, and in its lossy form drops any of the bytes. Its
keyboard does not send the E0 2A that some keyboards put around the cursor keys
(the decoder takes it for Shift), and no byte is flagged as the mouse's, which
`DrainToQueue` throws away (`Ps2Controller.cpp:185`).

### TextWindow, UserWrites

TextWindow has the cell writes of `Print`, `Scroll` and `Reset` as operators on
the screen. UserWrites runs `hk_write_all` in several tasks: every Write copies
at most `HK_WRITE_MAX` characters in, enters the Guard, and prints character by
character, while another core prints to the debug window beside it. A character
is one step, with the scroll it may cause: the cells of two windows are
disjoint, so nothing another core does in between could be told apart. That two
tasks do not print into one window at once is the Guard's doing and is taken
from there (`holder`).

### Multiboot, Acpi, SmpBoot

Multiboot walks the tags one by one (version 2) or takes the flags (version 1);
addresses and sizes are numbers, so that alignment and stride count. Acpi holds
the search for the RSDP, the lookup of a table and what `Apic::Initialize`
takes from the MADT; a checksum is its verdict. SmpBoot runs every processor
from reset or trampoline to the scheduler. INIT and STARTUP are broadcast; the
first STARTUP may be missed by any set of processors, and a processor that is
already running ignores the second.

## 3. Runs

| Run | Instance | States | Checks |
|---|---|---|---|
| `guard` | 2 cores, 3 threads, 2 epilogues, modulus 3, queue of 2 | 601 000 | `NoStrandedEpilogue`, `InterruptsRestored`, `ImplementsLevel` |
| `guard_live` | 2 cores, 3 threads, modulus 3, `FairSpec` | 199 000 | `LevelGranted` |
| `sched_keys` | 2 cores, 2 threads, keyboard | 533 000 | `KeysAccounted`, `NoMissedWork` |
| `sched_kill` | 2 cores, 2 threads, sleep and kill | 495 000 | `OnePlace`, `KilledNotDispatched` |
| `sched_live` | 2 cores, 2 threads, sleep, `FairSpec` | 14 200 | `SleepEnds` |
| `sched_fair` | 2 cores, 3 threads, one killable, `FairSpec` | 6 100 | `ReadyRuns`, `KilledStops` |
| `sched_timer` | 3 cores, 2 threads, sleep | – | `RunningIsPreemptible` is violated |
| `structures` | RingBuffer, Queue, Bellringer, Paging | 21 900 | four refinements: `ImplementsFifo`, `ImplementsSequences`, `KeepsPromise`, `ImplementsAddressSpace` |
| `memory` | Heap, UserMemory | 632 000 | Heap: `Tiling`, `NoLostSpace`; UserMemory: `GuardsUnmapped`, `FramesOwned`, `UserOnlyItsOwn`, `CopyInSafe` |
| `devices` | Multiboot, Frame, SmpBoot, Ps2Setup, Keyboard, KeyStrokes, UserWrites | 134 000 | see below |
| `user_task` | 2 cores, 2 tasks, one of which waits for keys, `FairSpec` | 212 000 | `OwnKernelStack`, `OwnUserStack`, `ReaderHasStatus`, `DoomedDie` |
| `death_record` | 2 cores, 2 tasks, 2 vectors | – | `ReportedOwn` is violated |

`devices` checks, with bounds, states and fairness per component:

* Multiboot (6 100): three tags of ten kinds in every order, every set of
  version 1 flags: `AccessedIsReserved`.
* Frame (900): memory maps of up to 13 frames: `Accounting`, `HandedOutUsable`.
* SmpBoot (800): one to three processors with sparse ids; root pointers old,
  new, broken and missing: `StartedLate`, `AllComeUp`.
* Ps2Setup (17 000): two keys typed, three requests to repeat a byte, twenty
  timeouts: `SetUp`, `NotDead`, `Returns`.
* Keyboard (65 000): two cores, three scripts in which LED replies fall between
  a prefix and its code, a raw queue of three bytes: `StreamInOrder`,
  `AllDecoded` (which a prologue spinning on its own core's lock would break).
* KeyStrokes (21 100 and 9 100): fourteen keys, three held at once, all bytes
  arriving: `ModifiersTrue`, `GetKeyTrue`; five keys, two held, any bytes lost:
  `Recovers`.
* UserWrites (16 500): two tasks with six kinds of buffers, a window that
  scrolls: `ResultTrue`, `WindowsShowTheirTails`.

**Runs of several components.** `structures`, `memory` and `devices` each
put together components that share no variable. A variable `moves` is chosen in
the initial state; only that component moves, the others stay in one fixed
initial state. This explores, for each component, exactly the behaviours it has
by itself, and the states add up; it checks **no interaction** between them.
Liveness of a component is stated for the behaviours in which it moves, and the
fairness is that of its own actions. The component that the MC module extends
(RingBuffer, UserMemory, Frame) is checked under its own definitions, the ones
its proofs are about; the others are instantiated. Interactions are checked
where a module contains both sides: Scheduling (scheduler, semaphore, bells,
timer, keyboard), UserTask (dispatcher, entry, faults), UserMemory (stacks,
loader, page map, frames), Keyboard (interrupts, queue, epilogue, device),
SmpBoot (ACPI, processors), UserWrites (library, system call, windows).

**Bounds.** In Guard the ticket modulus is one more than the number of cores,
the smallest the assumption allows, so that tickets wrap all the time. Three
threads on two cores are one running on each and one suspended inside the
level. An epilogue queue of one or two lets a prologue meet an empty and a
non-empty queue; the code's ring holds 63 and asserts that it never overflows,
and the models take that as a bound on the interrupts (`QueueCapacity`,
`EpilogueBound`: no interrupt is taken, and in Scheduling none is raised, while
the queue is full). `KeyCapacity` 2 fills the key ring and drops keys.
`Milliseconds` has the values around one tick. The ring of four slots goes
around several times; four items in two queues make every place (first, middle,
last, only) meet every call. Frame's maps are up to 13 frames of two bytes,
with unaligned, overlapping, unavailable and reserved ranges; Heap has eight
smallest blocks, and sizes from none to more than the heap; UserMemory has six
frames and two calls for each of two callers, so that frames run out at every
point; Paging has tables for five of the seven that the requests need.
`MAX_TYPED`, `MAX_RESENDS`, `MAX_TIMEOUTS`, `GIVE_UPS` and `MAX_CALLS` bound the
environment. Symmetry is used for threads and callers only, and only in runs
without liveness; cores differ in Scheduling (core 0 owns the clock, Ready pokes
the lowest idle one), in Guard they are interchangeable as well.

**Deadlock** is checked in `guard`, `sched_keys`, `structures` and `guard_live`.
In the other runs the system may rightly stop: every thread has exited and
every timer is masked; all calls are made; the boot is finished; the kernel has
panicked.

**Fairness.** A core keeps executing, so its steps are weakly fair. In Guard
the lock needs nothing more: order comes from the tickets. In Scheduling, where
the lock is abstracted, waiting for it is strongly fair, which is what
`LevelGranted` shows of the real one. Unmasked timers fire (hardware), IPIs
arrive, latched interrupts are taken; the timer's vector is the lowest, so its
strong fairness says that the others do not come so densely as to keep it out
forever, and so does the one of `TimerFires` and `Arrive` where `EpilogueBound`
holds them back for a while. Nothing makes a thread enter the level: a thread
that computes forever is part of every liveness run. In UserTask idle cores look
for threads and timers tick (weakly fair); a task in the kernel gets on
(strongly fair, because it may be preempted again and again: `ReadyRuns` is what
justifies it). Nothing makes a program issue a system call. In `devices` a
processor that is not halted executes, the controller and the keyboard (where
there are any) take what is written to them, and the level-triggered line stays up until some core
takes it; nobody has to type.

## 4. Results

The properties of the passing runs hold. Two runs show where the code differs
from what the repository says:

* `sched_timer`: the idle loop disables interrupts, finds nothing to do and
  masks the timer. A tick that was latched in between is delivered when the
  core halts, and the Timer epilogue's `Resume` may find a thread that has just
  become ready, on this core, while `Ready` sent WAKEUP to a lower-numbered
  idle core. Only `Epilogues::Wakeup` and the top of the idle loop unmask, so
  the thread runs without preemption until it gives up the core of its own
  accord.
* `death_record`: `KillUserTask` leaves the vector in a record of the **core**
  and lets the frame return to `TerminateFaultedTask` with interrupts on. A task
  that is preempted there reads the record of the core it goes on with, or one
  that a later fault has overwritten, and reports a status that is not its own.

Smaller disagreements between code and text, noticed while the modules were
written. The models follow the code; no run is spent on them, and the
properties above are stated so that they do not depend on them.

| Code | Text |
|---|---|
| `Kernel/Memory/Heap.cpp:121`: `InSize + sizeof(BlockHeader)` wraps for sizes near 2^64 and then passes the limit (`Needed` in Heap) | `Kernel/Test/HeapTest.cpp:85` "A request larger than the heap fails" |
| `Kernel/Memory/Paging.cpp:287` maps low memory from address 0 for the kernel | `ABI/SPECIFICATION.md:38` "Page zero is never mapped" |
| `Kernel/Memory/Paging.cpp:269` sets CR0.WP in `Activate`, which only the first processor runs | the comment above it: without it "the whole W^X split would be advisory" |
| `Kernel/Device/Key.h:95`: the enumeration counts EUROPE_2, F11 and F12 one below their set 1 codes | `Key.h:7` "Scan code set 1 make codes" |
| `Kernel/Device/KeyDecoder.cpp:28`: both Shift keys share one bit, so releasing one ends the other | `ABI/SPECIFICATION.md:236` "modifier state when the key was pressed" |
| `Kernel/Device/Key.cpp:122`: Shift and a cursor key give the keypad's digit | `ABI/SPECIFICATION.md:256` "The `ascii` field already reflects the distinction" |
| `Kernel/Interrupt/Handlers.cpp:149`: a fault on a guard page panics, also from ring 3 | `ABI/SPECIFICATION.md:260` "A fault in ring 3 kills the task" |
| `Kernel/Boot/Multiboot.cpp:291`: under version 1 the loader's name is not among the regions | `Multiboot.h:61` "this memory has to stay reserved" |
| `Kernel/Boot/Multiboot.cpp:204` hands out the address of a copy in the kernel's half | `Multiboot.h:58` "Physical address of the RSDP" |
| `Kernel/Arch/LocalApicIpi.cpp:146` broadcasts, so it starts processors beyond MAX_CORES too | `Arch/Apic.cpp:54` "ignoring the rest" |
| `Kernel/Arch/Apic.cpp:64`: of several I/O APICs below 24 the last one wins | `Apic.cpp:63` "Only the I/O APIC that owns the legacy IRQ range is used" |
| `Kernel/Device/Ps2Controller.cpp:150`: the port is on again during the keyboard's commands | `Ps2Controller.cpp:127` "both ports quiet, so nothing can inject a byte" |
| `Kernel/Device/Ps2Controller.cpp:113`: three attempts | `Ps2Controller.cpp:110` "retrying once" |

## 5. Proofs

`tlapm` checks the following for every value of the constants within the named
assumptions of the modules.

**GuardProofs**, Guard (any finite set of cores smaller than the ticket modulus, any
finite set of threads at least as large, any queue capacity): `TypeCorrect`,
`LevelIsExclusive` (`MutualExclusion`), `TicketsStayInOrder`,
`LevelStaysConsistent`, `EpiloguesAreDrained` (`NoStrandedEpilogue`),
`SectionsAreInterruptible`, `LeaveRestoresInterrupts`. None is inductive by
itself; `IInv` is types, `TicketsInOrder` and `LevelConsistent`. Exclusion
follows from the order of the tickets: those in use are the ones from
`m_NowServing` on, all different, and the owner's is the first. That a wrapped
ticket never meets an old one is counting: there are fewer contenders than
tickets (`ContendersBound`). The rest follows from `LevelConsistent`: the flag
says where the core is, no context is on two cores, a context below an interrupt
frame is not switched away before it has drained, and whoever is in Leave's loop
gets interrupts back at its end. The two parts meet in Relay, which draws a
ticket only because a clear flag means a core outside the lock.

`GuardServesInOrder` is the refinement: Guard implements EpilogueLevel
(`ImplementsLevel`). The mapping lists the contenders by their distance from
`m_NowServing`; by `TicketsInOrder` the distances are 0 up to the number of
contenders, so the list has each of them once, drawing a ticket appends to it
and the store of `Leave` takes its head off.

**GuardProofs**, SmpBoot (any set of machines, any tables): `StartedOnlyLate`
(`StartedLate`). `BootInv` says what the first processor has prepared by the
place it is at (`Prepared`), and that every other one is off until it is started
and on the kernel's tables before it is in C++ (`Other`). The others start only
if there is more than one usable entry, and never more than `MAX_CORES` are
(`ApicIsGood`, by induction over the entries of the table).

**KeyboardProofs**, RingBuffer (any capacity above one, any non-empty set of values):
`TypeCorrect`, `SlotsStayApart`, `CountStaysBounded`, and `BufferIsFifo`, that
RingBuffer implements BoundedFifo. `IInv` adds to the types that a producer
inside Produce still has its room and a consumer inside Consume its value,
whatever the other did meanwhile, and that the slot about to be published holds
the value. The refinement shows that `Contents`, the slots from `m_Read` to
`m_Write`, is appended to by the publishing store alone, loses its head by the
releasing store alone, and does not see the store into the slot.

**KeyboardProofs**, Keyboard (any number of cores, any scripts, any size of
`s_RawBytes`): `RawLockExcludes` (`OneHolder`) and `StreamStaysInOrder`
(`StreamInOrder`). Decoded bytes, bytes on the way and bytes still to be typed,
one after the other and without the replies, are the script (`Whole`) until a
byte is dropped because the queue is full. Every step moves the border between
two of these parts, or takes a reply out of one. It needs the lock: with two
cores between port and queue at once there would be no order on the way.

**BootProofs**, Frame (any memory map, any request sizes above zero):
`AccountingHolds`, `SearchMissesNothing` (`SearchComplete`), `BitmapIsPlaced`
(`BitmapPlaced`) and `HandedOutIsUsable` (`HandedOutUsable`). `IInv` is
`Accounting` with the ranges of the indices. The search is characterised once
(`FindRunIs`, `FirstIs`): it returns the first free run from where it starts,
and from zero if there is none behind. For the last two `SetUp` adds what
`Initialize` leaves behind: the bitmap lies in one available range and clear of
the kernel, the boot information and the modules, and every frame that is not
reserved was released and taken by nobody. That the bitmap is clear of all
*three* lists, though `IsBlocked` only moves the candidate past one blocker at a
time, is the loop's invariant: the candidate never moves down, and the result is
one that nothing blocked.

**BootProofs**, Multiboot (any handover that keeps to the standards):
`HandoverStaysReserved` (`AccessedIsReserved`). `LoaderInv`: the walk is at a tag
of the structure, and whatever a tag made the kernel remember lies in the
structure with all that will be read of it. Tags lie one behind the other
(`TagsLie`), so none is inside another and the walk cannot come to lie between
two (`AtATag`). Version 1 has no structure; there every range is reserved by
itself (`V1Keeps`).

**UserTaskProofs** (any set of cores, any finite set of tasks):
`KernelStacksApart`, `UserStacksReturn`, `FaultsKillRing3`, `FaultsAreFatal`,
`StatusBeforeCount`. `IInv`: a task is in one place; TSS and Area follow the
active thread; nobody is switched away between the park and the push, because
interrupts are masked there; each task's stack pointers are its own where they
are in use. For the last theorem `Counted` adds that the stores of a status are
the terminations counted plus the tasks between their two stores.

**BellListProofs, BellringerProofs** (any set of sleepers, any durations):
`BellringerKeepsPromise`, that Bellringer implements Alarms (`KeepsPromise`).
BellListProofs says what Sleep's insertion and Check's dequeuing do to the list:
where the new bell goes, that only the delta behind it changes, and by how much.
The mapping gives a bell the tick its deltas add up to; the invariant is that
deltas are natural numbers, so the due ticks never decrease along the list. Then
inserting a bell leaves every other bell's tick alone and puts the new one behind
those due at the same tick, a tick lowers all by one, and the bells that
ring are exactly the ones whose tick has come. That the tick of a new bell is the
one Alarms promises for its milliseconds is a fact about the code's division
(`TicksArePromised`).

**SchedulingProofs** (any number of cores, any finite set of threads, any
durations and capacities): `SchedulingOnePlace` (`OnePlace`),
`SchedulingKeysAccounted` (`KeysAccounted`), `SchedulingKilledNotDispatched`
(`KilledNotDispatched`) and `SchedulingSomeCoreAwake` (`SomeCoreAwake`). `IInv`
states `OnePlace` without counting: ready queue, semaphore queue, owners of bells and
active threads are duplicate-free and pairwise disjoint, together they have every
thread that has neither ended nor been killed, and none that has ended
(`Placed`). Each operation is then one lemma about `Placed` with the running
thread of the core taken out and put somewhere else (`PutBack`, `Parked`,
`PutToSleep`, `TakenOut`, `RungAreReady`, `FreedAreReady`, `KilledIsOff`,
`Dispatched`). Keys need two more facts: a core is in the middle of `GetKey`
exactly if its thread is woken and has not consumed, and only threads in
`GetKey` wait. `SomeCoreAwake` needs `Up`: while the queue is not empty, some
core is not `AtRest`, that is, it has not found the queue empty on its way to the
halt, or it has halted but an interrupt is latched or under way. The core that
makes a thread ready is up itself, and stays so until it has looked at the queue
again; a core that goes to rest has just found the queue empty. `NoMissedWork`,
which says more and holds on two cores only, is left to the run.

**UserMemoryProofs** (any layout that fits `LayoutAssumption`, any images and
buffers, any number of callers and calls): `FramesAreOwned` (`FramesOwned`),
`CopyInIsSafe` (`CopyInSafe`), `UserReachesItsOwn` (`UserOnlyItsOwn`) and
`GuardsAreUnmapped` (`GuardsUnmapped`). Every step is first brought into a form
that says what it does to the callers, the map and the frames (`Step`), and each
invariant is shown for these forms.

* `FramesInv`: the frames that are mapped, and those that callers between their
  `Allocate` and their last page still have to map, are all different and below
  the next free frame.
* `CheckInv`: the pages a `CopyIn` is past are readable, and lie in the lower
  half. They stay so because nothing is ever unmapped, and only kernel stacks,
  which lie above that half, are mapped without access for ring 3.
* `SpaceInv`: the watermarks are whole strides away from where they began
  (`StacksInv`); pages of ring 3 lie in its half, below a page `low` or strictly
  between two guards of the user stacks, the kernel's own pages strictly between
  two guards of its stacks (`SidesInv`), the pages still to be mapped included;
  and frames are cleared or filled before they are mapped (`ContentInv`).

The last two theorems have a hypothesis that the first two do not need.
Neither `KernelStack::Allocate` nor `AllocateStack` knows where its region ends.
`UserReachesItsOwn` is therefore about the states in which the user stacks have
not grown below `HK_USER_MIN`; of the images it assumes nothing, and the end of
the user half takes the place of `low`. Guard pages need more, because
`User::Load` accepts every segment of the lower half, also one that lies on the
stacks: `GuardsAreUnmapped` is stated for programs that are linked where
`HK_USER_IMAGE_BASE` puts them, below page `floor`, which is `low` here, with
nothing of `Initialize`'s in the regions of the stacks (`RoomAssumption`, on
constants), and for the states in which the stacks have not yet grown below
`floor` or above `ceiling` (`HasRoom`). With the addresses of `Config.h` and
`HK.h`, that is room for about two thousand million stacks. The `memory` run
assumes `RoomAssumption` of its instance and reaches stacks of both kinds with
room left.

**What runs and proofs share.** `NoStrandedEpilogue`, `InterruptsRestored`,
`ImplementsLevel`, `ImplementsFifo`, `Accounting`, `HandedOutUsable`, `OnePlace`,
`KeysAccounted`, `KilledNotDispatched`, `OwnKernelStack`,
`OwnUserStack`, `ReaderHasStatus`, `FramesOwned`, `CopyInSafe`, `UserOnlyItsOwn`
and `GuardsUnmapped` are checked by runs as well; so are, on instances of their
modules, `KeepsPromise`, `StreamInOrder`, `AccessedIsReserved` and `StartedLate`.
The others are left to the provers: the parts of the inductive invariants,
`MutualExclusion` (which `ImplementsLevel` contains), `OneHolder`, `SlotsApart`,
`SomeCoreAwake`, `CountBounded`, `SearchComplete`, `BitmapPlaced`, `OnlyRing3Killed` and
`NoSurvivor`.

**Assumptions.** The named assumptions of the modules, all on constants, which
TLC evaluates in the runs: `ASSUME`s of the components, or
(`MillisecondsAssumption`, `LayoutAssumption`, `WordsAssumption`,
`RoomAssumption`, `ScriptsAssumption`, `LoadersAssumption`, `MachinesAssumption`)
hypotheses of the theorems that the MC modules assume. In
Scheduling threads, the idle thread and the boot stack are different things; in
Frame ranges are made of natural numbers; in UserMemory sizes and borders are
whole pages, in the order of `Config.h` and `HK.h`, and the numbers in images and
buffers are words. Scripts are scan codes, none of which is a reply, and no core
is the free lock. A loader's tags lie in its structure, the last one is the end,
and what a flag or a tag announces is there. A machine's first processor is one
of its processors, and its tables are lists of entries; nothing is said about
which entries, how many, or in what order.

**Induction.** The library's induction rules cannot be used by the installed
provers. Where a definition recurs over the naturals (the due ticks of the
bells, the search for the bitmap's place, the addresses of the tags, the entries
of the APIC's table), the proofs go by a least
counterexample instead, from the well-foundedness of `<`.

**Model-checked only.** All liveness (out of the prover's reach, as is
ENABLED); `NoMissedWork`, on two cores; the refinements of OrderedQueues and AddressSpace, whose mappings
follow links through memory for as long as there are any; Heap (`Tiling`,
`NoLostSpace`), whose merge is a recursive operator, which the prover does not
take; Ps2Setup (`SetUp`, `NotDead`), for the bounds of its run; KeyStrokes
(`ModifiersTrue`, `GetKeyTrue`, `Recovers`), whose decoder is folded over the
bytes of a stroke and whose modifiers are powers of two; and TextWindow and UserWrites (`WindowsShowTheirTails`, `ResultTrue`), which fold
over the characters of a text.

## 6. Not modelled

* Memory ordering weaker than sequential consistency. Acquire and release are
  taken at face value.
* The register contents of contexts and interrupt frames, GDT, IDT and TSS
  layouts: data written once, with no order that another part depends on.
* PIC, PIT, CMOS, the calibration of the local APIC's timer: port sequences
  whose only effect on the models is a delay.
* Serial port, streams and number formatting, CGA attributes and the hardware
  cursor (no window is activated): output that no other part reads.
* The C library's strings, constructors and operator new's wrappers: sequential
  loops over their arguments. Heap stands for malloc.
* Processors without the NX bit (`Paging.cpp:110`), and heap sizes within a
  header of 2^64 (`Needed` wraps as the code does; the run uses smaller ones).
* Reboot: KeyStrokes has the chord that asks for it; what the machine then does
  is outside.
* The demonstration programs' text. Threads and tasks that print, sleep,
  compute, fault, exit or wait in any order stand for all of them.
* Interactions between the components of one grouped run (section 3), except
  where a module contains both sides.
