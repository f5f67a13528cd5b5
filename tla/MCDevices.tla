----------------------------- MODULE MCDevices ------------------------------
(* What the kernel finds and sets up at boot, and its console: Multiboot,     *)
(* Frame, SmpBoot with Acpi, Ps2Setup, Keyboard, KeyStrokes, and UserWrites   *)
(* with the windows.  They have no state in common, so what one of them does  *)
(* does not depend on the others, and it is enough to let one move while the  *)
(* others rest in an initial state: the states add up instead of multiplying. *)
(* Frame is extended: what is checked of it here is what BootProofs proves.   *)
EXTENDS Frame, SequencesExt

VARIABLES
    moves,      \* the component that moves
    \* Multiboot
    given, parsing, tag, s_Standard, s_CommandLine, s_BootLoaderName, s_AcpiRsdp, s_Framebuffer, map, s_Modules,
    \* SmpBoot
    machine, pc, CoreStackPointer, stack, alias, cr3, KernelPageTableRoot, s_IsBootstrapProcessor, idt, rsdp, apic,
    s_CoreIdByLapicId, s_CoreCount, s_OnlineCount, s_CoreOnline, registered, timerSet, readied, trampoline,
    \* Ps2Setup
    bus, setup, progress, attempt, toController, fromController, config, port, keyboard, pin, raised,
    typed, resends, timeouts,
    \* Keyboard
    toType, output, input, expects, lights, raw, rawLock, prologue, queued, epilogue, decoder, leds, decoded,
    overrun, giveUps,
    \* KeyStrokes
    strokes, lamps, pressed, locks, lost, last, rebooted,
    \* UserWrites
    screen, cursor, library, call, holder, printed, debugged

loader == <<given, parsing, tag, s_Standard, s_CommandLine, s_BootLoaderName, s_AcpiRsdp, s_Framebuffer, map, s_Modules>>
cores == <<machine, pc, CoreStackPointer, stack, alias, cr3, KernelPageTableRoot, s_IsBootstrapProcessor, idt, rsdp,
           apic, s_CoreIdByLapicId, s_CoreCount, s_OnlineCount, s_CoreOnline, registered, timerSet, readied, trampoline>>
controller == <<bus, setup, progress, attempt, toController, fromController, config, port, keyboard, pin, raised,
                typed, resends, timeouts>>
bytes == <<toType, output, input, expects, lights, raw, rawLock, prologue, queued, epilogue, decoder, leds, decoded,
           overrun, giveUps>>
keys == <<strokes, lamps, pressed, locks, lost, last, rebooted>>
writes == <<screen, cursor, library, call, holder, printed, debugged>>
-----------------------------------------------------------------------------
(* Multiboot: Multiboot2 handovers of three tags in every order, Multiboot1   *)
(* with every set of flags, and none.  16 and 8 bytes of header.              *)
String(type, size) == [type |-> type, size |-> size]
MapTag(entries, entrySize) ==
    [type |-> "MEMORY_MAP", size |-> 16 + entries * entrySize, entries |-> entries, entrySize |-> entrySize]
Kinds == {String("CMDLINE", 13), String("BOOT_LOADER_NAME", 9), String("MODULE", 21),
          String("ACPI_OLD", 28), String("ACPI_NEW", 44), String("FRAMEBUFFER", 31),
          String("BASIC_MEMINFO", 16), MapTag(2, 24), MapTag(2, 32), MapTag(0, 24)}

Total(tags) == FoldLeft(LAMBDA sum, t : sum + ((t.size + 7) \div 8) * 8, 8, tags)

V2(tags) == [magic |-> "V2", info |-> 64, tags |-> tags \o <<String("END", 8)>>,
             total |-> Total(tags \o <<String("END", 8)>>)]
V1(flags, stride, entries) ==
    [magic |-> "V1", info |-> 64, flags |-> flags, tags |-> <<>>,
     commandLine |-> IF "CMDLINE" \in flags THEN [start |-> 200, length |-> 5] ELSE [start |-> 0, length |-> 0],
     name |-> [start |-> 300, length |-> 5],
     map |-> [start |-> 400, stride |-> stride, length |-> stride * entries],
     modules |-> 3, moduleTable |-> 500]

MCHandovers ==
    {V2(tags) : tags \in [1 .. 3 -> Kinds]}
        \cup {V1(flags, stride, entries) : stride \in {24, 28}, entries \in {0, 2}, 
            flags \in SUBSET {"CMDLINE", "BOOT_LOADER_NAME", "MEMORY_MAP", "MODULES"}}
        \cup {[magic |-> "none", info |-> 0, tags |-> <<>>, total |-> 0]}

M == INSTANCE Multiboot WITH phase <- parsing, Handovers <- MCHandovers, MAX_MODULES <- 2, DIRECT_MAP_BASE <- 4096
ASSUME LoaderAssumption == M!LoadersAssumption
-----------------------------------------------------------------------------
(* Frame: memory maps of up to 13 frames of 2 bytes: unaligned, overlapping   *)
(* and unavailable regions, and structures and modules in the way.            *)
Region(start, end, available) == [start |-> start, end |-> end, available |-> available]

MCKernelRange == Span(4, 7)

Maps == {<<Region(0, 3, TRUE), Region(3, 26, TRUE)>>,
         <<Region(0, 11, TRUE), Region(11, 13, FALSE), Region(13, 25, TRUE)>>,
         <<Region(3, 13, TRUE), Region(10, 20, TRUE)>>,
         <<Region(0, 9, TRUE)>>}
Infos == {<<>>, <<Span(8, 9)>>, <<Span(7, 8), Span(5, 5)>>}
Modules == {<<>>, <<Span(10, 12)>>, <<Span(9, 17)>>}

MCBoots == [regions : Maps, info : Infos, modules : Modules]
-----------------------------------------------------------------------------
(* SmpBoot: three processors with sparse ids, an old and a new root pointer,  *)
(* broken copies of the tables, and machines that cannot boot.                *)
NoRootPointer == [revision |-> -1]
Lapic(id, enabled) == [type |-> "LOCAL_APIC", id |-> id, enabled |-> enabled]
IoApic(id, interrupts) == [type |-> "IO_APIC", id |-> id, interrupts |-> interrupts]
Override(source, interrupt) ==
    [type |-> "INTERRUPT_SOURCE_OVERRIDE", bus |-> 0, source |-> source, interrupt |-> interrupt]
Base == [type |-> "LOCAL_APIC_ADDRESS_OVERRIDE", address |-> 7]
Madt(entries, valid) == [signature |-> "APIC", valid |-> valid, base |-> 5, entries |-> entries]

Old(valid, rsdt) == [revision |-> 0, length |-> 0, sum20 |-> valid, sum |-> FALSE, rsdt |-> rsdt, xsdt |-> <<>>]
New(valid, rsdt, xsdt) == [revision |-> 2, length |-> 36, sum20 |-> TRUE, sum |-> valid, rsdt |-> rsdt, xsdt |-> xsdt]

Empty == [length |-> 64, rsdp |-> <<>>]
At(offset, r) == [length |-> 1024, rsdp |-> offset :> r]
Two(r1, r2) == [length |-> 1024, rsdp |-> (16 :> r1) @@ (48 :> r2)]

Tables2(ids, more) ==
    [good |-> Madt([n \in DOMAIN ids |-> Lapic(ids[n], TRUE)] \o more, TRUE),
     bad |-> Madt(<<Lapic(9, TRUE)>>, FALSE),
     other |-> [signature |-> "FACP", valid |-> TRUE]]

Machine(cpus, hint, ebda, bios, more, usable) ==
    [cpus |-> ToSet(cpus), bsp |-> Head(cpus), longMode |-> TRUE, hint |-> hint, ebda |-> ebda, bios |-> bios,
     tables |-> Tables2(Reverse(cpus), more), usable |-> usable]

Good == New(TRUE, <<"other">>, <<"other", "bad", "good">>)
Extras == <<Lapic(200, FALSE), IoApic(1, 0), IoApic(2, 24), Override(0, 2), Base>>

MCMachines ==
    {Machine(cpus, hint, ebda, bios, Extras, TRUE) :
        cpus \in {<<0, 4, 6>>, <<4, 0>>, <<3>>}, hint \in {Good}, ebda \in {Empty}, bios \in {Empty}}
    \cup {Machine(<<0, 4>>, hint, ebda, bios, Extras, TRUE) :
            hint \in {NoRootPointer, New(FALSE, <<>>, <<>>)},
            ebda \in {Empty, At(16, Old(FALSE, <<"bad">>))},
            bios \in {At(0, Old(TRUE, <<"bad", "good">>)), Two(Old(FALSE, <<>>), Good)}}
    \cup {Machine(<<0, 4>>, NoRootPointer, Empty, bios, Extras, FALSE) : bios \in {Empty, At(0, Old(TRUE, <<"bad">>))}}
    \cup {[Machine(<<0, 4>>, Good, Empty, Empty, Extras, FALSE) EXCEPT !.longMode = FALSE]}

S == INSTANCE SmpBoot WITH MAX_CORES <- 3, PINS <- {0, 1, 2}, Machines <- MCMachines

ASSUME BootAssumption == S!MachinesAssumption
-----------------------------------------------------------------------------
(* Ps2Setup: two keys typed, three bytes asked for again, timeouts at will.   *)
P == INSTANCE Ps2Setup WITH
    pc <- setup, phase <- progress, input <- toController, output <- fromController,
    ATTEMPTS <- 3, DRAIN_LIMIT <- 4, MAX_TYPED <- 2, MAX_RESENDS <- 3, MAX_TIMEOUTS <- 20

ASSUME ControllerAssumption == P!LimitsAssumption

(* Keyboard: Caps Lock (58) and right Ctrl (224 29), so that LED replies fall *)
(* between a prefix and its code.                                             *)
MCCores == {"c1", "c2"}
MCScripts == {<<58, 224, 29>>, <<58, 58>>, <<224, 29, 30>>}
K == INSTANCE Keyboard WITH Cores <- MCCores, Scripts <- MCScripts, SLOTS <- 4, BURST <- 2, GIVE_UPS <- 1

ASSUME KeyboardAssumption == K!ScriptsAssumption

(* KeyStrokes: all keys with every byte arriving, and fewer keys with bytes   *)
(* lost anywhere.                                                             *)
MCKeys == {"A", "KP_8", "UP", "DIVIDE", "DELETE", "LEFT_SHIFT", "RIGHT_SHIFT", "LEFT_CTRL", "RIGHT_CTRL",
           "LEFT_ALT", "RIGHT_ALT", "CAPS_LOCK", "NUM_LOCK", "PAUSE"}
A == INSTANCE KeyStrokes WITH decoder <- strokes, leds <- lamps, held <- pressed, Keys <- MCKeys, MAX_HELD <- 3, LOSSY <- FALSE

MCFewKeys == {"A", "LEFT_SHIFT", "LEFT_CTRL", "RIGHT_CTRL", "PAUSE"}
L == INSTANCE KeyStrokes WITH decoder <- strokes, leds <- lamps, held <- pressed, Keys <- MCFewKeys, MAX_HELD <- 2, LOSSY <- TRUE
-----------------------------------------------------------------------------
(* UserWrites: two tasks print into a window of two rows that scrolls, beside *)
(* a debug window on the same rows.  HK_WRITE_MAX cuts the longer buffers.    *)
Window(fromColumn, toColumn, toRow) ==
    [fromColumn |-> fromColumn, toColumn |-> toColumn, fromRow |-> 0, toRow |-> toRow]
Buffer(text, readable, handle) == [text |-> text, readable |-> readable, handle |-> handle]

MCBuffers == {
    Buffer(<<"a", "newline", "b">>, 3, 1),
    Buffer(<<"c", "d", "e", "f">>, 4, 1),
    Buffer(<<"c", "d", "e", "f">>, 3, 1),
    Buffer(<<"g", "newline", "h", "null", "i">>, 5, 1),
    Buffer(<<>>, 0, 1),
    Buffer(<<"j">>, 1, 2) }

W == INSTANCE UserWrites WITH
    ROWS <- 3, COLUMNS <- 5, Tasks <- {"t1", "t2"}, HK_WRITE_MAX <- 2, Buffers <- MCBuffers,
    USER <- Window(0, 2, 2), DEBUG <- Window(3, 5, 3),
    DebugText <- <<"x", "y", "z", "newline", "x">>
-----------------------------------------------------------------------------
MCInit ==
    /\ moves \in {"loader", "frames", "cores", "controller", "bytes", "keys", "lossy keys", "writes"}
    /\ given \in IF moves = "loader" THEN MCHandovers ELSE {CHOOSE h \in MCHandovers : h.magic = "none"}
    /\ boot \in IF moves = "frames" THEN MCBoots ELSE {CHOOSE b \in MCBoots : TRUE}
    /\ machine \in IF moves = "cores" THEN MCMachines ELSE {CHOOSE m \in MCMachines : TRUE}
    /\ toType \in IF moves = "bytes" THEN MCScripts ELSE {CHOOSE t \in MCScripts : TRUE}
    /\ P!Init
    /\ moves # "controller" =>
         bus = "8042" /\ fromController = <<>> /\ config = {} /\ ~keyboard.scanning
    /\ W!Init
    /\ moves # "writes" => \A t \in DOMAIN library : library[t].buffer.text = <<>>
    /\ M!Init /\ Init /\ S!Init /\ K!Init /\ A!Init

MCNext ==
    \/ moves = "loader" /\ M!Next /\ UNCHANGED <<moves, vars, cores, controller, bytes, keys, writes>>
    \/ moves = "frames" /\ Next /\ UNCHANGED <<moves, loader, cores, controller, bytes, keys, writes>>
    \/ moves = "cores" /\ S!Next /\ UNCHANGED <<moves, loader, vars, controller, bytes, keys, writes>>
    \/ moves = "controller" /\ P!Next /\ UNCHANGED <<moves, loader, vars, cores, bytes, keys, writes>>
    \/ moves = "bytes" /\ K!Next /\ UNCHANGED <<moves, loader, vars, cores, controller, keys, writes>>
    \/ moves = "keys" /\ A!Next /\ UNCHANGED <<moves, loader, vars, cores, controller, bytes, writes>>
    \/ moves = "lossy keys" /\ L!Next /\ UNCHANGED <<moves, loader, vars, cores, controller, bytes, writes>>
    \/ moves = "writes" /\ W!Next /\ UNCHANGED <<moves, loader, vars, cores, controller, bytes, keys>>

(* SmpBoot: a processor that is not stopped executes.                         *)
ProcessorsRun == \A c \in {0, 3, 4, 6} : WF_cores(moves = "cores" /\ c \in S!Cpus /\ S!Core(c))

(* Ps2Setup: the core runs, and a controller that is there takes its input.   *)
ControllerGoesOn ==
    /\ WF_controller(moves = "controller" /\ P!Initialize)
    /\ WF_controller(moves = "controller" /\ P!Device)

(* Keyboard: the line stays up until a core takes the interrupt; a core that  *)
(* has started goes on; the keyboard takes its input.                         *)
BytesMove ==
    /\ WF_bytes(moves = "bytes" /\ K!TakeInput)
    /\ WF_bytes(moves = "bytes" /\ \E c \in MCCores : K!Interrupt(c))
    /\ \A c \in MCCores :
        /\ WF_bytes(moves = "bytes" /\ (K!ReadByte(c) \/ K!ProduceByte(c) \/ K!PrologueEnd(c)))
        /\ WF_bytes(moves = "bytes" /\ K!PrologueLock(c))
        /\ WF_bytes(moves = "bytes" /\ K!EpilogueBegin(c))
    /\ WF_bytes(moves = "bytes" /\ K!FetchLock)
    /\ WF_bytes(moves = "bytes" /\ (K!FetchConsume \/ K!DecodeByte \/ K!SendCommand \/ K!SendParameter))

MCSpec ==
    /\ MCInit /\ [][MCNext]_<<moves, loader, vars, cores, controller, bytes, keys, writes>>
    /\ ProcessorsRun /\ ControllerGoesOn /\ BytesMove
-----------------------------------------------------------------------------
(* "Nothing here is copied out, so this memory has to stay reserved": what    *)
(* the accessors of map, modules and command line read is reserved.           *)
AccessedIsReserved == moves = "loader" => M!AccessedIsReserved

(* "Application processors are only started once the bootstrap processor has  *)
(* finished": what they read without a lock is there when they come.          *)
StartedLate == moves = "cores" => S!StartedLate

(* Every processor the firmware lists as enabled reaches the scheduler, also  *)
(* those that missed the first start-up interrupt.                            *)
AllComeUp == moves = "cores" => S!AllComeUp

(* The keyboard ends up scanning, its lamps off and its rate set, although    *)
(* answers come late, bytes are asked for again or keys are typed; only a     *)
(* repeated byte together with another disturbance may defeat it.             *)
SetUp == moves = "controller" => P!SetUp

(* Once the pin is open, a byte that waits in the controller is announced: one *)
(* that came while the pin was still masked is not forgotten, and the keyboard *)
(* does not go dead.                                                          *)
NotDead == moves = "controller" => P!NotDead

(* "hanging the kernel on absent hardware is not acceptable": Initialize ends *)
(* with no controller, a silent keyboard or one that answers late; only a     *)
(* controller that is there is taken to empty its input.                      *)
Returns == moves = "controller" => P!Returns

(* Unless the raw queue overran, the decoder gets every scan code once and in *)
(* order, whichever cores took the interrupts, and none of the replies.       *)
StreamInOrder == moves = "bytes" => K!StreamInOrder

(* Every byte the keyboard sends reaches the decoder or is counted as overrun: *)
(* no byte is left in the queue without an epilogue to fetch it.              *)
AllDecoded == moves = "bytes" => K!AllDecoded

(* After any sequence of keys, left and right Alt and Ctrl are told apart as  *)
(* the physical keys are, no key is taken for pressed that is up, the locks   *)
(* and their LEDs are as toggled, and Pause, which sends a Ctrl of its own,   *)
(* changes none of them.                                                      *)
ModifiersTrue == moves = "keys" => A!ModifiersTrue

(* What GetKey returns for a key, taken apart by the program: its code, the   *)
(* modifiers, and the character they make of it.  The keypad types digits     *)
(* under NumLock, an arrow types nothing there (without Shift), the keypad's  *)
(* divide key is a slash under Shift too; and no key is the invalid one.      *)
GetKeyTrue == moves = "keys" => A!GetKeyTrue

(* Whatever bytes were lost before, and wherever in a sequence, one tap of a  *)
(* modifier key releases its modifier and leaves no prefix behind: no lost    *)
(* byte leaves the decoder stuck.                                             *)
Recovers == moves = "lossy keys" => L!Recovers

\* What hk_write_all returns is what it printed: the characters a task got out
\* are a prefix of its buffer without gap or repetition, and a count returned
\* is the length of exactly that prefix, however the Writes were cut.
ResultTrue == moves = "writes" => W!ResultTrue

\* After every character, each window shows the last lines of everything ever
\* printed to it, wrapped at its own width, and nothing of its neighbour's,
\* although the two are drawn by different cores without a common lock.
WindowsShowTheirTails == moves = "writes" => W!WindowsShowTheirTails
=============================================================================
