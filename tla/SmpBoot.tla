------------------------------- MODULE SmpBoot -------------------------------
(* From reset to the scheduler, on every processor: Entry.asm, LongMode.asm,  *)
(* KernelInit, Cpu::Initialize, Main, and SmpBoot::Boot, which starts the     *)
(* others with INIT and two start-up interrupts while they may already run.   *)
EXTENDS Acpi, FiniteSets

CONSTANTS
    Machines        \* processors and firmware: [cpus, bsp, longMode, hint, ebda, bios, tables]

MachinesAssumption == MAX_CORES \in Nat /\ \A m \in Machines : m.bsp \in m.cpus /\ FirmwareAssumption(m)

VARIABLES
    machine,
    pc,             \* per processor (by LAPIC id): where it is
    CoreStackPointer,   \* slices of s_CoreStacks handed out
    stack,          \* per processor: its slice, or -1
    alias,          \* per processor: "load" or "kernel", the addresses rsp uses
    cr3,            \* per processor: page tables, "none", "boot" or "kernel"
    KernelPageTableRoot,    \* published by Paging::Initialize
    s_IsBootstrapProcessor,
    idt,            \* InstallHandlers has filled the table
    rsdp, apic,     \* s_Rsdp; what Apic::Initialize found
    s_CoreIdByLapicId, s_CoreCount, s_OnlineCount, s_CoreOnline,
    registered,     \* per processor: id and logical id it set itself up with
    timerSet,       \* s_Counter holds the measured interval
    readied,        \* the first threads are in the ready list
    trampoline      \* RelocateTrampoline has run

boot == <<CoreStackPointer, stack, alias, cr3>>
firmware == <<rsdp, apic>>
cpu == <<s_CoreIdByLapicId, s_CoreCount, s_OnlineCount, s_CoreOnline, registered>>
started == <<idt, timerSet, readied, trampoline, KernelPageTableRoot>>
vars == <<machine, pc, s_IsBootstrapProcessor, boot, firmware, cpu, started>>

Cpus == machine.cpus
NotRegistered == [id |-> -1, logical |-> 0]

Init ==
    /\ machine \in Machines
    /\ pc = [c \in machine.cpus |-> IF c = machine.bsp THEN "segment" ELSE "off"]
    /\ CoreStackPointer = 0 /\ stack = [c \in machine.cpus |-> -1]
    /\ alias = [c \in machine.cpus |-> "load"]
    /\ cr3 = [c \in machine.cpus |-> "none"]
    /\ KernelPageTableRoot = FALSE
    /\ s_IsBootstrapProcessor = TRUE
    /\ idt = FALSE /\ rsdp = NoRsdp /\ apic = [ids |-> <<>>]
    /\ s_CoreIdByLapicId = [l \in 0 .. INVALID_ID |-> 0] /\ s_CoreCount = 0
    /\ s_OnlineCount = 0 /\ s_CoreOnline = {}
    /\ registered = [c \in machine.cpus |-> NotRegistered]
    /\ timerSet = FALSE /\ readied = FALSE /\ trampoline = FALSE

Step(c, from, to) == pc[c] = from /\ pc' = [pc EXCEPT ![c] = to] /\ UNCHANGED machine
-----------------------------------------------------------------------------
\* ApTrampolineStart and StartupAp: real mode to the path all share.
ApTrampoline(c) ==
    /\ trampoline
    /\ Step(c, "trampoline", "segment")
    /\ UNCHANGED <<s_IsBootstrapProcessor, boot, firmware, cpu, started>>

\* SegmentInit: a slice of the boot stacks, by lock xadd.
Claimed == CoreStackPointer + 1
SegmentInit(c) ==
    /\ Step(c, "segment", "long_mode")
    /\ stack' = [stack EXCEPT ![c] = CoreStackPointer]
    /\ CoreStackPointer' = Claimed
    /\ UNCHANGED <<alias, cr3, s_IsBootstrapProcessor, firmware, cpu, started>>

\* CheckCpuidSupported, CheckLongMode: too old a processor stops for good.
NoLongMode(c) ==
    /\ ~machine.longMode
    /\ Step(c, "long_mode", "halted")
    /\ UNCHANGED <<s_IsBootstrapProcessor, boot, firmware, cpu, started>>

\* SetupPaging, EnablePaging: the kernel's tables once they are published.
TablesBoot == "boot"
Tables == IF KernelPageTableRoot THEN "kernel" ELSE "boot"
SetupPaging(c) ==
    /\ machine.longMode
    /\ Step(c, "long_mode", "64_bit")
    /\ cr3' = [cr3 EXCEPT ![c] = Tables]
    /\ UNCHANGED <<CoreStackPointer, stack, alias, s_IsBootstrapProcessor, firmware, cpu, started>>

\* LongModeStart: rsp moves to the kernel's half, then KernelInit is called.
LongModeStart(c) ==
    /\ Step(c, "64_bit", "init")
    /\ alias' = [alias EXCEPT ![c] = "kernel"]
    /\ UNCHANGED <<CoreStackPointer, stack, cr3, s_IsBootstrapProcessor, firmware, cpu, started>>
-----------------------------------------------------------------------------
\* KernelInit on the first processor: Multiboot, InstallHandlers, the PIC.
KernelInit_Bsp(c) ==
    /\ s_IsBootstrapProcessor
    /\ Step(c, "init", "acpi")
    /\ s_IsBootstrapProcessor' = FALSE
    /\ idt' = TRUE
    /\ UNCHANGED <<boot, firmware, cpu, timerSet, readied, trampoline, KernelPageTableRoot>>

AcpiInitialize(c) ==
    /\ pc[c] = "acpi"
    /\ rsdp' = FindRsdp(machine)
    /\ pc' = [pc EXCEPT ![c] = IF rsdp' = NoRsdp THEN "dead" ELSE "apic"]
    /\ UNCHANGED <<machine, s_IsBootstrapProcessor, boot, apic, cpu, started>>

ApicInitializeStep(c) ==
    LET madt == Get(machine, rsdp, "APIC")
    IN  /\ pc[c] = "apic"
        /\ apic' = IF madt = NoTable THEN apic ELSE ApicInitialize(madt)
        /\ pc' = [pc EXCEPT ![c] = IF apic'.ids = <<>> THEN "dead" ELSE "cpu"]
        /\ UNCHANGED <<machine, s_IsBootstrapProcessor, boot, rsdp, cpu, started>>

\* The other processors: Idt::Load.
KernelInit_Ap(c) ==
    /\ ~s_IsBootstrapProcessor
    /\ Step(c, "init", "cpu")
    /\ UNCHANGED <<s_IsBootstrapProcessor, boot, firmware, cpu, started>>

\* Cpu::Initialize: who counts first fills the table of core numbers.
CpuInitialize_Count(c) ==
    /\ Step(c, "cpu", IF s_OnlineCount = 0 THEN "table" ELSE "register")
    /\ s_OnlineCount' = s_OnlineCount + 1
    /\ UNCHANGED <<s_CoreIdByLapicId, s_CoreCount, s_CoreOnline, registered, s_IsBootstrapProcessor,
                   boot, firmware, started>>

CpuInitialize_Table(c) ==
    /\ Step(c, "table", "register")
    /\ s_CoreIdByLapicId' =
         [l \in DOMAIN s_CoreIdByLapicId |->
            LET cores == {n \in 0 .. MAX_CORES - 1 : GetLocalApicId(apic, n) = l}
            IN  IF l # INVALID_ID /\ cores # {} THEN Last(cores) ELSE s_CoreIdByLapicId[l]]
    /\ s_CoreCount' = Cardinality({n \in 0 .. MAX_CORES - 1 : GetLocalApicId(apic, n) # INVALID_ID})
    /\ UNCHANGED <<s_OnlineCount, s_CoreOnline, registered, s_IsBootstrapProcessor, boot, firmware, started>>

\* LocalApic::Initialize, LoadTaskRegister, Syscall::Initialize, all by GetId.
CpuInitialize_Register(c) ==
    LET id == s_CoreIdByLapicId[c]
    IN  /\ Step(c, "register", IF c = machine.bsp THEN "main" ELSE "main_ap")
        /\ registered' = [registered EXCEPT ![c] = [id |-> id, logical |-> GetLogicalApicId(id)]]
        /\ s_CoreOnline' = s_CoreOnline \cup {id}
        /\ UNCHANGED <<s_CoreIdByLapicId, s_CoreCount, s_OnlineCount, s_IsBootstrapProcessor, boot, firmware, started>>

\* Main: Paging::Initialize publishes and loads the kernel's tables, then the
\* devices, the timer's measurement, and the first threads.
Main_Paging(c) ==
    /\ Step(c, "main", "devices")
    /\ KernelPageTableRoot' = TRUE
    /\ cr3' = [cr3 EXCEPT ![c] = "kernel"]
    /\ UNCHANGED <<CoreStackPointer, stack, alias, s_IsBootstrapProcessor, firmware, cpu, idt, timerSet, readied, trampoline>>

Main_Devices(c) ==
    /\ Step(c, "devices", "boot")
    /\ timerSet' = TRUE /\ readied' = TRUE
    /\ UNCHANGED <<s_IsBootstrapProcessor, boot, firmware, cpu, idt, trampoline, KernelPageTableRoot>>

\* SmpBoot::Boot.  SendInit and SendStartup reach all but the sender.
Others(c) == Cpus \ {c}
HasOthers == s_CoreCount > 1

BootAlone(c) ==
    /\ ~HasOthers
    /\ Step(c, "boot", "main_ap")
    /\ UNCHANGED <<s_IsBootstrapProcessor, boot, firmware, cpu, started>>

SendInit(c) ==
    /\ HasOthers /\ pc[c] = "boot"
    /\ trampoline' = TRUE
    /\ pc' = [d \in Cpus |-> IF d = c THEN "first_startup" ELSE "wait"]
    /\ UNCHANGED <<machine, s_IsBootstrapProcessor, boot, firmware, cpu, idt, timerSet, readied, KernelPageTableRoot>>

\* A waiting processor starts; one that runs ignores the interrupt.
Woken(c, heard, to) ==
    [d \in Cpus |-> IF d = c THEN to ELSE IF d \in heard /\ pc[d] = "wait" THEN "trampoline" ELSE pc[d]]

\* "chips that drop the first one": any of them may.
SendStartup_First(c) ==
    /\ pc[c] = "first_startup"
    /\ \E heard \in SUBSET Others(c) : pc' = Woken(c, heard, "second_startup")
    /\ UNCHANGED <<machine, s_IsBootstrapProcessor, boot, firmware, cpu, started>>

SecondHeardByNone(c) == {}
SecondHeard(c) == Others(c)
SendStartup_Second(c) ==
    /\ pc[c] = "second_startup"
    /\ pc' = Woken(c, SecondHeard(c), "main_ap")
    /\ UNCHANGED <<machine, s_IsBootstrapProcessor, boot, firmware, cpu, started>>

\* MainAp: Timer::Activate, then Schedule, which does not return.
MainAp(c) ==
    /\ Step(c, "main_ap", "running")
    /\ UNCHANGED <<s_IsBootstrapProcessor, boot, firmware, cpu, started>>

Core(c) ==
    \/ ApTrampoline(c) \/ SegmentInit(c) \/ NoLongMode(c) \/ SetupPaging(c) \/ LongModeStart(c)
    \/ KernelInit_Bsp(c) \/ AcpiInitialize(c) \/ ApicInitializeStep(c) \/ KernelInit_Ap(c)
    \/ CpuInitialize_Count(c) \/ CpuInitialize_Table(c) \/ CpuInitialize_Register(c)
    \/ Main_Paging(c) \/ Main_Devices(c)
    \/ BootAlone(c) \/ SendInit(c) \/ SendStartup_First(c) \/ SendStartup_Second(c) \/ MainAp(c)

Next == \E c \in Cpus : Core(c)

Spec == Init /\ [][Next]_vars
-----------------------------------------------------------------------------
InC(c) == pc[c] \notin {"off", "wait", "trampoline", "segment", "long_mode", "64_bit", "halted"}

(* "Application processors are only started once the bootstrap processor has  *)
(* finished": what they read without a lock is there when they come.          *)
StartedLate ==
    \A c \in Cpus \ {machine.bsp} :
        pc[c] \notin {"off", "wait"} =>
            /\ trampoline /\ KernelPageTableRoot /\ idt /\ timerSet /\ readied
            /\ ~s_IsBootstrapProcessor
            /\ s_CoreCount = Len(apic.ids) /\ s_OnlineCount > 0
            /\ InC(c) => cr3[c] = "kernel"

Listed(c) == \E n \in DOMAIN apic.ids : apic.ids[n] = c

(* Every processor the firmware lists as enabled reaches the scheduler, also  *)
(* those that missed the first start-up interrupt.                            *)
AllComeUp ==
    machine.usable /\ machine.longMode ~> \A c \in Cpus : Listed(c) /\ pc[c] = "running"
=============================================================================
