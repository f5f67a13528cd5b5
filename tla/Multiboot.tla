------------------------------ MODULE Multiboot ------------------------------
(* The boot loader's handover: Multiboot::Initialize with ParseV2, one tag a  *)
(* step, and ParseV1, the accessors, and GetInfoRegion, which tells the frame *)
(* allocator what must stay reserved.  Sizes and addresses are bytes.         *)
EXTENDS Integers, Sequences, FiniteSets

CONSTANTS
    Handovers,      \* what a loader may leave behind
    MAX_MODULES,    \* slots of s_Modules
    DIRECT_MAP_BASE

VARIABLES
    given,          \* MultibootMagic and MultibootInfo: the handover
    phase,          \* "start", "tags" or "done"
    tag,            \* address of the tag that ParseV2 looks at
    s_Standard,
    s_CommandLine, s_BootLoaderName, s_AcpiRsdp,    \* virtual addresses, or 0
    s_Framebuffer,  \* address of the tag it was copied from, or 0
    map,            \* s_MemoryMapEntries, s_MemoryMapEntrySize, s_MemoryRegionCount
    s_Modules       \* addresses of module tags or entries

vars == <<given, phase, tag, s_Standard, s_CommandLine, s_BootLoaderName, s_AcpiRsdp,
          s_Framebuffer, map, s_Modules>>

\* Sizes of the structures, and offsets into them.
INFO_HEADER == 8
TAG_HEADER == 8
MAP_HEADER == 16
V2_ENTRY == 24
V1_INFO == 52
V1_MODULE == 16
V1_ENTRY == 24

NoMap == [entries |-> 0, size |-> 0, count |-> 0]

Init ==
    /\ given \in Handovers
    /\ phase = "start" /\ tag = 0
    /\ s_Standard = "NONE"
    /\ s_CommandLine = 0 /\ s_BootLoaderName = 0 /\ s_AcpiRsdp = 0 /\ s_Framebuffer = 0
    /\ map = NoMap /\ s_Modules = <<>>
-----------------------------------------------------------------------------
\* Reachable, PointerTo: physical memory as the kernel sees it, in the direct map.
Reachable(physical) == IF physical # 0 THEN physical + DIRECT_MAP_BASE ELSE 0

\* The loader pads every tag to 8 bytes; the n-th one lies here.
Padded(size) == ((size + 7) \div 8) * 8
TagAddresses(h) ==
    LET at[n \in 1 .. Len(h.tags)] ==
            IF n = 1 THEN Reachable(h.info) + INFO_HEADER ELSE at[n - 1] + Padded(h.tags[n - 1].size)
    IN  at
TagAddress(h, n) == TagAddresses(h)[n]
TagsAt(h, a) == {n \in DOMAIN h.tags : TagAddress(h, n) = a}
Tag(a) == given.tags[CHOOSE n \in TagsAt(given, a) : TRUE]

\* What is known of a loader: its tags lie in the structure, the last one ends
\* it, and what a flag or a tag announces is there.
SmallestTag(type) ==
    CASE type \in {"CMDLINE", "ACPI_OLD", "ACPI_NEW"} -> TAG_HEADER + 1
      [] type \in {"MODULE", "MEMORY_MAP"} -> MAP_HEADER
      [] OTHER -> TAG_HEADER
GoodTag(t) ==
    /\ t.size \in Nat /\ t.size >= SmallestTag(t.type)
    /\ t.type = "MEMORY_MAP" => t.entrySize \in Nat /\ t.entrySize >= V2_ENTRY
GoodV2(h) ==
    /\ h.info \in Nat \ {0} /\ h.info % 8 = 0 /\ h.total \in Nat
    /\ Len(h.tags) \in Nat \ {0} /\ DOMAIN h.tags = 1 .. Len(h.tags) /\ h.tags[Len(h.tags)].type = "END"
    /\ \A n \in DOMAIN h.tags : GoodTag(h.tags[n]) /\ TagAddress(h, n) + h.tags[n].size <= Reachable(h.info) + h.total
GoodV1(h) ==
    /\ "MEMORY_MAP" \in h.flags =>
           h.map.start \in Nat \ {0} /\ h.map.length \in Nat /\ h.map.stride \in Nat /\ h.map.stride >= V1_ENTRY
    /\ "MODULES" \in h.flags => h.modules \in Nat /\ h.moduleTable \in Nat \ {0}
    /\ "CMDLINE" \in h.flags =>
           h.commandLine.start \in Nat /\ (h.commandLine.start # 0 => h.commandLine.length \in Nat \ {0})
LoadersAssumption ==
    /\ DIRECT_MAP_BASE \in Nat /\ DIRECT_MAP_BASE % 8 = 0 /\ MAX_MODULES \in Nat
    /\ \A h \in Handovers : (h.magic = "V2" => GoodV2(h)) /\ (h.magic = "V1" => GoodV1(h))

\* Tag::Next.
NextTag(a) == Padded(a + Tag(a).size)

InitializeV2 ==
    /\ phase = "start" /\ given.magic = "V2"
    /\ s_Standard' = "V2"
    /\ phase' = "tags" /\ tag' = Reachable(given.info) + INFO_HEADER
    /\ UNCHANGED <<given, s_CommandLine, s_BootLoaderName, s_AcpiRsdp, s_Framebuffer, map, s_Modules>>

AtTag(type) == phase = "tags" /\ tag < Reachable(given.info) + given.total /\ Tag(tag).type = type
Go == tag' = NextTag(tag) /\ UNCHANGED <<given, phase, s_Standard>>

CommandLineTag ==
    /\ AtTag("CMDLINE") /\ Go
    /\ s_CommandLine' = tag + TAG_HEADER
    /\ UNCHANGED <<s_BootLoaderName, s_AcpiRsdp, s_Framebuffer, map, s_Modules>>

LoaderNameTag ==
    /\ AtTag("BOOT_LOADER_NAME") /\ Go
    /\ s_BootLoaderName' = tag + TAG_HEADER
    /\ UNCHANGED <<s_CommandLine, s_AcpiRsdp, s_Framebuffer, map, s_Modules>>

HasSlot(modules) == Len(modules) < MAX_MODULES

ModuleTag ==
    /\ AtTag("MODULE") /\ Go
    /\ s_Modules' = IF HasSlot(s_Modules) THEN Append(s_Modules, tag) ELSE s_Modules
    /\ UNCHANGED <<s_CommandLine, s_BootLoaderName, s_AcpiRsdp, s_Framebuffer, map>>

EntrySize(t) == t.entrySize

MemoryMapTag ==
    /\ AtTag("MEMORY_MAP") /\ Go
    /\ map' = [entries |-> tag + MAP_HEADER, size |-> EntrySize(Tag(tag)),
               count |-> (Tag(tag).size - MAP_HEADER) \div EntrySize(Tag(tag))]
    /\ UNCHANGED <<s_CommandLine, s_BootLoaderName, s_AcpiRsdp, s_Framebuffer, s_Modules>>

\* The RSDP of ACPI 2.0 wins over the old one, wherever it comes.
TakesRsdp(type) == s_AcpiRsdp = 0 \/ type = "ACPI_NEW"

AcpiTag ==
    /\ AtTag("ACPI_OLD") \/ AtTag("ACPI_NEW")
    /\ Go
    /\ s_AcpiRsdp' = IF TakesRsdp(Tag(tag).type) THEN tag + TAG_HEADER ELSE s_AcpiRsdp
    /\ UNCHANGED <<s_CommandLine, s_BootLoaderName, s_Framebuffer, map, s_Modules>>

FramebufferTag ==
    /\ AtTag("FRAMEBUFFER") /\ Go
    /\ s_Framebuffer' = tag
    /\ UNCHANGED <<s_CommandLine, s_BootLoaderName, s_AcpiRsdp, map, s_Modules>>

OtherTag ==
    /\ AtTag("BASIC_MEMINFO") /\ Go
    /\ UNCHANGED <<s_CommandLine, s_BootLoaderName, s_AcpiRsdp, s_Framebuffer, map, s_Modules>>

EndTag ==
    /\ phase = "tags" /\ (tag >= Reachable(given.info) + given.total \/ Tag(tag).type = "END")
    /\ phase' = "done"
    /\ UNCHANGED <<given, tag, s_Standard, s_CommandLine, s_BootLoaderName, s_AcpiRsdp, s_Framebuffer, map, s_Modules>>
-----------------------------------------------------------------------------
\* ParseV1: one structure with pointers; the map's entries are taken to be alike.
ParseV1 ==
    /\ phase = "start" /\ given.magic = "V1"
    /\ s_Standard' = "V1" /\ phase' = "done"
    /\ s_CommandLine' = IF "CMDLINE" \in given.flags THEN Reachable(given.commandLine.start) ELSE 0
    /\ s_BootLoaderName' = IF "BOOT_LOADER_NAME" \in given.flags THEN Reachable(given.name.start) ELSE 0
    /\ map' = IF "MEMORY_MAP" \in given.flags /\ given.map.length >= V1_ENTRY
              THEN [entries |-> Reachable(given.map.start), size |-> given.map.stride,
                    count |-> given.map.length \div given.map.stride]
              ELSE NoMap
    /\ s_Modules' = IF "MODULES" \in given.flags
                    THEN [n \in 1 .. (IF given.modules < MAX_MODULES THEN given.modules ELSE MAX_MODULES) |->
                            Reachable(given.moduleTable) + (n - 1) * V1_MODULE]
                    ELSE <<>>
    /\ UNCHANGED <<given, tag, s_AcpiRsdp, s_Framebuffer>>

NotMultiboot ==
    /\ phase = "start" /\ given.magic \notin {"V1", "V2"}
    /\ phase' = "done"
    /\ UNCHANGED <<given, tag, s_Standard, s_CommandLine, s_BootLoaderName, s_AcpiRsdp, s_Framebuffer, map, s_Modules>>

Next ==
    \/ InitializeV2 \/ CommandLineTag \/ LoaderNameTag \/ ModuleTag \/ MemoryMapTag \/ AcpiTag
    \/ FramebufferTag \/ OtherTag \/ EndTag \/ ParseV1 \/ NotMultiboot

Spec == Init /\ [][Next]_vars
-----------------------------------------------------------------------------
\* Address of the record that GetMemoryRegion reads for an index.
GetMemoryRegion(i) == map.entries + i * map.size

\* GetInfoRegion, all indices: what the frame allocator keeps reserved.
Described(start, length) == IF start # 0 /\ length # 0 THEN {[start |-> start, length |-> length]} ELSE {}
InfoRegionsV1Short ==
    Described(given.info, V1_INFO) \cup Described(given.commandLine.start, given.commandLine.length)
InfoRegionsV1 ==
    Described(given.info, V1_INFO)
        \cup Described(given.map.start, given.map.length)
        \cup Described(given.moduleTable, given.modules * V1_MODULE)
        \cup Described(given.commandLine.start, IF s_CommandLine # 0 THEN given.commandLine.length ELSE 0)
InfoRegions ==
    CASE s_Standard = "NONE" -> {}
      [] s_Standard = "V2" -> Described(given.info, given.total)
      [] s_Standard = "V1" -> InfoRegionsV1

\* The memory behind a virtual address is reserved.
Reserved(address, length) ==
    \E r \in InfoRegions :
        r.start + DIRECT_MAP_BASE <= address /\ address + length <= r.start + r.length + DIRECT_MAP_BASE
-----------------------------------------------------------------------------
(* "Nothing here is copied out, so this memory has to stay reserved": what    *)
(* the accessors of map, modules and command line read is reserved.           *)
AccessedIsReserved ==
    phase = "done" =>
        /\ \A i \in 0 .. map.count - 1 : Reserved(GetMemoryRegion(i), V2_ENTRY)
        /\ \A n \in DOMAIN s_Modules : Reserved(s_Modules[n], V1_MODULE)
        /\ s_CommandLine # 0 =>
             Reserved(s_CommandLine, IF s_Standard = "V1" THEN given.commandLine.length ELSE 1)
        /\ s_AcpiRsdp # 0 => Reserved(s_AcpiRsdp, 1)
=============================================================================
