-------------------------------- MODULE Acpi --------------------------------
(* The firmware's tables: how Acpi::Initialize finds the root pointer, how a  *)
(* table is looked up, and what Apic::Initialize takes from the MADT.  A      *)
(* checksum is kept as its verdict; an address is a key of machine.tables.    *)
EXTENDS Integers, Sequences

CONSTANTS
    MAX_CORES,
    PINS            \* entries of s_PinMap

SIZEOF_RSDP == 36
INVALID_ID == 255
NoRsdp == [revision |-> -1]
NoTable == [signature |-> "none"]

\* The loops below go up and stop at the first that fits, or keep the last.
First(numbers) == CHOOSE n \in numbers : \A m \in numbers : n <= m
Last(numbers) == CHOOSE n \in numbers : \A m \in numbers : m <= n

\* sum20 and sum: the bytes sum to zero over the first 20, over Length.
IsValidRsdp(r) == IF r.revision = 0 THEN r.sum20 ELSE r.length > 20 /\ r.sum

\* An area maps the offsets where "RSD PTR " stands to what follows.
Scan(area) ==
    LET offsets == {o \in DOMAIN area.rsdp :
                        o % 16 = 0 /\ o + SIZEOF_RSDP <= area.length /\ IsValidRsdp(area.rsdp[o])}
    IN  IF offsets = {} THEN NoRsdp ELSE area.rsdp[First(offsets)]

\* Acpi::Initialize: the loader's hint, the EBDA, the BIOS area.
FindRsdp(machine) ==
    IF machine.hint # NoRsdp /\ IsValidRsdp(machine.hint) THEN machine.hint
    ELSE IF Scan(machine.ebda) # NoRsdp THEN Scan(machine.ebda)
    ELSE Scan(machine.bios)

\* s_Xsdt if there is one, else s_Rsdt: the addresses of the tables.
RootEntries(rsdp) ==
    IF rsdp.revision # 0 /\ rsdp.length >= 36 /\ rsdp.xsdt # <<>> THEN rsdp.xsdt ELSE rsdp.rsdt

\* Get: by index, nothing where the checksum fails; by signature, the first.
GetIndex(machine, address) ==
    IF machine.tables[address].valid THEN machine.tables[address] ELSE NoTable
Get(machine, rsdp, signature) ==
    LET entries == RootEntries(rsdp)
        match == {i \in DOMAIN entries : GetIndex(machine, entries[i]).signature = signature}
    IN  IF match = {} THEN NoTable ELSE GetIndex(machine, entries[First(match)])
-----------------------------------------------------------------------------
\* What Apic::Initialize starts from, and what each MADT entry adds to it.
ApicFresh(madt) ==
    [base |-> madt.base, ids |-> <<>>, ioApic |-> [id |-> 0, interrupts |-> 0],
     pins |-> [irq \in PINS |-> irq]]

IsCounted(apic, entry) == entry.enabled /\ entry.id # INVALID_ID /\ Len(apic.ids) < MAX_CORES
LocalApicEntry(apic, entry) == IF IsCounted(apic, entry) THEN [apic EXCEPT !.ids = Append(@, entry.id)] ELSE apic

IoApicEntry(apic, entry) ==
    IF entry.interrupts > 23 THEN apic
    ELSE [apic EXCEPT !.ioApic = [id |-> entry.id, interrupts |-> entry.interrupts]]

\* s_PinMap holds bytes.
OverrideEntry(apic, entry) ==
    IF entry.bus = 0 /\ entry.source \in PINS
    THEN [apic EXCEPT !.pins[entry.source] = entry.interrupt % 256] ELSE apic

MadtEntry(apic, entry) ==
    CASE entry.type = "LOCAL_APIC" -> LocalApicEntry(apic, entry)
      [] entry.type = "IO_APIC" -> IoApicEntry(apic, entry)
      [] entry.type = "INTERRUPT_SOURCE_OVERRIDE" -> OverrideEntry(apic, entry)
      [] entry.type = "LOCAL_APIC_ADDRESS_OVERRIDE" -> [apic EXCEPT !.base = entry.address]
      [] OTHER -> apic

\* Apic::Initialize, entry by entry; it fails without a table and without a processor.
ApicAfter(madt) ==
    LET after[n \in 0 .. Len(madt.entries)] ==
            IF n = 0 THEN ApicFresh(madt) ELSE MadtEntry(after[n - 1], madt.entries[n])
    IN  after
ApicInitialize(madt) == ApicAfter(madt)[Len(madt.entries)]

\* What is known of the firmware: addresses in lists, offsets from zero on.
FirmwareAssumption(machine) ==
    LET areas == {machine.ebda, machine.bios}
        roots == {machine.hint} \cup UNION {{area.rsdp[o] : o \in DOMAIN area.rsdp} : area \in areas}
    IN  /\ \A area \in areas : DOMAIN area.rsdp \subseteq Nat
        /\ \A r \in roots \ {NoRsdp} : r.rsdt \in Seq(DOMAIN machine.tables) /\ r.xsdt \in Seq(DOMAIN machine.tables)
        /\ \A a \in DOMAIN machine.tables :
             LET t == machine.tables[a] IN t.signature = "APIC" => t.entries \in Seq({t.entries[n] : n \in DOMAIN t.entries})

\* GetLocalApicId and GetLogicalApicId, of a core number.
GetLocalApicId(apic, core) == IF core < Len(apic.ids) THEN apic.ids[core + 1] ELSE INVALID_ID
GetLogicalApicId(core) == IF core < MAX_CORES THEN 2 ^ core ELSE 0
=============================================================================
