------------------------------- MODULE Kernel -------------------------------
(***************************************************************************)
(* main (src/os/src/kernel/kernel.c): from what the boot loader hands over *)
(* to the prompt or to cpu_freeze.  The page tables (PageTable), the ACPI  *)
(* tables (Acpi) and the numbers printed (Digits) are followed here; the   *)
(* console, the interrupts and the timers have modules of their own.       *)
(***************************************************************************)
EXTENDS PageTable, Acpi, Digits

CONSTANTS
  Machines,   \* the machines checked, see MachineType
  LastNumber  \* the last number of the prompt's loop: 999

ASSUME KernelAssumption == LastNumber \in Nat

VARIABLES
  pc,
  i,           \* the loop's variable: a page, or a number
  pte,         \* the page tables
  acpi_tables,
  lapic_addr,
  msr,         \* IA32_APIC_BASE, from bit 12 up
  machine

vars == <<pc, i, pte, acpi_tables, lapic_addr, msr, machine>>

\* Its length is that of its tables; a MADT has a sequence of entries.
IsXsdt(xsdt) ==
  /\ DOMAIN xsdt.tables = 1 .. num_XSDT_entries(xsdt)
  /\ LET madt == get_acpi_table(xsdt, "APIC")
     IN madt # NULL =>
          /\ madt.lapic_address \in Nat
          /\ {madt.entries, madt.behind} \subseteq Seq([type : Nat, length : Nat])

\* A machine: its page tables and the pages of its frame buffer; the pointer to
\* the XSDP, which may be NULL; whether it has a local APIC, and where.
IsMachine(m) ==
  /\ m.tables \in Tables
  /\ m.first \in Pages /\ m.last \in m.first .. PageCount - 1
  /\ m.xsdp # NULL => IsXsdt(m.xsdp.xsdt)
  /\ m.apic \in BOOLEAN
  /\ m.base \in 0 .. PhysicalPages - 1

ASSUME MachinesAssumption == \A m \in Machines : IsMachine(m)

Framebuffer == machine.first .. machine.last

-----------------------------------------------------------------------------
(* main. *)

cpu_freeze == pc' = "frozen"

\* Faulty variant: one page too many.
InitializeVideoOneMore ==
  /\ pc = "initialize_video"
  /\ i' = i + 1
  /\ pte' = set_mem_page_flags(pte, i)
  /\ pc' = IF i = machine.last + 1 THEN "checks" ELSE pc
  /\ UNCHANGED <<acpi_tables, lapic_addr, msr, machine>>

\* initialize_video: for every byte of the frame buffer, of which those of one
\* page set the same flag, set_mem_page_flags.  What these calls do on the screen,
\* and the blank_output after them (vga.c:39), is in Vga.
InitializeVideo ==
  /\ pc = "initialize_video"
  /\ i' = i + 1
  /\ pte' = set_mem_page_flags(pte, i)
  /\ pc' = IF i = machine.last THEN "checks" ELSE pc
  /\ UNCHANGED <<acpi_tables, lapic_addr, msr, machine>>

\* Faulty variant: the checksum is looked at in version 1.0 only.
ValidXsdpEither(xsdp) == acpi_vcheck(xsdp) \/ acpi_ccheck(xsdp)

ValidXsdp(xsdp) == acpi_vcheck(xsdp) /\ acpi_ccheck(xsdp)

Checks ==
  /\ pc = "checks"
  /\ IF machine.xsdp = NULL THEN cpu_freeze
     ELSE IF ValidXsdp(machine.xsdp) THEN pc' = "acpi_init" ELSE cpu_freeze
  /\ UNCHANGED <<i, pte, acpi_tables, lapic_addr, msr, machine>>

\* The HPET's table may be missing.
acpi_init ==
  /\ pc = "acpi_init"
  /\ LET xsdt == machine.xsdp.xsdt
         tables == [FADT |-> get_acpi_table(xsdt, "FACP"),
                    HPET |-> get_acpi_table(xsdt, "HPET"),
                    MADT |-> get_acpi_table(xsdt, "APIC")]
     IN /\ acpi_tables' = tables
        /\ IF tables.FADT = NULL \/ tables.MADT = NULL
           THEN cpu_freeze ELSE pc' = "enable_lapic"
  /\ UNCHANGED <<i, pte, lapic_addr, msr, machine>>

\* check_apic; after the PICs, the address and the base register.
enable_lapic ==
  /\ pc = "enable_lapic"
  /\ IF ~machine.apic
     THEN cpu_freeze /\ UNCHANGED <<lapic_addr, msr>>
     ELSE /\ lapic_addr' = get_lapic_address_acpi(acpi_tables.MADT)
          /\ msr' = lapic_set_base(lapic_get_base(msr))
          /\ pc' = "enter_sysprompt"
  /\ i' = 0
  /\ UNCHANGED <<pte, acpi_tables, machine>>

\* A turn of the prompt's loop, which prints i.
enter_sysprompt ==
  /\ pc = "enter_sysprompt"
  /\ i' = i + 1
  /\ pc' = IF i = LastNumber THEN "hlt" ELSE pc
  /\ UNCHANGED <<pte, acpi_tables, lapic_addr, msr, machine>>

Halt == pc \in {"hlt", "frozen"} /\ UNCHANGED vars

Next ==
  InitializeVideo \/ Checks \/ acpi_init \/ enable_lapic \/ enter_sysprompt \/ Halt

Init ==
  /\ machine \in Machines
  /\ pc = "initialize_video"
  /\ i = machine.first
  /\ pte = machine.tables
  /\ acpi_tables = [FADT |-> NULL, HPET |-> NULL, MADT |-> NULL]
  /\ lapic_addr = 0
  /\ msr = machine.base

Spec == Init /\ [][Next]_vars

-----------------------------------------------------------------------------
(* Properties. *)

TypeOK ==
  /\ pc \in {"initialize_video", "checks", "acpi_init", "enable_lapic",
             "enter_sysprompt", "hlt", "frozen"}
  /\ i \in Nat
  /\ DOMAIN pte = Places
  /\ \A place \in Places : pte[place].hi \in Pages
  /\ DOMAIN acpi_tables = {"FADT", "HPET", "MADT"}
  /\ lapic_addr \in Nat \cup {InTheMadt}
  /\ msr \in Nat
  /\ IsMachine(machine)

\* No entry is changed but those that map pages of the frame buffer, whatever
\* the sizes of the pages around it (vga.c:27-31, mem.c:44-127).
OthersKept ==
  \A place \in Places :
    pte[place] # machine.tables[place] =>
      \E v \in Framebuffer : get_mem_page(machine.tables, v) = place

LargePages == \A v \in Framebuffer : ~IsSmall(machine.tables, v)

\* The firmware's page tables map every page to itself.
IdentityMapped == \A m \in Machines : \A v \in Pages : Frame(m.tables, v) = v

\* Where the frame buffer lies in large pages, every page stays where it was,
\* and when initialize_video is done the frame buffer has the PAT flag: although
\* the flag is set anew for every byte, through entries already changed.
MappedAsBefore ==
  LargePages =>
    /\ \A v \in Pages : Frame(pte, v) = v
    /\ pc # "initialize_video" => \A v \in Framebuffer : Pat(pte, v)

\* The kernel freezes if and only if it must: without an XSDP of version 2 or
\* later and of the right sum, without a FADT or a MADT, or without a local APIC.
Bootable ==
  /\ machine.xsdp # NULL
  /\ machine.xsdp.revision # 0
  /\ FoldLeft(LAMBDA a, b : a + b, 0, machine.xsdp.bytes) % 256 = 0
  /\ \A s \in {"FACP", "APIC"} : \E k \in DOMAIN machine.xsdp.xsdt.tables :
       machine.xsdp.xsdt.tables[k].signature = s
  /\ machine.apic

FreezesIfUnusable ==
  /\ pc = "frozen" => ~Bootable
  /\ pc \in {"enter_sysprompt", "hlt"} => Bootable

\* acpi.c:53, "LAPIC address save": what get_lapic_address answers is where the
\* local APIC's registers are, after its base was written back (apic.c:61).
LapicReached == pc \in {"enter_sysprompt", "hlt"} => lapic_addr = msr

\* The MADT's address of the local APIC is the one in its base register.
MadtTruthful ==
  \A m \in Machines :
    m.xsdp # NULL =>
      LET madt == get_acpi_table(m.xsdp.xsdt, "APIC")
      IN madt # NULL => madt.lapic_address = m.base

\* A machine of the usual kind: the walk over the MADT finds no override in it,
\* nor behind it, and the base is a multiple of 64 KiB.
UsualLapic ==
  /\ machine.base % 16 = 0
  /\ acpi_tables.MADT # NULL =>
       \A e \in Range(acpi_tables.MADT.entries \o acpi_tables.MADT.behind) :
         e.type # MADT_ENTRY_TYPE_LAPIC_ADDRESS_OVERRIDE

LapicReachedUsually == UsualLapic => LapicReached

\* The numbers printed have 16 bits, and the buffers room for those and a NUL.
NumbersFit ==
  /\ LastNumber < 65536
  /\ MaxDecDigits >= 6 /\ MaxHexDigits >= 5 /\ MaxBinDigits >= 18

\* The texts of the prompt's numbers, and of the same numbers in the other bases
\* and of the boot loader, are read as the numbers they are for.
NumbersRead ==
  pc = "enter_sysprompt" =>
    /\ Reads(kprint_num(i), 10, i) /\ Fits(kprint_num(i), MaxDecDigits)
    /\ Reads(kprint_hex(i), 16, i) /\ Fits(kprint_hex(i), MaxHexDigits)
    /\ Value(kprint_bin(i, 2), 2) = i /\ Fits(kprint_bin(i, 2), MaxBinDigits)
    /\ Reads(efi_printnum(i), 10, i) /\ Reads(efi_printhex(i), 16, i)

=============================================================================
