-------------------------------- MODULE Acpi --------------------------------
(***************************************************************************)
(* The ACPI tables as the kernel reads them (src/os/src/cpu/acpi.c), and   *)
(* the base address of the local APIC (src/os/src/cpu/apic.c).             *)
(*                                                                         *)
(* A table is a record with its signature; the XSDT is the sequence of the *)
(* tables it points to.  The MADT's entries are a sequence of records too, *)
(* each with its type and length, and for an address override its value;   *)
(* the walk takes what lies in memory behind them for more of them.        *)
(***************************************************************************)
EXTENDS Integers, Sequences, FiniteSetsExt, SequencesExt

CONSTANT
  PhysicalPages  \* the 4 KiB pages that an address can name: 2^24 in the machine

ASSUME AcpiAssumption == PhysicalPages \in Nat \ {0}

NULL == [signature |-> "NULL"]

MADT_ENTRY_TYPE_LAPIC_ADDRESS_OVERRIDE == 5

HeaderLength == 36
MadtHeader == 44    \* sizeof(madt_t), the offset of the first entry

-----------------------------------------------------------------------------
(* The checks of the XSDP, and the search in the XSDT. *)

acpi_vcheck(xsdp) == xsdp.revision # 0

acpi_ccheck(xsdp) == FoldLeft(LAMBDA a, b : a + b, 0, xsdp.bytes) % 256 = 0

\* The length counts the header and eight bytes for each table.
num_XSDT_entries(xsdt) == (xsdt.length - HeaderLength) \div 8

get_acpi_table(xsdt, signature) ==
  LET found == {i \in 1 .. num_XSDT_entries(xsdt) : xsdt.tables[i].signature = signature}
  IN IF found = {} THEN NULL ELSE xsdt.tables[Min(found)]

-----------------------------------------------------------------------------
(* The walk over the MADT. *)

LengthsOf(entries) == FoldLeft(LAMBDA a, e : a + e.length, 0, entries)

Offset(entries, k) == MadtHeader + LengthsOf(SubSeq(entries, 1, k - 1))

\* The bound adds the length to a pointer to madt_t (acpi.c:112).
WalkBound(madt) == MadtHeader * madt.length

\* The number of the first entry of the type, or 0: the walk ends there, at a
\* length of zero and past its bound.
get_madt_entry(madt, type) ==
  LET memory == madt.entries \o madt.behind
      stops == {k \in DOMAIN memory :
                  \/ Offset(memory, k) > WalkBound(madt)
                  \/ memory[k].type = type
                  \/ memory[k].length = 0}
      k == Min(stops)
  IN IF stops = {} \/ Offset(memory, k) > WalkBound(madt) \/ memory[k].type # type
     THEN 0 ELSE k

\* Where the MADT is, in units of 4 KiB as all addresses: not at a local APIC.
InTheMadt == -1

\* acpi.c:53-61 and 126-131: of an override, the address of its field.
get_lapic_address_acpi(madt) ==
  IF get_madt_entry(madt, MADT_ENTRY_TYPE_LAPIC_ADDRESS_OVERRIDE) = 0
  THEN madt.lapic_address ELSE InTheMadt

-----------------------------------------------------------------------------
(* The base address register of the local APIC, from bit 12 up. *)

lapic_get_base(msr) == msr % PhysicalPages

\* Faulty variant: a mask one more digit too short.
KeptShort(base) == (base \div 256) * 256

\* The mask 0xfffff0000, and 32 bits of it, lacks a digit at its end (apic.c:28).
Kept(base) == (base \div 16) * 16

lapic_set_base(base) == Kept(base)

=============================================================================
