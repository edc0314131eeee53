------------------------------ MODULE MCKernel ------------------------------
(***************************************************************************)
(* Tables of two entries each; every mixture of page sizes under the first *)
(* entry of the PML4, and a frame buffer of up to five pages anywhere.     *)
(* Every variation of the ACPI tables on machines with large pages.        *)
(***************************************************************************)
EXTENDS Kernel

Huge == {<<0, 0>>, <<0, 1>>}
Large == {<<0, a, b>> : a, b \in {0, 1}}

Table(signature) == [signature |-> signature]

Entry(t, n) == [type |-> t, length |-> n]

\* A processor, an I/O APIC, an address override; a zero is what ends the walk.
Bodies == {<<Entry(0, 8)>>, <<Entry(0, 8), Entry(1, 12)>>, <<Entry(0, 8), Entry(5, 12)>>}
Behinds == {<<>>, <<Entry(0, 0)>>, <<Entry(9, 200), Entry(5, 12)>>}

Madt(base, body, behind) ==
  [signature |-> "APIC", lapic_address |-> base, entries |-> body,
   behind |-> behind, length |-> MadtHeader + LengthsOf(body)]

Xsdt(tables) == [length |-> HeaderLength + 8 * Len(tables), tables |-> tables]

Lists(madt) ==
  {<<Table("FACP"), madt>>, <<madt, Table("HPET"), Table("FACP")>>, <<madt>>,
   <<Table("FACP"), Table("HPET")>>, <<Table("FACP"), madt, Table("APIC")>>, <<>>}

\* Bases 0xFE0 and 0xFE3 of 4 KiB.
Bases == {4064, 4067}

Xsdp(r, s, l) == [revision |-> r, bytes |-> s, xsdt |-> Xsdt(l)]

Usual(base) == <<Table("FACP"), Madt(base, <<Entry(0, 8)>>, <<>>)>>

\* The XSDPs that are refused, and one that is not, with every list of tables.
Xsdps(base) ==
  {NULL}
  \cup {Xsdp(r, s, Usual(base)) : r \in {0, 2}, s \in {<<200, 57>>, <<255, 255>>, <<200, 56>>}}
  \cup {Xsdp(2, <<200, 56>>, l) :
           l \in UNION {Lists(Madt(base, b, m)) : b \in Bodies, m \in Behinds}}

\* Every mapping, and no XSDP.
OfVideo ==
  UNION {UNION {{[tables |-> Identity(h, l), first |-> f, last |-> f + n, xsdp |-> NULL,
                  apic |-> TRUE, base |-> 4064] :
                   l \in SUBSET {p \in Large : SubSeq(p, 1, 2) \notin h}, f \in 0 .. 7 - n} :
                n \in 0 .. 4} : h \in SUBSET Huge}

OfAcpi ==
  UNION {{[tables |-> Identity(Huge, {}), first |-> 5, last |-> 6, xsdp |-> x,
           apic |-> TRUE, base |-> b] : x \in Xsdps(b)} : b \in Bases}
  \cup {[tables |-> Identity(Huge, {}), first |-> 5, last |-> 6,
         xsdp |-> Xsdp(2, <<200, 56>>, Usual(b)), apic |-> FALSE, base |-> b] : b \in Bases}

AllMachines == OfVideo \cup OfAcpi

\* What the theorems assume holds of these machines and of the constants.
ASSUME MCKernelAssumption == IdentityMapped /\ MadtTruthful /\ NumbersFit

=============================================================================
