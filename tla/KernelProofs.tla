---------------------------- MODULE KernelProofs ----------------------------
(***************************************************************************)
(* What main does to the page tables, and when it freezes, for tables of   *)
(* every size, every frame buffer and all ACPI tables; and that the texts  *)
(* of the numbers are read as the numbers.                                 *)
(***************************************************************************)
EXTENDS Kernel, NaturalsInduction, SequenceTheorems, WellFoundedInduction, TLAPS

\* The pages that have been marked.
Done == machine.first .. IF pc = "initialize_video" THEN i - 1 ELSE machine.last

\* An entry is what the firmware left, or that with the flag; the size of its
\* page never changes, so a page's entry is always found at the same place.
PagesInv ==
  /\ pte \in Tables
  /\ pc = "initialize_video" => i \in Framebuffer
  /\ \A place \in Places :
       /\ pte[place].ps = machine.tables[place].ps
       /\ pte[place].hi # machine.tables[place].hi =>
            /\ pte[place].hi = WithFlag(machine.tables[place].hi)
            /\ \E v \in Framebuffer : get_mem_page(machine.tables, v) = place
  /\ \A v \in Done : LET place == get_mem_page(machine.tables, v)
                     IN pte[place].hi = WithFlag(machine.tables[place].hi)

\* The tests of main and of what it calls.
Passes(m) ==
  /\ m.xsdp # NULL
  /\ ValidXsdp(m.xsdp)
  /\ get_acpi_table(m.xsdp.xsdt, "FACP") # NULL
  /\ get_acpi_table(m.xsdp.xsdt, "APIC") # NULL
  /\ m.apic

\* What the tests that main has passed, and the assignments, have established.
BootInv ==
  /\ pc \in {"initialize_video", "checks", "acpi_init", "enable_lapic",
             "enter_sysprompt", "hlt", "frozen"}
  /\ i \in Nat
  /\ pc = "enter_sysprompt" => i <= LastNumber
  /\ machine \in Machines
  /\ pc = "frozen" => ~Passes(machine)
  /\ pc \in {"acpi_init", "enable_lapic", "enter_sysprompt", "hlt"} =>
       machine.xsdp # NULL /\ ValidXsdp(machine.xsdp)
  /\ pc \in {"enable_lapic", "enter_sysprompt", "hlt"} =>
       /\ acpi_tables.FADT = get_acpi_table(machine.xsdp.xsdt, "FACP")
       /\ acpi_tables.MADT = get_acpi_table(machine.xsdp.xsdt, "APIC")
       /\ acpi_tables.FADT # NULL /\ acpi_tables.MADT # NULL
  /\ IF pc \in {"enter_sysprompt", "hlt"}
     THEN /\ machine.apic
          /\ lapic_addr = get_lapic_address_acpi(acpi_tables.MADT)
          /\ msr = lapic_set_base(lapic_get_base(machine.base))
     ELSE lapic_addr = 0 /\ msr = machine.base
  /\ DOMAIN acpi_tables = {"FADT", "HPET", "MADT"}

IInv == PagesInv /\ BootInv

-----------------------------------------------------------------------------
(* The page tables. *)

\* The spans of the levels, each Entries times the next one.
LEMMA Spans ==
  /\ Span(1) = Entries * Span(2) /\ Span(2) = Entries * Span(3)
  /\ Span(3) = Entries * Span(4) /\ Span(4) = 1
  /\ \A k \in 1 .. 4 : Span(k) \in Nat \ {0}
  /\ PageCount = Entries * Span(1) /\ PageCount \in Nat \ {0}
<1>1. Entries \in Nat \ {0}
  BY PageTableAssumption
<1>2. /\ Span(1) = Entries * Entries * Entries /\ Span(2) = Entries * Entries
      /\ Span(3) = Entries /\ Span(4) = 1
  BY DEF Span
<1>3. Span(1) \in Nat \ {0} /\ Span(2) \in Nat \ {0}
      /\ Span(3) \in Nat \ {0} /\ Span(4) \in Nat \ {0}
  <2>1. Entries * Entries \in Nat \ {0}
    BY <1>1
  <2>2. (Entries * Entries) * Entries \in Nat \ {0}
    BY <1>1, <2>1
  <2>. QED
    BY <1>1, <1>2, <2>1, <2>2
<1>4. Span(1) = Entries * Span(2) /\ Span(2) = Entries * Span(3)
      /\ Span(3) = Entries * Span(4)
  BY <1>1, <1>2
<1>5. \A k \in 1 .. 4 : Span(k) \in Nat \ {0}
  BY <1>3
<1>6. Entries * Span(1) \in Nat \ {0}
  BY <1>1, <1>3
<1>. QED
  BY <1>2, <1>4, <1>5, <1>6 DEF PageCount

\* The spans of the large pages are even, and so is the number of pages.
LEMMA EvenSpans ==
  /\ Span(2) % 2 = 0 /\ Span(3) % 2 = 0
  /\ PageCount % 2 = 0
<1>1. Entries \in Nat /\ Entries % 2 = 0
  BY PageTableAssumption
<1>2. \A n \in Nat : (Entries * n) % 2 = 0
  <2>. SUFFICES ASSUME NEW n \in Nat PROVE (Entries * n) % 2 = 0
    OBVIOUS
  <2>1. PICK h \in Nat : Entries = 2 * h
    <3>1. Entries \div 2 \in Nat /\ Entries = 2 * (Entries \div 2)
      BY <1>1
    <3>. QED
      BY <3>1
  <2>2. Entries * n = 2 * (h * n) /\ h * n \in Nat
    BY <2>1
  <2>. QED
    BY <2>2
<1>. QED
  BY <1>2, Spans

\* The indices of a page name a place at each level.
LEMMA PlaceIsPlace ==
  ASSUME NEW v \in Nat, NEW k \in 2 .. 4
  PROVE  PlaceOf(v, k) \in Places /\ LevelOf(PlaceOf(v, k)) = k
<1>1. Entries \in Nat \ {0}
  BY PageTableAssumption
<1>2. \A j \in 1 .. k : (v \div Span(j)) % Entries \in Index
  <2>. SUFFICES ASSUME NEW j \in 1 .. k PROVE (v \div Span(j)) % Entries \in Index
    OBVIOUS
  <2>1. Span(j) \in Nat \ {0}
    BY Spans
  <2>2. v \div Span(j) \in Nat
    BY <2>1
  <2>. QED
    BY <1>1, <2>2 DEF Index
<1>3. PlaceOf(v, k) \in [1 .. k -> Index]
  BY <1>2 DEF PlaceOf
<1>4. PlaceOf(v, k) \in Places
  BY <1>3 DEF Places
<1>5. DOMAIN PlaceOf(v, k) = 1 .. k
  BY <1>3
<1>6. \A l \in 2 .. 4 : 1 .. k = 1 .. l => l = k
  <2>. SUFFICES ASSUME NEW l \in 2 .. 4, 1 .. k = 1 .. l PROVE l = k
    OBVIOUS
  <2>1. k \in 1 .. l /\ l \in 1 .. k
    OBVIOUS
  <2>. QED
    BY <2>1
<1>7. LevelOf(PlaceOf(v, k)) = k
  BY <1>5, <1>6 DEF LevelOf
<1>. QED
  BY <1>4, <1>7

\* The walk ends at a place, and only the sizes of pages lead it there.
LEMMA WalkEnds ==
  ASSUME NEW t, NEW v \in Nat
  PROVE  /\ get_mem_page(t, v) \in Places
         /\ LevelOf(get_mem_page(t, v)) \in 2 .. 4
<1>1. \A k \in 2 .. 4 : PlaceOf(v, k) \in Places /\ LevelOf(PlaceOf(v, k)) = k
  BY PlaceIsPlace
<1>2. 2 \in 2 .. 4 /\ 3 \in 2 .. 4 /\ 4 \in 2 .. 4
  OBVIOUS
<1>. QED
  BY <1>1, <1>2 DEF get_mem_page

LEMMA WalkBySizes ==
  ASSUME NEW t, NEW u, NEW v \in Nat,
         \A place \in Places : t[place].ps = u[place].ps
  PROVE  get_mem_page(t, v) = get_mem_page(u, v)
<1>1. PlaceOf(v, 2) \in Places /\ PlaceOf(v, 3) \in Places
  BY PlaceIsPlace
<1>. QED
  BY <1>1 DEF get_mem_page

\* The flag is added once (mem.c:73).
LEMMA FlagOnce ==
  ASSUME NEW hi \in Pages
  PROVE  /\ WithFlag(hi) \in Pages
         /\ WithFlag(hi) % 2 = 1
         /\ WithFlag(WithFlag(hi)) = WithFlag(hi)
<1>1. PageCount \in Nat /\ PageCount % 2 = 0 /\ hi \in 0 .. PageCount - 1
  BY Spans, EvenSpans DEF Pages
<1>2. hi % 2 = 0 => hi + 1 \in Pages /\ (hi + 1) % 2 = 1
  BY <1>1 DEF Pages
<1>3. hi % 2 \in {0, 1}
  BY <1>1
<1>. QED
  BY <1>2, <1>3 DEF WithFlag

\* It changes no frame of an even span.
LEMMA FlagInSpan ==
  ASSUME NEW hi \in Nat, NEW s \in Nat \ {0}, s % 2 = 0
  PROVE  WithFlag(hi) \div s = hi \div s
<1>1. CASE hi % 2 # 0
  BY <1>1 DEF WithFlag
<1>2. CASE hi % 2 = 0
  <2>1. PICK a \in Nat, b \in Nat \ {0} : hi = 2 * a /\ s = 2 * b
    BY <1>2
  <2>. DEFINE q == hi \div s
  <2>2. q \in Nat /\ q * s <= hi /\ hi < (q + 1) * s
    OBVIOUS
  <2>3. (q + 1) * s = 2 * ((q + 1) * b) /\ (q + 1) * b \in Nat
    BY <2>1, <2>2
  <2>4. hi + 1 < (q + 1) * s
    BY <2>1, <2>2, <2>3
  <2>. HIDE DEF q
  <2>5. (hi + 1) \div s = q
    BY <2>2, <2>4
  <2>. QED
    BY <1>2, <2>5 DEF q, WithFlag
<1>. QED
  BY <1>1, <1>2

-----------------------------------------------------------------------------
(* The firmware's page tables. *)

LEMMA TimesMonotone ==
  ASSUME NEW m \in Int, NEW n \in Int, NEW c \in Nat, m <= n
  PROVE  m * c <= n * c
OBVIOUS

\* One digit more of a number, in the base of a table's entries.
LEMMA OneMoreIndex ==
  ASSUME NEW v \in Nat, NEW s \in Nat \ {0}, NEW e \in Nat \ {0}
  PROVE  (v \div s) * s = (v \div (e * s)) * (e * s) + ((v \div s) % e) * s
<1>. DEFINE a == v \div s
            b == a \div e
<1>1. a \in Nat /\ a * s <= v /\ v < (a + 1) * s
  OBVIOUS
<1>2. b \in Nat /\ b * e <= a /\ a < (b + 1) * e /\ a % e \in Nat /\ a = b * e + (a % e)
  BY <1>1
<1>. HIDE DEF a, b
<1>3. (b * e) * s <= a * s
  BY <1>1, <1>2, TimesMonotone
<1>4. (a + 1) * s <= ((b + 1) * e) * s
  <2>1. a + 1 <= (b + 1) * e /\ (b + 1) * e \in Int
    BY <1>1, <1>2
  <2>. QED
    BY <1>1, <2>1, TimesMonotone
<1>5. (b * e) * s = b * (e * s) /\ ((b + 1) * e) * s = (b + 1) * (e * s)
      /\ e * s \in Nat \ {0}
  BY <1>2
<1>6. b * (e * s) <= v /\ v < (b + 1) * (e * s)
  <2>1. a * s \in Nat /\ (a + 1) * s \in Nat /\ (b * e) * s \in Nat /\ ((b + 1) * e) * s \in Nat
    BY <1>1, <1>2
  <2>. QED
    BY <1>1, <1>3, <1>4, <1>5, <2>1
<1>. DEFINE c == e * s
<1>. HIDE DEF c
<1>7. b * c <= v /\ v < (b + 1) * c /\ c \in Nat \ {0}
  BY <1>5, <1>6 DEF c
<1>8. v \div c = b
  BY <1>2, <1>7
<1>9. a * s = (b * e) * s + (a % e) * s
  <2>. DEFINE r == a % e
              n == b * e
  <2>1. a = n + r /\ r \in Nat /\ n \in Nat
    BY <1>2
  <2>. HIDE DEF r, n
  <2>2. (n + r) * s = n * s + r * s
    BY <2>1
  <2>. QED
    BY <2>1, <2>2 DEF r, n
<1>. QED
  BY <1>5, <1>8, <1>9 DEF a, c

\* However the firmware mixes the sizes of its pages, it maps each to itself.
THEOREM IdentityMapsAll ==
  ASSUME NEW huge \in SUBSET [1 .. 2 -> Index], NEW large \in SUBSET [1 .. 3 -> Index],
         NEW v \in Pages
  PROVE  Frame(Identity(huge, large), v) = v
<1>. DEFINE t == Identity(huge, large)
            q(j) == v \div Span(j)
            D(j) == ((v \div Span(j)) % Entries) * Span(j)
<1>1. v \in Nat /\ v < Entries * Span(1) /\ Entries \in Nat \ {0}
  BY Spans, PageTableAssumption DEF Pages
<1>2. q(1) * Span(1) = D(1)
  <2>1. Span(1) \in Nat \ {0}
    BY Spans
  <2>2. q(1) \in Nat /\ q(1) < Entries
    BY <1>1, <2>1
  <2>. QED
    BY <1>1, <2>2
<1>3. \A j \in 1 .. 3 : Span(j) = Entries * Span(j + 1)
                        => q(j + 1) * Span(j + 1) = q(j) * Span(j) + D(j + 1)
  <2>. SUFFICES ASSUME NEW j \in 1 .. 3, Span(j) = Entries * Span(j + 1)
                PROVE  q(j + 1) * Span(j + 1) = q(j) * Span(j) + D(j + 1)
    OBVIOUS
  <2>. DEFINE s == Span(j + 1)
  <2>1. s \in Nat \ {0}
    BY Spans
  <2>. HIDE DEF s
  <2>2. (v \div s) * s
          = (v \div (Entries * s)) * (Entries * s) + ((v \div s) % Entries) * s
    BY <1>1, <2>1, OneMoreIndex
  <2>3. Entries * s = Span(j)
    BY DEF s
  <2>4. (v \div s) * s = (v \div Span(j)) * Span(j) + ((v \div s) % Entries) * s
    BY <2>2, <2>3
  <2>. QED
    BY <2>4 DEF s
<1>4. q(2) * Span(2) = q(1) * Span(1) + D(2)
  BY <1>3, Spans
<1>5. q(3) * Span(3) = q(2) * Span(2) + D(3)
  BY <1>3, Spans
<1>6. q(4) * Span(4) = q(3) * Span(3) + D(4)
  BY <1>3, Spans
<1>7. \A j \in 1 .. 4 : q(j) * Span(j) \in Nat /\ D(j) \in Nat /\ Span(j) \in Nat \ {0}
  <2>. SUFFICES ASSUME NEW j \in 1 .. 4
                PROVE  q(j) * Span(j) \in Nat /\ D(j) \in Nat /\ Span(j) \in Nat \ {0}
    OBVIOUS
  <2>1. Span(j) \in Nat \ {0}
    BY Spans
  <2>2. q(j) \in Nat /\ q(j) % Entries \in Nat
    BY <1>1, <2>1
  <2>. QED
    BY <2>1, <2>2
<1>8. PICK k \in 2 .. 4 : get_mem_page(t, v) = PlaceOf(v, k)
  BY DEF get_mem_page
<1>. DEFINE place == PlaceOf(v, k)
<1>9. place \in Places /\ LevelOf(place) = k /\ DOMAIN place = 1 .. k
      /\ \A j \in 1 .. k : place[j] * Span(j) = D(j)
  BY <1>1, PlaceIsPlace DEF PlaceOf
<1>10. t[place].hi = q(k) * Span(k)
  <2>. DEFINE At(j) == IF j \in DOMAIN place THEN place[j] * Span(j) ELSE 0
  <2>1. t[place].hi = At(1) + At(2) + At(3) + At(4)
    BY <1>9 DEF Identity
  <2>. HIDE DEF place, t, q, D
  <2>2. At(1) = D(1) /\ At(2) = D(2)
    BY <1>9
  <2>3. CASE k = 2
    <3>1. At(3) = 0 /\ At(4) = 0
      BY <1>9, <2>3
    <3>. QED
      BY <1>2, <1>4, <1>7, <2>1, <2>2, <2>3, <3>1
  <2>4. CASE k = 3
    <3>1. At(3) = D(3) /\ At(4) = 0
      BY <1>9, <2>4
    <3>. QED
      BY <1>2, <1>4, <1>5, <1>7, <2>1, <2>2, <2>4, <3>1
  <2>5. CASE k = 4
    <3>1. At(3) = D(3) /\ At(4) = D(4)
      BY <1>9, <2>5
    <3>. QED
      BY <1>2, <1>4, <1>5, <1>6, <1>7, <2>1, <2>2, <2>5, <3>1
  <2>. QED
    BY <2>3, <2>4, <2>5
<1>11. Frame(t, v) = (t[place].hi \div Span(k)) * Span(k) + (v % Span(k))
  BY <1>8, <1>9 DEF Frame
<1>. HIDE DEF t, place
<1>12. Span(k) \in Nat \ {0} /\ q(k) \in Nat
  BY <1>1, <1>7
<1>. DEFINE s == Span(k)
            a == v \div s
<1>13. s \in Nat \ {0} /\ a \in Nat /\ t[place].hi = a * s
  BY <1>10, <1>12
<1>14. Frame(t, v) = ((a * s) \div s) * s + (v % s)
  BY <1>11, <1>13
<1>. HIDE DEF s
<1>15. v = a * s + (v % s)
  BY <1>1, <1>13
<1>. HIDE DEF a
<1>16. (a * s) \div s = a
  BY <1>13
<1>. QED
  BY <1>14, <1>15, <1>16 DEF t

-----------------------------------------------------------------------------
(* The page tables and the steps of main. *)

LEMMA InitPages == Init => PagesInv
<1>. SUFFICES ASSUME Init PROVE PagesInv
  OBVIOUS
<1>1. IsMachine(machine) /\ pte = machine.tables /\ pc = "initialize_video"
      /\ i = machine.first
  BY MachinesAssumption DEF Init
<1>2. machine.first \in Nat /\ i \in Framebuffer
  BY <1>1, Spans DEF IsMachine, Framebuffer, Pages
<1>3. Done = {}
  BY <1>1, <1>2 DEF Done
<1>. QED
  BY <1>1, <1>2, <1>3 DEF PagesInv, IsMachine

\* The firmware's tables and the frame buffer.
LEMMA MachineTypes ==
  ASSUME BootInv
  PROVE  /\ IsMachine(machine)
         /\ machine.tables \in Tables
         /\ machine.first \in Nat /\ machine.last \in Nat
         /\ machine.first <= machine.last /\ machine.last \in Pages
         /\ Framebuffer \subseteq Pages /\ Pages \subseteq Nat
<1>1. IsMachine(machine)
  BY MachinesAssumption DEF BootInv
<1>2. PageCount \in Nat
  BY Spans
<1>3. machine.first \in Pages /\ machine.last \in machine.first .. PageCount - 1
      /\ machine.tables \in Tables
  BY <1>1 DEF IsMachine
<1>. QED
  BY <1>1, <1>2, <1>3 DEF Pages, Framebuffer

\* Each turn of initialize_video marks the entry of one page, through entries
\* some of which are marked (vga.c:27-31, mem.c:44-84).
LEMMA StepPages ==
  ASSUME PagesInv, BootInv, [Next]_vars
  PROVE  PagesInv'
<1>. DEFINE t == machine.tables
<1>1. CASE InitializeVideo
  <2>. DEFINE place == get_mem_page(t, i)
              hi == WithFlag(pte[place].hi)
  <2>1. i \in Framebuffer /\ i \in Nat /\ i \in Pages /\ t \in Tables /\ pte \in Tables
    BY <1>1, MachineTypes DEF PagesInv, InitializeVideo
  <2>2. place \in Places
    BY <2>1, WalkEnds
  <2>3. get_mem_page(pte, i) = place
    BY <2>1, WalkBySizes DEF PagesInv
  <2>4. pte[place] \in [ps : BOOLEAN, hi : Pages] /\ t[place] \in [ps : BOOLEAN, hi : Pages]
    BY <2>1, <2>2 DEF Tables
  <2>5. pte[place].hi \in Pages /\ t[place].hi \in Pages
    BY <2>4
  <2>6. hi = WithFlag(t[place].hi) /\ hi \in Pages
    <3>1. \/ pte[place].hi = t[place].hi
          \/ pte[place].hi = WithFlag(t[place].hi)
      BY <2>2 DEF PagesInv
    <3>. QED
      BY <2>5, <3>1, FlagOnce
  <2>7. pte' = [pte EXCEPT ![place].hi = hi]
    BY <1>1, <2>3 DEF InitializeVideo, set_mem_page_flags
  <2>8. machine' = machine /\ i' = i + 1
        /\ pc' = IF i = machine.last THEN "checks" ELSE pc
    BY <1>1 DEF InitializeVideo
  <2>. HIDE DEF hi, place
  <2>9. /\ pte'[place].ps = pte[place].ps /\ pte'[place].hi = hi
        /\ pte'[place] \in [ps : BOOLEAN, hi : Pages]
        /\ \A p \in Places : p # place => pte'[p] = pte[p]
    BY <2>1, <2>2, <2>4, <2>6, <2>7 DEF Tables
  <2>10. pte' \in Tables
    BY <2>1, <2>2, <2>7, <2>9 DEF Tables
  <2>11. (pc = "initialize_video" => i \in Framebuffer)'
    BY <2>1, <2>8, MachineTypes DEF Framebuffer
  <2>12. \A p \in Places :
           /\ pte'[p].ps = t[p].ps
           /\ pte'[p].hi # t[p].hi =>
                /\ pte'[p].hi = WithFlag(t[p].hi)
                /\ \E v \in Framebuffer : get_mem_page(t, v) = p
    <3>. SUFFICES ASSUME NEW p \in Places
                  PROVE  /\ pte'[p].ps = t[p].ps
                         /\ pte'[p].hi # t[p].hi =>
                              /\ pte'[p].hi = WithFlag(t[p].hi)
                              /\ \E v \in Framebuffer : get_mem_page(t, v) = p
      OBVIOUS
    <3>1. CASE p = place
      BY <2>1, <2>2, <2>6, <2>9, <3>1 DEF PagesInv, place
    <3>2. CASE p # place
      BY <2>9, <3>2 DEF PagesInv
    <3>. QED
      BY <3>1, <3>2
  <2>13. \A v \in Done' : pte'[get_mem_page(t, v)].hi = WithFlag(t[get_mem_page(t, v)].hi)
    <3>. SUFFICES ASSUME NEW v \in Done'
                  PROVE  pte'[get_mem_page(t, v)].hi = WithFlag(t[get_mem_page(t, v)].hi)
      OBVIOUS
    <3>1. v \in Nat /\ (v \in Done \/ v = i)
      BY <1>1, <2>1, <2>8, MachineTypes DEF Done, InitializeVideo
    <3>2. get_mem_page(t, v) \in Places
      BY <3>1, WalkEnds
    <3>3. CASE get_mem_page(t, v) = place
      BY <2>6, <2>9, <3>3
    <3>4. CASE get_mem_page(t, v) # place
      <4>1. v \in Done
        BY <3>1, <3>4 DEF place
      <4>. QED
        BY <2>9, <3>2, <3>4, <4>1 DEF PagesInv
    <3>. QED
      BY <3>3, <3>4
  <2>. QED
    BY <2>8, <2>10, <2>11, <2>12, <2>13 DEF PagesInv, Framebuffer
<1>2. ASSUME pc # "initialize_video", pc' # "initialize_video", pte' = pte,
             machine' = machine
      PROVE  PagesInv'
  BY <1>2 DEF PagesInv, Done, Framebuffer
<1>3. CASE UNCHANGED vars
  BY <1>3 DEF vars, PagesInv, Done, Framebuffer
<1>4. CASE Checks
  BY <1>2, <1>4 DEF Checks, cpu_freeze
<1>5. CASE acpi_init
  BY <1>2, <1>5 DEF acpi_init, cpu_freeze
<1>6. CASE enable_lapic
  BY <1>2, <1>6 DEF enable_lapic, cpu_freeze
<1>7. CASE enter_sysprompt
  BY <1>2, <1>7 DEF enter_sysprompt
<1>8. CASE Halt
  BY <1>3, <1>8 DEF Halt
<1>. QED
  BY <1>1, <1>3, <1>4, <1>5, <1>6, <1>7, <1>8 DEF Next

-----------------------------------------------------------------------------
(* The ACPI tables. *)

Less == {pair \in Nat \X Nat : pair[1] < pair[2]}

\* Every set of numbers has its least, which Min chooses.
LEMMA MinIn ==
  ASSUME NEW S \in SUBSET Nat, S # {}
  PROVE  Min(S) \in S
<1>1. IsWellFoundedOn(Less, Nat)
  BY NatLessThanWellFounded DEF OpToRel, Less
<1>2. PICK l \in S : \A k \in S : ~(<<k, l>> \in Less)
  BY <1>1, WFMin
<1>3. \A k \in S : k \in Nat /\ l \in Nat /\ (k < l => <<k, l>> \in Less)
  BY DEF Less
<1>4. \A k \in S : ~(k < l)
  BY <1>2, <1>3, Zenon
<1>5. \A k \in S : l <= k
  BY <1>3, <1>4
<1>. QED
  BY <1>5 DEF Min

\* get_acpi_table finds a table if and only if the XSDT lists one (acpi.c:8-20).
LEMMA TableFound ==
  ASSUME NEW xsdt, DOMAIN xsdt.tables = 1 .. num_XSDT_entries(xsdt),
         NEW signature, signature # "NULL"
  PROVE  get_acpi_table(xsdt, signature) # NULL <=>
           \E k \in DOMAIN xsdt.tables : xsdt.tables[k].signature = signature
<1>. DEFINE found == {k \in 1 .. num_XSDT_entries(xsdt) : xsdt.tables[k].signature = signature}
<1>1. get_acpi_table(xsdt, signature) = IF found = {} THEN NULL ELSE xsdt.tables[Min(found)]
  BY DEF get_acpi_table
<1>2. found \in SUBSET Nat
  OBVIOUS
<1>3. CASE found = {}
  BY <1>1, <1>3
<1>4. CASE found # {}
  <2>. HIDE DEF found
  <2>1. Min(found) \in found
    BY <1>2, <1>4, MinIn
  <2>2. xsdt.tables[Min(found)].signature = signature
    BY <2>1 DEF found
  <2>3. NULL.signature = "NULL"
    BY DEF NULL
  <2>4. get_acpi_table(xsdt, signature) # NULL
    BY <1>1, <1>4, <2>2, <2>3
  <2>. QED
    BY <1>4, <2>4 DEF found
<1>. QED
  BY <1>3, <1>4

\* The kernel can be started on a machine if and only if every test passes.
LEMMA BootableMeans ==
  ASSUME IsMachine(machine)
  PROVE  Bootable <=> Passes(machine)
<1>1. CASE machine.xsdp = NULL
  BY <1>1 DEF Bootable, Passes
<1>2. CASE machine.xsdp # NULL
  <2>1. DOMAIN machine.xsdp.xsdt.tables = 1 .. num_XSDT_entries(machine.xsdp.xsdt)
    BY <1>2 DEF IsMachine, IsXsdt
  <2>2. get_acpi_table(machine.xsdp.xsdt, "FACP") # NULL <=>
          \E k \in DOMAIN machine.xsdp.xsdt.tables :
            machine.xsdp.xsdt.tables[k].signature = "FACP"
    BY <2>1, TableFound
  <2>3. get_acpi_table(machine.xsdp.xsdt, "APIC") # NULL <=>
          \E k \in DOMAIN machine.xsdp.xsdt.tables :
            machine.xsdp.xsdt.tables[k].signature = "APIC"
    BY <2>1, TableFound
  <2>4. ValidXsdp(machine.xsdp) <=>
          /\ machine.xsdp.revision # 0
          /\ FoldLeft(LAMBDA a, b : a + b, 0, machine.xsdp.bytes) % 256 = 0
    BY DEF ValidXsdp, acpi_vcheck, acpi_ccheck
  <2>. QED
    BY <1>2, <2>2, <2>3, <2>4 DEF Bootable, Passes
<1>. QED
  BY <1>1, <1>2

\* Without an override in what the walk reads, it finds none (acpi.c:107-124).
LEMMA NoOverrideFound ==
  ASSUME NEW madt, madt.entries \in Seq([type : Nat, length : Nat]),
         madt.behind \in Seq([type : Nat, length : Nat]),
         \A e \in Range(madt.entries \o madt.behind) :
           e.type # MADT_ENTRY_TYPE_LAPIC_ADDRESS_OVERRIDE
  PROVE  get_lapic_address_acpi(madt) = madt.lapic_address
<1>. DEFINE memory == madt.entries \o madt.behind
            type == MADT_ENTRY_TYPE_LAPIC_ADDRESS_OVERRIDE
            stops == {k \in DOMAIN memory :
                        \/ Offset(memory, k) > WalkBound(madt)
                        \/ memory[k].type = type
                        \/ memory[k].length = 0}
<1>1. memory \in Seq([type : Nat, length : Nat])
  BY ConcatProperties
<1>2. \A k \in DOMAIN memory : k \in Nat
  BY <1>1
<1>3. \A k \in DOMAIN memory : memory[k].type # type
  BY DEF Range
<1>4. get_madt_entry(madt, type) =
        IF \/ stops = {}
           \/ Offset(memory, Min(stops)) > WalkBound(madt)
           \/ memory[Min(stops)].type # type
        THEN 0 ELSE Min(stops)
  BY DEF get_madt_entry
<1>. HIDE DEF memory, type
<1>5. stops # {} => Min(stops) \in stops
  BY <1>2, MinIn
<1>6. stops # {} => memory[Min(stops)].type # type
  BY <1>3, <1>5
<1>. HIDE DEF stops
<1>7. get_madt_entry(madt, type) = 0
  BY <1>4, <1>6
<1>. QED
  BY <1>7 DEF get_lapic_address_acpi, type

-----------------------------------------------------------------------------
(* The texts of numbers. *)

\* Every set of numbers has a least one.
LEMMA LeastOf ==
  ASSUME NEW S \in SUBSET Nat, S # {}
  PROVE  \E l \in S : \A k \in S : l <= k
<1>1. IsWellFoundedOn(Less, Nat)
  BY NatLessThanWellFounded DEF OpToRel, Less
<1>2. PICK l \in S : \A k \in S : ~(<<k, l>> \in Less)
  BY <1>1, WFMin
<1>3. \A k \in S : k \in Nat /\ l \in Nat /\ (k < l => <<k, l>> \in Less)
  BY DEF Less
<1>4. \A k \in S : ~(k < l)
  BY <1>2, <1>3, Zenon
<1>. QED
  BY <1>3, <1>4

LEMMA Quotient ==
  ASSUME NEW a \in Nat, NEW b \in Nat \ {0}
  PROVE  /\ a \div b \in Nat /\ a % b \in 0 .. b - 1
         /\ a = (a \div b) * b + (a % b)
  BY Z3

LEMMA NothingLeft ==
  ASSUME NEW a \in Nat, NEW b \in Nat \ {0}
  PROVE  a \div b = 0 <=> a < b
<1>. DEFINE q == a \div b
            r == a % b
<1>1. q \in Nat /\ r \in 0 .. b - 1 /\ a = q * b + r
  BY Quotient
<1>. HIDE DEF q, r
<1>2. q = 0 => a < b
  BY <1>1
<1>3. q # 0 => q * b >= b /\ q * b \in Nat
  BY <1>1
<1>4. q # 0 => a >= b
  BY <1>1, <1>3
<1>5. q = 0 <=> a < b
  BY <1>2, <1>4
<1>. QED
  BY <1>5 DEF q

\* The turns of the loop of the conversions, from the first to the last.
Divided(left, base, last) ==
  /\ \A k \in 0 .. last : left[k] \in Nat
  /\ \A k \in 1 .. last : left[k] = left[k - 1] \div base

LEMMA FewerTurns ==
  ASSUME NEW left, NEW base, NEW last \in Nat, NEW top \in 0 .. last,
         Divided(left, base, last)
  PROVE  Divided(left, base, top)
<1>1. \A k \in 0 .. top : k \in 0 .. last
  OBVIOUS
<1>2. \A k \in 1 .. top : k \in 1 .. last
  OBVIOUS
<1>. QED
  BY <1>1, <1>2, Zenon DEF Divided

LEMMA OneTurn ==
  ASSUME NEW left, NEW base, NEW last \in Nat, NEW k \in 0 .. last - 1,
         Divided(left, base, last)
  PROVE  /\ left[k] \in Nat /\ left[k + 1] \in Nat
         /\ left[k + 1] = left[k] \div base
<1>1. k \in 0 .. last /\ k + 1 \in 0 .. last /\ k + 1 \in 1 .. last
  OBVIOUS
<1>2. (k + 1) - 1 = k
  OBVIOUS
<1>3. left[k + 1] = left[(k + 1) - 1] \div base
  BY <1>1, Zenon DEF Divided
<1>4. left[k] \in Nat /\ left[k + 1] \in Nat
  BY <1>1, Zenon DEF Divided
<1>. QED
  BY <1>2, <1>3, <1>4, Zenon

LEMMA LeftIs ==
  ASSUME NEW n \in Nat, NEW base \in Nat \ {0}, NEW max \in Nat
  PROVE  Left(n, base, max)[0] = n /\ Divided(Left(n, base, max), base, max)
<1>. DEFINE left == Left(n, base, max)
<1>. DEFINE Is(f, m) == f = [k \in 0 .. m |-> IF k = 0 THEN n ELSE f[k - 1] \div base]
            Bad == {m \in Nat : ~\E f \in [0 .. m -> Nat] : Is(f, m)}
<1>1. Bad = {}
  <2>. SUFFICES ASSUME Bad # {} PROVE FALSE
    OBVIOUS
  <2>1. PICK m \in Bad : \A k \in Bad : m <= k
    <3>1. Bad \in SUBSET Nat
      OBVIOUS
    <3>. HIDE DEF Bad
    <3>. QED
      BY <3>1, LeastOf
  <2>2. m # 0
    <3>. SUFFICES ASSUME m = 0 PROVE FALSE
      OBVIOUS
    <3>. DEFINE f == [k \in 0 .. 0 |-> n]
    <3>1. f \in [0 .. 0 -> Nat] /\ Is(f, 0)
      OBVIOUS
    <3>. QED
      BY <3>1
  <2>3. m \in Nat /\ m - 1 \in Nat /\ m - 1 \notin Bad
    <3>1. m \in Nat
      BY <2>1
    <3>2. m - 1 \in Nat /\ ~(m <= m - 1)
      BY <2>2, <3>1
    <3>. HIDE DEF Bad
    <3>. QED
      BY <2>1, <3>1, <3>2
  <2>4. PICK f \in [0 .. m - 1 -> Nat] : Is(f, m - 1)
    BY <2>3
  <2>. DEFINE g == [k \in 0 .. m |-> IF k = m THEN f[m - 1] \div base ELSE f[k]]
  <2>5. g \in [0 .. m -> Nat]
    <3>1. f[m - 1] \div base \in Nat
      <4>1. f[m - 1] \in Nat
        BY <2>3
      <4>. QED
        BY <4>1, Quotient, Zenon
    <3>. QED
      BY <2>3, <3>1
  <2>6. Is(g, m)
    <3>1. \A k \in 0 .. m : g[k] = IF k = 0 THEN n ELSE g[k - 1] \div base
      <4>. SUFFICES ASSUME NEW k \in 0 .. m
                    PROVE  g[k] = IF k = 0 THEN n ELSE g[k - 1] \div base
        OBVIOUS
      <4>1. CASE k = m
        <5>1. k - 1 \in 0 .. m /\ k - 1 # m /\ k # 0
          BY <2>2, <2>3, <4>1
        <5>2. g[k - 1] = f[m - 1] /\ g[k] = f[m - 1] \div base
          BY <5>1, <4>1
        <5>. QED
          BY <5>1, <5>2
      <4>2. CASE k # m /\ k = 0
        <5>1. f[0] = n
          BY <2>3, <2>4
        <5>. QED
          BY <4>2, <5>1
      <4>3. CASE k # m /\ k # 0
        <5>1. k \in 0 .. m - 1 /\ k - 1 \in 0 .. m /\ k - 1 # m
          BY <2>3, <4>3
        <5>2. f[k] = f[k - 1] \div base
          BY <2>4, <4>3, <5>1
        <5>. QED
          BY <4>3, <5>1, <5>2
      <4>. QED
        BY <4>1, <4>2, <4>3
    <3>. QED
      BY <3>1
  <2>7. m \notin Bad
    BY <2>3, <2>5, <2>6
  <2>. QED
    BY <2>1, <2>7
<1>2. PICK f \in [0 .. max -> Nat] : Is(f, max)
  BY <1>1
<1>3. Is(left, max)
  BY <1>2 DEF Left
<1>4. \A k \in 0 .. max : left[k] = f[k]
  <2>. DEFINE Off == {k \in 0 .. max : left[k] # f[k]}
  <2>. SUFFICES ASSUME Off # {} PROVE FALSE
    OBVIOUS
  <2>1. PICK k \in Off : \A j \in Off : k <= j
    <3>1. Off \in SUBSET Nat
      OBVIOUS
    <3>. HIDE DEF Off
    <3>. QED
      BY <3>1, LeastOf
  <2>2. left[0] = n /\ f[0] = n
    BY <1>2, <1>3
  <2>3. k - 1 \in 0 .. max /\ k - 1 \notin Off /\ k \in 0 .. max /\ k # 0
    BY <2>1, <2>2
  <2>4. left[k] = left[k - 1] \div base /\ f[k] = f[k - 1] \div base
    BY <1>2, <1>3, <2>3
  <2>. QED
    BY <2>1, <2>3, <2>4
<1>5. left[0] = n
  BY <1>3
<1>6. \A k \in 0 .. max : left[k] \in Nat
  BY <1>2, <1>4
<1>7. \A k \in 1 .. max : left[k] = left[k - 1] \div base
  BY <1>3
<1>. QED
  BY <1>5, <1>6, <1>7 DEF Divided

\* The exchanges reverse the digits, the one in the middle included.
LEMMA FinishedIs ==
  ASSUME NEW top \in Nat, NEW stack, NEW text, text = Finished(stack, top)
  PROVE  /\ DOMAIN text = 0 .. top + 1 /\ text[top + 1] = Nul
         /\ \A k \in 0 .. top : text[k] = stack[top - k]
<1>1. DOMAIN text = 0 .. top + 1 /\ text[top + 1] = Nul
  BY DEF Finished
<1>2. ASSUME NEW k \in 0 .. top
      PROVE  text[k] = stack[top - k]
  <2>1. text[k] = IF Exchanged(k, top) THEN stack[top - k] ELSE stack[k]
    BY DEF Finished
  <2>2. CASE Exchanged(k, top)
    BY <2>1, <2>2
  <2>3. CASE ~Exchanged(k, top)
    <3>1. top - k = k
      BY <2>3 DEF Exchanged, InLoop
    <3>. QED
      BY <2>1, <2>3, <3>1
  <2>. QED
    BY <2>2, <2>3
<1>. QED
  BY <1>1, <1>2

\* What a reader knows after each digit.  Only one function is like that.
ReadSoFar(v, text, base, last) ==
  /\ v[-1] = 0
  /\ \A k \in 0 .. last : v[k] = v[k - 1] * base + text[k]

LEMMA ReadBack ==
  ASSUME NEW base, NEW last \in Nat, NEW text, NEW v, NEW w,
         ReadSoFar(v, text, base, last), ReadSoFar(w, text, base, last)
  PROVE  v[last] = w[last]
<1>1. v[-1] = 0 /\ w[-1] = 0
  BY DEF ReadSoFar
<1>2. \A k \in 0 .. last : /\ v[k] = v[k - 1] * base + text[k]
                           /\ w[k] = w[k - 1] * base + text[k]
  BY DEF ReadSoFar
<1>. DEFINE Off == {k \in Nat : k <= last /\ v[k] # w[k]}
<1>3. Off = {}
  <2>. SUFFICES ASSUME Off # {} PROVE FALSE
    OBVIOUS
  <2>1. PICK k \in Off : \A j \in Off : k <= j
    <3>1. Off \in SUBSET Nat
      OBVIOUS
    <3>. HIDE DEF Off
    <3>. QED
      BY <3>1, LeastOf
  <2>2. k \in 0 .. last /\ v[k] # w[k]
    BY <2>1
  <2>3. v[k - 1] = w[k - 1]
    <3>1. CASE k = 0
      BY <1>1, <3>1
    <3>2. CASE k # 0
      <4>1. k - 1 \in Nat /\ k - 1 <= last /\ ~(k <= k - 1)
        BY <2>2, <3>2
      <4>. QED
        BY <2>1, <4>1
    <3>. QED
      BY <3>1, <3>2
  <2>. QED
    BY <1>2, <2>2, <2>3, Zenon
<1>4. last \in Nat /\ last <= last
  OBVIOUS
<1>. QED
  BY <1>3, <1>4

\* The text of the remainders of what is left after each turn.
Printed(left, base, top) == Finished([k \in 0 .. top |-> left[k] % base], top)

LEMMA PrintedIs ==
  ASSUME NEW base, NEW top \in Nat, NEW left, NEW text, text = Printed(left, base, top)
  PROVE  /\ DOMAIN text = 0 .. top + 1 /\ text[top + 1] = Nul
         /\ \A k \in 0 .. top : text[k] = left[top - k] % base
<1>. DEFINE stack == [k \in 0 .. top |-> left[k] % base]
<1>1. text = Finished(stack, top)
  BY DEF Printed
<1>2. \A k \in 0 .. top : stack[top - k] = left[top - k] % base
  OBVIOUS
<1>. HIDE DEF stack
<1>3. /\ DOMAIN text = 0 .. top + 1 /\ text[top + 1] = Nul
      /\ \A k \in 0 .. top : text[k] = stack[top - k]
  BY <1>1, FinishedIs, Zenon
<1>4. \A k \in 0 .. top : text[k] = left[top - k] % base
  BY <1>2, <1>3, Zenon
<1>. QED
  BY <1>3, <1>4, Zenon

\* It is read as the number divided, if nothing but a digit is left in the end.
LEMMA ValueIs ==
  ASSUME NEW base \in Nat, base >= 2, NEW top \in Nat, NEW left,
         Divided(left, base, top), left[top] < base,
         NEW text, text = Printed(left, base, top)
  PROVE  /\ \A k \in DOMAIN text : text[k] \in 0 .. base - 1 \cup {Nul}
         /\ Value(text, base) = left[0]
<1>1. DOMAIN text = 0 .. top + 1 /\ text[top + 1] = Nul
  BY PrintedIs, Zenon
<1>2. \A k \in 0 .. top : text[k] \in 0 .. base - 1
  <2>. SUFFICES ASSUME NEW k \in 0 .. top PROVE text[k] \in 0 .. base - 1
    OBVIOUS
  <2>1. base \in Nat \ {0} /\ top - k \in 0 .. top
    OBVIOUS
  <2>2. left[top - k] \in Nat
    BY <2>1, Zenon DEF Divided
  <2>3. left[top - k] % base \in 0 .. base - 1
    BY <2>1, <2>2, Quotient, Zenon
  <2>4. text[k] = left[top - k] % base
    BY PrintedIs, ZenonT(40)
  <2>. QED
    BY <2>3, <2>4, Zenon
<1>3. \A k \in DOMAIN text : text[k] = Nul => k = top + 1
  <2>. SUFFICES ASSUME NEW k \in DOMAIN text, text[k] = Nul, k # top + 1 PROVE FALSE
    OBVIOUS
  <2>1. k \in 0 .. top
    BY <1>1
  <2>. QED
    BY <1>2, <2>1 DEF Nul
<1>. DEFINE end == CHOOSE k \in DOMAIN text : text[k] = Nul
<1>4. end = top + 1
  <2>1. top + 1 \in DOMAIN text
    BY <1>1
  <2>2. end \in DOMAIN text /\ text[end] = Nul
    BY <1>1, <2>1
  <2>. QED
    BY <1>3, <2>2
<1>. DEFINE w == [k \in -1 .. top |-> IF k = -1 THEN 0 ELSE left[top - k]]
<1>5. w[-1] = 0 /\ (\A k \in 0 .. top : w[k] = left[top - k])
  OBVIOUS
<1>6. w = [k \in -1 .. top |-> w[k]]
  OBVIOUS
<1>. HIDE DEF w
<1>7. \A k \in 0 .. top : w[k] = w[k - 1] * base + text[k]
  <2>. SUFFICES ASSUME NEW k \in 0 .. top PROVE w[k] = w[k - 1] * base + text[k]
    OBVIOUS
  <2>1. base \in Nat \ {0} /\ top - k \in 0 .. top
    OBVIOUS
  <2>. DEFINE x == left[top - k]
              q == x \div base
              r == x % base
  <2>2. x \in Nat
    BY <2>1, Zenon DEF Divided
  <2>3. x = q * base + r
    BY <2>1, <2>2, Quotient, Zenon
  <2>4. text[k] = r
    BY PrintedIs, ZenonT(40)
  <2>5. w[k - 1] = q
    <3>1. CASE k = 0
      <4>1. x < base
        BY <3>1
      <4>2. q = 0
        BY <2>1, <2>2, <4>1, NothingLeft, Zenon
      <4>. HIDE DEF q
      <4>. QED
        BY <1>5, <3>1, <4>2
    <3>2. CASE k # 0
      <4>1. k - 1 \in 0 .. top /\ top - k \in 0 .. top - 1
            /\ (top - k) + 1 = top - (k - 1)
        BY <3>2
      <4>2. left[(top - k) + 1] = q
        BY <4>1, OneTurn, Zenon
      <4>3. w[k - 1] = left[top - (k - 1)]
        BY <1>5, <4>1, Zenon
      <4>. QED
        BY <4>1, <4>2, <4>3, Zenon
    <3>. QED
      BY <3>1, <3>2
  <2>6. w[k] = x
    BY <1>5, Zenon
  <2>. QED
    BY <2>3, <2>4, <2>5, <2>6, Zenon
<1>. DEFINE Is(f) == f = [k \in -1 .. end - 1 |->
                           IF k = -1 THEN 0 ELSE f[k - 1] * base + text[k]]
            v == CHOOSE f : Is(f)
<1>. HIDE DEF end
<1>8. end - 1 = top
  BY <1>4
<1>9. Is(w)
  <2>1. \A k \in -1 .. top : w[k] = IF k = -1 THEN 0 ELSE w[k - 1] * base + text[k]
    BY <1>5, <1>7
  <2>. QED
    BY <1>6, <1>8, <2>1
<1>10. Is(v)
  BY <1>9
<1>11. Value(text, base) = v[end - 1]
  BY DEF Value, end
<1>. HIDE DEF v
<1>12. v[top] = w[top]
  <2>1. v = [k \in -1 .. top |-> IF k = -1 THEN 0 ELSE v[k - 1] * base + text[k]]
    BY <1>8, <1>10
  <2>2. w[-1] = 0 /\ v[-1] = 0
    BY <1>5, <2>1
  <2>3. \A k \in 0 .. top : v[k] = v[k - 1] * base + text[k]
    BY <2>1
  <2>. HIDE DEF Is
  <2>. QED
    <3>1. ReadSoFar(v, text, base, top) /\ ReadSoFar(w, text, base, top)
      BY <1>7, <2>2, <2>3, Zenon DEF ReadSoFar
    <3>. QED
      BY <3>1, ReadBack, Zenon
<1>13. w[top] = left[0]
  <2>1. top \in 0 .. top /\ top - top = 0
    OBVIOUS
  <2>. QED
    BY <1>5, <2>1
<1>14. \A k \in DOMAIN text : text[k] \in 0 .. base - 1 \cup {Nul}
  <2>. SUFFICES ASSUME NEW k \in DOMAIN text PROVE text[k] \in 0 .. base - 1 \cup {Nul}
    OBVIOUS
  <2>1. k \in 0 .. top \/ k = top + 1
    BY <1>1
  <2>. QED
    BY <1>1, <1>2, <2>1
<1>. QED
  BY <1>8, <1>11, <1>12, <1>13, <1>14

\* What is nothing stays nothing.
LEMMA ZeroStays ==
  ASSUME NEW base \in Nat \ {0}, NEW max \in Nat, NEW left, Divided(left, base, max),
         NEW j \in 0 .. max, left[j] = 0,
         NEW k \in j .. max
  PROVE  left[k] = 0
<1>. DEFINE Off == {m \in Nat : m \in j .. max /\ left[m] # 0}
<1>1. Off = {}
  <2>. SUFFICES ASSUME Off # {} PROVE FALSE
    OBVIOUS
  <2>1. PICK l \in Off : \A m \in Off : l <= m
    <3>1. Off \in SUBSET Nat
      OBVIOUS
    <3>. HIDE DEF Off
    <3>. QED
      BY <3>1, LeastOf
  <2>2. l \in j .. max /\ left[l] # 0 /\ l # j
    BY <2>1
  <2>3. l - 1 \in Nat /\ l - 1 \in j .. max /\ ~(l <= l - 1) /\ l - 1 \in 0 .. max - 1
        /\ (l - 1) + 1 = l
    BY <2>2
  <2>4. left[l - 1] = 0
    BY <2>1, <2>3
  <2>5. left[l] = left[l - 1] \div base /\ left[l - 1] \in Nat
    <3>1. left[(l - 1) + 1] = left[l - 1] \div base /\ left[l - 1] \in Nat
      <4>1. l - 1 \in 0 .. max - 1
        BY <2>3
      <4>. QED
        BY <4>1, OneTurn
    <3>. QED
      BY <2>3, <3>1, Zenon
  <2>6. left[l] = 0
    <3>1. left[l - 1] < base
      BY <2>4
    <3>. QED
      BY <2>5, <3>1, NothingLeft, Zenon
  <2>. QED
    BY <2>2, <2>6
<1>2. k \in Nat
  OBVIOUS
<1>. QED
  BY <1>1, <1>2

LEMMA NoneLeft ==
  ASSUME NEW base \in Nat \ {0}, NEW max \in Nat, NEW left, Divided(left, base, max),
         NEW j \in 0 .. max - 1, left[j] = 0
  PROVE  left[max - 1] = 0
<1>1. j \in 0 .. max /\ max - 1 \in j .. max
  OBVIOUS
<1>. DEFINE last == max - 1
<1>. HIDE DEF last
<1>2. left[last] = 0
  BY <1>1, ZeroStays DEF last
<1>. QED
  BY <1>2 DEF last

LEMMA PrintedRead ==
  ASSUME NEW base \in Nat, base >= 2, NEW top \in Nat, NEW left,
         Divided(left, base, top), left[top] < base, top = 0 \/ left[top] # 0,
         NEW max \in Nat, top + 1 < max
  PROVE  /\ Reads(Printed(left, base, top), base, left[0])
         /\ Fits(Printed(left, base, top), max)
<1>. SUFFICES ASSUME NEW text, text = Printed(left, base, top)
              PROVE  Reads(text, base, left[0]) /\ Fits(text, max)
  OBVIOUS
<1>1. base \in Nat \ {0} /\ 0 \in 0 .. top /\ top - 0 = top /\ top \in 0 .. top
  OBVIOUS
<1>2. /\ \A k \in DOMAIN text : text[k] \in 0 .. base - 1 \cup {Nul}
      /\ Value(text, base) = left[0]
  BY ValueIs
<1>3. DOMAIN text = 0 .. top + 1 /\ text[top + 1] = Nul
  BY PrintedIs, ZenonT(40)
<1>4. text[0] = left[top]
  <2>1. text[0] = left[top] % base
    BY <1>1, PrintedIs
  <2>2. left[top] \in Nat
    BY <1>1, Zenon DEF Divided
  <2>3. left[top] \div base = 0
    BY <1>1, <2>2, NothingLeft, Zenon
  <2>4. left[top] = (left[top] \div base) * base + (left[top] % base)
        /\ left[top] % base \in 0 .. base - 1
    BY <1>1, <2>2, Quotient, Zenon
  <2>. DEFINE rest == left[top] % base
  <2>5. left[top] = 0 * base + rest /\ rest \in 0 .. base - 1
    BY <2>3, <2>4, Zenon
  <2>. HIDE DEF rest
  <2>6. rest = left[top]
    BY <2>5
  <2>. QED
    BY <2>1, <2>6, Zenon DEF rest
<1>5. text[0] = 0 => text[1] = Nul
  <2>1. text[0] = 0 => top = 0
    BY <1>4
  <2>. QED
    BY <1>3, <2>1
<1>6. Reads(text, base, left[0])
  BY <1>2, <1>5, Zenon DEF Reads
<1>7. Fits(text, max)
  BY <1>3 DEF Fits
<1>. QED
  BY <1>6, <1>7

\* A conversion to a buffer that the digits and the NUL fit in: what is printed
\* is read as the number, and does not start with a zero that says nothing.
LEMMA TextRead ==
  ASSUME NEW n \in Nat, NEW base \in Nat, base >= 2, NEW max \in Nat, max >= 2,
         Left(n, base, max)[max - 1] = 0
  PROVE  Reads(Text(n, base, max), base, n) /\ Fits(Text(n, base, max), max)
<1>. DEFINE left == Left(n, base, max)
            top == StackTop(n, base, max)
            text == Text(n, base, max)
<1>1. base \in Nat \ {0}
  OBVIOUS
<1>2. left[0] = n /\ Divided(left, base, max)
  BY <1>1, LeftIs, Zenon
<1>3. left[max - 1] = 0
  OBVIOUS
<1>4. top = CHOOSE k \in 0 .. max - 1 : left[k + 1] = 0 /\ (k = 0 \/ left[k] # 0)
  BY DEF StackTop
<1>5. text = Printed(left, base, top)
  BY DEF Text, Printed
<1>. HIDE DEF left, text
<1>6. \E k \in 0 .. max - 1 : left[k + 1] = 0 /\ (k = 0 \/ left[k] # 0)
  <2>. DEFINE Ends == {k \in Nat : k <= max - 1 /\ left[k + 1] = 0}
  <2>1. max - 2 \in Nat /\ max - 2 <= max - 1 /\ (max - 2) + 1 = max - 1
    OBVIOUS
  <2>2. max - 2 \in Ends
    BY <1>3, <2>1
  <2>3. PICK k \in Ends : \A m \in Ends : k <= m
    <3>1. Ends \in SUBSET Nat
      OBVIOUS
    <3>. HIDE DEF Ends
    <3>. QED
      BY <2>2, <3>1, LeastOf
  <2>4. k # 0 => left[k] # 0
    <3>. SUFFICES ASSUME k # 0, left[k] = 0 PROVE FALSE
      OBVIOUS
    <3>1. k \in Nat /\ k <= max - 1
      BY <2>3
    <3>2. k - 1 \in Nat /\ k - 1 <= max - 1 /\ (k - 1) + 1 = k /\ ~(k <= k - 1)
      BY <3>1
    <3>3. k - 1 \in Ends
      BY <3>2
    <3>. HIDE DEF Ends
    <3>. QED
      BY <2>3, <3>2, <3>3
  <2>5. k \in 0 .. max - 1 /\ left[k + 1] = 0
    BY <2>3
  <2>. QED
    BY <2>4, <2>5
<1>7. top \in 0 .. max - 1 /\ left[top + 1] = 0 /\ (top = 0 \/ left[top] # 0)
  BY <1>4, <1>6
<1>. HIDE DEF top
<1>8. top \in Nat /\ top \in 0 .. max /\ top + 1 < max
  BY <1>3, <1>7
<1>9. Divided(left, base, top)
  BY <1>2, <1>8, FewerTurns, Zenon
<1>10. left[top] \in Nat /\ left[top] \div base = 0
  BY <1>2, <1>7, OneTurn, Zenon
<1>11. left[top] < base
  BY <1>1, <1>10, NothingLeft, Zenon
<1>12. Reads(Printed(left, base, top), base, left[0]) /\ Fits(Printed(left, base, top), max)
  BY <1>7, <1>8, <1>9, <1>11, PrintedRead, Zenon
<1>. QED
  BY <1>2, <1>5, <1>12, Zenon DEF text

\* Numbers of 16 bits have at most five decimal digits and four hexadecimal ones.
LEMMA DecimalFits ==
  ASSUME NEW n \in Nat, n < 65536, NEW max \in Nat, max >= 6
  PROVE  Left(n, 10, max)[max - 1] = 0
<1>. DEFINE left == Left(n, 10, max)
<1>1. left[0] \in Nat /\ left[0] < 65536 /\ Divided(left, 10, max)
  <2>1. n \in Nat /\ 10 \in Nat \ {0}
    BY SMT
  <2>. QED
    BY <2>1, LeftIs, SMT
<1>. HIDE DEF left
<1>2. \A k \in 1 .. 5 : left[k] \in Nat /\ left[k] = left[k - 1] \div 10
  <2>. SUFFICES ASSUME NEW k \in 1 .. 5
                PROVE  left[k] \in Nat /\ left[k] = left[k - 1] \div 10
    BY SMT
  <2>1. k \in 1 .. max /\ k \in 0 .. max
    BY SMT
  <2>. QED
    BY <1>1, <2>1, SMT DEF Divided
<1>3. left[1] \in Nat /\ left[1] < 6554
  <2>1. left[1] \in Nat /\ left[1] = left[0] \div 10
    BY <1>2, SMT
  <2>. QED
    BY <1>1, <2>1, SMT
<1>4. left[2] \in Nat /\ left[2] < 656
  <2>1. left[2] \in Nat /\ left[2] = left[1] \div 10
    BY <1>2, SMT
  <2>. QED
    BY <1>3, <2>1, SMT
<1>5. left[3] \in Nat /\ left[3] < 66
  <2>1. left[3] \in Nat /\ left[3] = left[2] \div 10
    BY <1>2, SMT
  <2>. QED
    BY <1>4, <2>1, SMT
<1>6. left[4] \in Nat /\ left[4] < 7
  <2>1. left[4] \in Nat /\ left[4] = left[3] \div 10
    BY <1>2, SMT
  <2>. QED
    BY <1>5, <2>1, SMT
<1>7. left[5] \in Nat /\ left[5] < 1
  <2>1. left[5] \in Nat /\ left[5] = left[4] \div 10
    BY <1>2, SMT
  <2>. QED
    BY <1>6, <2>1, SMT
<1>8. 5 \in 0 .. max - 1 /\ 10 \in Nat \ {0} /\ left[5] = 0
  BY <1>7, SMT
<1>9. left[max - 1] = 0
  BY <1>1, <1>8, NoneLeft, SMT
<1>. QED
  BY <1>9, SMT DEF left

LEMMA HexadecimalFits ==
  ASSUME NEW n \in Nat, n < 65536, NEW max \in Nat, max >= 5
  PROVE  Left(n, 16, max)[max - 1] = 0
<1>. DEFINE left == Left(n, 16, max)
<1>1. left[0] \in Nat /\ left[0] < 65536 /\ Divided(left, 16, max)
  <2>1. n \in Nat /\ 16 \in Nat \ {0}
    BY SMT
  <2>. QED
    BY <2>1, LeftIs, SMT
<1>. HIDE DEF left
<1>2. \A k \in 1 .. 4 : left[k] \in Nat /\ left[k] = left[k - 1] \div 16
  <2>. SUFFICES ASSUME NEW k \in 1 .. 4
                PROVE  left[k] \in Nat /\ left[k] = left[k - 1] \div 16
    BY SMT
  <2>1. k \in 1 .. max /\ k \in 0 .. max
    BY SMT
  <2>. QED
    BY <1>1, <2>1, SMT DEF Divided
<1>3. left[1] \in Nat /\ left[1] < 4096
  <2>1. left[1] \in Nat /\ left[1] = left[0] \div 16
    BY <1>2, SMT
  <2>. QED
    BY <1>1, <2>1, SMT
<1>4. left[2] \in Nat /\ left[2] < 256
  <2>1. left[2] \in Nat /\ left[2] = left[1] \div 16
    BY <1>2, SMT
  <2>. QED
    BY <1>3, <2>1, SMT
<1>5. left[3] \in Nat /\ left[3] < 16
  <2>1. left[3] \in Nat /\ left[3] = left[2] \div 16
    BY <1>2, SMT
  <2>. QED
    BY <1>4, <2>1, SMT
<1>6. left[4] \in Nat /\ left[4] < 1
  <2>1. left[4] \in Nat /\ left[4] = left[3] \div 16
    BY <1>2, SMT
  <2>. QED
    BY <1>5, <2>1, SMT
<1>7. 4 \in 0 .. max - 1 /\ 16 \in Nat \ {0} /\ left[4] = 0
  BY <1>6, SMT
<1>8. left[max - 1] = 0
  BY <1>1, <1>7, NoneLeft, SMT
<1>. QED
  BY <1>8, SMT DEF left

\* A number of 16 bits has 16 binary digits; the number 0 is printed with 17.
LEMMA BinaryRead ==
  ASSUME NEW n \in Nat, n < 65536, NEW max \in Nat, max >= 18
  PROVE  Value(kprint_bin(n, 2), 2) = n /\ Fits(kprint_bin(n, 2), max)
<1>. DEFINE top == IF n = 0 THEN 16 ELSE 15
            left == Left(n, 2, top)
            text == kprint_bin(n, 2)
<1>1. top \in Nat /\ top >= 15 /\ top + 1 < max /\ 2 \in Nat \ {0}
  BY SMT
<1>2. left[0] = n /\ Divided(left, 2, top)
  <2>. HIDE DEF top
  <2>. QED
    BY <1>1, LeftIs, SMT
<1>3. text = Printed(left, 2, top)
  <2>1. top = 8 * 2 - (IF n = 0 THEN 0 ELSE 1)
    BY SMT
  <2>. HIDE DEF top
  <2>. QED
    BY <2>1, SMT DEF kprint_bin, Printed
<1>. HIDE DEF left, text
<1>4. left[top] < 2
  <2>1. CASE n = 0
    <3>1. 0 \in 0 .. top /\ top \in 0 .. top /\ left[0] = 0
      BY <1>2, <2>1, SMT
    <3>. HIDE DEF top
    <3>2. left[top] = 0
      BY <1>1, <1>2, <3>1, ZeroStays, SMT
    <3>. QED
      BY <3>2, SMT
  <2>2. CASE n # 0
    <3>1. top = 15
      BY <2>2, SMT
    <3>2. \A k \in 1 .. 15 : left[k] \in Nat /\ left[k] = left[k - 1] \div 2
      <4>. SUFFICES ASSUME NEW k \in 1 .. 15
                    PROVE  left[k] \in Nat /\ left[k] = left[k - 1] \div 2
        BY SMT
      <4>1. k \in 1 .. top /\ k \in 0 .. top
        BY <3>1, SMT
      <4>. HIDE DEF top
      <4>. QED
        BY <1>2, <4>1, SMT DEF Divided
    <3>3. left[0] \in Nat /\ left[0] < 65536
      BY <1>2, SMT
    <3>4. left[1] \in Nat /\ left[1] < 32768
      <4>1. left[1] \in Nat /\ left[1] = left[0] \div 2
        BY <3>2, SMT
      <4>. QED
        BY <3>3, <4>1, SMT
    <3>5. left[2] \in Nat /\ left[2] < 16384
      <4>1. left[2] \in Nat /\ left[2] = left[1] \div 2
        BY <3>2, SMT
      <4>. QED
        BY <3>4, <4>1, SMT
    <3>6. left[3] \in Nat /\ left[3] < 8192
      <4>1. left[3] \in Nat /\ left[3] = left[2] \div 2
        BY <3>2, SMT
      <4>. QED
        BY <3>5, <4>1, SMT
    <3>7. left[4] \in Nat /\ left[4] < 4096
      <4>1. left[4] \in Nat /\ left[4] = left[3] \div 2
        BY <3>2, SMT
      <4>. QED
        BY <3>6, <4>1, SMT
    <3>8. left[5] \in Nat /\ left[5] < 2048
      <4>1. left[5] \in Nat /\ left[5] = left[4] \div 2
        BY <3>2, SMT
      <4>. QED
        BY <3>7, <4>1, SMT
    <3>9. left[6] \in Nat /\ left[6] < 1024
      <4>1. left[6] \in Nat /\ left[6] = left[5] \div 2
        BY <3>2, SMT
      <4>. QED
        BY <3>8, <4>1, SMT
    <3>10. left[7] \in Nat /\ left[7] < 512
      <4>1. left[7] \in Nat /\ left[7] = left[6] \div 2
        BY <3>2, SMT
      <4>. QED
        BY <3>9, <4>1, SMT
    <3>11. left[8] \in Nat /\ left[8] < 256
      <4>1. left[8] \in Nat /\ left[8] = left[7] \div 2
        BY <3>2, SMT
      <4>. QED
        BY <3>10, <4>1, SMT
    <3>12. left[9] \in Nat /\ left[9] < 128
      <4>1. left[9] \in Nat /\ left[9] = left[8] \div 2
        BY <3>2, SMT
      <4>. QED
        BY <3>11, <4>1, SMT
    <3>13. left[10] \in Nat /\ left[10] < 64
      <4>1. left[10] \in Nat /\ left[10] = left[9] \div 2
        BY <3>2, SMT
      <4>. QED
        BY <3>12, <4>1, SMT
    <3>14. left[11] \in Nat /\ left[11] < 32
      <4>1. left[11] \in Nat /\ left[11] = left[10] \div 2
        BY <3>2, SMT
      <4>. QED
        BY <3>13, <4>1, SMT
    <3>15. left[12] \in Nat /\ left[12] < 16
      <4>1. left[12] \in Nat /\ left[12] = left[11] \div 2
        BY <3>2, SMT
      <4>. QED
        BY <3>14, <4>1, SMT
    <3>16. left[13] \in Nat /\ left[13] < 8
      <4>1. left[13] \in Nat /\ left[13] = left[12] \div 2
        BY <3>2, SMT
      <4>. QED
        BY <3>15, <4>1, SMT
    <3>17. left[14] \in Nat /\ left[14] < 4
      <4>1. left[14] \in Nat /\ left[14] = left[13] \div 2
        BY <3>2, SMT
      <4>. QED
        BY <3>16, <4>1, SMT
    <3>18. left[15] \in Nat /\ left[15] < 2
      <4>1. left[15] \in Nat /\ left[15] = left[14] \div 2
        BY <3>2, SMT
      <4>. QED
        BY <3>17, <4>1, SMT
    <3>. QED
      BY <3>1, <3>18, SMT
  <2>. QED
    BY <2>1, <2>2, SMT
<1>5. 2 \in Nat /\ 2 >= 2
  BY SMT
<1>. HIDE DEF top
<1>6. Value(text, 2) = left[0]
  BY <1>1, <1>2, <1>3, <1>4, <1>5, ValueIs, SMT
<1>7. DOMAIN text = 0 .. top + 1
  BY <1>1, <1>3, PrintedIs, SMT
<1>8. Fits(text, max)
  BY <1>1, <1>7, SMT DEF Fits
<1>. QED
  BY <1>2, <1>6, <1>8, SMT DEF text

-----------------------------------------------------------------------------
(* main's tests and assignments. *)

LEMMA InitBoot == Init => BootInv
<1>. SUFFICES ASSUME Init PROVE BootInv
  OBVIOUS
<1>1. machine.first \in Pages
  BY MachinesAssumption DEF Init, IsMachine
<1>2. i \in Nat
  BY <1>1, Spans DEF Init, Pages
<1>. QED
  BY <1>2 DEF Init, BootInv

\* Each test freezes the machines that it is for and lets the others pass.
LEMMA StepBoot ==
  ASSUME BootInv, [Next]_vars
  PROVE  BootInv'
<1>1. IsMachine(machine) /\ i \in Nat /\ machine \in Machines
  BY MachineTypes DEF BootInv
<1>2. machine' = machine
  BY DEF Next, InitializeVideo, Checks, acpi_init, enable_lapic, enter_sysprompt, Halt, vars
<1>3. CASE InitializeVideo
  BY <1>1, <1>2, <1>3 DEF InitializeVideo, BootInv
<1>4. CASE Checks
  <2>1. \/ /\ machine.xsdp = NULL \/ ~ValidXsdp(machine.xsdp)
           /\ pc' = "frozen"
        \/ /\ machine.xsdp # NULL /\ ValidXsdp(machine.xsdp)
           /\ pc' = "acpi_init"
    BY <1>4 DEF Checks, cpu_freeze
  <2>2. pc = "checks" /\ UNCHANGED <<i, pte, acpi_tables, lapic_addr, msr, machine>>
    BY <1>4 DEF Checks
  <2>. QED
    BY <2>1, <2>2 DEF BootInv, Passes
<1>5. CASE acpi_init
  <2>. DEFINE tables == [FADT |-> get_acpi_table(machine.xsdp.xsdt, "FACP"),
                         HPET |-> get_acpi_table(machine.xsdp.xsdt, "HPET"),
                         MADT |-> get_acpi_table(machine.xsdp.xsdt, "APIC")]
  <2>1. /\ tables.FADT = get_acpi_table(machine.xsdp.xsdt, "FACP")
        /\ tables.MADT = get_acpi_table(machine.xsdp.xsdt, "APIC")
        /\ DOMAIN tables = {"FADT", "HPET", "MADT"}
    OBVIOUS
  <2>2. /\ pc = "acpi_init" /\ acpi_tables' = tables
        /\ pc' = IF tables.FADT = NULL \/ tables.MADT = NULL
                 THEN "frozen" ELSE "enable_lapic"
        /\ UNCHANGED <<i, pte, lapic_addr, msr, machine>>
    BY <1>5 DEF acpi_init, cpu_freeze
  <2>. HIDE DEF tables
  <2>. QED
    BY <2>1, <2>2 DEF BootInv, Passes
<1>6. CASE enable_lapic
  <2>1. /\ pc = "enable_lapic" /\ i' = 0
        /\ UNCHANGED <<pte, acpi_tables, machine>>
    BY <1>6 DEF enable_lapic
  <2>2. CASE ~machine.apic
    <3>1. pc' = "frozen" /\ UNCHANGED <<lapic_addr, msr>>
      BY <1>6, <2>2 DEF enable_lapic, cpu_freeze
    <3>. QED
      BY <2>1, <2>2, <3>1 DEF BootInv, Passes
  <2>3. CASE machine.apic
    <3>1. /\ lapic_addr' = get_lapic_address_acpi(acpi_tables.MADT)
          /\ msr' = lapic_set_base(lapic_get_base(msr))
          /\ pc' = "enter_sysprompt"
      BY <1>6, <2>3 DEF enable_lapic
    <3>2. msr = machine.base
      BY <2>1 DEF BootInv
    <3>. QED
      BY <2>1, <2>3, <3>1, <3>2, KernelAssumption DEF BootInv
  <2>. QED
    BY <2>2, <2>3
<1>7. CASE enter_sysprompt
  <2>1. /\ pc = "enter_sysprompt" /\ i' = i + 1
        /\ pc' = IF i = LastNumber THEN "hlt" ELSE pc
        /\ UNCHANGED <<pte, acpi_tables, lapic_addr, msr, machine>>
    BY <1>7 DEF enter_sysprompt
  <2>2. i + 1 \in Nat /\ (pc' = "enter_sysprompt" => i' <= LastNumber)
    BY <1>1, <2>1, KernelAssumption DEF BootInv
  <2>. QED
    BY <2>1, <2>2 DEF BootInv
<1>8. CASE UNCHANGED vars
  BY <1>8 DEF vars, BootInv
<1>9. CASE Halt
  BY <1>8, <1>9 DEF Halt
<1>. QED
  BY <1>3, <1>4, <1>5, <1>6, <1>7, <1>8, <1>9 DEF Next

\* The invariant is inductive, whatever the machine.
LEMMA AlwaysIInv == Spec => []IInv
<1>1. Init => IInv
  BY InitPages, InitBoot DEF IInv
<1>2. IInv /\ [Next]_vars => IInv'
  BY StepPages, StepBoot DEF IInv
<1>. QED
  BY <1>1, <1>2, PTL DEF Spec

-----------------------------------------------------------------------------

\* The page tables stay page tables, and the base of the local APIC a number.
THEOREM TypeCorrect == Spec => []TypeOK
<1>1. IInv => TypeOK
  <2>. SUFFICES ASSUME IInv PROVE TypeOK
    OBVIOUS
  <2>. USE DEF IInv
  <2>1. IsMachine(machine)
    BY MachineTypes
  <2>2. DOMAIN pte = Places /\ \A place \in Places : pte[place].hi \in Pages
    BY DEF PagesInv, Tables
  <2>3. machine.base \in Nat
    BY <2>1, AcpiAssumption DEF IsMachine
  <2>4. lapic_addr \in Nat \cup {InTheMadt}
    <3>1. CASE pc \in {"enter_sysprompt", "hlt"}
      <4>1. /\ machine.xsdp # NULL /\ acpi_tables.MADT # NULL
            /\ acpi_tables.MADT = get_acpi_table(machine.xsdp.xsdt, "APIC")
            /\ lapic_addr = get_lapic_address_acpi(acpi_tables.MADT)
        BY <3>1 DEF BootInv
      <4>2. acpi_tables.MADT.lapic_address \in Nat
        BY <2>1, <4>1 DEF IsMachine, IsXsdt
      <4>. QED
        BY <4>1, <4>2 DEF get_lapic_address_acpi
    <3>2. CASE pc \notin {"enter_sysprompt", "hlt"}
      BY <3>2 DEF BootInv
    <3>. QED
      BY <3>1, <3>2
  <2>5. msr \in Nat
    <3>1. lapic_get_base(machine.base) \in Nat
      BY <2>3, AcpiAssumption DEF lapic_get_base
    <3>2. lapic_set_base(lapic_get_base(machine.base)) \in Nat
      BY <3>1 DEF lapic_set_base, Kept
    <3>. QED
      BY <2>3, <3>2 DEF BootInv
  <2>. QED
    BY <2>1, <2>2, <2>4, <2>5 DEF TypeOK, BootInv
<1>. QED
  BY <1>1, AlwaysIInv, PTL

\* main changes no entry but those of the frame buffer's pages, whatever the
\* sizes of the pages and however many of them one entry maps (mem.c:44-127).
THEOREM OthersAlwaysKept == Spec => []OthersKept
<1>1. IInv => OthersKept
  <2>. SUFFICES ASSUME IInv, NEW place \in Places, pte[place] # machine.tables[place]
                PROVE  \E v \in Framebuffer : get_mem_page(machine.tables, v) = place
    BY DEF OthersKept
  <2>1. pte \in Tables /\ machine.tables \in Tables
    BY MachineTypes DEF IInv, PagesInv
  <2>2. pte[place].ps = machine.tables[place].ps
    BY DEF IInv, PagesInv
  <2>3. pte[place].hi # machine.tables[place].hi
    BY <2>1, <2>2 DEF Tables
  <2>. QED
    BY <2>3 DEF IInv, PagesInv
<1>. QED
  BY <1>1, AlwaysIInv, PTL

\* Where the frame buffer lies in large pages, it is marked and every page is
\* still mapped to itself, although the marks are made through entries that are
\* marked already (vga.c:27-31).
THEOREM AlwaysMappedAsBefore ==
  ASSUME IdentityMapped
  PROVE  Spec => []MappedAsBefore
<1>1. IInv => MappedAsBefore
  <2>. SUFFICES ASSUME IInv, LargePages
                PROVE  /\ \A v \in Pages : Frame(pte, v) = v
                       /\ pc # "initialize_video" => \A v \in Framebuffer : Pat(pte, v)
    BY DEF MappedAsBefore
  <2>. DEFINE t == machine.tables
  <2>. USE DEF IInv
  <2>1. /\ t \in Tables /\ pte \in Tables /\ machine \in Machines
        /\ Framebuffer \subseteq Nat /\ Pages \subseteq Nat
    BY MachineTypes DEF PagesInv, BootInv
  <2>2. \A v \in Nat : get_mem_page(pte, v) = get_mem_page(t, v)
    BY WalkBySizes DEF PagesInv
  <2>3. \A v \in Framebuffer : LevelOf(get_mem_page(t, v)) \in {2, 3}
    BY <2>1, WalkEnds DEF LargePages, IsSmall
  <2>4. ASSUME NEW v \in Pages PROVE Frame(pte, v) = v
    <3>. DEFINE place == get_mem_page(t, v)
                span == Span(LevelOf(place))
    <3>1. v \in Nat /\ place \in Places /\ LevelOf(place) \in 2 .. 4
      BY <2>1, WalkEnds
    <3>2. get_mem_page(pte, v) = place
      BY <2>2, <3>1
    <3>3. Frame(t, v) = v
      BY <2>1 DEF IdentityMapped
    <3>4. span \in Nat \ {0}
      BY <3>1, Spans
    <3>. HIDE DEF place
    <3>5. pte[place].hi \div span = t[place].hi \div span
      <4>1. CASE pte[place].hi = t[place].hi
        BY <4>1
      <4>2. CASE pte[place].hi # t[place].hi
        <5>1. PICK w \in Framebuffer : get_mem_page(t, w) = place
          BY <3>1, <4>2 DEF PagesInv
        <5>2. LevelOf(place) \in {2, 3}
          BY <2>3, <5>1
        <5>3. span % 2 = 0
          BY <5>2, EvenSpans
        <5>4. pte[place].hi = WithFlag(t[place].hi)
          BY <3>1, <4>2 DEF PagesInv
        <5>5. t[place].hi \in Nat
          BY <2>1, <3>1 DEF Tables
        <5>. QED
          BY <3>4, <5>3, <5>4, <5>5, FlagInSpan
      <4>. QED
        BY <4>1, <4>2
    <3>6. /\ Frame(pte, v) = (pte[place].hi \div span) * span + (v % span)
          /\ Frame(t, v) = (t[place].hi \div span) * span + (v % span)
      BY <3>2 DEF Frame, place
    <3>. QED
      BY <3>3, <3>5, <3>6
  <2>5. ASSUME NEW v \in Framebuffer, pc # "initialize_video" PROVE Pat(pte, v)
    <3>. DEFINE place == get_mem_page(t, v)
    <3>1. v \in Nat /\ place \in Places /\ LevelOf(place) \in {2, 3}
      BY <2>1, <2>3, WalkEnds
    <3>2. get_mem_page(pte, v) = place
      BY <2>2, <3>1
    <3>3. v \in Done
      BY <2>5 DEF Done, Framebuffer
    <3>4. pte[place].hi = WithFlag(t[place].hi)
      BY <3>3 DEF PagesInv
    <3>5. t[place].hi \in Pages
      BY <2>1, <3>1 DEF Tables
    <3>. HIDE DEF place
    <3>6. pte[place].hi % 2 = 1
      BY <3>4, <3>5, FlagOnce
    <3>. QED
      BY <3>1, <3>2, <3>6 DEF Pat
  <2>. QED
    BY <2>4, <2>5
<1>. QED
  BY <1>1, AlwaysIInv, PTL

\* The kernel freezes exactly on the machines that lack something it needs
\* (kernel.c:13-21, acpi.c:29-51, apic.c:40-46).
THEOREM FreezesExactly == Spec => []FreezesIfUnusable
<1>1. IInv => FreezesIfUnusable
  <2>. SUFFICES ASSUME IInv PROVE FreezesIfUnusable
    OBVIOUS
  <2>. USE DEF IInv
  <2>1. pc = "frozen" => ~Bootable
    BY MachineTypes, BootableMeans DEF BootInv
  <2>2. ASSUME pc \in {"enter_sysprompt", "hlt"} PROVE Bootable
    BY <2>2, MachineTypes, BootableMeans DEF BootInv, Passes
  <2>. QED
    BY <2>1, <2>2 DEF FreezesIfUnusable
<1>. QED
  BY <1>1, AlwaysIInv, PTL

\* On a machine without overrides and with an aligned base, the local APIC is
\* where the kernel looks for it, after its base was written back (apic.c:57-61).
THEOREM LapicAlwaysReached ==
  ASSUME MadtTruthful
  PROVE  Spec => []LapicReachedUsually
<1>1. IInv => LapicReachedUsually
  <2>. SUFFICES ASSUME IInv, UsualLapic, pc \in {"enter_sysprompt", "hlt"}
                PROVE  lapic_addr = msr
    BY DEF LapicReachedUsually, LapicReached
  <2>. DEFINE madt == acpi_tables.MADT
  <2>1. /\ machine.xsdp # NULL /\ madt # NULL
        /\ madt = get_acpi_table(machine.xsdp.xsdt, "APIC")
        /\ lapic_addr = get_lapic_address_acpi(madt)
        /\ msr = lapic_set_base(lapic_get_base(machine.base))
        /\ machine \in Machines /\ IsMachine(machine)
    BY MachineTypes DEF IInv, BootInv
  <2>2. {madt.entries, madt.behind} \subseteq Seq([type : Nat, length : Nat])
    BY <2>1 DEF IsMachine, IsXsdt
  <2>3. \A e \in Range(madt.entries \o madt.behind) :
          e.type # MADT_ENTRY_TYPE_LAPIC_ADDRESS_OVERRIDE
    BY <2>1 DEF UsualLapic
  <2>4. madt.lapic_address = machine.base
    BY <2>1 DEF MadtTruthful
  <2>. HIDE DEF madt
  <2>5. lapic_addr = machine.base
    BY <2>1, <2>2, <2>3, <2>4, NoOverrideFound
  <2>6. machine.base \in 0 .. PhysicalPages - 1 /\ machine.base % 16 = 0
        /\ PhysicalPages \in Nat \ {0}
    BY <2>1, AcpiAssumption DEF IsMachine, UsualLapic
  <2>7. lapic_get_base(machine.base) = machine.base
    BY <2>6 DEF lapic_get_base
  <2>8. lapic_set_base(machine.base) = machine.base
    BY <2>6 DEF lapic_set_base, Kept
  <2>. QED
    BY <2>1, <2>5, <2>7, <2>8
<1>. QED
  BY <1>1, AlwaysIInv, PTL

\* The numbers of the prompt's loop are read as they are from what the code
\* prints in the three bases, and the buffers hold the texts (vga.c:160-225).
THEOREM NumbersAlwaysRead ==
  ASSUME NumbersFit
  PROVE  Spec => []NumbersRead
<1>1. IInv => NumbersRead
  <2>. SUFFICES ASSUME IInv, pc = "enter_sysprompt"
                PROVE  /\ Reads(kprint_num(i), 10, i) /\ Fits(kprint_num(i), MaxDecDigits)
                       /\ Reads(kprint_hex(i), 16, i) /\ Fits(kprint_hex(i), MaxHexDigits)
                       /\ Value(kprint_bin(i, 2), 2) = i
                       /\ Fits(kprint_bin(i, 2), MaxBinDigits)
                       /\ Reads(efi_printnum(i), 10, i) /\ Reads(efi_printhex(i), 16, i)
    BY SMT DEF NumbersRead
  <2>1. i \in Nat /\ i < 65536
    BY KernelAssumption, SMT DEF IInv, BootInv, NumbersFit
  <2>2. /\ MaxDecDigits \in Nat /\ MaxDecDigits >= 6
        /\ MaxHexDigits \in Nat /\ MaxHexDigits >= 5
        /\ MaxBinDigits \in Nat /\ MaxBinDigits >= 18
    BY DigitsAssumption, SMT DEF NumbersFit
  <2>3. Left(i, 10, MaxDecDigits)[MaxDecDigits - 1] = 0
    BY <2>1, <2>2, DecimalFits, SMT
  <2>4. Left(i, 16, MaxHexDigits)[MaxHexDigits - 1] = 0
    BY <2>1, <2>2, HexadecimalFits, SMT
  <2>5. Reads(Text(i, 10, MaxDecDigits), 10, i) /\ Fits(Text(i, 10, MaxDecDigits), MaxDecDigits)
    <3>1. MaxDecDigits >= 2 /\ 10 \in Nat /\ 10 >= 2
      BY <2>2, SMT
    <3>. QED
      BY <2>1, <2>2, <2>3, <3>1, TextRead, SMT
  <2>6. Reads(Text(i, 16, MaxHexDigits), 16, i) /\ Fits(Text(i, 16, MaxHexDigits), MaxHexDigits)
    <3>1. MaxHexDigits >= 2 /\ 16 \in Nat /\ 16 >= 2
      BY <2>2, SMT
    <3>. QED
      BY <2>1, <2>2, <2>4, <3>1, TextRead, SMT
  <2>7. Value(kprint_bin(i, 2), 2) = i /\ Fits(kprint_bin(i, 2), MaxBinDigits)
    BY <2>1, <2>2, BinaryRead, SMT
  <2>. QED
    BY <2>5, <2>6, <2>7, SMT DEF kprint_num, kprint_hex, efi_printnum, efi_printhex
<1>. QED
  BY <1>1, AlwaysIInv, PTL

=============================================================================
