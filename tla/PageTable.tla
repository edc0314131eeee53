----------------------------- MODULE PageTable -----------------------------
(***************************************************************************)
(* The page tables and what the kernel does with them                      *)
(* (src/os/src/drivers/mem.c): four levels of tables with Entries entries  *)
(* each, 512 in the machine.  Addresses are numbers of 4 KiB pages.        *)
(*                                                                         *)
(* An entry is named by the indices that lead to it; its bits are ps, bit  *)
(* 7, and hi, those from bit 12 up.  Bit 12, the lowest of hi, is PAT in   *)
(* an entry of a large page and part of the frame in one of a 4 KiB page.  *)
(***************************************************************************)
EXTENDS Integers

CONSTANT Entries

ASSUME PageTableAssumption == Entries \in Nat /\ Entries >= 2 /\ Entries % 2 = 0

Index == 0 .. Entries - 1

\* The pages an entry of level k maps if it maps any, 512^(4 - k) in the machine.
Span(k) == <<Entries * Entries * Entries, Entries * Entries, Entries, 1>>[k]

\* The pages under one PML4.
PageCount == Entries * Span(1)
Pages == 0 .. PageCount - 1

\* The entries of the tables of level 2 (PDP), 3 (PD) and 4 (PT).
Places == UNION {[1 .. k -> Index] : k \in 2 .. 4}

Tables == [Places -> [ps : BOOLEAN, hi : Pages]]

PlaceOf(v, k) == [j \in 1 .. k |-> (v \div Span(j)) % Entries]

LevelOf(place) == CHOOSE k \in 2 .. 4 : DOMAIN place = 1 .. k

\* The place of the entry that maps page v: bit 7 ends the walk.
get_mem_page(t, v) ==
  IF t[PlaceOf(v, 2)].ps THEN PlaceOf(v, 2)
  ELSE IF t[PlaceOf(v, 3)].ps THEN PlaceOf(v, 3)
  ELSE PlaceOf(v, 4)

\* Faulty variant: the flag is added to what is there.
WithFlagAdded(hi) == (hi + 1) % PageCount

\* Faulty variant: the flag above the highest bit of an address.
WithFlagAbove(hi) == hi + PageCount

\* (*page) |= PFlag_PAT.
WithFlag(hi) == IF hi % 2 = 0 THEN hi + 1 ELSE hi

\* The change of the tables only; what the function prints on the way, the screen
\* it clears and shows (mem.c:47-60, 78-83), is in Vga.
set_mem_page_flags(t, v) == [t EXCEPT ![get_mem_page(t, v)].hi = WithFlag(@)]

\* The processor: the frame of page v, and whether its entry says PAT, which a
\* 4 KiB page has in bit 7.
Frame(t, v) ==
  LET place == get_mem_page(t, v)
      span == Span(LevelOf(place))
  IN (t[place].hi \div span) * span + (v % span)

Pat(t, v) ==
  LET place == get_mem_page(t, v)
  IN IF LevelOf(place) = 4 THEN t[place].ps ELSE t[place].hi % 2 = 1

IsSmall(t, v) == LevelOf(get_mem_page(t, v)) = 4

\* The firmware's tables: every page maps itself, through an entry of 1 GiB, of
\* 2 MiB or of 4 KiB.
Identity(huge, large) ==
  [p \in Places |->
     [ps |-> p \in huge \cup large,
      hi |-> LET At(k) == IF k \in DOMAIN p THEN p[k] * Span(k) ELSE 0
             IN At(1) + At(2) + At(3) + At(4)]]

=============================================================================
