---------------------------- MODULE LoaderProofs ----------------------------
(***************************************************************************)
(* The kernel loader for every set of kernel files, every memory and every *)
(* size of a page.  That it keeps its buffers in balance holds whatever    *)
(* the file is; that it puts the kernel into memory, and writes nowhere    *)
(* else, holds for the files a linker makes.                               *)
(***************************************************************************)
EXTENDS Loader, TLAPS

\* Where a PT_LOAD program header is being worked on.
AtSegment == {"allocate", "read", "copy", "free_data", "zero_fill"}

\* Where its pages are already allocated.
Allocated == {"read", "copy", "free_data", "zero_fill"}

Cleanup == {"close", "free_header", "free_program_headers", "returned"}

\* A kernel file is open, and no status has ended load_kernel early.
FileKnown ==
  /\ file \in Files \cup {NoFile}
  /\ pc \notin {"open", "spin"} => file \in Files
  /\ pc # "failed"

\* The buffers that are in use at each place.
PoolAt ==
  /\ pc \in {"open", "spin", "read_identity", "read_headers", "returned"} => pool = {}
  /\ pc \in {"validate", "free_identity"} => pool = {"identity"}
  /\ pc \in {"segments", "next", "allocate", "read", "zero_fill", "close", "free_header"} =>
       pool = {"header", "program_headers"}
  /\ pc \in {"copy", "free_data"} => pool = {"header", "program_headers", "data"}
  /\ pc = "free_program_headers" => pool = {"program_headers"}

\* The index is that of a PT_LOAD header, and at the end past the last.
IndexRight ==
  /\ pc \in AtSegment => i \in DOMAIN file.segs /\ Seg.load
  /\ pc \in Cleanup => i > NumProgramHeaders
  /\ pc \in {"open", "spin", "read_identity", "validate", "free_identity",
             "read_headers", "segments"} => i = 1

\* What holds for every file.
Kept == TypeOK /\ FileKnown /\ PoolAt /\ IndexRight

\* The PT_LOAD headers before the index: their segments are in place.
Placed == {j \in 1 .. i - 1 : file.segs[j].load}

\* The pages of the segments in place, and of the one being worked on.
PagesRight ==
  pages = (UNION {Pages(file.segs[j]) : j \in Placed})
            \cup (IF pc \in Allocated THEN Pages(Seg) ELSE {})

SegmentsPlaced == \A j \in Placed : InMemory(file.segs[j])

\* The segment being worked on: what is read and copied is its part of the file.
SegmentRight ==
  /\ pc = "read" => pos = Seg.offset
  /\ pc = "copy" => data = [start |-> Seg.offset, len |-> Seg.filesz]
  /\ pc \in {"free_data", "zero_fill"} =>
       \A k \in 0 .. Seg.filesz - 1 : mem[Seg.addr + k] = Seg.offset + k

\* The entry point stays where read_elf_file stores it.
EntryKept ==
  pc \in {"segments", "next"} \cup AtSegment \cup Cleanup => mem[NULL] = EntryPoint

Loading == PagesRight /\ SegmentsPlaced /\ SegmentRight /\ EntryKept /\ OwnPagesOnly

IInv == Kept /\ Loading

-----------------------------------------------------------------------------
(* The operators. *)

\* The quotient and the remainder.
LEMMA Division ==
  ASSUME NEW a \in Nat, NEW p \in Nat \ {0}
  PROVE  a \div p \in Nat /\ a % p \in 0 .. p - 1 /\ a = p * (a \div p) + (a % p)
OBVIOUS

LEMMA DivisionAdds ==
  ASSUME NEW q \in Nat, NEW p \in Nat \ {0}, NEW k \in Nat
  PROVE  (p * q + k) \div p = q + k \div p
OBVIOUS

LEMMA TimesMonotone ==
  ASSUME NEW m \in Nat, NEW n \in Nat, NEW p \in Nat, m <= n
  PROVE  p * m <= p * n
OBVIOUS

LEMMA Constants ==
  /\ MemSize \in Nat \ {0} /\ PageSize \in Nat \ {0}
  /\ Files \subseteq KernelFiles /\ NoFile \notin Files
  /\ Page(NULL) \in FirmwarePages /\ FirmwarePages \subseteq PageSet
BY LoaderAssumption

\* EFI_SIZE_TO_PAGES counts the pages a segment lies in, no more and no less,
\* when the segment starts at a page (loader.c:86-90).
LEMMA PageRangeCovers ==
  ASSUME NEW a \in Nat, NEW n \in Nat \ {0}, a % PageSize = 0
  PROVE  /\ EFI_SIZE_TO_PAGES(n) \in Nat \ {0}
         /\ PageRange(a, EFI_SIZE_TO_PAGES(n)) = {Page(b) : b \in a .. a + n - 1}
<1>. DEFINE q == a \div PageSize
            m == n \div PageSize
            r == n % PageSize
            c == EFI_SIZE_TO_PAGES(n)
<1>1. PageSize \in Nat \ {0}
  BY Constants
<1>2. q \in Nat /\ a = PageSize * q
  BY <1>1, Division
<1>3. m \in Nat /\ r \in 0 .. PageSize - 1 /\ n = PageSize * m + r
  BY <1>1, Division
<1>4. c = m + (IF r # 0 THEN 1 ELSE 0)
  BY DEF EFI_SIZE_TO_PAGES
<1>. HIDE DEF m, r, c
<1>5. c \in Nat \ {0}
  BY <1>3, <1>4, <1>1
<1>6. PageRange(a, c) = q .. q + c - 1
  BY DEF PageRange, Page
<1>. HIDE DEF q
<1>7. ASSUME NEW b \in a .. a + n - 1
      PROVE  Page(b) \in q .. q + c - 1
  <2>1. PICK k \in 0 .. n - 1 : b = a + k
    <3>1. b - a \in 0 .. n - 1 /\ b = a + (b - a)
      OBVIOUS
    <3>. QED
      BY <3>1
  <2>. DEFINE t == k \div PageSize
  <2>2. k \in Nat /\ k <= n - 1
    BY <2>1
  <2>3. t \in Nat /\ PageSize * t \in Nat /\ PageSize * t <= k
    BY <1>1, <2>2, Division
  <2>4. (PageSize * q + k) \div PageSize = q + t
    BY <1>1, <1>2, <2>2, DivisionAdds
  <2>5. Page(b) = q + t
    BY <1>2, <2>1, <2>4 DEF Page
  <2>. HIDE DEF t
  <2>6. PageSize * t < PageSize * m + r
    BY <1>1, <1>3, <2>2, <2>3
  <2>7. t <= m
    <3>. SUFFICES ASSUME t > m PROVE FALSE
      BY <1>3, <2>3
    <3>1. PageSize * (m + 1) <= PageSize * t
      BY <1>1, <1>3, <2>3, TimesMonotone
    <3>2. PageSize * (m + 1) = PageSize * m + PageSize
      BY <1>1, <1>3
    <3>. QED
      BY <1>1, <1>3, <2>3, <2>6, <3>1, <3>2
  <2>8. r = 0 => t # m
    BY <1>1, <1>3, <2>3, <2>6
  <2>9. t <= c - 1
    BY <1>3, <1>4, <2>3, <2>7, <2>8
  <2>. QED
    BY <1>2, <1>5, <2>3, <2>5, <2>9
<1>8. ASSUME NEW p \in q .. q + c - 1
      PROVE  \E b \in a .. a + n - 1 : p = Page(b)
  <2>. DEFINE k == p - q
  <2>1. k \in Nat /\ p = q + k /\ k <= c - 1
    BY <1>2, <1>5
  <2>. HIDE DEF k
  <2>2. PageSize * k \in Nat /\ PageSize * k <= n - 1
    <3>1. PageSize * k \in Nat
      BY <1>1, <2>1
    <3>2. CASE r # 0
      <4>1. PageSize * k <= PageSize * m
        BY <1>1, <1>3, <1>4, <2>1, <3>2, TimesMonotone
      <4>. QED
        BY <1>1, <1>3, <3>1, <3>2, <4>1
    <3>3. CASE r = 0
      <4>1. PageSize * (k + 1) <= PageSize * m
        BY <1>1, <1>3, <1>4, <2>1, <3>3, TimesMonotone
      <4>2. PageSize * (k + 1) = PageSize * k + PageSize
        BY <1>1, <2>1
      <4>. QED
        BY <1>1, <1>3, <3>1, <3>3, <4>1, <4>2
    <3>. QED
      BY <3>1, <3>2, <3>3
  <2>3. a + PageSize * k \in a .. a + n - 1
    BY <2>2
  <2>4. a + PageSize * k = PageSize * (q + k) + 0
    BY <1>1, <1>2, <2>1
  <2>5. Page(a + PageSize * k) = q + k
    <3>1. 0 \div PageSize = 0
      BY <1>1
    <3>2. (PageSize * (q + k) + 0) \div PageSize = (q + k) + 0 \div PageSize
      BY <1>1, <1>2, <2>1, DivisionAdds
    <3>. QED
      BY <1>2, <2>1, <2>4, <3>1, <3>2 DEF Page
  <2>. QED
    BY <2>1, <2>3, <2>5
<1>9. PageRange(a, c) = {Page(b) : b \in a .. a + n - 1}
  BY <1>6, <1>7, <1>8
<1>. QED
  BY <1>5, <1>9 DEF c

\* No status is an error: EFI_ERROR compares an unsigned number with zero
\* (efi.h:17), so load_kernel goes on as if the call had succeeded.
LEMMA NoError ==
  ASSUME NEW from, NEW s \in Statuses, NEW to, Step(from, s, to)
  PROVE  pc = from /\ pc' = to /\ status' \in Statuses
BY DEF Step, EFI_ERROR, Statuses, ErrorBit

LEMMA StatusTypes ==
  {EFI_SUCCESS, EFI_NOT_FOUND, EFI_INVALID_PARAMETER, EFI_UNSUPPORTED,
   EFI_INCOMPATIBLE_VERSION} \subseteq Statuses
BY DEF EFI_SUCCESS, EFI_NOT_FOUND, EFI_INVALID_PARAMETER, EFI_UNSUPPORTED,
       EFI_INCOMPATIBLE_VERSION, EFIERR, ErrorBit, Statuses

\* What the type of a file says of its headers.
LEMMA FileTypes ==
  ASSUME NEW f \in KernelFiles
  PROVE  /\ f.identity \in Identities /\ f.size \in Nat /\ f.segs \in Seq(Segment)
         /\ Len(f.segs) \in Nat /\ DOMAIN f.segs = 1 .. Len(f.segs)
         /\ \A j \in DOMAIN f.segs :
              /\ f.segs[j] \in Segment
              /\ f.segs[j].offset \in Nat /\ f.segs[j].filesz \in Nat
              /\ f.segs[j].memsz \in Nat /\ f.segs[j].addr \in Addr
              /\ f.segs[j].addr \in Nat
<1>1. f.identity \in Identities /\ f.size \in Nat /\ f.segs \in Seq(Segment)
  BY DEF KernelFiles
<1>2. \A j \in DOMAIN f.segs : f.segs[j] \in Segment
  BY <1>1
<1>3. Addr \subseteq Nat
  BY Constants DEF Addr
<1>4. \A s \in Segment : /\ s.offset \in Nat /\ s.filesz \in Nat
                        /\ s.memsz \in Nat /\ s.addr \in Addr /\ s.addr \in Nat
  BY <1>3 DEF Segment
<1>. QED
  BY <1>1, <1>2, <1>4

\* A Read delivers what was asked for, if the file has it.
LEMMA ReadDelivers ==
  ASSUME NEW p \in Nat, NEW n \in Nat, Size \in Nat
  PROVE  Delivered(p, n) \in Nat /\ (p + n <= Size => Delivered(p, n) = n)
BY DEF Delivered, Least

-----------------------------------------------------------------------------
(* What holds for every file. *)

LEMMA InitKept == Init => Kept
<1>. SUFFICES ASSUME Init PROVE Kept
  OBVIOUS
<1>1. Before \in [Addr -> Nat \cup {Zero, Junk, Firmware, EntryPoint}]
  BY DEF Before
<1>2. file = NoFile \/ file \in KernelFiles
  BY Constants DEF Init
<1>3. TypeOK
  BY <1>1, <1>2, StatusTypes DEF Init, TypeOK, Places
<1>. QED
  BY <1>3 DEF Init, Kept, FileKnown, PoolAt, IndexRight, AtSegment, Cleanup

\* The headers, and the buffers they are read into.
LEMMA HeadersKeep ==
  ASSUME Kept,
         \/ Open \/ read_elf_identity \/ validate_elf_identity \/ FreeIdentity
         \/ read_elf_file \/ CheckSegments
  PROVE  Kept'
<1>. USE DEF Kept
<1>1. CASE Open
  <2>1. /\ pc = "open" /\ status' \in Statuses
        /\ pc' = IF file = NoFile THEN "spin" ELSE "read_identity"
    BY <1>1, NoError, StatusTypes DEF Open
  <2>2. TypeOK'
    BY <1>1, <2>1 DEF Open, TypeOK, Places
  <2>. QED
    BY <1>1, <2>1, <2>2
       DEF Open, FileKnown, PoolAt, IndexRight, AtSegment, Cleanup
<1>2. CASE read_elf_identity
  <2>1. pc = "read_identity" /\ pc' = "validate" /\ status' \in Statuses
    BY <1>2, NoError, StatusTypes DEF read_elf_identity
  <2>2. file \in KernelFiles
    BY <2>1, Constants DEF FileKnown
  <2>3. pos' \in Nat
    BY <1>2, <2>2, ReadDelivers, FileTypes DEF read_elf_identity, Size
  <2>4. TypeOK'
    BY <1>2, <2>1, <2>3 DEF read_elf_identity, TypeOK, Places, Buffers
  <2>. QED
    BY <1>2, <2>1, <2>4
       DEF read_elf_identity, FileKnown, PoolAt, IndexRight, AtSegment, Cleanup
<1>3. CASE validate_elf_identity
  <2>1. file \in KernelFiles
    BY <1>3, Constants DEF validate_elf_identity, Step, FileKnown
  <2>2. file.identity \in Identities
    BY <2>1, FileTypes
  <2>. DEFINE s == CASE file.identity \in {"elf64_lsb", "bad_magic"} -> EFI_SUCCESS
                     [] file.identity = "class_32" -> EFI_UNSUPPORTED
                     [] file.identity = "msb" -> EFI_INCOMPATIBLE_VERSION
  <2>3. s \in Statuses
    BY <2>2, StatusTypes DEF Identities
  <2>4. Step("validate", s, "free_identity")
    BY <1>3 DEF validate_elf_identity
  <2>. HIDE DEF s
  <2>5. pc = "validate" /\ pc' = "free_identity" /\ status' \in Statuses
    BY <2>3, <2>4, NoError
  <2>6. TypeOK'
    BY <1>3, <2>5 DEF validate_elf_identity, TypeOK, Places
  <2>. QED
    BY <1>3, <2>5, <2>6
       DEF validate_elf_identity, FileKnown, PoolAt, IndexRight, AtSegment, Cleanup
<1>4. CASE FreeIdentity
  <2>1. pc = "free_identity" /\ pc' = "read_headers" /\ status' \in Statuses
    BY <1>4, NoError, StatusTypes DEF FreeIdentity, Free
  <2>2. TypeOK'
    BY <1>4, <2>1 DEF FreeIdentity, Free, TypeOK, Places
  <2>. QED
    BY <1>4, <2>1, <2>2
       DEF FreeIdentity, Free, FileKnown, PoolAt, IndexRight, AtSegment, Cleanup
<1>5. CASE read_elf_file
  <2>1. pc = "read_headers" /\ pc' = "segments" /\ status' \in Statuses
    BY <1>5, NoError, StatusTypes DEF read_elf_file
  <2>2. file \in KernelFiles
    BY <2>1, Constants DEF FileKnown
  <2>3. pos' \in Nat
    BY <1>5, <2>2, ReadDelivers, FileTypes DEF read_elf_file, Size, NumProgramHeaders
  <2>4. TypeOK'
    BY <1>5, <2>1, <2>3 DEF read_elf_file, TypeOK, Places, Buffers
  <2>. QED
    BY <1>5, <2>1, <2>4
       DEF read_elf_file, FileKnown, PoolAt, IndexRight, AtSegment, Cleanup
<1>6. CASE CheckSegments
  <2>1. /\ pc = "segments" /\ status' \in Statuses
        /\ pc' = IF NumProgramHeaders = 0 THEN "close" ELSE "next"
    BY <1>6, NoError, StatusTypes DEF CheckSegments
  <2>2. TypeOK'
    BY <1>6, <2>1 DEF CheckSegments, TypeOK, Places
  <2>. QED
    BY <1>6, <2>1, <2>2
       DEF CheckSegments, FileKnown, PoolAt, IndexRight, AtSegment, Cleanup,
           NumProgramHeaders
<1>. QED
  BY <1>1, <1>2, <1>3, <1>4, <1>5, <1>6

\* The loop over the program headers.
LEMMA SegmentsKeep ==
  ASSUME Kept,
         \/ LoadSegment \/ SkipSegment \/ EndSegments \/ Allocate \/ ReadData
         \/ CopyData \/ FreeData \/ ZeroFill
  PROVE  Kept'
<1>. USE DEF Kept
<1>1. pc \in {"next"} \cup AtSegment => file \in KernelFiles
  BY Constants DEF FileKnown, AtSegment
<1>2. pc \in AtSegment =>
        /\ i \in DOMAIN file.segs /\ Seg.load /\ Size \in Nat
        /\ Seg.offset \in Nat /\ Seg.filesz \in Nat /\ Seg.memsz \in Nat
        /\ Seg.addr \in Nat
  BY <1>1, FileTypes DEF IndexRight, Seg, Size
<1>3. CASE LoadSegment
  <2>1. pc = "next" /\ pc' = "allocate" /\ file \in KernelFiles
    BY <1>1, <1>3 DEF LoadSegment
  <2>2. TypeOK'
    BY <1>3, <2>1 DEF LoadSegment, TypeOK, Places
  <2>3. i \in DOMAIN file.segs
    BY <1>3, <2>1, FileTypes DEF LoadSegment, TypeOK, NumProgramHeaders
  <2>. QED
    BY <1>3, <2>1, <2>2, <2>3
       DEF LoadSegment, FileKnown, PoolAt, IndexRight, AtSegment, Cleanup, Seg
<1>4. CASE SkipSegment
  <2>1. TypeOK'
    BY <1>4 DEF SkipSegment, TypeOK
  <2>. QED
    BY <1>4, <2>1
       DEF SkipSegment, FileKnown, PoolAt, IndexRight, AtSegment, Cleanup
<1>5. CASE EndSegments
  <2>1. pc = "next" /\ pc' = "close" /\ status' \in Statuses
    BY <1>5, NoError, StatusTypes DEF EndSegments, TypeOK
  <2>2. TypeOK'
    BY <1>5, <2>1 DEF EndSegments, TypeOK, Places
  <2>. QED
    BY <1>5, <2>1, <2>2
       DEF EndSegments, FileKnown, PoolAt, IndexRight, AtSegment, Cleanup,
           NumProgramHeaders
<1>6. CASE Allocate
  <2>1. /\ pc = "allocate" /\ pc' = AfterAllocate /\ status' \in Statuses
        /\ AfterAllocate \in {"read", "zero_fill"}
    BY <1>6, NoError, StatusTypes DEF Allocate, AllocateAt, AfterAllocate
  <2>2. pages' \subseteq PageSet /\ pos' \in Nat
    BY <1>2, <1>6, <2>1 DEF Allocate, AllocateAt, CanAllocate, TypeOK, AtSegment
  <2>3. TypeOK'
    BY <1>6, <2>1, <2>2 DEF Allocate, AllocateAt, TypeOK, Places
  <2>. QED
    BY <1>6, <2>1, <2>3
       DEF Allocate, AllocateAt, FileKnown, PoolAt, IndexRight, AtSegment, Cleanup, Seg
<1>7. CASE ReadData
  <2>1. pc = "read" /\ pc' = "copy" /\ status' \in Statuses
    BY <1>7, NoError, StatusTypes DEF ReadData
  <2>2. pos \in Nat /\ Delivered(pos, Seg.filesz) \in Nat
    BY <1>2, <2>1, ReadDelivers DEF TypeOK, AtSegment
  <2>3. pos' \in Nat /\ data' \in [start : Nat, len : Nat]
    BY <1>7, <2>2 DEF ReadData
  <2>4. TypeOK'
    BY <1>7, <2>1, <2>3 DEF ReadData, TypeOK, Places, Buffers
  <2>. QED
    BY <1>7, <2>1, <2>4
       DEF ReadData, FileKnown, PoolAt, IndexRight, AtSegment, Cleanup, Seg
<1>8. CASE CopyData
  <2>1. pc = "copy" /\ pc' = "free_data" /\ status' \in Statuses
    BY <1>8, NoError, StatusTypes DEF CopyData
  <2>2. data.start \in Nat /\ Seg.addr \in Nat /\ Seg.filesz \in Nat
    BY <1>2, <2>1 DEF TypeOK, AtSegment
  <2>3. \A a \in Seg.addr .. Seg.addr + Seg.filesz - 1 :
          DataAt(a - Seg.addr) \in Nat \cup {Zero, Junk, Firmware, EntryPoint}
    BY <2>2 DEF DataAt
  <2>4. mem' \in [Addr -> Nat \cup {Zero, Junk, Firmware, EntryPoint}]
    BY <1>8, <2>3 DEF CopyData, TypeOK
  <2>5. TypeOK'
    BY <1>8, <2>1, <2>4 DEF CopyData, TypeOK, Places
  <2>. QED
    BY <1>8, <2>1, <2>5
       DEF CopyData, FileKnown, PoolAt, IndexRight, AtSegment, Cleanup, Seg
<1>9. CASE FreeData
  <2>1. pc = "free_data" /\ pc' = "zero_fill" /\ status' \in Statuses
    BY <1>9, NoError, StatusTypes DEF FreeData, Free
  <2>2. TypeOK'
    BY <1>9, <2>1 DEF FreeData, Free, TypeOK, Places
  <2>. QED
    BY <1>9, <2>1, <2>2
       DEF FreeData, Free, FileKnown, PoolAt, IndexRight, AtSegment, Cleanup, Seg
<1>10. CASE ZeroFill
  <2>1. pc = "zero_fill" /\ pc' = "next" /\ status' \in Statuses
    BY <1>10, NoError, StatusTypes DEF ZeroFill
  <2>2. mem' \in [Addr -> Nat \cup {Zero, Junk, Firmware, EntryPoint}]
    BY <1>10 DEF ZeroFill, TypeOK
  <2>3. TypeOK'
    BY <1>10, <2>1, <2>2 DEF ZeroFill, TypeOK, Places
  <2>. QED
    BY <1>10, <2>1, <2>3
       DEF ZeroFill, FileKnown, PoolAt, IndexRight, AtSegment, Cleanup
<1>. QED
  BY <1>3, <1>4, <1>5, <1>6, <1>7, <1>8, <1>9, <1>10

\* The cleanup, and the end.
LEMMA CleanupKeeps ==
  ASSUME Kept, Close \/ FreeHeader \/ FreeProgramHeaders \/ UNCHANGED vars
  PROVE  Kept'
<1>. USE DEF Kept
<1>1. CASE Close
  <2>1. pc = "close" /\ pc' = "free_header" /\ status' \in Statuses
    BY <1>1, NoError, StatusTypes DEF Close
  <2>2. TypeOK'
    BY <1>1, <2>1 DEF Close, TypeOK, Places
  <2>. QED
    BY <1>1, <2>1, <2>2
       DEF Close, FileKnown, PoolAt, IndexRight, AtSegment, Cleanup, NumProgramHeaders
<1>2. CASE FreeHeader
  <2>1. pc = "free_header" /\ pc' = "free_program_headers" /\ status' \in Statuses
    BY <1>2, NoError, StatusTypes DEF FreeHeader, Free
  <2>2. TypeOK'
    BY <1>2, <2>1 DEF FreeHeader, Free, TypeOK, Places
  <2>. QED
    BY <1>2, <2>1, <2>2
       DEF FreeHeader, Free, FileKnown, PoolAt, IndexRight, AtSegment, Cleanup,
           NumProgramHeaders
<1>3. CASE FreeProgramHeaders
  <2>1. pc = "free_program_headers" /\ pc' = "returned" /\ status' \in Statuses
    BY <1>3, NoError, StatusTypes DEF FreeProgramHeaders, Free
  <2>2. TypeOK'
    BY <1>3, <2>1 DEF FreeProgramHeaders, Free, TypeOK, Places
  <2>. QED
    BY <1>3, <2>1, <2>2
       DEF FreeProgramHeaders, Free, FileKnown, PoolAt, IndexRight, AtSegment,
           Cleanup, NumProgramHeaders
<1>4. CASE UNCHANGED vars
  BY <1>4 DEF vars, TypeOK, FileKnown, PoolAt, IndexRight, AtSegment, Cleanup,
              NumProgramHeaders, Seg
<1>. QED
  BY <1>1, <1>2, <1>3, <1>4

LEMMA AlwaysKept == Spec => []Kept
<1>1. Init => Kept
  BY InitKept
<1>2. Kept /\ [Next]_vars => Kept'
  <2>1. Done => UNCHANGED vars
    BY DEF Done
  <2>. QED
    BY <2>1, HeadersKeep, SegmentsKeep, CleanupKeeps DEF Next
<1>. QED
  BY <1>1, <1>2, PTL DEF Spec

\* The variables keep their types, whatever the kernel file is.
THEOREM TypeCorrect == Spec => []TypeOK
<1>1. Kept => TypeOK
  BY DEF Kept
<1>. QED
  BY <1>1, AlwaysKept, PTL

\* Each pool buffer is freed once, where nothing of it is needed any more, and
\* none is left behind, whatever the kernel file is: even a file that is not an
\* ELF file, and a segment whose pages are not given (loader.c:48-70, 180-186).
THEOREM PoolAlwaysBalanced == Spec => []PoolBalanced
<1>1. Kept => PoolBalanced
  BY DEF Kept, PoolAt, PoolBalanced
<1>. QED
  BY <1>1, AlwaysKept, PTL

-----------------------------------------------------------------------------
(* What holds for the files a linker makes. *)

\* Every kernel file is one that the kernel's linker script makes: its segments
\* lie in the file, start at a page, and share no page with each other nor with
\* the firmware.
Linked == \A f \in Files : WellFormed(f)

\* The cells of a segment.
Cells(s) == s.addr .. s.addr + s.memsz - 1

LEMMA SegmentLinked ==
  ASSUME Linked, file \in Files, NEW j \in DOMAIN file.segs, file.segs[j].load,
         NEW s, s = file.segs[j]
  PROVE  /\ s.offset \in Nat /\ s.filesz \in Nat /\ s.memsz \in Nat \ {0}
         /\ s.addr \in Nat /\ s.filesz <= s.memsz /\ s.addr % PageSize = 0
         /\ s.offset + s.filesz <= Size /\ Size \in Nat
         /\ s.addr + s.memsz <= MemSize
         /\ Cells(s) \subseteq Addr /\ NULL \notin Cells(s)
         /\ Pages(s) = {Page(a) : a \in Cells(s)}
         /\ Pages(s) \subseteq PageSet
         /\ Pages(s) \cap FirmwarePages = {}
         /\ \A k \in DOMAIN file.segs : file.segs[k].load /\ k # j =>
              /\ Pages(s) \cap Pages(file.segs[k]) = {}
              /\ Cells(s) \cap Cells(file.segs[k]) = {}
<1>1. file \in KernelFiles
  BY Constants
<1>2. /\ s.offset \in Nat /\ s.filesz \in Nat /\ s.memsz \in Nat /\ s.addr \in Nat
      /\ Size \in Nat
  BY <1>1, FileTypes DEF Size
<1>3. /\ LoadableSegment(s, Size)
      /\ \A k \in DOMAIN file.segs : file.segs[k].load /\ j # k =>
           Pages(s) \cap Pages(file.segs[k]) = {}
  BY DEF Linked, WellFormed, Size
<1>4. \A t : Pages(t) = {Page(a) : a \in Cells(t)}
  BY DEF Pages, Cells
<1>5. Cells(s) \subseteq Addr
  BY <1>2, <1>3, Constants DEF Cells, Addr, LoadableSegment
<1>6. Pages(s) \subseteq PageSet
  BY <1>4, <1>5 DEF PageSet
<1>7. NULL \notin Cells(s)
  <2>1. Page(NULL) \notin Pages(s)
    BY <1>3, Constants DEF LoadableSegment
  <2>. QED
    BY <1>4, <2>1
<1>8. \A k \in DOMAIN file.segs : file.segs[k].load /\ k # j =>
        Cells(s) \cap Cells(file.segs[k]) = {}
  <2>. SUFFICES ASSUME NEW k \in DOMAIN file.segs, file.segs[k].load, k # j,
                       NEW a \in Cells(s) \cap Cells(file.segs[k])
                PROVE  FALSE
    OBVIOUS
  <2>1. Page(a) \in Pages(s) /\ Page(a) \in Pages(file.segs[k])
    BY <1>4
  <2>. QED
    BY <1>3, <2>1
<1>. QED
  BY <1>2, <1>3, <1>4, <1>5, <1>6, <1>7, <1>8 DEF LoadableSegment

\* AllocatePages gives the pages of every segment: they are not the firmware's
\* and no segment before has taken them (loader.c:84-94).
LEMMA PagesGiven ==
  ASSUME Linked, Kept, PagesRight, pc = "allocate"
  PROVE  /\ CanAllocate(Seg.addr, EFI_SIZE_TO_PAGES(Seg.memsz))
         /\ PageRange(Seg.addr, EFI_SIZE_TO_PAGES(Seg.memsz)) = Pages(Seg)
<1>1. /\ file \in Files /\ i \in DOMAIN file.segs /\ Seg.load
      /\ Seg = file.segs[i] /\ i \in Nat
      /\ DOMAIN file.segs = 1 .. Len(file.segs) /\ Len(file.segs) \in Nat
  BY Constants, FileTypes DEF Kept, FileKnown, IndexRight, AtSegment, Seg, TypeOK
<1>2. /\ Seg.addr \in Nat /\ Seg.memsz \in Nat \ {0} /\ Seg.addr % PageSize = 0
      /\ Pages(Seg) = {Page(a) : a \in Cells(Seg)}
      /\ Pages(Seg) \subseteq PageSet /\ Pages(Seg) \cap FirmwarePages = {}
      /\ \A k \in DOMAIN file.segs : file.segs[k].load /\ k # i =>
           Pages(Seg) \cap Pages(file.segs[k]) = {}
  BY <1>1, SegmentLinked
<1>3. /\ EFI_SIZE_TO_PAGES(Seg.memsz) \in Nat \ {0}
      /\ PageRange(Seg.addr, EFI_SIZE_TO_PAGES(Seg.memsz)) = Pages(Seg)
  BY <1>2, PageRangeCovers DEF Cells
<1>4. pages = UNION {Pages(file.segs[j]) : j \in Placed}
  BY DEF PagesRight, Allocated
<1>5. \A j \in Placed : Pages(Seg) \cap Pages(file.segs[j]) = {}
  <2>1. \A j \in Placed : j \in DOMAIN file.segs /\ file.segs[j].load /\ j # i
    BY <1>1 DEF Placed
  <2>. QED
    BY <1>2, <2>1
<1>6. Pages(Seg) \cap pages = {}
  BY <1>4, <1>5
<1>. QED
  BY <1>2, <1>3, <1>6 DEF CanAllocate

\* A write into the segment being worked on disturbs no other segment, not the
\* entry point, and nothing outside the pages allocated.
LEMMA WriteInside ==
  ASSUME Linked, Kept, Loading, pc \in Allocated, UNCHANGED <<file, pages>>,
         \A a \in Addr \ Cells(Seg) : mem'[a] = mem[a]
  PROVE  /\ \A j \in Placed : InMemory(file.segs[j])'
         /\ mem'[NULL] = EntryPoint
         /\ OwnPagesOnly'
<1>1. /\ file \in Files /\ i \in DOMAIN file.segs /\ Seg.load
      /\ Seg = file.segs[i] /\ i \in Nat
      /\ DOMAIN file.segs = 1 .. Len(file.segs) /\ Len(file.segs) \in Nat
  BY Constants, FileTypes
     DEF Kept, FileKnown, IndexRight, AtSegment, Allocated, Seg, TypeOK
<1>2. /\ NULL \notin Cells(Seg) /\ Cells(Seg) \subseteq Addr
      /\ Pages(Seg) = {Page(a) : a \in Cells(Seg)}
      /\ \A k \in DOMAIN file.segs : file.segs[k].load /\ k # i =>
           Cells(Seg) \cap Cells(file.segs[k]) = {}
  BY <1>1, SegmentLinked
<1>3. ASSUME NEW j \in Placed
      PROVE  InMemory(file.segs[j])'
  <2>. DEFINE s == file.segs[j]
  <2>1. j \in DOMAIN file.segs /\ s.load /\ j # i
    BY <1>1 DEF Placed
  <2>2. Cells(s) \subseteq Addr /\ s.addr \in Nat /\ s.memsz \in Nat
    BY <1>1, <2>1, SegmentLinked
  <2>3. Cells(s) \cap Cells(Seg) = {}
    BY <1>2, <2>1
  <2>4. \A k \in 0 .. s.memsz - 1 : s.addr + k \in Cells(s)
    BY <2>2 DEF Cells
  <2>5. \A k \in 0 .. s.memsz - 1 : mem'[s.addr + k] = mem[s.addr + k]
    BY <2>2, <2>3, <2>4
  <2>6. InMemory(s)
    BY DEF Loading, SegmentsPlaced
  <2>. QED
    BY <2>5, <2>6 DEF InMemory
<1>4. mem'[NULL] = EntryPoint
  <2>1. NULL \in Addr
    BY Constants DEF Addr, NULL
  <2>. QED
    BY <1>2, <2>1 DEF Loading, EntryKept, Allocated, AtSegment
<1>5. OwnPagesOnly'
  <2>. SUFFICES ASSUME NEW a \in Addr \ {NULL}, Page(a) \notin pages
                PROVE  mem'[a] = Before[a]
    BY DEF OwnPagesOnly, Before, Addr, Page
  <2>1. pages = (UNION {Pages(file.segs[j]) : j \in Placed}) \cup Pages(Seg)
    BY DEF Loading, PagesRight
  <2>2. Pages(Seg) \subseteq pages
    BY <2>1
  <2>3. a \notin Cells(Seg)
    BY <1>2, <2>2
  <2>. QED
    BY <2>3 DEF Loading, OwnPagesOnly
<1>. QED
  BY <1>3, <1>4, <1>5

\* A step that writes no memory, and puts no segment in place.
LEMMA NoWrite ==
  ASSUME Loading, UNCHANGED <<file, mem>>, Placed' = Placed
  PROVE  SegmentsPlaced' /\ (pages \subseteq pages' => OwnPagesOnly')
<1>1. \A s : InMemory(s)' <=> InMemory(s)
  BY DEF InMemory
<1>2. SegmentsPlaced'
  BY DEF Loading, SegmentsPlaced, InMemory
<1>3. pages \subseteq pages' => OwnPagesOnly'
  BY DEF Loading, OwnPagesOnly, Before
<1>. QED
  BY <1>2, <1>3

\* A step from one place to another that touches neither memory nor pages.
LEMMA OnlyMoves ==
  ASSUME Loading, UNCHANGED <<file, i, pages, mem>>,
         pc \in Allocated <=> pc' \in Allocated
  PROVE  PagesRight' /\ SegmentsPlaced' /\ OwnPagesOnly'
<1>1. Placed' = Placed
  BY DEF Placed
<1>2. PagesRight'
  BY <1>1 DEF Loading, PagesRight, Pages, Seg
<1>. QED
  BY <1>1, <1>2, NoWrite

LEMMA InitLoading ==
  ASSUME Init
  PROVE  Loading
<1>1. Placed = {}
  BY DEF Init, Placed
<1>. QED
  BY <1>1 DEF Init, Loading, PagesRight, SegmentsPlaced, SegmentRight, EntryKept,
              OwnPagesOnly, Allocated, AtSegment, Cleanup

\* The steps that move on, the entry point's among them.
LEMMA MovesLoad ==
  ASSUME Linked, Kept, Loading,
         \/ Open \/ read_elf_identity \/ validate_elf_identity \/ FreeIdentity
         \/ read_elf_file \/ CheckSegments \/ LoadSegment \/ EndSegments
         \/ Close \/ FreeHeader \/ FreeProgramHeaders \/ UNCHANGED vars
  PROVE  Loading'
<1>. USE DEF Loading, Allocated, AtSegment, Cleanup
<1>1. CASE Open
  <2>1. pc = "open" /\ pc' \in {"spin", "read_identity"}
    BY <1>1, NoError, StatusTypes DEF Open
  <2>. QED
    BY <1>1, <2>1, OnlyMoves DEF Open, SegmentRight, EntryKept
<1>2. CASE read_elf_identity
  <2>1. pc = "read_identity" /\ pc' = "validate"
    BY <1>2, NoError, StatusTypes DEF read_elf_identity
  <2>. QED
    BY <1>2, <2>1, OnlyMoves DEF read_elf_identity, SegmentRight, EntryKept
<1>3. CASE validate_elf_identity
  <2>1. pc = "validate" /\ pc' \in {"free_identity", "failed"}
    BY <1>3 DEF validate_elf_identity, Step
  <2>. QED
    BY <1>3, <2>1, OnlyMoves DEF validate_elf_identity, SegmentRight, EntryKept
<1>4. CASE FreeIdentity
  <2>1. pc = "free_identity" /\ pc' = "read_headers"
    BY <1>4, NoError, StatusTypes DEF FreeIdentity, Free
  <2>. QED
    BY <1>4, <2>1, OnlyMoves DEF FreeIdentity, Free, SegmentRight, EntryKept
<1>5. CASE read_elf_file
  <2>1. pc = "read_headers" /\ pc' = "segments"
    BY <1>5, NoError, StatusTypes DEF read_elf_file
  <2>2. Placed = {} /\ Placed' = {}
    BY <1>5, <2>1 DEF read_elf_file, Placed, Kept, IndexRight
  <2>3. NULL \in Addr
    BY Constants DEF Addr, NULL
  <2>4. mem'[NULL] = EntryPoint /\ \A a \in Addr \ {NULL} : mem'[a] = mem[a]
    BY <1>5, <2>3 DEF read_elf_file, Kept, TypeOK
  <2>5. OwnPagesOnly'
    BY <1>5, <2>4 DEF read_elf_file, OwnPagesOnly, Before
  <2>. QED
    BY <1>5, <2>1, <2>2, <2>4, <2>5
       DEF read_elf_file, PagesRight, SegmentsPlaced, SegmentRight, EntryKept
<1>6. CASE CheckSegments
  <2>1. pc = "segments" /\ pc' \in {"close", "next"}
    BY <1>6, NoError, StatusTypes DEF CheckSegments
  <2>. QED
    BY <1>6, <2>1, OnlyMoves DEF CheckSegments, SegmentRight, EntryKept
<1>7. CASE LoadSegment
  BY <1>7, OnlyMoves DEF LoadSegment, SegmentRight, EntryKept
<1>8. CASE EndSegments
  <2>1. pc = "next" /\ pc' = "close"
    BY <1>8, NoError, StatusTypes DEF EndSegments, Kept, TypeOK
  <2>. QED
    BY <1>8, <2>1, OnlyMoves DEF EndSegments, SegmentRight, EntryKept
<1>9. CASE Close
  <2>1. pc = "close" /\ pc' = "free_header"
    BY <1>9, NoError, StatusTypes DEF Close
  <2>. QED
    BY <1>9, <2>1, OnlyMoves DEF Close, SegmentRight, EntryKept
<1>10. CASE FreeHeader
  <2>1. pc = "free_header" /\ pc' = "free_program_headers"
    BY <1>10, NoError, StatusTypes DEF FreeHeader, Free
  <2>. QED
    BY <1>10, <2>1, OnlyMoves DEF FreeHeader, Free, SegmentRight, EntryKept
<1>11. CASE FreeProgramHeaders
  <2>1. pc = "free_program_headers" /\ pc' = "returned"
    BY <1>11, NoError, StatusTypes DEF FreeProgramHeaders, Free
  <2>. QED
    BY <1>11, <2>1, OnlyMoves DEF FreeProgramHeaders, Free, SegmentRight, EntryKept
<1>12. CASE UNCHANGED vars
  BY <1>12, OnlyMoves DEF vars, SegmentRight, EntryKept, Seg
<1>. QED
  BY <1>1, <1>2, <1>3, <1>4, <1>5, <1>6, <1>7, <1>8, <1>9, <1>10, <1>11, <1>12

\* One turn of load_program_segments' loop, for a header that is not PT_LOAD,
\* and load_segment for one that is (loader.c:13-146).
LEMMA SegmentsLoad ==
  ASSUME Linked, Kept, Loading,
         SkipSegment \/ Allocate \/ ReadData \/ CopyData \/ FreeData \/ ZeroFill
  PROVE  Loading'
<1>. USE DEF Loading, Allocated, AtSegment, Cleanup
<1>1. i \in Nat \ {0}
  BY DEF Kept, TypeOK
<1>2. pc \in AtSegment =>
        /\ file \in Files /\ i \in DOMAIN file.segs /\ Seg.load
        /\ Seg = file.segs[i]
  BY DEF Kept, FileKnown, IndexRight, Seg
<1>3. pc \in AtSegment =>
        /\ Seg.offset \in Nat /\ Seg.filesz \in Nat /\ Seg.memsz \in Nat \ {0}
        /\ Seg.addr \in Nat /\ Seg.filesz <= Seg.memsz
        /\ Seg.offset + Seg.filesz <= Size /\ Size \in Nat
        /\ Cells(Seg) \subseteq Addr
  BY <1>2, SegmentLinked
<1>4. CASE SkipSegment
  <2>1. Placed' = Placed
    BY <1>1, <1>4 DEF SkipSegment, Placed, Seg
  <2>2. SegmentsPlaced' /\ OwnPagesOnly'
    BY <1>4, <2>1, NoWrite DEF SkipSegment
  <2>3. PagesRight'
    BY <1>4, <2>1 DEF SkipSegment, PagesRight, Pages
  <2>. QED
    BY <1>4, <2>2, <2>3 DEF SkipSegment, SegmentRight, EntryKept
<1>5. CASE Allocate
  <2>1. /\ pc = "allocate" /\ pc' = AfterAllocate
        /\ pages' = pages \cup Pages(Seg)
    BY <1>5, NoError, StatusTypes, PagesGiven DEF Allocate, AllocateAt
  <2>2. AfterAllocate = IF Seg.filesz > 0 THEN "read" ELSE "zero_fill"
    BY DEF AfterAllocate
  <2>3. Placed' = Placed
    BY <1>5 DEF Allocate, AllocateAt, Placed
  <2>4. SegmentsPlaced' /\ OwnPagesOnly'
    BY <1>5, <2>1, <2>3, NoWrite DEF Allocate, AllocateAt
  <2>5. PagesRight'
    BY <1>5, <2>1, <2>2, <2>3, SMTT(20) DEF Allocate, AllocateAt, PagesRight, Pages, Seg
  <2>6. pc' = "zero_fill" => Seg.filesz = 0
    BY <1>3, <2>1, <2>2
  <2>7. SegmentRight'
    BY <1>3, <1>5, <2>1, <2>2, <2>6 DEF Allocate, AllocateAt, SegmentRight, Seg
  <2>. QED
    BY <1>5, <2>1, <2>4, <2>5, <2>7 DEF Allocate, AllocateAt, EntryKept
<1>6. CASE ReadData
  <2>1. pc = "read" /\ pc' = "copy"
    BY <1>6, NoError, StatusTypes DEF ReadData
  <2>2. pos = Seg.offset /\ Delivered(pos, Seg.filesz) = Seg.filesz
    BY <1>3, <2>1, ReadDelivers DEF SegmentRight
  <2>3. SegmentRight'
    BY <1>6, <2>1, <2>2 DEF ReadData, SegmentRight, Seg
  <2>. QED
    BY <1>6, <2>1, <2>3, OnlyMoves DEF ReadData, EntryKept
<1>7. CASE CopyData
  <2>1. pc = "copy" /\ pc' = "free_data"
    BY <1>7, NoError, StatusTypes DEF CopyData
  <2>2. data.start = Seg.offset /\ data.len = Seg.filesz
    BY <2>1 DEF SegmentRight
  <2>3. \A k \in 0 .. Seg.filesz - 1 :
          /\ Seg.addr + k \in Addr
          /\ Seg.addr + k \in Seg.addr .. Seg.addr + Seg.filesz - 1
          /\ DataAt((Seg.addr + k) - Seg.addr) = Seg.offset + k
    BY <1>3, <2>1, <2>2 DEF Cells, DataAt
  <2>4. \A k \in 0 .. Seg.filesz - 1 : mem'[Seg.addr + k] = Seg.offset + k
    BY <1>7, <2>3 DEF CopyData
  <2>5. \A a \in Addr \ Cells(Seg) : mem'[a] = mem[a]
    BY <1>3, <1>7, <2>1 DEF CopyData, Cells, Addr
  <2>6. /\ \A j \in Placed : InMemory(file.segs[j])'
        /\ mem'[NULL] = EntryPoint /\ OwnPagesOnly'
    BY <1>7, <2>1, <2>5, WriteInside DEF CopyData
  <2>7. Placed' = Placed
    BY <1>7 DEF CopyData, Placed
  <2>8. SegmentsPlaced'
    BY <1>7, <2>6, <2>7 DEF CopyData, SegmentsPlaced, InMemory
  <2>9. PagesRight'
    BY <1>7, <2>1, <2>7 DEF CopyData, PagesRight, Pages, Seg
  <2>. QED
    BY <1>7, <2>1, <2>4, <2>6, <2>8, <2>9 DEF CopyData, SegmentRight, EntryKept, Seg
<1>8. CASE FreeData
  <2>1. pc = "free_data" /\ pc' = "zero_fill"
    BY <1>8, NoError, StatusTypes DEF FreeData, Free
  <2>2. SegmentRight'
    BY <1>8, <2>1 DEF FreeData, Free, SegmentRight, Seg
  <2>. QED
    BY <1>8, <2>1, <2>2, OnlyMoves DEF FreeData, Free, EntryKept
<1>9. CASE ZeroFill
  <2>1. pc = "zero_fill" /\ pc' = "next"
    BY <1>9, NoError, StatusTypes DEF ZeroFill
  <2>2. \A a \in Addr \ Cells(Seg) : mem'[a] = mem[a]
    BY <1>3, <1>9, <2>1 DEF ZeroFill, Cells, Addr
  <2>3. /\ \A j \in Placed : InMemory(file.segs[j])'
        /\ mem'[NULL] = EntryPoint /\ OwnPagesOnly'
    BY <1>9, <2>1, <2>2, WriteInside DEF ZeroFill
  <2>4. Placed' = Placed \cup {i}
    BY <1>1, <1>2, <1>9, <2>1 DEF ZeroFill, Placed
  <2>5. \A k \in 0 .. Seg.memsz - 1 :
          mem'[Seg.addr + k] = IF k < Seg.filesz THEN Seg.offset + k ELSE Zero
    <3>. SUFFICES ASSUME NEW k \in 0 .. Seg.memsz - 1
                  PROVE  mem'[Seg.addr + k] =
                           IF k < Seg.filesz THEN Seg.offset + k ELSE Zero
      OBVIOUS
    <3>1. Seg.addr + k \in Addr
      BY <1>3, <2>1 DEF Cells
    <3>2. CASE k < Seg.filesz
      <4>1. mem[Seg.addr + k] = Seg.offset + k
        BY <1>3, <2>1, <3>2 DEF SegmentRight
      <4>. QED
        BY <1>3, <1>9, <2>1, <3>1, <3>2, <4>1 DEF ZeroFill
    <3>3. CASE ~(k < Seg.filesz)
      BY <1>3, <1>9, <2>1, <3>1, <3>3 DEF ZeroFill
    <3>. QED
      BY <3>2, <3>3
  <2>6. \A j \in Placed \cup {i} : InMemory(file.segs[j])'
    <3>1. \A k \in 0 .. file.segs[i].memsz - 1 :
            mem'[file.segs[i].addr + k] =
              IF k < file.segs[i].filesz THEN file.segs[i].offset + k ELSE Zero
      BY <1>2, <2>1, <2>5
    <3>2. file' = file
      BY <1>9 DEF ZeroFill
    <3>. QED
      BY <2>3, <3>1, <3>2 DEF InMemory
  <2>7. SegmentsPlaced'
    BY <2>4, <2>6 DEF SegmentsPlaced
  <2>8. PagesRight'
    <3>1. pages = (UNION {Pages(file.segs[j]) : j \in Placed}) \cup Pages(file.segs[i])
      BY <1>2, <2>1 DEF PagesRight
    <3>2. pages = UNION {Pages(file.segs[j]) : j \in Placed \cup {i}}
      BY <3>1
    <3>. QED
      BY <1>9, <2>1, <2>4, <3>2 DEF ZeroFill, PagesRight, Pages
  <2>. QED
    BY <1>9, <2>1, <2>3, <2>7, <2>8 DEF ZeroFill, SegmentRight, EntryKept
<1>. QED
  BY <1>4, <1>5, <1>6, <1>7, <1>8, <1>9

LEMMA StepIInv ==
  ASSUME Linked, IInv, [Next]_vars
  PROVE  IInv'
<1>1. Done => UNCHANGED vars
  BY DEF Done
<1>2. Kept'
  BY <1>1, HeadersKeep, SegmentsKeep, CleanupKeeps DEF Next, IInv
<1>3. Loading'
  BY <1>1, MovesLoad, SegmentsLoad DEF Next, IInv
<1>. QED
  BY <1>2, <1>3 DEF IInv

LEMMA AlwaysIInv ==
  ASSUME Linked
  PROVE  Spec => []IInv
<1>1. Init => IInv
  BY InitKept, InitLoading DEF IInv
<1>2. IInv /\ [Next]_vars => IInv'
  BY Linked, StepIInv
<1>. QED
  BY <1>1, <1>2, PTL DEF Spec

\* When load_kernel returns, every PT_LOAD segment of a linked kernel is in
\* memory: its part of the file, then zeros, and the entry point is where
\* load_kernel stored it, for every number and layout of the segments
\* (loader.c:13-146, 148-249).
THEOREM KernelAlwaysInMemory ==
  ASSUME Linked
  PROVE  Spec => []KernelInMemory
<1>1. IInv => KernelInMemory
  <2>. SUFFICES ASSUME IInv, pc = "returned"
                PROVE  /\ \A j \in DOMAIN file.segs :
                            file.segs[j].load => InMemory(file.segs[j])
                       /\ mem[NULL] = EntryPoint
    BY DEF KernelInMemory
  <2>1. /\ file \in KernelFiles /\ i \in Nat /\ i > Len(file.segs)
        /\ Len(file.segs) \in Nat /\ DOMAIN file.segs = 1 .. Len(file.segs)
    BY Constants, FileTypes
       DEF IInv, Kept, FileKnown, IndexRight, Cleanup, NumProgramHeaders, TypeOK
  <2>2. \A j \in DOMAIN file.segs : file.segs[j].load => j \in Placed
    BY <2>1 DEF Placed
  <2>. QED
    BY <2>2 DEF IInv, Loading, SegmentsPlaced, EntryKept, Cleanup
<1>. QED
  BY <1>1, AlwaysIInv, PTL

\* Loading a linked kernel writes only into pages that AllocatePages gave, but
\* for the entry point: the firmware's memory stays as it was (loader.c:84-118).
THEOREM OnlyOwnPagesWritten ==
  ASSUME Linked
  PROVE  Spec => []OwnPagesOnly
<1>1. IInv => OwnPagesOnly
  BY DEF IInv, Loading
<1>. QED
  BY <1>1, AlwaysIInv, PTL

=============================================================================
