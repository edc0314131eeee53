------------------------------- MODULE Loader -------------------------------
(***************************************************************************)
(* The boot loader's kernel loader (src/bootloader/src/loader.c, elf.c):   *)
(* load_kernel opens the kernel file, reads its headers into pool buffers, *)
(* copies every PT_LOAD segment to its physical address and fills the rest *)
(* of the segment with zeros.  A cell of the file is known by its offset,  *)
(* a cell of memory holds the offset of the file cell copied there, or one *)
(* of the marks below.                                                     *)
(***************************************************************************)
EXTENDS Efi, Sequences, FiniteSets

CONSTANTS
  Files,          \* what the kernel file may be; NoFile if there is none
  NoFile,
  MemSize,        \* the cells of physical memory
  PageSize,       \* EFI_PAGE_MASK + 1
  FirmwarePages   \* pages AllocatePages does not give away

Identities == {"elf64_lsb", "bad_magic", "class_32", "msb"}

Addr == 0 .. MemSize - 1
Page(a) == a \div PageSize
PageSet == {Page(a) : a \in Addr}

\* KernelEntryPoint (main.c:79, passed by value): *KernelEntryPoint is here.
NULL == 0

Zero == -1
Junk == -2
Firmware == -3
EntryPoint == -4   \* e_entry

\* A PT_LOAD segment as a linker makes it, in memory the firmware gives away.
Pages(s) == {Page(a) : a \in s.addr .. s.addr + s.memsz - 1}

LoadableSegment(s, size) ==
  /\ s.filesz <= s.memsz
  /\ s.memsz > 0
  /\ s.offset + s.filesz <= size
  /\ s.addr % PageSize = 0
  /\ s.addr + s.memsz <= MemSize
  /\ Pages(s) \cap FirmwarePages = {}

Segment == [load : BOOLEAN, offset : Nat, filesz : Nat, memsz : Nat, addr : Addr]

KernelFiles == [identity : Identities, size : Nat, segs : Seq(Segment)]

\* A kernel file as the kernel's linker script makes it.
WellFormed(f) ==
  \A i \in DOMAIN f.segs : f.segs[i].load =>
    /\ LoadableSegment(f.segs[i], f.size)
    /\ \A j \in DOMAIN f.segs :
         f.segs[j].load /\ i # j => Pages(f.segs[i]) \cap Pages(f.segs[j]) = {}

ASSUME LoaderAssumption ==
  /\ {MemSize, PageSize} \subseteq Nat \ {0}
  /\ FirmwarePages \subseteq PageSet
  /\ Page(NULL) \in FirmwarePages
  /\ NoFile \notin Files
  /\ Files \subseteq KernelFiles

VARIABLES
  file,    \* the kernel file of the boot volume
  pc,
  status,
  pos,     \* the file position
  i,       \* the index of the program header
  loaded,  \* NumSegmentsLoaded
  pool,    \* the pool buffers not yet freed
  data,    \* ProgramData: the offset and the number of the cells read
  pages,   \* the pages allocated
  mem      \* physical memory

vars == <<file, pc, status, pos, i, loaded, pool, data, pages, mem>>

Buffers == {"identity", "header", "program_headers", "data"}

Places == {"open", "spin", "read_identity", "validate", "free_identity",
           "read_headers", "segments", "next", "allocate", "read", "copy",
           "free_data", "zero_fill", "close", "free_header",
           "free_program_headers", "returned", "failed"}

TypeOK ==
  /\ file = NoFile \/ file \in KernelFiles
  /\ pc \in Places
  /\ status \in Statuses
  /\ pos \in Nat
  /\ i \in Nat \ {0}
  /\ loaded \in Nat
  /\ pool \subseteq Buffers
  /\ data \in [start : Nat, len : Nat]
  /\ pages \subseteq PageSet
  /\ mem \in [Addr -> Nat \cup {Zero, Junk, Firmware, EntryPoint}]

Before == [a \in Addr |-> IF Page(a) \in FirmwarePages THEN Firmware ELSE Junk]

Init ==
  /\ file \in Files \cup {NoFile}
  /\ pc = "open"
  /\ status = EFI_SUCCESS
  /\ pos = 0
  /\ i = 1
  /\ loaded = 0
  /\ pool = {}
  /\ data = [start |-> 0, len |-> 0]
  /\ pages = {}
  /\ mem = Before

\* Go from one place to another with a status that the code tests by
\* EFI_ERROR, and returns when it is an error.
Step(from, s, to) ==
  /\ pc = from
  /\ status' = s
  /\ pc' = IF EFI_ERROR(s) THEN "failed" ELSE to

-----------------------------------------------------------------------------
(* load_kernel, up to the headers. *)

\* A failed Open leaves KernelImage NULL, and the loader spins.
Open ==
  /\ IF file = NoFile THEN Step("open", EFI_NOT_FOUND, "spin")
                      ELSE Step("open", EFI_SUCCESS, "read_identity")
  /\ UNCHANGED <<file, pos, i, loaded, pool, data, pages, mem>>

Size == file.size
Least(a, b) == IF a < b THEN a ELSE b

\* What a Read of n cells at file position p delivers, short at the end.
Delivered(p, n) == IF p < Size THEN Least(n, Size - p) ELSE 0

\* SetPosition(0), AllocatePool, Read.
read_elf_identity ==
  /\ Step("read_identity", EFI_SUCCESS, "validate")
  /\ pos' = Delivered(0, 1)
  /\ pool' = pool \cup {"identity"}
  /\ UNCHANGED <<file, i, loaded, data, pages, mem>>

\* A bad magic returns the status it started with, EFI_SUCCESS.
validate_elf_identity ==
  /\ Step("validate",
          CASE file.identity \in {"elf64_lsb", "bad_magic"} -> EFI_SUCCESS
            [] file.identity = "class_32" -> EFI_UNSUPPORTED
            [] file.identity = "msb" -> EFI_INCOMPATIBLE_VERSION,
          "free_identity")
  /\ UNCHANGED <<file, pos, i, loaded, pool, data, pages, mem>>

Free(b, from, to) ==
  /\ Step(from, IF b \in pool THEN EFI_SUCCESS ELSE EFI_INVALID_PARAMETER, to)
  /\ pool' = pool \ {b}
  /\ UNCHANGED <<file, pos, i, loaded, data, pages, mem>>

FreeIdentity == Free("identity", "free_identity", "read_headers")

NumProgramHeaders == Len(file.segs)

\* SetPosition, AllocatePool and Read, for the header and for the program
\* headers; then load_kernel stores e_entry through its NULL argument.
read_elf_file ==
  /\ Step("read_headers", EFI_SUCCESS, "segments")
  /\ pos' = Delivered(1, NumProgramHeaders)
  /\ pool' = pool \cup {"header", "program_headers"}
  /\ mem' = [mem EXCEPT ![NULL] = EntryPoint]
  /\ UNCHANGED <<file, i, loaded, data, pages>>

-----------------------------------------------------------------------------
(* load_program_segments and load_segment. *)

Seg == file.segs[i]

CheckSegments ==
  /\ pc = "segments"
  /\ IF NumProgramHeaders = 0
     THEN Step("segments", EFI_INVALID_PARAMETER, "close")
     ELSE Step("segments", EFI_SUCCESS, "next")
  /\ UNCHANGED <<file, pos, i, loaded, pool, data, pages, mem>>

LoadSegment ==
  /\ pc = "next"
  /\ i <= NumProgramHeaders
  /\ Seg.load
  /\ pc' = "allocate"
  /\ UNCHANGED <<file, status, pos, i, loaded, pool, data, pages, mem>>

SkipSegment ==
  /\ pc = "next"
  /\ i <= NumProgramHeaders
  /\ ~Seg.load
  /\ i' = i + 1
  /\ UNCHANGED <<file, pc, status, pos, loaded, pool, data, pages, mem>>

EndSegments ==
  /\ Step("next", IF loaded = 0 THEN EFI_NOT_FOUND ELSE status, "close")
  /\ i > NumProgramHeaders
  /\ UNCHANGED <<file, pos, i, loaded, pool, data, pages, mem>>

\* Faulty variant: the incomplete last page is not counted.
EFI_SIZE_TO_PAGES_down(n) == n \div PageSize

EFI_SIZE_TO_PAGES(n) == n \div PageSize + (IF n % PageSize # 0 THEN 1 ELSE 0)

PageRange(a, n) == Page(a) .. Page(a) + n - 1

\* AllocatePages(AllocateAddress): the pages at an address, if all are free.
CanAllocate(a, n) ==
  /\ a % PageSize = 0
  /\ n > 0
  /\ PageRange(a, n) \subseteq PageSet \ (FirmwarePages \cup pages)

AfterAllocate == IF Seg.filesz > 0 THEN "read" ELSE "zero_fill"

\* SetPosition and AllocatePages.
AllocateAt(position) ==
  /\ pc = "allocate"
  /\ LET n == EFI_SIZE_TO_PAGES(Seg.memsz)
     IN IF CanAllocate(Seg.addr, n)
        THEN /\ Step("allocate", EFI_SUCCESS, AfterAllocate)
             /\ pages' = pages \cup PageRange(Seg.addr, n)
        ELSE /\ Step("allocate", EFI_NOT_FOUND, AfterAllocate)
             /\ UNCHANGED pages
  /\ pos' = position
  /\ UNCHANGED <<file, i, loaded, pool, data, mem>>

\* Faulty variant: the position one cell short of the segment's.
AllocateBefore == AllocateAt(Seg.offset - 1)

Allocate == AllocateAt(Seg.offset)

\* AllocatePool and Read, which may deliver fewer cells than asked for.
ReadData ==
  /\ Step("read", EFI_SUCCESS, "copy")
  /\ pool' = pool \cup {"data"}
  /\ data' = [start |-> pos, len |-> Delivered(pos, Seg.filesz)]
  /\ pos' = pos + Delivered(pos, Seg.filesz)
  /\ UNCHANGED <<file, i, loaded, pages, mem>>

\* What the buffer holds: what was read, then what the pool left there.
DataAt(k) == IF k < data.len THEN data.start + k ELSE Junk

CopyData ==
  /\ Step("copy", EFI_SUCCESS, "free_data")
  /\ mem' = [a \in Addr |->
               IF a \in Seg.addr .. Seg.addr + Seg.filesz - 1
               THEN DataAt(a - Seg.addr) ELSE mem[a]]
  /\ UNCHANGED <<file, pos, i, loaded, pool, data, pages>>

\* Faulty variant: the buffer is kept.
LeakData ==
  /\ Step("free_data", EFI_SUCCESS, "zero_fill")
  /\ UNCHANGED <<file, pos, i, loaded, pool, data, pages, mem>>

FreeData == Free("data", "free_data", "zero_fill")

\* Faulty variant: the fill starts one cell early.
ZeroFillEarly ==
  /\ Step("zero_fill", EFI_SUCCESS, "next")
  /\ mem' = [a \in Addr |->
               IF a \in Seg.addr + Seg.filesz - 1 .. Seg.addr + Seg.memsz - 1
               THEN Zero ELSE mem[a]]
  /\ i' = i + 1
  /\ loaded' = loaded + 1
  /\ UNCHANGED <<file, pos, pool, data, pages>>

\* SetMem of what the file does not fill, and the loop's next turn.
ZeroFill ==
  /\ Step("zero_fill", EFI_SUCCESS, "next")
  /\ mem' = [a \in Addr |->
               IF a \in Seg.addr + Seg.filesz .. Seg.addr + Seg.memsz - 1
               THEN Zero ELSE mem[a]]
  /\ i' = i + 1
  /\ loaded' = loaded + 1
  /\ UNCHANGED <<file, pos, pool, data, pages>>

-----------------------------------------------------------------------------
(* load_kernel's cleanup. *)

Close ==
  /\ Step("close", EFI_SUCCESS, "free_header")
  /\ UNCHANGED <<file, pos, i, loaded, pool, data, pages, mem>>

FreeHeader == Free("header", "free_header", "free_program_headers")

FreeProgramHeaders == Free("program_headers", "free_program_headers", "returned")

Done ==
  /\ pc \in {"spin", "returned", "failed"}
  /\ UNCHANGED vars

Next ==
  \/ Open
  \/ read_elf_identity
  \/ validate_elf_identity
  \/ FreeIdentity
  \/ read_elf_file
  \/ CheckSegments
  \/ LoadSegment
  \/ SkipSegment
  \/ EndSegments
  \/ Allocate
  \/ ReadData
  \/ CopyData
  \/ FreeData
  \/ ZeroFill
  \/ Close
  \/ FreeHeader
  \/ FreeProgramHeaders
  \/ Done

Spec == Init /\ [][Next]_vars

-----------------------------------------------------------------------------
(* Properties. *)

\* What a segment's memory must hold: its cells of the file, then zeros.
InMemory(s) ==
  \A k \in 0 .. s.memsz - 1 :
    mem[s.addr + k] = IF k < s.filesz THEN s.offset + k ELSE Zero

\* When load_kernel returns, every PT_LOAD segment is in memory as the ELF
\* standard wants it, whatever was read and copied for the others, and the
\* entry point is still where load_kernel stored it.
KernelInMemory ==
  pc = "returned" =>
    /\ \A j \in DOMAIN file.segs : file.segs[j].load => InMemory(file.segs[j])
    /\ mem[NULL] = EntryPoint

\* Nothing is written outside the pages AllocatePages gave, except the entry
\* point: the firmware still runs, and its memory is its own.
OwnPagesOnly == \A a \in Addr \ {NULL} : Page(a) \notin pages => mem[a] = Before[a]

\* A buffer is freed once, by the code that still uses nothing of it, and
\* load_kernel leaves none behind.
PoolBalanced ==
  /\ pc = "free_identity" => pool = {"identity"}
  /\ pc = "free_data" => pool = {"header", "program_headers", "data"}
  /\ pc \in {"read_identity", "read_headers", "returned"} => pool = {}

=============================================================================
