------------------------------ MODULE EfiBoot ------------------------------
(***************************************************************************)
(* The boot loader, efi_main (src/bootloader/src/main.c), with the         *)
(* firmware it runs on.  Boot services are called one after the other, and *)
(* the firmware's own events may allocate memory, and so change the memory *)
(* map and its key, between two calls.  load_kernel is the module Loader;  *)
(* here it is one step.                                                    *)
(***************************************************************************)
EXTENDS Efi, Sequences, FiniteSets

CONSTANTS
  ConfigTables,  \* what SystemTable->ConfigurationTable may be
  ModeLists,     \* what the graphics device's modes may be
  Target,        \* TARGET_SCREEN_WIDTH, _HEIGHT and _PIXEL_FORMAT, as a mode
  EventPlaces,   \* the places of efi_main at which a firmware event may come
  MaxEvents,     \* bound: their number
  DEBUG          \* whether efi_main is built with -DDEBUG (the Makefile's default)

Guids == {"acpi_20", "acpi_10", "other"}

\* A configuration table entry; signed: its table begins with "RSD PTR ".
Entry == [guid : Guids, signed : BOOLEAN]

Places == {"graphics_init", "open_gop", "set_mode", "framebuffer", "backbuffer",
           "xsdp", "load_kernel", "map_size", "map_buffer", "map", "exit",
           "print_entry", "enter", "kernel", "spin", "refused", "undefined"}

ASSUME EfiBootAssumption ==
  /\ ConfigTables \subseteq Seq(Entry)
  /\ \A modes \in ModeLists : modes \in Seq(STRING) /\ modes # <<>>
  /\ EventPlaces \subseteq Places
  /\ MaxEvents \in Nat
  /\ DEBUG \in BOOLEAN

VARIABLES
  pc,
  status,
  gop,      \* the graphics device: handles, modes, mode (0 if Mode is NULL), fb
  table,    \* the configuration table
  firmware, \* its memory map's key and descriptors, its events, and whether
            \* boot services are running
  map,      \* MemoryMapSize, MemoryMapKey, the buffer, and the key of the map
            \* in it (0 if it holds none)
  BootInfo

vars == <<pc, status, gop, table, firmware, map, BootInfo>>

TypeOK ==
  /\ pc \in Places
  /\ status \in Statuses
  /\ gop \in [handles : 0 .. 1, modes : ModeLists, mode : Nat, fb : BOOLEAN]
  /\ gop.mode <= Len(gop.modes)
  /\ table \in ConfigTables
  /\ firmware \in [services : BOOLEAN, key : Nat \ {0}, descriptors : Nat,
                   events : 0 .. MaxEvents]
  /\ map \in [size : Nat, key : Nat, buffer : Nat, held : Nat]
  /\ BootInfo \in [mode : 0 .. Len(gop.modes), XSDPTable : 0 .. Len(table),
                   map : Nat, size : Nat]

Init ==
  /\ pc = "graphics_init"
  /\ status = EFI_SUCCESS
  /\ \E modes \in ModeLists :
       gop \in [handles : 0 .. 1, modes : {modes}, mode : 0 .. Len(modes),
                fb : BOOLEAN]
  /\ table \in ConfigTables
  /\ firmware = [services |-> TRUE, key |-> 1, descriptors |-> 1, events |-> 0]
  /\ map = [size |-> 0, key |-> 0, buffer |-> 0, held |-> 0]
  /\ BootInfo = [mode |-> 0, XSDPTable |-> 0, map |-> 0, size |-> 0]

\* As in Loader: the test of every answer by EFI_ERROR.
Step(from, s, to) ==
  /\ pc = from
  /\ status' = s
  /\ pc' = IF EFI_ERROR(s) THEN "refused" ELSE to

\* An allocation changes the map's key and adds up to two descriptors.
Allocates(fw) ==
  {[fw EXCEPT !.key = @ + 1, !.descriptors = @ + n] : n \in 0 .. 2}

-----------------------------------------------------------------------------
(* Graphics. *)

\* LocateHandleBuffer; without a handle graphics_init spins.
graphics_init ==
  /\ IF gop.handles = 0 THEN Step("graphics_init", EFI_NOT_FOUND, "spin")
                        ELSE Step("graphics_init", EFI_SUCCESS, "open_gop")
  /\ UNCHANGED <<gop, table, firmware, map, BootInfo>>

\* OpenProtocol of the first handle.
OpenGop(s) ==
  /\ Step("open_gop", s,
          IF s = EFI_NOT_STARTED \/ gop.mode = 0 THEN "set_mode" ELSE "framebuffer")
  /\ UNCHANGED <<gop, table, firmware, map, BootInfo>>

Lowest(S) == CHOOSE n \in S : \A k \in S : n <= k

\* Faulty variant: the last mode is never looked at.
find_graphics_mode_short(max) ==
  LET hits == {n \in 1 .. max - 1 : gop.modes[n] = Target}
  IN IF hits = {} THEN 1 ELSE Lowest(hits)

\* Faulty variant: without a match, the loop's counter is what is set.
find_graphics_mode_past(max) ==
  LET hits == {n \in 1 .. max : gop.modes[n] = Target}
  IN IF hits = {} THEN max + 1 ELSE Lowest(hits)

\* The first of MaxMode modes that matches; if there is none, the answer
\* EFI_UNSUPPORTED goes unseen and GraphicsModeNum is still 0, the first mode.
find_graphics_mode(max) ==
  LET hits == {n \in 1 .. max : gop.modes[n] = Target}
  IN IF hits = {} THEN 1 ELSE Lowest(hits)

\* set_graphics_mode.  MaxMode is read through Mode, anything if that is NULL.
SetMode ==
  /\ Step("set_mode", EFI_SUCCESS, "framebuffer")
  /\ \E max \in 0 .. Len(gop.modes) :
       /\ gop.mode # 0 => max = Len(gop.modes)
       /\ gop' = [gop EXCEPT !.mode = find_graphics_mode(max)]
  /\ UNCHANGED <<table, firmware, map, BootInfo>>

\* Faulty variant: FrameBufferBase is not checked.
SaveModeUnchecked ==
  /\ pc = "framebuffer"
  /\ pc' = "backbuffer"
  /\ BootInfo' = [BootInfo EXCEPT !.mode = gop.mode]
  /\ UNCHANGED <<status, gop, table, firmware, map>>

\* The check of FrameBufferBase, then what the kernel needs of the mode.
SaveMode ==
  /\ pc = "framebuffer"
  /\ pc' = IF gop.fb THEN "backbuffer" ELSE "spin"
  /\ BootInfo' = IF gop.fb THEN [BootInfo EXCEPT !.mode = gop.mode] ELSE BootInfo
  /\ UNCHANGED <<status, gop, table, firmware, map>>

\* The back buffer, whose AllocatePool's answer is not looked at.
AllocateBackbuffer ==
  /\ pc = "backbuffer"
  /\ pc' = "xsdp"
  /\ firmware' \in Allocates(firmware)
  /\ UNCHANGED <<status, gop, table, map, BootInfo>>

-----------------------------------------------------------------------------
(* The ACPI table. *)

\* tempTable is advanced and indexed by i as well: turn i tests the GUID of
\* entry 2i, beyond the table one that may be anything, and compare_efi_guid
\* is 0 when the two are equal; the signature tested is that of entry i.
GuidTest(i, beyond) ==
  LET g == 2 * i - 1 IN (IF g \in DOMAIN table THEN table[g].guid ELSE beyond) # "acpi_20"

\* Faulty variant: the signature is not compared.
SearchHitsUnsigned(beyond) == {i \in DOMAIN table : GuidTest(i, beyond[i])}

SearchHits(beyond) == {i \in DOMAIN table : GuidTest(i, beyond[i]) /\ table[i].signed}

Highest(S) == CHOOSE n \in S : \A k \in S : n >= k

FindXsdp ==
  /\ pc = "xsdp"
  /\ \E beyond \in [DOMAIN table -> Guids] :
       LET hits == SearchHits(beyond)
       IN /\ pc' = IF hits = {} THEN "refused" ELSE "load_kernel"
          /\ BootInfo' = [BootInfo EXCEPT !.XSDPTable =
                            IF hits = {} THEN 0 ELSE Highest(hits)]
  /\ UNCHANGED <<status, gop, table, firmware, map>>

-----------------------------------------------------------------------------
(* The kernel file, the memory map, and the end of boot services. *)

\* init_efi_fs, OpenVolume and load_kernel, which spins without a kernel file.
LoadKernel ==
  /\ \/ Step("load_kernel", EFI_SUCCESS, "map_size")
     \/ Step("load_kernel", EFI_NOT_FOUND, "spin")
  /\ firmware' \in Allocates(firmware)
  /\ UNCHANGED <<gop, table, map, BootInfo>>

\* GetMemoryMap into a buffer with room for map.size descriptors; one too
\* small is told the size and, by the firmware in use, the key.
FillMap ==
  IF map.buffer # 0 /\ firmware.descriptors <= map.size
  THEN [map EXCEPT !.size = firmware.descriptors, !.key = firmware.key,
                   !.held = firmware.key]
  ELSE [map EXCEPT !.size = firmware.descriptors, !.key = firmware.key]

MapStatus ==
  IF map.buffer # 0 /\ firmware.descriptors <= map.size
  THEN EFI_SUCCESS ELSE EFI_BUFFER_TOO_SMALL

\* Faulty variant: no room for what the allocation itself adds.
GetMapSizeTight ==
  /\ Step("map_size", MapStatus, "map_buffer")
  /\ map' = FillMap
  /\ UNCHANGED <<gop, table, firmware, BootInfo>>

\* The first GetMemoryMap, which always fails, and the room for two more.
GetMapSize ==
  /\ Step("map_size", MapStatus, "map_buffer")
  /\ map' = [FillMap EXCEPT !.size = @ + 2]
  /\ UNCHANGED <<gop, table, firmware, BootInfo>>

AllocateMap ==
  /\ Step("map_buffer", EFI_SUCCESS, "map")
  /\ map' = [map EXCEPT !.buffer = map.size]
  /\ firmware' \in Allocates(firmware)
  /\ UNCHANGED <<gop, table, BootInfo>>

\* The second GetMemoryMap, and what efi_main saves of it.
GetMap ==
  /\ Step("map", MapStatus, "exit")
  /\ map' = FillMap
  /\ BootInfo' = [BootInfo EXCEPT !.map = FillMap.held, !.size = FillMap.size]
  /\ UNCHANGED <<gop, table, firmware>>

\* ExitBootServices refuses a key that is not the current one.
ExitBootServices ==
  /\ Step("exit", IF map.key = firmware.key THEN EFI_SUCCESS
                  ELSE EFI_INVALID_PARAMETER,
          IF DEBUG THEN "print_entry" ELSE "enter")
  /\ firmware' = [firmware EXCEPT !.services = (map.key # firmware.key)]
  /\ UNCHANGED <<gop, table, map, BootInfo>>

\* print_video_mode_info and "Entering kernel": the console they print on is
\* one of the boot services, and a call through what is left of it undefined.
PrintEntry ==
  /\ pc = "print_entry"
  /\ pc' \in {"enter"} \cup (IF firmware.services THEN {} ELSE {"undefined"})
  /\ UNCHANGED <<status, gop, table, firmware, map, BootInfo>>

EnterKernel ==
  /\ pc = "enter"
  /\ pc' = "kernel"
  /\ UNCHANGED <<status, gop, table, firmware, map, BootInfo>>

\* An event of the firmware's own, a timer or a device, allocates memory.
FirmwareEvent ==
  /\ firmware.services
  /\ pc \in EventPlaces
  /\ firmware.events < MaxEvents
  /\ \E fw \in Allocates(firmware) :
       firmware' = [fw EXCEPT !.events = firmware.events + 1]
  /\ UNCHANGED <<pc, status, gop, table, map, BootInfo>>

Done ==
  /\ pc \in {"kernel", "spin", "refused", "undefined"}
  /\ UNCHANGED vars

Next ==
  \/ graphics_init
  \/ \E s \in {EFI_SUCCESS, EFI_NOT_STARTED} : OpenGop(s)
  \/ SetMode
  \/ SaveMode
  \/ AllocateBackbuffer
  \/ FindXsdp
  \/ LoadKernel
  \/ GetMapSize
  \/ AllocateMap
  \/ GetMap
  \/ ExitBootServices
  \/ PrintEntry
  \/ EnterKernel
  \/ FirmwareEvent
  \/ Done

Spec == Init /\ [][Next]_vars

-----------------------------------------------------------------------------
(* Properties. *)

\* The kernel is entered with boot services ended, and with a memory map that
\* is the one of that moment, whole: the buffer had room for what allocating
\* it added (main.c:34), and the key was that of the map in it.
KernelOwnsMachine ==
  pc = "kernel" =>
    /\ ~firmware.services
    /\ BootInfo.map = firmware.key
    /\ BootInfo.size = firmware.descriptors

\* The kernel draws in the mode that is set, which has a frame buffer.
VideoHandedOver ==
  pc = "kernel" => gop.fb /\ BootInfo.mode # 0 /\ BootInfo.mode = gop.mode

\* When efi_main has to set the mode and can read the list of modes, it sets
\* the wanted one if the device has it (video.c:105-152).
TargetModeSet ==
  [][pc = "set_mode" /\ pc' = "framebuffer" /\ gop.mode # 0
       /\ (\E n \in DOMAIN gop.modes : gop.modes[n] = Target)
     => gop'.modes[gop'.mode] = Target]_vars

\* The kernel gets a table with the RSDP's signature, never a null pointer.
XsdpHandedOver ==
  pc = "kernel" => /\ BootInfo.XSDPTable # 0
                   /\ table[BootInfo.XSDPTable].signed

\* A machine with an ACPI 2.0 table is not turned away for want of one:
\* main.c:194, "Fatal: Unable to locate ACPI v2+ XSDP".
Acpi2Located ==
  pc = "refused" =>
    ~\E i \in DOMAIN table : table[i].guid = "acpi_20" /\ table[i].signed

=============================================================================
