---------------------------- MODULE EfiBootProofs ----------------------------
(***************************************************************************)
(* What the boot loader hands to the kernel, for every firmware, list of   *)
(* modes and list of configuration tables.  The memory map is right as     *)
(* long as no event of the firmware's comes while it is being read, which  *)
(* efi_main takes for granted (main.c:268-273).                            *)
(***************************************************************************)
EXTENDS EfiBoot, WellFoundedInduction, TLAPS

\* The firmware's events leave efi_main alone from the size of the memory map
\* to ExitBootServices.
Quiet == EventPlaces \cap {"map_buffer", "map", "exit"} = {}

Early == {"graphics_init", "open_gop", "set_mode", "framebuffer", "backbuffer",
          "xsdp", "load_kernel"}
ReadingMap == {"map_size", "map_buffer", "map", "exit"}
Ended == {"print_entry", "enter", "kernel"}

\* Until the map is asked for there is no buffer for it.
NoBuffer == pc \in Early \cup {"map_size", "map_buffer"} => map.buffer = 0

ServicesRun == pc \in Early \cup ReadingMap => firmware.services

\* The buffer has room for what its own allocation adds.
RoomForMap ==
  /\ pc = "map_buffer" => map.size = firmware.descriptors + 2
  /\ pc = "map" => map.buffer = map.size /\ firmware.descriptors <= map.size
                   /\ map.buffer # 0

\* The map that was read is the firmware's, and stays so.
MapCurrent ==
  /\ pc \in {"exit"} \cup Ended =>
       BootInfo.map = firmware.key /\ BootInfo.size = firmware.descriptors
  /\ pc = "exit" => map.key = firmware.key
  /\ pc \in Ended => ~firmware.services

ModeKnown ==
  /\ pc = "framebuffer" => gop.mode # 0
  /\ pc \in {"backbuffer", "xsdp", "load_kernel"} \cup ReadingMap \cup Ended =>
       gop.fb /\ BootInfo.mode # 0 /\ BootInfo.mode = gop.mode

XsdpKnown ==
  pc \in {"load_kernel"} \cup ReadingMap \cup Ended =>
    BootInfo.XSDPTable # 0 /\ table[BootInfo.XSDPTable].signed

\* What holds whatever the firmware does, and what of the memory map.
Handed == TypeOK /\ ModeKnown /\ XsdpKnown
MapRight == NoBuffer /\ ServicesRun /\ RoomForMap /\ MapCurrent

IInv == Handed /\ MapRight

-----------------------------------------------------------------------------
(* The operators. *)

Less == {ss \in Nat \X Nat : ss[1] < ss[2]}

\* Every set of natural numbers has a least element.
LEMMA LeastElement ==
  ASSUME NEW S \in SUBSET Nat, S # {}
  PROVE  \E n \in S : \A k \in S : n <= k
<1>1. IsWellFoundedOn(Less, Nat)
  BY NatLessThanWellFounded DEF OpToRel, Less
<1>2. PICK n \in S : \A k \in S : ~(<<k, n>> \in Less)
  BY <1>1, WFMin
<1>3. \A k \in S : k \in Nat /\ n \in Nat /\ (k < n => <<k, n>> \in Less)
  BY DEF Less
<1>4. \A k \in S : ~(k < n)
  BY <1>2, <1>3, Zenon
<1>5. \A k \in S : n <= k
  BY <1>4
<1>. QED
  BY <1>5

\* Lowest chooses it: the first mode of set_graphics_mode's loop that matches.
LEMMA LowestIn ==
  ASSUME NEW S \in SUBSET Nat, S # {}
  PROVE  Lowest(S) \in S
BY LeastElement DEF Lowest

\* A bounded set has a highest: the last turn of the search for the XSDP that
\* hits.
LEMMA HighestIn ==
  ASSUME NEW m \in Nat, NEW S \in SUBSET (1 .. m), S # {}
  PROVE  Highest(S) \in S
<1>. DEFINE T == {m - k : k \in S}
<1>1. T \in SUBSET Nat /\ T # {}
  <2>1. \A k \in S : m - k \in Nat
    OBVIOUS
  <2>. QED
    BY <2>1
<1>2. PICK t \in T : \A k \in T : t <= k
  <2>. HIDE DEF T
  <2>. QED
    BY <1>1, LeastElement
<1>3. PICK n \in S : t = m - n
  BY <1>2
<1>4. \A k \in S : n >= k
  <2>. SUFFICES ASSUME NEW k \in S PROVE n >= k
    OBVIOUS
  <2>1. m - k \in T
    OBVIOUS
  <2>2. m - n <= m - k
    BY <1>2, <1>3, <2>1
  <2>. QED
    BY <2>2
<1>. QED
  BY <1>3, <1>4 DEF Highest

\* No status is an error: EFI_ERROR compares an unsigned number with zero
\* (efi.h:17), so efi_main goes on as if the call had succeeded.
LEMMA NoError ==
  ASSUME NEW from, NEW s \in Statuses, NEW to, Step(from, s, to)
  PROVE  pc = from /\ pc' = to /\ status' \in Statuses
BY DEF Step, EFI_ERROR, Statuses, ErrorBit

LEMMA StatusTypes ==
  /\ {EFI_SUCCESS, EFI_NOT_FOUND, EFI_NOT_STARTED, EFI_BUFFER_TOO_SMALL,
      EFI_INVALID_PARAMETER} \subseteq Statuses
  /\ MapStatus \in Statuses
BY DEF EFI_SUCCESS, EFI_NOT_FOUND, EFI_NOT_STARTED, EFI_BUFFER_TOO_SMALL,
       EFI_INVALID_PARAMETER, EFIERR, ErrorBit, Statuses, MapStatus

Firmwares == [services : BOOLEAN, key : Nat \ {0}, descriptors : Nat,
              events : 0 .. MaxEvents]

\* An allocation leaves boot services running and adds at most two descriptors.
LEMMA AllocationAdds ==
  ASSUME NEW fw \in Firmwares, NEW g \in Allocates(fw)
  PROVE  /\ g \in Firmwares
         /\ g.services = fw.services
         /\ g.events = fw.events
         /\ g.descriptors <= fw.descriptors + 2
<1>1. PICK n \in 0 .. 2 :
        g = [fw EXCEPT !.key = @ + 1, !.descriptors = @ + n]
  BY DEF Allocates
<1>2. fw.key + 1 \in Nat \ {0} /\ fw.descriptors + n \in Nat
      /\ fw.descriptors \in Nat
  BY DEF Firmwares
<1>3. /\ g.services = fw.services /\ g.events = fw.events
      /\ g.descriptors = fw.descriptors + n
  BY <1>1 DEF Firmwares
<1>4. g \in Firmwares
  BY <1>1, <1>2 DEF Firmwares
<1>. QED
  BY <1>2, <1>3, <1>4

\* set_graphics_mode sets a mode of the list, and the wanted one if it is in the
\* part of the list that is looked at (video.c:105-152).
LEMMA ModeFound ==
  ASSUME NEW max \in 0 .. Len(gop.modes), gop.modes \in Seq(STRING), gop.modes # <<>>
  PROVE  /\ find_graphics_mode(max) \in 1 .. Len(gop.modes)
         /\ (\E n \in 1 .. max : gop.modes[n] = Target)
              => gop.modes[find_graphics_mode(max)] = Target
<1>. DEFINE hits == {n \in 1 .. max : gop.modes[n] = Target}
<1>1. Len(gop.modes) \in Nat \ {0}
  OBVIOUS
<1>2. hits \in SUBSET Nat /\ hits \subseteq 1 .. Len(gop.modes)
  BY <1>1
<1>3. hits # {} => Lowest(hits) \in hits
  BY <1>2, LowestIn
<1>4. find_graphics_mode(max) = IF hits = {} THEN 1 ELSE Lowest(hits)
  BY DEF find_graphics_mode
<1>. QED
  BY <1>1, <1>2, <1>3, <1>4

-----------------------------------------------------------------------------
(* The invariant. *)

LEMMA InitIInv == Init => IInv
<1>. SUFFICES ASSUME Init PROVE IInv
  OBVIOUS
<1>1. PICK modes \in ModeLists :
        gop \in [handles : 0 .. 1, modes : {modes}, mode : 0 .. Len(modes), fb : BOOLEAN]
  BY DEF Init
<1>2. modes \in Seq(STRING) /\ Len(modes) \in Nat
  BY EfiBootAssumption
<1>3. Len(table) \in Nat
  BY EfiBootAssumption DEF Init
<1>4. TypeOK
  BY <1>1, <1>2, <1>3, StatusTypes, EfiBootAssumption DEF Init, TypeOK, Places
<1>5. NoBuffer /\ ServicesRun /\ RoomForMap /\ MapCurrent /\ ModeKnown /\ XsdpKnown
  BY DEF Init, NoBuffer, ServicesRun, RoomForMap, MapCurrent, ModeKnown,
         XsdpKnown, Early, ReadingMap, Ended
<1>. QED
  BY <1>4, <1>5 DEF IInv, Handed, MapRight

\* What the types say of the lists.
LEMMA ListTypes ==
  ASSUME TypeOK
  PROVE  /\ gop.modes \in Seq(STRING) /\ gop.modes # <<>>
         /\ Len(gop.modes) \in Nat \ {0}
         /\ Len(table) \in Nat /\ DOMAIN table = 1 .. Len(table)
         /\ firmware \in Firmwares
<1>1. gop.modes \in Seq(STRING) /\ gop.modes # <<>>
  BY EfiBootAssumption DEF TypeOK
<1>2. table \in Seq(Entry)
  BY EfiBootAssumption DEF TypeOK
<1>. QED
  BY <1>1, <1>2 DEF TypeOK, Firmwares

\* The graphics: until the mode is handed over.
LEMMA GraphicsSteps ==
  ASSUME Handed,
         \/ graphics_init
         \/ \E s \in {EFI_SUCCESS, EFI_NOT_STARTED} : OpenGop(s)
         \/ SetMode
         \/ SaveMode
         \/ AllocateBackbuffer
  PROVE  Handed' /\ (MapRight => MapRight')
<1>. USE DEF Handed, MapRight
<1>1. CASE graphics_init
  <2>1. pc = "graphics_init" /\ pc' \in {"spin", "open_gop"} /\ status' \in Statuses
    BY <1>1, NoError, StatusTypes DEF graphics_init
  <2>2. TypeOK'
    BY <1>1, <2>1 DEF graphics_init, TypeOK, Places
  <2>. QED
    BY <1>1, <2>1, <2>2
       DEF graphics_init, NoBuffer, ServicesRun, RoomForMap, MapCurrent,
           ModeKnown, XsdpKnown, Early, ReadingMap, Ended
<1>2. ASSUME NEW s \in {EFI_SUCCESS, EFI_NOT_STARTED}, OpenGop(s)
      PROVE  Handed' /\ (MapRight => MapRight')
  <2>1. /\ pc = "open_gop" /\ status' \in Statuses
        /\ pc' \in {"set_mode", "framebuffer"}
        /\ pc' = "framebuffer" => gop.mode # 0
    BY <1>2, NoError, StatusTypes DEF OpenGop
  <2>2. TypeOK'
    BY <1>2, <2>1 DEF OpenGop, TypeOK, Places
  <2>. QED
    BY <1>2, <2>1, <2>2
       DEF OpenGop, NoBuffer, ServicesRun, RoomForMap, MapCurrent,
           ModeKnown, XsdpKnown, Early, ReadingMap, Ended
<1>3. CASE SetMode
  <2>1. pc = "set_mode" /\ pc' = "framebuffer" /\ status' \in Statuses
    BY <1>3, NoError, StatusTypes DEF SetMode
  <2>2. PICK max \in 0 .. Len(gop.modes) :
          gop' = [gop EXCEPT !.mode = find_graphics_mode(max)]
    BY <1>3 DEF SetMode
  <2>3. find_graphics_mode(max) \in 1 .. Len(gop.modes)
    BY ListTypes, ModeFound
  <2>4. /\ gop'.modes = gop.modes /\ gop'.handles = gop.handles /\ gop'.fb = gop.fb
        /\ gop'.mode \in 1 .. Len(gop.modes)
    BY <2>2, <2>3, <1>3 DEF TypeOK
  <2>5. /\ gop' \in [handles : 0 .. 1, modes : ModeLists, mode : Nat, fb : BOOLEAN]
        /\ gop'.mode <= Len(gop'.modes)
    <3>1. find_graphics_mode(max) \in Nat
      BY <2>3
    <3>2. gop' \in [handles : 0 .. 1, modes : ModeLists, mode : Nat, fb : BOOLEAN]
      BY <2>2, <3>1 DEF TypeOK
    <3>. QED
      BY <2>4, <3>2, ListTypes
  <2>6. TypeOK'
    BY <1>3, <2>1, <2>4, <2>5 DEF SetMode, TypeOK, Places
  <2>. QED
    BY <1>3, <2>1, <2>4, <2>6
       DEF SetMode, NoBuffer, ServicesRun, RoomForMap, MapCurrent,
           ModeKnown, XsdpKnown, Early, ReadingMap, Ended
<1>4. CASE SaveMode
  <2>1. TypeOK'
    BY <1>4, ListTypes, SMTT(20) DEF SaveMode, TypeOK, Places
  <2>. QED
    BY <1>4, <2>1
       DEF SaveMode, NoBuffer, ServicesRun, RoomForMap, MapCurrent, TypeOK,
           ModeKnown, XsdpKnown, Early, ReadingMap, Ended
<1>5. CASE AllocateBackbuffer
  <2>1. firmware' \in Firmwares /\ firmware'.services = firmware.services
    BY <1>5, ListTypes, AllocationAdds DEF AllocateBackbuffer
  <2>2. TypeOK'
    BY <1>5, <2>1 DEF AllocateBackbuffer, TypeOK, Places, Firmwares
  <2>. QED
    BY <1>5, <2>1, <2>2
       DEF AllocateBackbuffer, NoBuffer, ServicesRun, RoomForMap, MapCurrent,
           ModeKnown, XsdpKnown, Early, ReadingMap, Ended
<1>. QED
  BY <1>1, <1>2, <1>3, <1>4, <1>5

\* The search for the XSDP and the kernel's loading.
LEMMA TablesSteps ==
  ASSUME Handed, FindXsdp \/ LoadKernel
  PROVE  Handed' /\ (MapRight => MapRight')
<1>. USE DEF Handed, MapRight
<1>1. CASE FindXsdp
  <2>1. PICK beyond \in [DOMAIN table -> Guids] :
          /\ pc' = IF SearchHits(beyond) = {} THEN "refused" ELSE "load_kernel"
          /\ BootInfo' = [BootInfo EXCEPT !.XSDPTable =
               IF SearchHits(beyond) = {} THEN 0 ELSE Highest(SearchHits(beyond))]
    BY <1>1 DEF FindXsdp
  <2>. DEFINE found == IF SearchHits(beyond) = {} THEN 0 ELSE Highest(SearchHits(beyond))
  <2>2. /\ SearchHits(beyond) \in SUBSET (1 .. Len(table))
        /\ \A k \in SearchHits(beyond) : table[k].signed
    BY ListTypes DEF SearchHits
  <2>3. SearchHits(beyond) # {} => Highest(SearchHits(beyond)) \in SearchHits(beyond)
    BY <2>2, HighestIn, ListTypes
  <2>4. /\ found \in 0 .. Len(table)
        /\ pc' \in {"refused", "load_kernel"}
        /\ pc' = "load_kernel" => found # 0 /\ table[found].signed
    BY <2>1, <2>2, <2>3, ListTypes
  <2>5. BootInfo' = [BootInfo EXCEPT !.XSDPTable = found]
    BY <2>1
  <2>. HIDE DEF found
  <2>6. /\ BootInfo' \in [mode : 0 .. Len(gop.modes), XSDPTable : 0 .. Len(table),
                          map : Nat, size : Nat]
        /\ BootInfo'.mode = BootInfo.mode /\ BootInfo'.XSDPTable = found
    BY <2>4, <2>5 DEF TypeOK
  <2>7. TypeOK'
    BY <1>1, <2>4, <2>6 DEF FindXsdp, TypeOK, Places
  <2>. QED
    BY <1>1, <2>4, <2>6, <2>7
       DEF FindXsdp, NoBuffer, ServicesRun, RoomForMap, MapCurrent,
           ModeKnown, XsdpKnown, Early, ReadingMap, Ended
<1>2. CASE LoadKernel
  <2>1. pc = "load_kernel" /\ pc' \in {"map_size", "spin"} /\ status' \in Statuses
    BY <1>2, NoError, StatusTypes DEF LoadKernel
  <2>2. firmware' \in Firmwares /\ firmware'.services = firmware.services
    BY <1>2, ListTypes, AllocationAdds DEF LoadKernel
  <2>3. TypeOK'
    BY <1>2, <2>1, <2>2 DEF LoadKernel, TypeOK, Places, Firmwares
  <2>. QED
    BY <1>2, <2>1, <2>2, <2>3
       DEF LoadKernel, NoBuffer, ServicesRun, RoomForMap, MapCurrent,
           ModeKnown, XsdpKnown, Early, ReadingMap, Ended
<1>. QED
  BY <1>1, <1>2

Maps == [size : Nat, key : Nat, buffer : Nat, held : Nat]

\* A GetMemoryMap tells the size and the key; one with room fills the buffer.
LEMMA MapFilled ==
  ASSUME TypeOK
  PROVE  /\ FillMap \in Maps
         /\ FillMap.size = firmware.descriptors
         /\ FillMap.key = firmware.key
         /\ FillMap.buffer = map.buffer
         /\ map.buffer # 0 /\ firmware.descriptors <= map.size
              => FillMap.held = firmware.key
BY DEF TypeOK, FillMap, Maps

\* The memory map and the end of boot services (main.c:29-43, 262-276).
LEMMA MapSteps ==
  ASSUME Handed, GetMapSize \/ AllocateMap \/ GetMap \/ ExitBootServices
  PROVE  Handed' /\ (MapRight => MapRight')
<1>. USE DEF Handed, MapRight
<1>1. CASE GetMapSize
  <2>1. pc = "map_size" /\ pc' = "map_buffer" /\ status' \in Statuses
    BY <1>1, NoError, StatusTypes DEF GetMapSize
  <2>2. /\ map' \in Maps /\ map'.buffer = map.buffer
        /\ map'.size = firmware.descriptors + 2
    BY <1>1, MapFilled, ListTypes, SMTT(20) DEF GetMapSize, Maps, Firmwares
  <2>3. TypeOK'
    BY <1>1, <2>1, <2>2 DEF GetMapSize, TypeOK, Places, Maps
  <2>. QED
    BY <1>1, <2>1, <2>2, <2>3
       DEF GetMapSize, NoBuffer, ServicesRun, RoomForMap, MapCurrent,
           ModeKnown, XsdpKnown, Early, ReadingMap, Ended
<1>2. CASE AllocateMap
  <2>1. pc = "map_buffer" /\ pc' = "map" /\ status' \in Statuses
    BY <1>2, NoError, StatusTypes DEF AllocateMap
  <2>2. /\ firmware' \in Firmwares /\ firmware'.services = firmware.services
        /\ firmware'.descriptors <= firmware.descriptors + 2
    BY <1>2, ListTypes, AllocationAdds DEF AllocateMap
  <2>3. /\ MapRight => map.size = firmware.descriptors + 2
        /\ firmware.descriptors \in Nat
    BY <2>1, ListTypes DEF RoomForMap, Firmwares
  <2>4. /\ map' \in Maps /\ map'.buffer = map'.size
        /\ map'.size = map.size
    BY <1>2, <2>3 DEF AllocateMap, TypeOK, Maps
  <2>5. TypeOK'
    BY <1>2, <2>1, <2>2, <2>4 DEF AllocateMap, TypeOK, Places, Maps, Firmwares
  <2>6. MapRight => RoomForMap'
    BY <2>1, <2>2, <2>3, <2>4 DEF RoomForMap, Firmwares
  <2>. QED
    BY <1>2, <2>1, <2>2, <2>5, <2>6
       DEF AllocateMap, NoBuffer, ServicesRun, MapCurrent,
           ModeKnown, XsdpKnown, Early, ReadingMap, Ended
<1>3. CASE GetMap
  <2>1. pc = "map" /\ pc' = "exit" /\ status' \in Statuses
    BY <1>3, NoError, StatusTypes DEF GetMap
  <2>2. map' = FillMap /\ FillMap \in Maps /\ FillMap.key = firmware.key
        /\ FillMap.size = firmware.descriptors
        /\ (MapRight => FillMap.held = firmware.key)
    BY <1>3, <2>1, MapFilled DEF GetMap, RoomForMap
  <2>3. FillMap.held \in Nat /\ firmware.descriptors \in Nat
    BY <2>2, ListTypes DEF Maps, Firmwares
  <2>4. BootInfo' = [BootInfo EXCEPT !.map = FillMap.held, !.size = firmware.descriptors]
    BY <1>3, <2>2 DEF GetMap
  <2>5. /\ BootInfo'.map = FillMap.held /\ BootInfo'.size = firmware.descriptors
        /\ BootInfo'.mode = BootInfo.mode /\ BootInfo'.XSDPTable = BootInfo.XSDPTable
    BY <2>4 DEF TypeOK
  <2>6. BootInfo' \in [mode : 0 .. Len(gop.modes), XSDPTable : 0 .. Len(table),
                      map : Nat, size : Nat]
    BY <2>3, <2>4 DEF TypeOK
  <2>7. TypeOK'
    BY <1>3, <2>1, <2>2, <2>6 DEF GetMap, TypeOK, Places, Maps
  <2>. QED
    BY <1>3, <2>1, <2>2, <2>5, <2>7
       DEF GetMap, NoBuffer, ServicesRun, RoomForMap, MapCurrent,
           ModeKnown, XsdpKnown, Early, ReadingMap, Ended
<1>4. CASE ExitBootServices
  <2>1. pc = "exit" /\ pc' \in {"print_entry", "enter"} /\ status' \in Statuses
    BY <1>4, NoError, StatusTypes DEF ExitBootServices
  <2>2. /\ firmware' \in Firmwares /\ (MapRight => ~firmware'.services)
        /\ firmware'.key = firmware.key /\ firmware'.descriptors = firmware.descriptors
    BY <1>4, <2>1, ListTypes DEF ExitBootServices, MapCurrent, Firmwares
  <2>3. TypeOK'
    BY <1>4, <2>1, <2>2 DEF ExitBootServices, TypeOK, Places, Firmwares
  <2>. QED
    BY <1>4, <2>1, <2>2, <2>3
       DEF ExitBootServices, NoBuffer, ServicesRun, RoomForMap, MapCurrent,
           ModeKnown, XsdpKnown, Early, ReadingMap, Ended
<1>. QED
  BY <1>1, <1>2, <1>3, <1>4

\* The rest, and an event of the firmware's, which Quiet keeps away.
LEMMA LastSteps ==
  ASSUME Handed, PrintEntry \/ EnterKernel \/ FirmwareEvent \/ UNCHANGED vars
  PROVE  Handed' /\ (Quiet /\ MapRight => MapRight')
<1>. USE DEF Handed, MapRight
<1>1. CASE PrintEntry
  <2>1. pc = "print_entry" /\ pc' \in {"enter", "undefined"}
    BY <1>1 DEF PrintEntry
  <2>2. TypeOK'
    BY <1>1, <2>1 DEF PrintEntry, TypeOK, Places
  <2>. QED
    BY <1>1, <2>1, <2>2
       DEF PrintEntry, NoBuffer, ServicesRun, RoomForMap, MapCurrent,
           ModeKnown, XsdpKnown, Early, ReadingMap, Ended
<1>2. CASE EnterKernel
  <2>1. TypeOK'
    BY <1>2 DEF EnterKernel, TypeOK, Places
  <2>. QED
    BY <1>2, <2>1
       DEF EnterKernel, NoBuffer, ServicesRun, RoomForMap, MapCurrent,
           ModeKnown, XsdpKnown, Early, ReadingMap, Ended
<1>3. CASE FirmwareEvent
  <2>1. PICK fw \in Allocates(firmware) :
          firmware' = [fw EXCEPT !.events = firmware.events + 1]
    BY <1>3 DEF FirmwareEvent
  <2>2. fw \in Firmwares /\ fw.services = firmware.services
    BY ListTypes, AllocationAdds
  <2>3. firmware.events + 1 \in 0 .. MaxEvents
    BY <1>3, ListTypes, EfiBootAssumption DEF FirmwareEvent, Firmwares
  <2>4. firmware' \in Firmwares /\ firmware'.services = firmware.services
    BY <2>1, <2>2, <2>3 DEF Firmwares
  <2>5. Quiet /\ MapRight => pc \notin {"map_buffer", "map", "exit"} \cup Ended
    BY <1>3 DEF FirmwareEvent, Quiet, MapCurrent, Ended
  <2>6. TypeOK'
    BY <1>3, <2>4 DEF FirmwareEvent, TypeOK, Firmwares
  <2>. QED
    BY <1>3, <2>4, <2>5, <2>6
       DEF FirmwareEvent, NoBuffer, ServicesRun, RoomForMap, MapCurrent,
           ModeKnown, XsdpKnown, Early, ReadingMap, Ended
<1>4. CASE UNCHANGED vars
  BY <1>4 DEF vars, TypeOK, NoBuffer, ServicesRun, RoomForMap, MapCurrent,
              ModeKnown, XsdpKnown, Early, ReadingMap, Ended
<1>. QED
  BY <1>1, <1>2, <1>3, <1>4

LEMMA StepHanded ==
  ASSUME Handed, [Next]_vars
  PROVE  Handed' /\ (Quiet /\ MapRight => MapRight')
<1>1. CASE Done
  BY <1>1, LastSteps DEF Done
<1>. QED
  BY <1>1, GraphicsSteps, TablesSteps, MapSteps, LastSteps DEF Next

LEMMA AlwaysHanded == Spec => []Handed
<1>1. Init => Handed
  BY InitIInv DEF IInv
<1>2. Handed /\ [Next]_vars => Handed'
  BY StepHanded
<1>. QED
  BY <1>1, <1>2, PTL DEF Spec

\* The variables keep their types, whatever the firmware does.
THEOREM TypeCorrect == Spec => []TypeOK
<1>1. Handed => TypeOK
  BY DEF Handed
<1>. QED
  BY <1>1, AlwaysHanded, PTL

\* The kernel gets the mode that is set, with a frame buffer, for every list of
\* modes and every state in which the firmware left the device (main.c:130-160).
THEOREM VideoAlwaysHandedOver == Spec => []VideoHandedOver
<1>1. Handed => VideoHandedOver
  BY DEF Handed, ModeKnown, Ended, VideoHandedOver
<1>. QED
  BY <1>1, AlwaysHanded, PTL

\* The kernel gets a table with the RSDP's signature, for every list of
\* configuration tables and whatever lies behind it (main.c:172-200).
THEOREM XsdpAlwaysHandedOver == Spec => []XsdpHandedOver
<1>1. Handed => XsdpHandedOver
  BY DEF Handed, XsdpKnown, Ended, XsdpHandedOver
<1>. QED
  BY <1>1, AlwaysHanded, PTL

\* With a firmware that is quiet while its memory map is read, the kernel is
\* entered with boot services ended and with the map of that moment, whole:
\* room for two more descriptors is enough (main.c:29-43, 268-273).
THEOREM KernelAlwaysOwnsMachine ==
  ASSUME Quiet
  PROVE  Spec => []KernelOwnsMachine
<1>1. Init => IInv
  BY InitIInv
<1>2. IInv /\ [Next]_vars => IInv'
  BY Quiet, StepHanded DEF IInv
<1>3. IInv => KernelOwnsMachine
  BY DEF IInv, MapRight, MapCurrent, Ended, KernelOwnsMachine
<1>. QED
  BY <1>1, <1>2, <1>3, PTL DEF Spec

\* When the list of modes can be read, the wanted mode is set if the device has
\* it, wherever in the list it is (video.c:105-152).
THEOREM TargetModeAlwaysSet == Spec => TargetModeSet
<1>1. Handed /\ [Next]_vars =>
        [pc = "set_mode" /\ pc' = "framebuffer" /\ gop.mode # 0
           /\ (\E n \in DOMAIN gop.modes : gop.modes[n] = Target)
         => gop'.modes[gop'.mode] = Target]_vars
  <2>. SUFFICES ASSUME Handed, [Next]_vars, pc = "set_mode", pc' = "framebuffer",
                       gop.mode # 0,
                       \E n \in DOMAIN gop.modes : gop.modes[n] = Target
                PROVE  gop'.modes[gop'.mode] = Target
    OBVIOUS
  <2>1. SetMode
    BY DEF Next, vars, graphics_init, OpenGop, SaveMode, AllocateBackbuffer,
           FindXsdp, LoadKernel, GetMapSize, AllocateMap, GetMap,
           ExitBootServices, PrintEntry, EnterKernel, FirmwareEvent, Done, Step
  <2>2. PICK max \in 0 .. Len(gop.modes) :
          /\ max = Len(gop.modes)
          /\ gop' = [gop EXCEPT !.mode = find_graphics_mode(max)]
    BY <2>1 DEF SetMode
  <2>3. gop.modes \in Seq(STRING) /\ gop.modes # <<>> /\ DOMAIN gop.modes = 1 .. max
    BY <2>2, ListTypes DEF Handed
  <2>4. gop.modes[find_graphics_mode(max)] = Target
    BY <2>3, ModeFound
  <2>5. gop'.modes = gop.modes /\ gop'.mode = find_graphics_mode(max)
    BY <2>2 DEF Handed, TypeOK
  <2>. QED
    BY <2>4, <2>5
<1>. QED
  BY <1>1, AlwaysHanded, PTL DEF Spec, TargetModeSet

=============================================================================
