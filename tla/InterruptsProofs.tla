-------------------------- MODULE InterruptsProofs --------------------------
(***************************************************************************)
(* Interrupts and exceptions for every set of devices, every vector base   *)
(* of the firmware's and every set of exceptions that the thread meets.    *)
(***************************************************************************)
EXTENDS Interrupts, SequenceTheorems, WellFoundedInduction, TLAPS

\* No device is at IRQ 15, for which isr_stub_table has no entry (isr.s:206).
NoIrq15 == 15 \notin Devices

\* No device of the slave's withdraws a request: the slave would say IRQ 15 then.
SlaveSteady == Unsteady \subseteq Lines

\* The processor pushes an error code for the vectors whose stubs rely on it
\* (isr.s:146-177), and for no other.
CodesAsStubs == \A v \in DOMAIN Faults : Faults[v] # <<>> <=> v \in ErrStubs

-----------------------------------------------------------------------------
(* The PICs. *)

\* disable_pic8259 writes to the master first.
Turn(c) == IF c = "master" THEN 0 ELSE 1

BaseOf(c) == IF c = "master" THEN 32 ELSE 40

LinesOf(c) == {d % 8 : d \in {e \in Devices : ChipOf(e) = c}}

\* What a PIC has taken of the program: its mask, until its initialization
\* begins; the words of that; and its vectors.
Programmed(c) ==
  LET p == chip[c]
      t == Turn(c)
  IN /\ n <= 4 + t \/ n > 10 + t => p.icw = 0
     /\ n \in 5 + t .. 6 + t => p.icw = 2
     /\ n \in 7 + t .. 8 + t => p.icw = 3
     /\ n \in 9 + t .. 10 + t => p.icw = 4
     /\ n \in 2 + t .. 4 + t => p.imr = Lines
     /\ n > 6 + t => p.base = BaseOf(c)
     /\ p.irr \subseteq LinesOf(c)

\* The lines an interrupt puts in service.
Service(line) == IF line = None THEN {} ELSE {line}

InHandler == frames # <<>> \/ fault # NoFault

\* One interrupt at a time, and none before the masters' are programmed; an
\* interrupt of the slave has one of the slave's vectors and is the master's
\* cascade line as well.  Nothing is done for a vector without a stub, which is
\* that of IRQ 15 or of a spurious interrupt of the slave.
OneFrame ==
  frames # <<>> =>
    /\ Len(frames) = 1
    /\ fault = NoFault
    /\ n > 10
    /\ frames[1].vector \in 32 .. 47
    /\ (NoIrq15 /\ frames[1].vector = 47) => (~SlaveSteady /\ IsSlaveSpurious(frames[1]))
    /\ frames[1].vector = 47 => frames[1].at = "switch"
    /\ IF frames[1].slave = None THEN frames[1].vector < 40 \/ frames[1].vector = 47
       ELSE frames[1].vector >= 40 /\ frames[1].master = Cascade

\* The lines in service are those of the interrupt being handled whose service
\* its handler has still to end.
ServiceRight ==
  IF frames = <<>> THEN \A c \in Chips : chip[c].isr = {}
  ELSE LET f == frames[1] IN
       /\ chip["slave"].isr = IF f.at \in {"switch", "eoi_slave"} THEN Service(f.slave) ELSE {}
       /\ chip["master"].isr = IF f.at # "iret" THEN Service(f.master) ELSE {}
       /\ f.at = "eoi_slave" => f.slave # None

\* Interrupts are enabled once the PICs are masked, and not in a handler.
FlagRight ==
  /\ IF_flag => ~InHandler
  /\ IF_flag \/ InHandler => n > 3

PicInv ==
  /\ TypeOK
  /\ \A c \in Chips : Programmed(c)
  /\ OneFrame
  /\ ServiceRight
  /\ FlagRight

-----------------------------------------------------------------------------
(* The interrupted thread. *)

\* Who was interrupted by a vector without a stub does not go on.
Astray == frames # <<>> /\ frames[1].vector \notin Stubs

\* The stack in a handler: what the processor and the stub pushed.
StackRight ==
  InHandler /\ ~Astray =>
    /\ stack \in Seq(Int) /\ Len(stack) = 24
    /\ stack[2] = 0 /\ stack[5] = n
    /\ \A k \in DOMAIN Registers :
         stack[8 + k] = IF Registers[k] = "rsp" THEN 13 ELSE ThreadRegs[Registers[k]]
    /\ frames # <<>> => stack[7] = 0 /\ stack[8] = frames[1].vector
    /\ fault # NoFault =>
         /\ stack[8] = fault.vector
         /\ stack[7] = Len(Faults[fault.vector])
         /\ Faults[fault.vector] # <<>> => stack[6] = Faults[fault.vector][1]

\* An exception with an error code is not returned from.
FaultRight ==
  \/ fault = NoFault
  \/ /\ fault \in [vector : DOMAIN Faults, at : {"switch", "frozen", "eoi_master", "iret"}]
     /\ fault.at = "frozen" => Faults[fault.vector] # <<>>
     /\ fault.at \in {"eoi_master", "iret"} => Faults[fault.vector] = <<>>

ThreadInv ==
  /\ regs \in [GPRs -> Nat]
  /\ Astray => stack \in Seq(Int)
  /\ StackRight
  /\ FaultRight
  /\ ContextKept

IInv == PicInv /\ ThreadInv

-----------------------------------------------------------------------------
(* The operators of the PICs. *)

Less == {pair \in Nat \X Nat : pair[1] < pair[2]}

\* Every set of lines has one of highest priority.
LEMMA LowestIn ==
  ASSUME NEW S \in SUBSET Lines, S # {}
  PROVE  Lowest(S) \in S
<1>1. IsWellFoundedOn(Less, Nat)
  BY NatLessThanWellFounded DEF OpToRel, Less
<1>2. S \subseteq Nat
  BY DEF Lines
<1>3. PICK l \in S : \A k \in S : ~(<<k, l>> \in Less)
  BY <1>1, <1>2, WFMin
<1>4. \A k \in S : k \in Nat /\ l \in Nat /\ (k < l => <<k, l>> \in Less)
  BY <1>2 DEF Less
<1>5. \A k \in S : ~(k < l)
  BY <1>3, <1>4, Zenon
<1>6. \A k \in S : l <= k
  BY <1>2, <1>4, <1>5
<1>. QED
  BY <1>6 DEF Lowest

LEMMA LowestOne == ASSUME NEW l \in Lines PROVE Lowest({l}) = l
<1>1. {l} \in SUBSET Lines /\ {l} # {}
  OBVIOUS
<1>. QED
  BY <1>1, LowestIn

\* The bits that the driver's port writes depend on.
LEMMA BitsWritten ==
  /\ 4 \in BitsOf(17) /\ 4 \notin BitsOf(32)
  /\ BitsOf(255) = Lines
<1>1. 4 \in BitsOf(17)
  BY DEF BitsOf, Lines
<1>2. 4 \notin BitsOf(32)
  BY DEF BitsOf, Lines
<1>3. \A b \in Lines : (255 \div 2^b) % 2 = 1
  <2>. SUFFICES ASSUME NEW b \in Lines PROVE (255 \div 2^b) % 2 = 1
    OBVIOUS
  <2>1. b \in {0, 1, 2, 3, 4, 5, 6, 7}
    BY DEF Lines
  <2>2. CASE b = 0
    BY <2>2
  <2>3. CASE b = 1
    BY <2>3
  <2>4. CASE b = 2
    BY <2>4
  <2>5. CASE b = 3
    BY <2>5
  <2>6. CASE b = 4
    BY <2>6
  <2>7. CASE b = 5
    BY <2>7
  <2>8. CASE b = 6
    BY <2>8
  <2>9. CASE b = 7
    BY <2>9
  <2>. QED
    BY <2>1, <2>2, <2>3, <2>4, <2>5, <2>6, <2>7, <2>8, <2>9
<1>. QED
  BY <1>1, <1>2, <1>3 DEF BitsOf

\* An ICW1 begins the initialization and clears everything but the vectors.
LEMMA CommandInit ==
  ASSUME NEW p \in Pics
  PROVE  Command(p, ICW_1) = [p EXCEPT !.icw = 2, !.imr = {}, !.irr = {}, !.isr = {}]
BY BitsWritten DEF Command, ICW_1

\* An end of interrupt for a PIC with at most one line in service.
LEMMA CommandEoi ==
  ASSUME NEW p \in Pics, NEW l \in Lines \cup {None}, p.isr = Service(l)
  PROVE  /\ Command(p, PIC_EOI) \in Pics
         /\ Command(p, PIC_EOI) = [p EXCEPT !.isr = {}]
<1>1. 4 \notin BitsOf(PIC_EOI)
  BY BitsWritten DEF PIC_EOI
<1>2. CASE l = None
  <2>1. p.isr = {}
    BY <1>2 DEF Service
  <2>2. Command(p, PIC_EOI) = p
    BY <1>1, <2>1 DEF Command
  <2>3. [p EXCEPT !.isr = {}] = p
    BY <2>1 DEF Pics
  <2>. QED
    BY <2>2, <2>3
<1>3. CASE l \in Lines
  <2>1. p.isr = {l}
    BY <1>3 DEF Service, Lines, None
  <2>2. Lowest(p.isr) = l
    BY <1>3, <2>1, LowestOne
  <2>3. Command(p, PIC_EOI) = [p EXCEPT !.isr = p.isr \ {l}]
    BY <1>1, <2>1, <2>2 DEF Command
  <2>4. p.isr \ {l} = {}
    BY <2>1
  <2>. QED
    BY <2>3, <2>4 DEF Pics
<1>. QED
  BY <1>2, <1>3

\* The steps of main's that program the PICs (kernel.c:10-26).
LEMMA ProgramSteps ==
  /\ Len(Program) = 11
  /\ Program[1] = Out("master", "data", 255)
  /\ Program[2] = Out("slave", "data", 255)
  /\ Program[3] = Sti
  /\ Program[4] = Out("master", "command", 17)
  /\ Program[5] = Out("slave", "command", 17)
  /\ Program[6] = Out("master", "data", 32)
  /\ Program[7] = Out("slave", "data", 40)
  /\ Program[8] = Out("master", "data", 2)
  /\ Program[9] = Out("slave", "data", 4)
  /\ Program[10] = Out("master", "data", 1)
  /\ Program[11] = Out("slave", "data", 1)
BY DEF Program, idt_init, mask_pic_interrupts, disable_pic8259, ICW_1, ICW_2_Ma,
       ICW_2_Sl, ICW_3_Ma, ICW_3_Sl, ICW_4

\* Every step but one writes to a PIC: the same five writes to each, in turn.
LEMMA ProgramOf ==
  ASSUME NEW c \in Chips
  PROVE  LET t == Turn(c) IN
         /\ Program[1 + t] = Out(c, "data", 255)
         /\ Program[4 + t] = Out(c, "command", ICW_1)
         /\ Program[6 + t] = Out(c, "data", BaseOf(c))
         /\ \E v : Program[8 + t] = Out(c, "data", v)
         /\ \E v : Program[10 + t] = Out(c, "data", v)
BY ProgramSteps DEF Turn, BaseOf, Chips, ICW_1

\* What a PIC makes of its writes.
LEMMA WordTaken ==
  ASSUME NEW c \in Chips, NEW p, p = chip[c], p \in Pics, Programmed(c)
  PROVE  LET t == Turn(c) IN
         /\ n = 1 + t => Data(p, 255) = [p EXCEPT !.imr = Lines]
         /\ n = 6 + t => Data(p, BaseOf(c)) = [p EXCEPT !.icw = 3, !.base = BaseOf(c)]
         /\ n = 8 + t => \A v : Data(p, v) = [p EXCEPT !.icw = 4]
         /\ n = 10 + t => \A v : Data(p, v) = [p EXCEPT !.icw = 0]
<1>. DEFINE t == Turn(c)
<1>1. t \in {0, 1}
  BY DEF Turn
<1>. HIDE DEF t
<1>2. n = 1 + t => p.icw = 0
  BY <1>1 DEF Programmed, t
<1>3. n = 6 + t => p.icw = 2
  BY <1>1 DEF Programmed, t
<1>4. n = 8 + t => p.icw = 3
  BY <1>1 DEF Programmed, t
<1>5. n = 10 + t => p.icw = 4
  BY <1>1 DEF Programmed, t
<1>6. n = 1 + t => Data(p, 255) = [p EXCEPT !.imr = Lines]
  BY <1>2, BitsWritten DEF Data
<1>7. n = 6 + t => Data(p, BaseOf(c)) = [p EXCEPT !.icw = 3, !.base = BaseOf(c)]
  BY <1>3 DEF Data
<1>8. n = 8 + t => \A v : Data(p, v) = [p EXCEPT !.icw = 4]
  BY <1>4 DEF Data
<1>9. n = 10 + t => \A v : Data(p, v) = [p EXCEPT !.icw = 0]
  BY <1>5 DEF Data
<1>. QED
  BY <1>6, <1>7, <1>8, <1>9 DEF t

LEMMA ChipWritten ==
  ASSUME chip \in [Chips -> Pics], NEW c \in Chips, NEW p \in Pics,
         chip' = [chip EXCEPT ![c] = p]
  PROVE  /\ chip' \in [Chips -> Pics]
         /\ chip'[c] = p
         /\ \A d \in Chips : d # c => chip'[d] = chip[d]
OBVIOUS

\* What a write of the thread's does.
LEMMA Writes ==
  ASSUME ThreadStep, NEW c \in Chips, NEW port, NEW v, Program[n] = Out(c, port, v),
         chip \in [Chips -> Pics]
  PROVE  /\ IF_flag' = IF_flag
         /\ chip' = [chip EXCEPT ![c] = chip'[c]]
         /\ chip'[c] = IF port = "command" THEN Command(chip[c], v) ELSE Data(chip[c], v)
<1>1. Program[n] # Sti
  BY DEF Out, Sti, Chips
<1>2. /\ Program[n].chip = c /\ Program[n].port = port /\ Program[n].value = v
  BY DEF Out
<1>. QED
  BY <1>1, <1>2 DEF ThreadStep, outb

-----------------------------------------------------------------------------
(* The PICs and the handlers of their interrupts. *)

LEMMA InitPicInv == Init /\ fault = NoFault => PicInv
<1>. SUFFICES ASSUME Init, fault = NoFault PROVE PicInv
  OBVIOUS
<1>1. FirmwareBase["master"] \in 0 .. 255 /\ FirmwareBase["slave"] \in 0 .. 255
  BY PicAssumption DEF Chips
<1>2. \A c \in Chips : /\ chip[c] \in Pics /\ chip[c].icw = 0 /\ chip[c].irr = {}
                       /\ chip[c].isr = {}
  <2>. DEFINE First == [icw : {0}, imr : {{}, Lines}, irr : {{}}, isr : {{}},
                        base : {FirmwareBase["master"], FirmwareBase["slave"]}]
  <2>1. \A p \in First : p \in Pics /\ p.icw = 0 /\ p.irr = {} /\ p.isr = {}
    BY <1>1 DEF Pics
  <2>2. chip \in [Chips -> First]
    BY DEF Init
  <2>. QED
    BY <2>1, <2>2
<1>3. chip \in [Chips -> Pics]
  BY <1>2 DEF Init
<1>4. TypeOK
  <2>1. Len(Program) = 11
    BY ProgramSteps
  <2>2. n = 1 /\ IF_flag = FALSE /\ frames = <<>>
    BY DEF Init
  <2>3. <<>> \in Seq(Frames) /\ 1 \in 1 .. 11 + 1
    OBVIOUS
  <2>. QED
    BY <1>3, <2>1, <2>2, <2>3 DEF TypeOK
<1>5. \A c \in Chips : Programmed(c)
  BY <1>2 DEF Init, Programmed, Turn
<1>. QED
  BY <1>2, <1>4, <1>5 DEF Init, PicInv, OneFrame, ServiceRight, FlagRight, InHandler

\* main's steps: Sti, and the writes to the PICs.
LEMMA ThreadPic ==
  ASSUME PicInv, fault = NoFault, fault' = NoFault, ThreadStep
  PROVE  PicInv'
<1>. USE DEF PicInv
<1>1. /\ frames = <<>> /\ frames' = <<>> /\ n \in 1 .. 11 /\ n' = n + 1
      /\ chip \in [Chips -> Pics]
  BY ProgramSteps DEF ThreadStep, TypeOK
<1>2. OneFrame'
  BY <1>1 DEF OneFrame
<1>3. CASE n = 3
  <2>1. IF_flag' = TRUE /\ chip' = chip
    BY <1>3, ProgramSteps DEF ThreadStep
  <2>2. TypeOK'
    BY <1>1, <2>1, ProgramSteps DEF TypeOK
  <2>3. \A c \in Chips : Programmed(c)'
    BY <1>1, <1>3, <2>1 DEF Programmed, Turn
  <2>. QED
    BY <1>1, <1>2, <1>3, <2>1, <2>2, <2>3 DEF ServiceRight, FlagRight, InHandler
<1>4. ASSUME NEW c \in Chips, NEW d \in Chips, c # d,
             n \in {1 + Turn(c), 4 + Turn(c), 6 + Turn(c), 8 + Turn(c), 10 + Turn(c)}
      PROVE  PicInv'
  <2>. DEFINE t == Turn(c)
  <2>1. t \in {0, 1} /\ Turn(d) = 1 - t
    BY <1>4 DEF Turn, Chips
  <2>. DEFINE p == chip'[c]
  <2>2. /\ p \in Pics
        /\ chip' = [chip EXCEPT ![c] = p] /\ IF_flag' = IF_flag
        /\ p.isr = {} /\ p.irr \subseteq LinesOf(c)
        /\ n = 1 + t => p.icw = 0 /\ p.imr = Lines /\ p.base = chip[c].base
        /\ n = 4 + t => p.icw = 2 /\ p.base = chip[c].base
        /\ n = 6 + t => p.icw = 3 /\ p.base = BaseOf(c)
        /\ n = 8 + t => p.icw = 4 /\ p.base = chip[c].base
        /\ n = 10 + t => p.icw = 0 /\ p.base = chip[c].base
    <3>. DEFINE q == chip[c]
    <3>1. /\ q \in Pics /\ q.isr = {} /\ q.irr \subseteq LinesOf(c)
          /\ BaseOf(c) \in 0 .. 255 /\ Programmed(c)
          /\ n = 1 + t => q.icw = 0
      BY <1>1, <2>1 DEF ServiceRight, Programmed, BaseOf
    <3>2. CASE n = 1 + t
      <4>1. Program[n] = Out(c, "data", 255)
        BY <3>2, ProgramOf
      <4>2. IF_flag' = IF_flag /\ chip' = [chip EXCEPT ![c] = p] /\ p = Data(q, 255)
        BY <1>1, <4>1, Writes
      <4>3. p = [q EXCEPT !.imr = Lines]
        BY <3>1, <3>2, <4>2, WordTaken
      <4>4. p \in Pics
        BY <3>1, <4>3 DEF Pics
      <4>. QED
        BY <2>1, <3>1, <3>2, <4>2, <4>3, <4>4 DEF Pics
    <3>3. CASE n = 4 + t
      <4>1. Program[n] = Out(c, "command", ICW_1)
        BY <3>3, ProgramOf
      <4>2. IF_flag' = IF_flag /\ chip' = [chip EXCEPT ![c] = p] /\ p = Command(q, ICW_1)
        BY <1>1, <4>1, Writes
      <4>3. p = [q EXCEPT !.icw = 2, !.imr = {}, !.irr = {}, !.isr = {}]
        BY <3>1, <3>3, <4>2, CommandInit
      <4>4. p \in Pics
        BY <3>1, <4>3 DEF Pics
      <4>. QED
        BY <2>1, <3>1, <3>3, <4>2, <4>3, <4>4 DEF Pics
    <3>4. CASE n = 6 + t
      <4>1. Program[n] = Out(c, "data", BaseOf(c))
        BY <3>4, ProgramOf
      <4>2. IF_flag' = IF_flag /\ chip' = [chip EXCEPT ![c] = p] /\ p = Data(q, BaseOf(c))
        BY <1>1, <4>1, Writes
      <4>3. p = [q EXCEPT !.icw = 3, !.base = BaseOf(c)]
        BY <3>1, <3>4, <4>2, WordTaken
      <4>4. p \in Pics
        BY <3>1, <4>3 DEF Pics
      <4>. QED
        BY <2>1, <3>1, <3>4, <4>2, <4>3, <4>4 DEF Pics
    <3>5. CASE n = 8 + t
      <4>1. PICK v : Program[n] = Out(c, "data", v)
        BY <3>5, ProgramOf
      <4>2. IF_flag' = IF_flag /\ chip' = [chip EXCEPT ![c] = p] /\ p = Data(q, v)
        BY <1>1, <4>1, Writes
      <4>3. p = [q EXCEPT !.icw = 4]
        BY <3>1, <3>5, <4>2, WordTaken
      <4>4. p \in Pics
        BY <3>1, <4>3 DEF Pics
      <4>. QED
        BY <2>1, <3>1, <3>5, <4>2, <4>3, <4>4 DEF Pics
    <3>6. CASE n = 10 + t
      <4>1. PICK v : Program[n] = Out(c, "data", v)
        BY <3>6, ProgramOf
      <4>2. IF_flag' = IF_flag /\ chip' = [chip EXCEPT ![c] = p] /\ p = Data(q, v)
        BY <1>1, <4>1, Writes
      <4>3. p = [q EXCEPT !.icw = 0]
        BY <3>1, <3>6, <4>2, WordTaken
      <4>4. p \in Pics
        BY <3>1, <4>3 DEF Pics
      <4>. QED
        BY <2>1, <3>1, <3>6, <4>2, <4>3, <4>4 DEF Pics
    <3>. QED
      BY <1>4, <3>2, <3>3, <3>4, <3>5, <3>6
  <2>. HIDE DEF p
  <2>3. chip' \in [Chips -> Pics] /\ chip'[c] = p /\ chip'[d] = chip[d]
    BY <1>1, <1>4, <2>2, ChipWritten
  <2>4. Chips = {c, d}
    BY <1>4 DEF Chips
  <2>. HIDE DEF t
  <2>5. Programmed(c)'
    BY <1>1, <1>4, <2>1, <2>2, <2>3 DEF Programmed, t
  <2>6. Programmed(d)'
    BY <1>1, <1>4, <2>1, <2>3 DEF Programmed, t
  <2>7. TypeOK'
    BY <1>1, <2>2, <2>3, ProgramSteps DEF TypeOK
  <2>8. ServiceRight'
    BY <1>1, <2>2, <2>3, <2>4 DEF ServiceRight
  <2>9. FlagRight'
    BY <1>1, <2>2 DEF FlagRight, InHandler
  <2>. QED
    BY <1>2, <2>4, <2>5, <2>6, <2>7, <2>8, <2>9
<1>5. \/ n = 3
      \/ n \in {1, 4, 6, 8, 10}
      \/ n \in {2, 5, 7, 9, 11}
  BY <1>1
<1>6. CASE n \in {1, 4, 6, 8, 10}
  <2>1. Turn("master") = 0 /\ "master" \in Chips /\ "slave" \in Chips
    BY DEF Turn, Chips
  <2>. QED
    BY <1>4, <1>6, <2>1
<1>7. CASE n \in {2, 5, 7, 9, 11}
  <2>1. Turn("slave") = 1 /\ "master" \in Chips /\ "slave" \in Chips
    BY DEF Turn, Chips
  <2>. QED
    BY <1>4, <1>7, <2>1
<1>. QED
  BY <1>3, <1>5, <1>6, <1>7

\* A device's request, which is for one of its PIC's lines.
LEMMA RequestPic ==
  ASSUME PicInv, fault' = fault, NEW d \in Devices, Request(d)
  PROVE  PicInv'
<1>. USE DEF PicInv
<1>1. /\ d \in 0 .. 15 /\ ChipOf(d) \in Chips /\ d % 8 \in Lines
      /\ d % 8 \in LinesOf(ChipOf(d))
  BY PicAssumption DEF ChipOf, Chips, Lines, LinesOf
<1>. DEFINE c == ChipOf(d)
            q == chip[c]
            p == [q EXCEPT !.irr = @ \cup {d % 8}]
<1>2. q \in Pics /\ p \in Pics /\ chip \in [Chips -> Pics]
  <2>1. q \in Pics /\ chip \in [Chips -> Pics]
    BY <1>1 DEF TypeOK
  <2>2. q.irr \cup {d % 8} \in SUBSET Lines
    BY <1>1, <2>1 DEF Pics
  <2>. QED
    BY <2>1, <2>2 DEF Pics
<1>3. /\ chip' = [chip EXCEPT ![c] = p] /\ UNCHANGED <<n, IF_flag, frames>>
  BY DEF Request
<1>4. /\ p.icw = q.icw /\ p.imr = q.imr /\ p.isr = q.isr /\ p.base = q.base
      /\ p.irr = q.irr \cup {d % 8}
  BY <1>2 DEF Pics
<1>. HIDE DEF p
<1>5. /\ chip' \in [Chips -> Pics] /\ chip'[c] = p
      /\ \A e \in Chips : e # c => chip'[e] = chip[e]
  BY <1>1, <1>2, <1>3, ChipWritten
<1>. HIDE DEF c
<1>6. TypeOK'
  BY <1>3, <1>5 DEF TypeOK
<1>7. ASSUME NEW e \in Chips
      PROVE  Programmed(e)'
  BY <1>1, <1>3, <1>4, <1>5 DEF Programmed, c
<1>8. \A e \in Chips : chip'[e].isr = chip[e].isr
  BY <1>4, <1>5
<1>9. ServiceRight'
  BY <1>3, <1>8 DEF ServiceRight, Chips
<1>10. OneFrame' /\ FlagRight'
  BY <1>3 DEF OneFrame, FlagRight, InHandler
<1>. QED
  BY <1>6, <1>7, <1>9, <1>10

\* The lines that devices have, and the vectors that come of them.
LEMMA DeviceLines ==
  /\ LinesOf("master") \subseteq Lines \ {Cascade}
  /\ LinesOf("slave") \subseteq Lines
  /\ 15 \notin Devices => 7 \notin LinesOf("slave")
<1>1. \A d \in Devices : d \in (0 .. 15) \ {Cascade}
  BY PicAssumption
<1>2. \A d \in 0 .. 15 : /\ d \in Lines => d % 8 = d
                         /\ d % 8 \in Lines
                         /\ d \notin Lines /\ d # 15 => d % 8 # 7
  BY DEF Lines
<1>. QED
  BY <1>1, <1>2 DEF LinesOf, ChipOf, Cascade

\* A PIC interrupts only when it is programmed: before, it is masked or awaits
\* a word of its initialization.
LEMMA PendingProgrammed ==
  ASSUME PicInv, IF_flag
  PROVE  /\ frames = <<>> /\ fault = NoFault
         /\ \A c \in Chips : chip[c].isr = {} /\ chip[c] \in Pics
         /\ SlavePending \subseteq LinesOf("slave")
         /\ SlavePending # {} => n > 11 /\ chip["slave"].base = 40
         /\ MasterPending \subseteq LinesOf("master") \cup {Cascade}
         /\ MasterPending # {} => n > 10 /\ chip["master"].base = 32
         /\ Cascade \in MasterPending => SlavePending # {}
<1>. USE DEF PicInv
<1>1. /\ n \in 1 .. 12 /\ n > 3 /\ frames = <<>> /\ fault = NoFault
      /\ \A c \in Chips : chip[c].isr = {} /\ chip[c] \in Pics
  BY ProgramSteps DEF TypeOK, FlagRight, InHandler, ServiceRight
<1>2. ASSUME NEW c \in Chips, NEW requests \in SUBSET Lines
      PROVE  /\ Pending(chip[c], requests) \subseteq requests
             /\ Pending(chip[c], requests) # {} =>
                  n > 10 + Turn(c) /\ chip[c].base = BaseOf(c)
  <2>. DEFINE t == Turn(c)
              p == chip[c]
  <2>1. t \in {0, 1}
    BY DEF Turn
  <2>2. /\ p.icw = 0 => n <= 4 + t \/ n > 10 + t
        /\ n > 10 + t => p.base = BaseOf(c)
        /\ n \in 4 .. 4 + t => p.imr = Lines
    <3>1. Programmed(c)
      OBVIOUS
    <3>. QED
      BY <1>1, <2>1, <3>1 DEF Programmed
  <2>3. n <= 4 + t => Pending(p, requests) = {}
    BY <1>1, <2>2 DEF Pending
  <2>. QED
    BY <1>1, <2>1, <2>2, <2>3 DEF Pending
<1>. DEFINE requests == chip["master"].irr \cup (IF SlavePending # {} THEN {Cascade} ELSE {})
<1>3. /\ "master" \in Chips /\ "slave" \in Chips
      /\ chip["master"].irr \subseteq LinesOf("master")
      /\ chip["slave"].irr \subseteq LinesOf("slave")
      /\ LinesOf("master") \subseteq Lines \ {Cascade} /\ LinesOf("slave") \subseteq Lines
      /\ Cascade \in Lines
  BY DeviceLines DEF Programmed, Chips, Cascade, Lines
<1>4. /\ requests \in SUBSET Lines /\ chip["slave"].irr \in SUBSET Lines
      /\ Turn("master") = 0 /\ Turn("slave") = 1
      /\ BaseOf("master") = 32 /\ BaseOf("slave") = 40
  BY <1>3 DEF Turn, BaseOf
<1>. HIDE DEF requests
<1>5. /\ SlavePending \subseteq LinesOf("slave")
      /\ SlavePending # {} => n > 11 /\ chip["slave"].base = 40
  <2>1. /\ SlavePending \subseteq chip["slave"].irr
        /\ SlavePending # {} => n > 10 + Turn("slave") /\ chip["slave"].base = BaseOf("slave")
    BY <1>2, <1>3, <1>4 DEF SlavePending
  <2>. QED
    BY <1>3, <1>4, <2>1
<1>6. MasterPending = Pending(chip["master"], requests)
  BY DEF MasterPending, requests
<1>7. /\ MasterPending \subseteq requests
      /\ MasterPending # {} => n > 10 /\ chip["master"].base = 32
  <2>1. MasterPending # {} =>
          n > 10 + Turn("master") /\ chip["master"].base = BaseOf("master")
    BY <1>2, <1>3, <1>4, <1>6
  <2>2. MasterPending \subseteq requests
    BY <1>2, <1>3, <1>4, <1>6
  <2>. QED
    BY <1>1, <1>4, <2>1, <2>2
<1>. QED
  BY <1>1, <1>3, <1>5, <1>7 DEF requests

LEMMA ServiceLines ==
  /\ Service(None) = {}
  /\ \A l \in Lines : l \in 0 .. 7 /\ l # None /\ Service(l) = {l}
  /\ Cascade \in Lines
BY DEF Service, Lines, None, Cascade

\* An interrupt that is accepted: its frame, and the lines it puts in service.
LEMMA AcceptPic ==
  ASSUME PicInv, fault' = fault, fault = NoFault,
         Accept
  PROVE  PicInv'
<1>. USE DEF PicInv
<1>1. IF_flag
  BY DEF Accept, AcceptMaster, AcceptSlave, AcceptSpurious, AcceptSlaveSpurious,
     AcceptLapicTimer, MayInterrupt
<1>2. /\ frames = <<>>
      /\ \A c \in Chips : chip[c].isr = {} /\ chip[c] \in Pics
      /\ chip["master"].isr = {} /\ chip["master"] \in Pics
      /\ chip["slave"].isr = {} /\ chip["slave"] \in Pics
      /\ chip \in [Chips -> Pics]
      /\ "master" \in Chips /\ "slave" \in Chips
  BY <1>1, PendingProgrammed DEF Chips, TypeOK
<1>3. ASSUME NEW v \in 32 .. 47, NEW m \in Lines \cup {None}, NEW s \in Lines \cup {None},
             Enter(v, m, s), n > 10,
             (NoIrq15 /\ v = 47) => (~SlaveSteady /\ m = Cascade /\ s = None),
             IF s = None THEN v < 40 \/ v = 47 ELSE v >= 40 /\ m = Cascade,
             chip' \in [Chips -> Pics],
             chip'["master"].isr = Service(m), chip'["slave"].isr = Service(s),
             \A c \in Chips : /\ chip'[c].icw = chip[c].icw /\ chip'[c].imr = chip[c].imr
                              /\ chip'[c].base = chip[c].base
                              /\ chip'[c].irr \subseteq chip[c].irr
      PROVE  PicInv'
  <2>. DEFINE f == [vector |-> v, master |-> m, slave |-> s, at |-> "switch"]
  <2>1. f \in Frames
    BY DEF Frames
  <2>2. /\ frames' = <<f>> /\ IF_flag' = FALSE /\ n' = n
    BY <1>2, <1>3 DEF Enter
  <2>3. /\ f.vector = v /\ f.master = m /\ f.slave = s /\ f.at = "switch"
    OBVIOUS
  <2>. HIDE DEF f
  <2>4. frames' \in Seq(Frames) /\ Len(frames') = 1 /\ frames'[1] = f /\ frames' # <<>>
    BY <2>1, <2>2
  <2>5. TypeOK'
    BY <1>3, <2>2, <2>4 DEF TypeOK
  <2>6. \A c \in Chips : Programmed(c)'
    BY <1>3, <2>2 DEF Programmed
  <2>7. OneFrame'
    BY <1>3, <2>2, <2>3, <2>4 DEF OneFrame, IsSlaveSpurious
  <2>8. ServiceRight'
    BY <1>3, <2>3, <2>4 DEF ServiceRight
  <2>9. FlagRight'
    BY <1>3, <2>2 DEF FlagRight, TypeOK
  <2>. QED
    BY <2>5, <2>6, <2>7, <2>8, <2>9
<1>4. CASE AcceptMaster
  <2>. DEFINE l == Lowest(MasterPending)
              q == chip["master"]
              p == [q EXCEPT !.irr = @ \ {l}, !.isr = @ \cup {l}]
  <2>1. /\ l \in LinesOf("master") /\ l \in Lines /\ n > 10 /\ q.base = 32
    BY <1>1, <1>4, PendingProgrammed, DeviceLines, LowestIn DEF AcceptMaster, Cascade, Lines
  <2>2. /\ chip' = [chip EXCEPT !["master"] = p] /\ Enter(32 + l, l, None)
    BY <1>4, <2>1 DEF AcceptMaster, InService
  <2>. HIDE DEF l
  <2>3. /\ p \in Pics /\ p.icw = q.icw /\ p.imr = q.imr /\ p.base = q.base
        /\ p.irr \subseteq q.irr /\ p.isr = {l}
    <3>1. q \in Pics /\ q.isr = {} /\ l \in Lines
      BY <1>2, <2>1
    <3>2. {} \cup {l} = {l} /\ {l} \in SUBSET Lines /\ q.irr \ {l} \in SUBSET q.irr
      BY <3>1
    <3>. HIDE DEF q
    <3>3. /\ p.icw = q.icw /\ p.imr = q.imr /\ p.base = q.base
          /\ p.irr = q.irr \ {l} /\ p.isr = q.isr \cup {l}
      BY <3>1 DEF Pics
    <3>4. p \in Pics
      BY <3>1, <3>2 DEF Pics
    <3>. QED
      BY <3>1, <3>2, <3>3, <3>4
  <2>. HIDE DEF p, q
  <2>4. /\ chip' \in [Chips -> Pics] /\ chip'["master"] = p
        /\ chip'["slave"] = chip["slave"]
    BY <1>2, <2>2, <2>3, ChipWritten DEF Chips
  <2>5. /\ 32 + l \in 32 .. 47 /\ 32 + l < 40 /\ l \in Lines \cup {None}
        /\ chip'["master"].isr = Service(l) /\ chip'["slave"].isr = Service(None)
    <3>1. 32 + l \in 32 .. 47 /\ 32 + l < 40
      BY <2>1, ServiceLines
    <3>. QED
      BY <1>2, <2>1, <2>3, <2>4, <3>1, ServiceLines
  <2>6. \A c \in Chips : /\ chip'[c].icw = chip[c].icw /\ chip'[c].imr = chip[c].imr
                         /\ chip'[c].base = chip[c].base
                         /\ chip'[c].irr \subseteq chip[c].irr
    BY <2>3, <2>4 DEF Chips, q
  <2>. QED
    BY <1>3, <2>1, <2>2, <2>4, <2>5, <2>6
<1>5. CASE AcceptSlave
  <2>. DEFINE l == Lowest(SlavePending)
              q == chip["slave"]
              p == [q EXCEPT !.irr = @ \ {l}, !.isr = @ \cup {l}]
              r == [chip["master"] EXCEPT !.isr = @ \cup {Cascade}]
  <2>1. MasterPending \in SUBSET Lines /\ MasterPending # {}
    BY <1>1, <1>5, PendingProgrammed, DeviceLines DEF AcceptSlave, Cascade, Lines
  <2>2. Cascade \in MasterPending
    BY <1>5, <2>1, LowestIn DEF AcceptSlave
  <2>3. /\ l \in LinesOf("slave") /\ l \in Lines /\ n > 11 /\ q.base = 40
    BY <1>1, <2>2, PendingProgrammed, DeviceLines, LowestIn
  <2>4. /\ chip' = [[chip EXCEPT !["slave"] = p] EXCEPT !["master"] = r]
        /\ Enter(40 + l, Cascade, l)
    <3>1. InService("slave", l) = [chip EXCEPT !["slave"] = p]
      BY <1>2 DEF InService
    <3>2. [InService("slave", l) EXCEPT !["master"].isr = @ \cup {Cascade}] =
            [[chip EXCEPT !["slave"] = p] EXCEPT !["master"] = r]
      BY <1>2, <3>1 DEF Chips
    <3>. QED
      BY <1>5, <2>3, <3>2 DEF AcceptSlave
  <2>. HIDE DEF l
  <2>5. /\ p \in Pics /\ p.icw = q.icw /\ p.imr = q.imr /\ p.base = q.base
        /\ p.irr \subseteq q.irr /\ p.isr = {l}
    <3>1. q \in Pics /\ q.isr = {} /\ l \in Lines
      BY <1>2, <2>3
    <3>2. {} \cup {l} = {l} /\ {l} \in SUBSET Lines /\ q.irr \ {l} \in SUBSET q.irr
      BY <3>1
    <3>. HIDE DEF q
    <3>3. /\ p.icw = q.icw /\ p.imr = q.imr /\ p.base = q.base
          /\ p.irr = q.irr \ {l} /\ p.isr = q.isr \cup {l}
      BY <3>1 DEF Pics
    <3>4. p \in Pics
      BY <3>1, <3>2 DEF Pics
    <3>. QED
      BY <3>1, <3>2, <3>3, <3>4
  <2>6. /\ r \in Pics /\ r.icw = chip["master"].icw /\ r.imr = chip["master"].imr
        /\ r.base = chip["master"].base /\ r.irr = chip["master"].irr
        /\ r.isr = {Cascade}
    <3>1. {} \cup {Cascade} = {Cascade} /\ {Cascade} \in SUBSET Lines
      BY ServiceLines
    <3>. QED
      BY <1>2, <3>1 DEF Pics
  <2>. HIDE DEF p, q, r
  <2>7. /\ chip' \in [Chips -> Pics] /\ chip'["master"] = r /\ chip'["slave"] = p
    BY <1>2, <2>4, <2>5, <2>6 DEF Chips
  <2>8. /\ 40 + l \in 32 .. 47 /\ 40 + l >= 40 /\ l \in Lines \cup {None}
        /\ Cascade \in Lines \cup {None} /\ l # None
        /\ (15 \notin Devices => 40 + l # 47)
        /\ chip'["master"].isr = Service(Cascade) /\ chip'["slave"].isr = Service(l)
    <3>1. /\ 40 + l \in 32 .. 47 /\ 40 + l >= 40
          /\ l # 7 => 40 + l # 47
      BY <2>3, ServiceLines
    <3>2. 15 \notin Devices => l # 7
      BY <2>3, DeviceLines
    <3>. QED
      BY <2>3, <2>5, <2>6, <2>7, <3>1, <3>2, ServiceLines
  <2>9. \A c \in Chips : /\ chip'[c].icw = chip[c].icw /\ chip'[c].imr = chip[c].imr
                         /\ chip'[c].base = chip[c].base
                         /\ chip'[c].irr \subseteq chip[c].irr
    BY <2>5, <2>6, <2>7 DEF Chips, q
  <2>. QED
    <3>1. n > 10
      BY <2>3 DEF PicInv, TypeOK
    <3>2. IF l = None THEN 40 + l < 40 \/ 40 + l = 47 ELSE 40 + l >= 40 /\ Cascade = Cascade
      BY <2>8
    <3>3. NoIrq15 => 40 + l # 47
      BY <2>8 DEF NoIrq15
    <3>. QED
      BY <1>3, <2>4, <2>7, <2>8, <2>9, <3>1, <3>2, <3>3
<1>6. ASSUME NEW d \in Unsteady
      PROVE  LET c == ChipOf(d)
                 q == chip[c]
                 p == [q EXCEPT !.irr = @ \ {d % 8}]
             IN  /\ c \in Chips /\ Withdrawn(d) = [chip EXCEPT ![c] = p]
                 /\ p \in Pics /\ p.icw = q.icw /\ p.imr = q.imr /\ p.base = q.base
                 /\ p.irr \subseteq q.irr /\ p.isr = {}
  <2>. DEFINE c == ChipOf(d)
              q == chip[c]
  <2>1. c \in Chips
    BY DEF ChipOf, Chips
  <2>2. q \in Pics /\ q.isr = {}
    BY <1>2, <2>1
  <2>. HIDE DEF c
  <2>. QED
    BY <1>2, <2>1, <2>2 DEF Pics, Withdrawn, c
<1>7. CASE AcceptSpurious
  <2>1. n > 10 /\ chip["master"].base = 32
    <3>1. MasterPending # {}
      BY <1>7 DEF AcceptSpurious, Withdraws
    <3>. QED
      BY <1>1, <3>1, PendingProgrammed
  <2>2. PICK d \in Unsteady : chip' = Withdrawn(d)
    BY <1>7 DEF AcceptSpurious
  <2>3. Enter(39, None, None)
    BY <1>7, <2>1 DEF AcceptSpurious
  <2>. DEFINE c == ChipOf(d)
              q == chip[c]
              p == [q EXCEPT !.irr = @ \ {d % 8}]
  <2>4. /\ c \in Chips /\ chip' = [chip EXCEPT ![c] = p]
        /\ p \in Pics /\ p.icw = q.icw /\ p.imr = q.imr /\ p.base = q.base
        /\ p.irr \subseteq q.irr /\ p.isr = {}
    BY <1>6, <2>2, Zenon
  <2>. HIDE DEF p, c
  <2>5. /\ chip' \in [Chips -> Pics] /\ chip'[c] = p
        /\ \A e \in Chips : e # c => chip'[e] = chip[e]
    BY <1>2, <2>4, ChipWritten
  <2>6. /\ None \in Lines \cup {None}
        /\ chip'["master"].isr = Service(None) /\ chip'["slave"].isr = Service(None)
    BY <1>2, <2>4, <2>5 DEF Service
  <2>7. \A e \in Chips : /\ chip'[e].icw = chip[e].icw /\ chip'[e].imr = chip[e].imr
                         /\ chip'[e].base = chip[e].base
                         /\ chip'[e].irr \subseteq chip[e].irr
    BY <2>4, <2>5
  <2>. QED
    BY <1>3, <2>1, <2>3, <2>5, <2>6, <2>7
<1>8. CASE AcceptSlaveSpurious
  <2>1. n > 10 /\ chip["slave"].base = 40
    BY <1>1, <1>8, PendingProgrammed DEF AcceptSlaveSpurious
  <2>2. PICK d \in Unsteady :
          /\ ChipOf(d) = "slave"
          /\ chip' = [Withdrawn(d) EXCEPT !["master"].isr = @ \cup {Cascade}]
    BY <1>8 DEF AcceptSlaveSpurious
  <2>3. Enter(47, Cascade, None)
    BY <1>8, <2>1 DEF AcceptSlaveSpurious
  <2>. DEFINE q == chip["slave"]
              p == [q EXCEPT !.irr = @ \ {d % 8}]
              r == [chip["master"] EXCEPT !.isr = @ \cup {Cascade}]
  <2>4. /\ Withdrawn(d) = [chip EXCEPT !["slave"] = p]
        /\ p \in Pics /\ p.icw = q.icw /\ p.imr = q.imr /\ p.base = q.base
        /\ p.irr \subseteq q.irr /\ p.isr = {}
    BY <1>6, <2>2, Zenon
  <2>5. chip' = [[chip EXCEPT !["slave"] = p] EXCEPT !["master"] = r]
    BY <1>2, <2>2, <2>4 DEF Chips
  <2>6. /\ r \in Pics /\ r.icw = chip["master"].icw /\ r.imr = chip["master"].imr
        /\ r.base = chip["master"].base /\ r.irr = chip["master"].irr
        /\ r.isr = {Cascade}
    <3>1. {} \cup {Cascade} = {Cascade} /\ {Cascade} \in SUBSET Lines
      BY ServiceLines
    <3>. QED
      BY <1>2, <3>1 DEF Pics
  <2>. HIDE DEF p, q, r
  <2>7. /\ chip' \in [Chips -> Pics] /\ chip'["master"] = r /\ chip'["slave"] = p
    BY <1>2, <2>4, <2>5, <2>6 DEF Chips
  <2>8. /\ None \in Lines \cup {None} /\ Cascade \in Lines \cup {None}
        /\ chip'["master"].isr = Service(Cascade) /\ chip'["slave"].isr = Service(None)
    BY <2>4, <2>6, <2>7, ServiceLines
  <2>9. \A e \in Chips : /\ chip'[e].icw = chip[e].icw /\ chip'[e].imr = chip[e].imr
                         /\ chip'[e].base = chip[e].base
                         /\ chip'[e].irr \subseteq chip[e].irr
    BY <2>4, <2>6, <2>7 DEF Chips, q
  <2>10. ~SlaveSteady
    <3>1. d \notin Lines
      BY <2>2 DEF ChipOf
    <3>. QED
      BY <3>1 DEF SlaveSteady
  <2>11. 47 \in 32 .. 47
    OBVIOUS
  <2>. QED
    BY <1>3, <2>1, <2>3, <2>7, <2>8, <2>9, <2>10, <2>11
<1>9. CASE AcceptLapicTimer
  <2>1. n > 10 /\ Enter(32, None, None) /\ chip' = chip
    BY <1>9, ProgramSteps DEF AcceptLapicTimer, TypeOK, ICW_2_Ma
  <2>2. /\ None \in Lines \cup {None}
        /\ chip'["master"].isr = Service(None) /\ chip'["slave"].isr = Service(None)
        /\ chip' \in [Chips -> Pics]
    BY <1>2, <2>1 DEF Service
  <2>3. \A c \in Chips : /\ chip'[c].icw = chip[c].icw /\ chip'[c].imr = chip[c].imr
                         /\ chip'[c].base = chip[c].base
                         /\ chip'[c].irr \subseteq chip[c].irr
    BY <2>1
  <2>. QED
    BY <1>3, <2>1, <2>2, <2>3
<1>. QED
  BY <1>4, <1>5, <1>7, <1>8, <1>9 DEF Accept

\* The handler of an interrupt, to its iretq (idt.c:42-73).
LEMMA HandlerPic ==
  ASSUME PicInv, fault' = fault, Switch \/ EoiSlave \/ EoiMaster \/ Iret
  PROVE  PicInv'
<1>. USE DEF PicInv
<1>. DEFINE f == frames[1]
            m == chip["master"]
            s == chip["slave"]
<1>1. frames # <<>>
  BY DEF Switch, EoiSlave, EoiMaster, Iret, At
<1>2. /\ Len(frames) = 1 /\ f \in Frames /\ frames = <<f>> /\ fault = NoFault /\ n > 10
      /\ f.vector \in 32 .. 46
      /\ IF f.slave = None THEN f.vector < 40 ELSE f.vector >= 40 /\ f.master = Cascade
      /\ f.slave \in Lines \cup {None} /\ f.master \in Lines \cup {None}
  <2>1. frames \in Seq(Frames) /\ Len(frames) = 1
    BY <1>1 DEF TypeOK, OneFrame
  <2>2. f \in Frames /\ frames = <<f>>
    BY <2>1
  <2>3. f.vector # 47
    <3>1. f.at = "switch" => f.vector \in 0 .. 46
      BY DEF Switch, EoiSlave, EoiMaster, Iret, At, Stubs
    <3>2. f.vector = 47 => f.at = "switch"
      BY <1>1 DEF OneFrame
    <3>. HIDE DEF f
    <3>. QED
      BY <3>1, <3>2
  <2>. QED
    BY <1>1, <2>1, <2>2, <2>3 DEF OneFrame, Frames
<1>3. /\ m \in Pics /\ s \in Pics /\ chip \in [Chips -> Pics]
      /\ "master" \in Chips /\ "slave" \in Chips
      /\ s.isr = IF f.at \in {"switch", "eoi_slave"} THEN Service(f.slave) ELSE {}
      /\ m.isr = IF f.at # "iret" THEN Service(f.master) ELSE {}
      /\ f.at = "eoi_slave" => f.slave # None
  BY <1>1 DEF TypeOK, Chips, ServiceRight
<1>4. IF_flag = FALSE
  BY <1>1 DEF FlagRight, InHandler, TypeOK
<1>5. ASSUME NEW place \in {"eoi_slave", "eoi_master", "iret"},
             GoTo(place), UNCHANGED <<n, IF_flag>>, chip' \in [Chips -> Pics],
             chip'["slave"].isr = IF place = "eoi_slave" THEN Service(f.slave) ELSE {},
             chip'["master"].isr = IF place # "iret" THEN Service(f.master) ELSE {},
             place = "eoi_slave" => f.slave # None,
             \A c \in Chips : /\ chip'[c].icw = chip[c].icw /\ chip'[c].imr = chip[c].imr
                              /\ chip'[c].base = chip[c].base
                              /\ chip'[c].irr = chip[c].irr
      PROVE  PicInv'
  <2>. DEFINE g == [f EXCEPT !.at = place]
  <2>1. /\ g \in Frames /\ g.vector = f.vector /\ g.master = f.master
        /\ g.slave = f.slave /\ g.at = place
    BY <1>2 DEF Frames
  <2>2. frames' = <<g>>
    BY <1>2, <1>5 DEF GoTo
  <2>. HIDE DEF g, f
  <2>3. frames' \in Seq(Frames) /\ Len(frames') = 1 /\ frames'[1] = g /\ frames' # <<>>
    BY <2>1, <2>2
  <2>4. TypeOK'
    BY <1>5, <2>3 DEF TypeOK
  <2>5. \A c \in Chips : Programmed(c)'
    BY <1>5 DEF Programmed
  <2>6. OneFrame'
    BY <1>2, <1>5, <2>1, <2>3 DEF OneFrame
  <2>7. ServiceRight'
    BY <1>5, <2>1, <2>3 DEF ServiceRight
  <2>8. FlagRight'
    <3>1. n \in 1 .. 12
      BY ProgramSteps DEF TypeOK
    <3>2. n > 3
      BY <1>2, <3>1
    <3>3. IF_flag' = FALSE /\ n' > 3
      BY <1>4, <1>5, <3>2
    <3>. QED
      BY <3>3 DEF FlagRight
  <2>. QED
    BY <2>4, <2>5, <2>6, <2>7, <2>8
<1>6. CASE Switch
  <2>. DEFINE place == IF OfSlave(f.vector) THEN "eoi_slave" ELSE "eoi_master"
  <2>1. f.at = "switch" /\ GoTo(place) /\ UNCHANGED <<n, IF_flag, chip>>
    BY <1>6 DEF Switch, At
  <2>2. place = IF f.slave = None THEN "eoi_master" ELSE "eoi_slave"
    BY <1>2 DEF OfSlave
  <2>3. f.slave = None => Service(f.slave) = {}
    BY DEF Service
  <2>. HIDE DEF place
  <2>. QED
    BY <1>3, <1>5, <2>1, <2>2, <2>3
<1>7. CASE EoiSlave
  <2>. DEFINE p == [s EXCEPT !.isr = {}]
  <2>1. f.at = "eoi_slave" /\ GoTo("eoi_master") /\ UNCHANGED <<n, IF_flag>>
    BY <1>7 DEF EoiSlave, At
  <2>2. Command(s, PIC_EOI) = p /\ p \in Pics
    BY <1>2, <1>3, <2>1, CommandEoi
  <2>3. chip' = [chip EXCEPT !["slave"] = p]
    BY <1>7, <2>2 DEF EoiSlave, outb
  <2>4. p.icw = s.icw /\ p.imr = s.imr /\ p.base = s.base /\ p.irr = s.irr /\ p.isr = {}
    BY <1>3 DEF Pics
  <2>. HIDE DEF p
  <2>5. chip' \in [Chips -> Pics] /\ chip'["slave"] = p /\ chip'["master"] = m
    BY <1>3, <2>2, <2>3, ChipWritten DEF Chips
  <2>6. \A c \in Chips : /\ chip'[c].icw = chip[c].icw /\ chip'[c].imr = chip[c].imr
                         /\ chip'[c].base = chip[c].base /\ chip'[c].irr = chip[c].irr
    BY <2>4, <2>5 DEF Chips
  <2>. QED
    BY <1>3, <1>5, <2>1, <2>4, <2>5, <2>6
<1>8. CASE EoiMaster
  <2>. DEFINE p == [m EXCEPT !.isr = {}]
  <2>1. f.at = "eoi_master" /\ GoTo("iret") /\ UNCHANGED <<n, IF_flag>>
    BY <1>8 DEF EoiMaster, At
  <2>2. Command(m, PIC_EOI) = p /\ p \in Pics
    BY <1>2, <1>3, <2>1, CommandEoi
  <2>3. chip' = [chip EXCEPT !["master"] = p]
    BY <1>8, <2>2 DEF EoiMaster, outb
  <2>4. p.icw = m.icw /\ p.imr = m.imr /\ p.base = m.base /\ p.irr = m.irr /\ p.isr = {}
    BY <1>3 DEF Pics
  <2>. HIDE DEF p
  <2>5. chip' \in [Chips -> Pics] /\ chip'["master"] = p /\ chip'["slave"] = s
    BY <1>3, <2>2, <2>3, ChipWritten DEF Chips
  <2>6. \A c \in Chips : /\ chip'[c].icw = chip[c].icw /\ chip'[c].imr = chip[c].imr
                         /\ chip'[c].base = chip[c].base /\ chip'[c].irr = chip[c].irr
    BY <2>4, <2>5 DEF Chips
  <2>. QED
    BY <1>3, <1>5, <2>1, <2>4, <2>5, <2>6
<1>9. CASE Iret
  <2>1. /\ f.at = "iret" /\ frames' = Tail(frames) /\ IF_flag' = TRUE
        /\ UNCHANGED <<n, chip>>
    BY <1>9 DEF Iret, At
  <2>2. frames' = <<>>
    <3>. HIDE DEF f
    <3>1. Tail(<<f>>) = <<>>
      OBVIOUS
    <3>. QED
      BY <1>2, <2>1, <3>1
  <2>3. TypeOK'
    <3>1. <<>> \in Seq(Frames)
      OBVIOUS
    <3>. QED
      BY <2>1, <2>2, <3>1 DEF TypeOK
  <2>4. \A c \in Chips : Programmed(c)'
    BY <2>1 DEF Programmed
  <2>5. ServiceRight'
    BY <1>3, <2>1, <2>2 DEF ServiceRight, Chips
  <2>6. OneFrame' /\ FlagRight'
    BY <1>2, <2>1, <2>2 DEF OneFrame, FlagRight, InHandler
  <2>. QED
    BY <2>3, <2>4, <2>5, <2>6
<1>. QED
  BY <1>6, <1>7, <1>8, <1>9

\* An exception, which no PIC knows of.
LEMMA FaultPic ==
  ASSUME PicInv,
         (\E v \in DOMAIN Faults : Exception(v)) \/ HandleFault \/ EndFault \/ ReturnFromFault
  PROVE  PicInv'
<1>. USE DEF PicInv
<1>1. ASSUME NEW v \in DOMAIN Faults, Exception(v)
      PROVE  PicInv'
  <2>1. frames = <<>> /\ IF_flag /\ IF_flag' = FALSE /\ UNCHANGED <<n, chip, frames>>
    BY <1>1 DEF Exception
  <2>2. TypeOK' /\ \A c \in Chips : Programmed(c)'
    BY <2>1 DEF TypeOK, Programmed
  <2>. QED
    BY <2>1, <2>2 DEF OneFrame, ServiceRight, FlagRight
<1>2. HandleFault \/ EndFault \/ ReturnFromFault =>
        fault # NoFault /\ frames = <<>> /\ IF_flag = FALSE /\ n > 3
  <2>1. NoFault.at = "none"
    BY DEF NoFault
  <2>. QED
    BY <2>1 DEF HandleFault, EndFault, ReturnFromFault, OneFrame, FlagRight, InHandler, TypeOK
<1>3. CASE HandleFault
  <2>1. UNCHANGED <<n, IF_flag, chip, frames>>
    BY <1>3 DEF HandleFault, vars
  <2>2. TypeOK' /\ \A c \in Chips : Programmed(c)'
    BY <2>1 DEF TypeOK, Programmed
  <2>. QED
    BY <1>2, <1>3, <2>1, <2>2 DEF OneFrame, ServiceRight, FlagRight
<1>4. CASE EndFault
  <2>. DEFINE m == chip["master"]
              p == [m EXCEPT !.isr = {}]
  <2>1. UNCHANGED <<n, IF_flag, frames>>
    BY <1>4 DEF EndFault
  <2>2. /\ m \in Pics /\ chip \in [Chips -> Pics] /\ m.isr = Service(None)
        /\ None \in Lines \cup {None} /\ "master" \in Chips
    BY <1>2, <1>4, ServiceLines DEF TypeOK, Chips, ServiceRight
  <2>3. Command(m, PIC_EOI) = p /\ p \in Pics
    BY <2>2, CommandEoi
  <2>4. p = m
    BY <2>2, ServiceLines DEF Pics
  <2>5. chip' = [chip EXCEPT !["master"] = m]
    BY <1>4, <2>3, <2>4 DEF EndFault, outb
  <2>6. chip' = chip
    BY <2>2, <2>5
  <2>7. TypeOK' /\ \A c \in Chips : Programmed(c)'
    BY <2>1, <2>6 DEF TypeOK, Programmed
  <2>. QED
    BY <1>2, <1>4, <2>1, <2>6, <2>7 DEF OneFrame, ServiceRight, FlagRight
<1>5. CASE ReturnFromFault
  <2>1. IF_flag' = TRUE /\ fault' = NoFault /\ UNCHANGED <<n, chip, frames>>
    BY <1>5 DEF ReturnFromFault
  <2>2. TypeOK' /\ \A c \in Chips : Programmed(c)'
    BY <2>1 DEF TypeOK, Programmed
  <2>. QED
    BY <1>2, <1>5, <2>1, <2>2 DEF OneFrame, ServiceRight, FlagRight, InHandler
<1>. QED
  BY <1>1, <1>3, <1>4, <1>5

-----------------------------------------------------------------------------
(* What the stubs push and pop. *)

LEMMA RegisterNames ==
  /\ DOMAIN Registers = 1 .. 16 /\ Len(Registers) = 16
  /\ \A j, k \in 1 .. 16 : Registers[j] = Registers[k] => j = k
  /\ \A k \in 1 .. 16 : Registers[k] = "rsp" <=> k = 6
  /\ GPRs = {Registers[k] : k \in (1 .. 16) \ {6}}
<1>1. DOMAIN Registers = 1 .. 16 /\ Len(Registers) = 16
  BY DEF Registers
<1>2. \A j, k \in 1 .. 16 : Registers[j] = Registers[k] => j = k
  BY DEF Registers
<1>3. \A k \in 1 .. 16 : Registers[k] = "rsp" <=> k = 6
  BY DEF Registers
<1>. QED
  BY <1>1, <1>2, <1>3 DEF GPRs

\* The pops take the registers in the reverse order of the pushes, and so does
\* the structure name them.
LEMMA ReverseOrder ==
  /\ DOMAIN PopsBeforeRsp = 1 .. 10 /\ Len(PopsBeforeRsp) = 10
  /\ \A k \in 1 .. 10 : PopsBeforeRsp[k] = Registers[17 - k]
  /\ DOMAIN PopsAfterRsp = 1 .. 5 /\ Len(PopsAfterRsp) = 5
  /\ \A k \in 1 .. 5 : PopsAfterRsp[k] = Registers[6 - k]
  /\ DOMAIN cpu_status_t = 1 .. 24
  /\ \A k \in 1 .. 16 : cpu_status_t[k] = Registers[17 - k]
  /\ \A j, k \in 1 .. 10 : PopsBeforeRsp[j] = PopsBeforeRsp[k] => j = k
  /\ \A j, k \in 1 .. 5 : PopsAfterRsp[j] = PopsAfterRsp[k] => j = k
  /\ \A j \in 1 .. 5, k \in 7 .. 16 : PopsAfterRsp[j] # Registers[k]
<1>1. DOMAIN PopsBeforeRsp = 1 .. 10 /\ Len(PopsBeforeRsp) = 10
  BY DEF PopsBeforeRsp
<1>2. \A k \in 1 .. 10 : PopsBeforeRsp[k] = Registers[17 - k]
  BY DEF PopsBeforeRsp, Registers
<1>3. DOMAIN PopsAfterRsp = 1 .. 5 /\ Len(PopsAfterRsp) = 5
  BY DEF PopsAfterRsp
<1>4. \A k \in 1 .. 5 : PopsAfterRsp[k] = Registers[6 - k]
  BY DEF PopsAfterRsp, Registers
<1>5. DOMAIN cpu_status_t = 1 .. 24
  BY DEF cpu_status_t
<1>6. \A k \in 1 .. 16 : cpu_status_t[k] = Registers[17 - k]
  BY DEF cpu_status_t, Registers
<1>7. \A j, k \in 1 .. 10 : PopsBeforeRsp[j] = PopsBeforeRsp[k] => j = k
  BY DEF PopsBeforeRsp
<1>8. \A j, k \in 1 .. 5 : PopsAfterRsp[j] = PopsAfterRsp[k] => j = k
  BY DEF PopsAfterRsp
<1>9. \A j \in 1 .. 5, k \in 7 .. 16 : PopsAfterRsp[j] # Registers[k]
  BY DEF PopsAfterRsp, Registers
<1>. QED
  BY <1>1, <1>2, <1>3, <1>4, <1>5, <1>6, <1>7, <1>8, <1>9

\* The structure's fields on a stack of 24 words.
LEMMA FieldAt ==
  ASSUME NEW s, Len(s) = 24
  PROVE  /\ Field(s, "int_vector") = s[8]
         /\ Field(s, "error") = s[7]
         /\ Field(s, "error_code") = s[6]
         /\ Field(s, "iretq_rip") = s[5]
         /\ \A k \in 1 .. 16 : Field(s, Registers[k]) = s[8 + k]
<1>. DEFINE at(f) == CHOOSE k \in 1 .. 24 : cpu_status_t[k] = f
<1>1. \A j, k \in 1 .. 24 : cpu_status_t[j] = cpu_status_t[k] => j = k
  BY DEF cpu_status_t
<1>2. \A k \in 1 .. 24 : at(cpu_status_t[k]) = k
  BY <1>1
<1>3. ASSUME NEW k \in 1 .. 24
      PROVE  Field(s, cpu_status_t[k]) = s[25 - k]
  <2>1. at(cpu_status_t[k]) =
          CHOOSE j \in DOMAIN cpu_status_t : cpu_status_t[j] = cpu_status_t[k]
    BY ReverseOrder, Zenon
  <2>. HIDE DEF at
  <2>2. Field(s, cpu_status_t[k]) = s[Len(s) + 1 - at(cpu_status_t[k])]
    BY <2>1, Zenon DEF Field
  <2>3. Len(s) + 1 - k = 25 - k
    OBVIOUS
  <2>. QED
    BY <1>2, <2>2, <2>3, Zenon
<1>4. /\ cpu_status_t[17] = "int_vector" /\ cpu_status_t[18] = "error"
      /\ cpu_status_t[19] = "error_code" /\ cpu_status_t[20] = "iretq_rip"
  BY DEF cpu_status_t
<1>5. /\ Field(s, cpu_status_t[17]) = s[8] /\ Field(s, cpu_status_t[18]) = s[7]
      /\ Field(s, cpu_status_t[19]) = s[6] /\ Field(s, cpu_status_t[20]) = s[5]
  BY <1>3
<1>6. ASSUME NEW k \in 1 .. 16
      PROVE  Field(s, Registers[k]) = s[8 + k]
  <2>1. 17 - k \in 1 .. 16 /\ 17 - k \in 1 .. 24 /\ 17 - (17 - k) = k /\ 25 - (17 - k) = 8 + k
    BY <1>6
  <2>2. cpu_status_t[17 - k] = Registers[17 - (17 - k)]
    BY <2>1, ReverseOrder, Zenon
  <2>. QED
    BY <1>3, <2>1, <2>2, Zenon
<1>. QED
  BY <1>4, <1>5, <1>6, Zenon

\* What the processor and the stub push before the registers, word by word.
LEMMA FirstEight ==
  ASSUME NEW x \in Nat, NEW v \in Nat, NEW code \in Seq(Nat), Len(code) <= 1,
         code # <<>> <=> v \in ErrStubs
  PROVE  LET s == Interrupted(<<>>, x, code) \o PushedFirst(v) IN
         /\ s \in Seq(Int) /\ Len(s) = 8
         /\ s[2] = 0 /\ s[5] = x /\ s[7] = Len(code) /\ s[8] = v
         /\ code # <<>> => s[6] = code[1]
<1>1. PICK l \in Nat : l = Len(code)
  OBVIOUS
<1>2. l \in 0 .. 1
  BY <1>1
<1>3. code # <<>> <=> l = 1
  <2>1. code = <<>> => l = 0
    BY <1>1
  <2>2. code # <<>> => Len(code) \in Nat \ {0}
    BY EmptySeq, Zenon
  <2>3. code # <<>> => l # 0
    BY <1>1, <2>2
  <2>. QED
    BY <1>2, <2>1, <2>3
<1>. DEFINE t == PushedFirst(v)
            s == Interrupted(<<>>, x, code) \o t
<1>4. /\ t \in Seq(Int) /\ Len(t) = 3 - l /\ t[2 - l] = l /\ t[3 - l] = v
  <2>1. CASE l = 0
    <3>1. t = <<0, 0, v>>
      BY <1>3, <2>1 DEF PushedFirst
    <3>. QED
      BY <2>1, <3>1
  <2>2. CASE l = 1
    <3>1. t = <<1, v>>
      BY <1>3, <2>2 DEF PushedFirst
    <3>. QED
      BY <2>2, <3>1
  <2>. QED
    BY <1>2, <2>1, <2>2
<1>. DEFINE a == <<ss, Len(<<>>), flags, cs, x>>
<1>5. a \in Seq(Int) /\ Len(a) = 5 /\ a[2] = 0 /\ a[5] = x
  BY DEF ss, flags, cs
<1>6. s = (a \o code) \o t
  <2>1. <<>> \o a = a
    BY <1>5, ConcatEmptySeq
  <2>. QED
    BY <2>1, Zenon DEF Interrupted
<1>. HIDE DEF a, t, s
<1>7. /\ s \in Seq(Int) /\ Len(s) = 8
      /\ s[2] = a[2] /\ s[5] = a[5]
      /\ s[7] = t[2 - l] /\ s[8] = t[3 - l]
      /\ l = 1 => s[6] = code[1]
  <2>. DEFINE b == a \o code
  <2>1. a \in Seq(Int) /\ Len(a) = 5 /\ Len(code) = l /\ Len(t) = 3 - l
    BY <1>1, <1>4, <1>5
  <2>2. code \in Seq(Int)
    BY SeqMonotonic
  <2>3. /\ b \in Seq(Int) /\ Len(b) = Len(a) + Len(code)
        /\ \A k \in 1 .. Len(a) + Len(code) :
             b[k] = IF k <= Len(a) THEN a[k] ELSE code[k - Len(a)]
    BY <2>1, <2>2, ConcatProperties
  <2>4. s = b \o t
    BY <1>6
  <2>. HIDE DEF b
  <2>5. /\ s \in Seq(Int) /\ Len(s) = Len(b) + Len(t)
        /\ \A k \in 1 .. Len(b) + Len(t) :
             s[k] = IF k <= Len(b) THEN b[k] ELSE t[k - Len(b)]
    <3>1. /\ b \o t \in Seq(Int) /\ Len(b \o t) = Len(b) + Len(t)
          /\ \A k \in 1 .. Len(b) + Len(t) :
               (b \o t)[k] = IF k <= Len(b) THEN b[k] ELSE t[k - Len(b)]
      <4>1. b \in Seq(Int) /\ t \in Seq(Int)
        BY <1>4, <2>3
      <4>2. b \o t \in Seq(Int)
        BY <4>1, ConcatProperties, Zenon
      <4>3. Len(b \o t) = Len(b) + Len(t)
        BY <4>1, ConcatProperties, Zenon
      <4>4. \A k \in 1 .. Len(b) + Len(t) :
               (b \o t)[k] = IF k <= Len(b) THEN b[k] ELSE t[k - Len(b)]
        BY <4>1, ConcatProperties, Zenon
      <4>. QED
        BY <4>2, <4>3, <4>4
    <3>. QED
      BY <2>4, <3>1, Zenon
  <2>6. Len(b) = 5 + l
    BY <2>1, <2>3
  <2>7. Len(s) = 8
    BY <1>2, <2>1, <2>5, <2>6
  <2>8. /\ 2 \in 1 .. Len(a) + Len(code) /\ 2 <= Len(a)
        /\ 5 \in 1 .. Len(a) + Len(code) /\ 5 <= Len(a)
    BY <2>1
  <2>9. b[2] = a[2] /\ b[5] = a[5]
    BY <2>1, <2>3, <2>8, Zenon
  <2>10. l = 1 => 6 \in 1 .. Len(a) + Len(code) /\ ~(6 <= Len(a)) /\ 6 - Len(a) = 1
    BY <2>1
  <2>11. l = 1 => b[6] = code[1]
    BY <2>3, <2>10, Zenon
  <2>12. /\ 2 \in 1 .. Len(b) + Len(t) /\ 2 <= Len(b)
         /\ 5 \in 1 .. Len(b) + Len(t) /\ 5 <= Len(b)
         /\ l = 1 => 6 \in 1 .. Len(b) + Len(t) /\ 6 <= Len(b)
         /\ 7 \in 1 .. Len(b) + Len(t) /\ ~(7 <= Len(b)) /\ 7 - Len(b) = 2 - l
         /\ 8 \in 1 .. Len(b) + Len(t) /\ ~(8 <= Len(b)) /\ 8 - Len(b) = 3 - l
    BY <1>2, <2>1, <2>6
  <2>13. s[2] = a[2] /\ s[5] = a[5] /\ s[7] = t[2 - l] /\ s[8] = t[3 - l]
    <3>1. s[2] = a[2] /\ s[5] = a[5]
      BY <2>5, <2>9, <2>12, Zenon
    <3>2. s[7] = t[2 - l]
      BY <2>5, <2>12, Zenon
    <3>3. s[8] = t[3 - l]
      BY <2>5, <2>12, Zenon
    <3>. QED
      BY <3>1, <3>2, <3>3
  <2>14. l = 1 => s[6] = code[1]
    BY <2>5, <2>11, <2>12, Zenon
  <2>. QED
    BY <2>5, <2>7, <2>13, <2>14
<1>8. /\ s \in Seq(Int) /\ Len(s) = 8
      /\ s[2] = 0 /\ s[5] = x /\ s[7] = Len(code) /\ s[8] = v
      /\ code # <<>> => s[6] = code[1]
  BY <1>1, <1>3, <1>4, <1>5, <1>7
<1>. QED
  BY <1>8 DEF s, t

\* The pushes of the registers.
LEMMA RegistersPushed ==
  ASSUME NEW s \in Seq(Int), Len(s) = 8, NEW r \in [GPRs -> Nat]
  PROVE  /\ Push(s, r) \in Seq(Int) /\ Len(Push(s, r)) = 24
         /\ \A k \in 1 .. 8 : Push(s, r)[k] = s[k]
         /\ \A k \in 1 .. 16 :
              Push(s, r)[8 + k] = IF Registers[k] = "rsp" THEN 13 ELSE r[Registers[k]]
<1>. DEFINE word(k) == IF Registers[k] = "rsp" THEN Len(s) + k - 1 ELSE r[Registers[k]]
            t == [k \in 1 .. 16 |-> word(k)]
            p == s \o t
<1>1. Push(s, r) = p
  BY RegisterNames, Zenon DEF Push
<1>2. \A k \in 1 .. 16 :
        word(k) \in Int /\ word(k) = IF Registers[k] = "rsp" THEN 13 ELSE r[Registers[k]]
  <2>. SUFFICES ASSUME NEW k \in 1 .. 16
                PROVE  /\ word(k) \in Int
                       /\ word(k) = IF Registers[k] = "rsp" THEN 13 ELSE r[Registers[k]]
    OBVIOUS
  <2>1. CASE k = 6
    BY <2>1, RegisterNames
  <2>2. CASE k # 6
    <3>1. Registers[k] # "rsp" /\ Registers[k] \in GPRs
      BY <2>2, RegisterNames
    <3>. QED
      BY <3>1
  <2>. QED
    BY <2>1, <2>2
<1>. HIDE DEF word
<1>3. t \in Seq(Int) /\ Len(t) = 16
  BY <1>2
<1>4. \A k \in 1 .. 16 : t[k] = word(k)
  OBVIOUS
<1>. HIDE DEF t
<1>5. p \in Seq(Int)
  BY <1>3, ConcatProperties, Zenon
<1>6. Len(p) = Len(s) + Len(t)
  BY <1>3, ConcatProperties, Zenon
<1>7. \A k \in 1 .. Len(s) + Len(t) : p[k] = IF k <= Len(s) THEN s[k] ELSE t[k - Len(s)]
  BY <1>3, ConcatProperties, Zenon
<1>8. ASSUME NEW k \in 1 .. 8
      PROVE  p[k] = s[k]
  <2>1. k \in 1 .. Len(s) + Len(t) /\ k <= Len(s)
    BY <1>3
  <2>. QED
    BY <1>7, <2>1, Zenon
<1>9. ASSUME NEW k \in 1 .. 16
      PROVE  p[8 + k] = word(k)
  <2>1. 8 + k \in 1 .. Len(s) + Len(t) /\ ~(8 + k <= Len(s)) /\ (8 + k) - Len(s) = k
    BY <1>3
  <2>2. p[8 + k] = t[k]
    BY <1>7, <2>1, Zenon
  <2>. QED
    BY <1>4, <2>2, Zenon
<1>. HIDE DEF p
<1>10. Len(p) = 24
  BY <1>3, <1>6
<1>. QED
  BY <1>1, <1>2, <1>5, <1>8, <1>9, <1>10

\* The first words of a stack.
LEMMA FirstWords ==
  ASSUME NEW s \in Seq(Int), NEW k \in Nat, k <= Len(s)
  PROVE  /\ SubSeq(s, 1, k) \in Seq(Int) /\ Len(SubSeq(s, 1, k)) = k
         /\ \A j \in 1 .. k : SubSeq(s, 1, k)[j] = s[j]
OBVIOUS

\* The pops of some registers.
LEMMA Popped ==
  ASSUME NEW m, NEW order,
         \A j, k \in DOMAIN order : order[j] = order[k] => j = k
  PROVE  /\ DOMAIN Pop(m, order).regs = DOMAIN m.regs
         /\ \A k \in DOMAIN order :
              order[k] \in DOMAIN m.regs =>
                Pop(m, order).regs[order[k]] = m.stack[Len(m.stack) + 1 - k]
         /\ \A g \in DOMAIN m.regs :
              (\A k \in DOMAIN order : order[k] # g) => Pop(m, order).regs[g] = m.regs[g]
         /\ Pop(m, order).stack = SubSeq(m.stack, 1, Len(m.stack) - Len(order))
<1>. DEFINE word(g) == m.stack[Len(m.stack) + 1 - (CHOOSE k \in DOMAIN order : order[k] = g)]
            popped == [g \in DOMAIN m.regs |->
                         IF \E k \in DOMAIN order : order[k] = g THEN word(g) ELSE m.regs[g]]
<1>1. Pop(m, order) = [regs |-> popped, stack |-> SubSeq(m.stack, 1, Len(m.stack) - Len(order))]
  BY Zenon DEF Pop
<1>2. ASSUME NEW k \in DOMAIN order, order[k] \in DOMAIN m.regs
      PROVE  popped[order[k]] = m.stack[Len(m.stack) + 1 - k]
  <2>1. (CHOOSE j \in DOMAIN order : order[j] = order[k]) = k
    BY <1>2
  <2>2. word(order[k]) = m.stack[Len(m.stack) + 1 - k]
    BY <2>1, Zenon
  <2>. HIDE DEF word
  <2>. QED
    BY <1>2, <2>2, Zenon
<1>3. ASSUME NEW g \in DOMAIN m.regs, \A k \in DOMAIN order : order[k] # g
      PROVE  popped[g] = m.regs[g]
  BY <1>3
<1>4. DOMAIN popped = DOMAIN m.regs
  OBVIOUS
<1>. HIDE DEF popped
<1>. QED
  BY <1>1, <1>2, <1>3, <1>4

\* The pops undo the pushes: of whatever registers were saved, and of the stack.
LEMMA Unwound ==
  ASSUME NEW s \in Seq(Int), Len(s) = 24, s[2] = 0,
         NEW r \in [GPRs -> Nat], NEW q \in [GPRs -> Nat],
         \A k \in 1 .. 16 : s[8 + k] = IF Registers[k] = "rsp" THEN 13 ELSE q[Registers[k]]
  PROVE  /\ Restored(s, r).regs = q
         /\ Restored(s, r).rip = s[5]
         /\ Restored(s, r).stack = <<>>
<1>. DEFINE m0 == [regs |-> r, stack |-> s]
            m1 == Pop(m0, PopsBeforeRsp)
            m2 == PopRsp(m1)
            m3 == Pop(m2, PopsAfterRsp)
            frame == SubSeq(m3.stack, 1, Len(m3.stack) - 3)
<1>1. /\ DOMAIN m1.regs = GPRs
      /\ \A k \in 7 .. 16 : m1.regs[Registers[k]] = q[Registers[k]]
      /\ m1.stack = SubSeq(s, 1, 14)
  <2>1. m0.regs = r /\ m0.stack = s /\ DOMAIN m0.regs = GPRs /\ Len(m0.stack) = 24
    OBVIOUS
  <2>. HIDE DEF m0
  <2>2. /\ 24 \in Nat /\ 10 \in Nat /\ 24 - 10 = 14
        /\ DOMAIN PopsBeforeRsp = 1 .. 10 /\ Len(PopsBeforeRsp) = 10
        /\ \A j, k \in 1 .. 10 : PopsBeforeRsp[j] = PopsBeforeRsp[k] => j = k
    BY ReverseOrder
  <2>3. /\ DOMAIN m1.regs = GPRs
        /\ \A k \in 1 .. 10 :
             PopsBeforeRsp[k] \in GPRs => m1.regs[PopsBeforeRsp[k]] = s[24 + 1 - k]
        /\ m1.stack = SubSeq(s, 1, 14)
    <3>1. \A j, k \in DOMAIN PopsBeforeRsp : PopsBeforeRsp[j] = PopsBeforeRsp[k] => j = k
      BY <2>2, Zenon
    <3>2. /\ DOMAIN m1.regs = DOMAIN m0.regs
          /\ \A k \in DOMAIN PopsBeforeRsp :
               PopsBeforeRsp[k] \in DOMAIN m0.regs =>
                 m1.regs[PopsBeforeRsp[k]] = m0.stack[Len(m0.stack) + 1 - k]
          /\ \A g \in DOMAIN m0.regs :
               (\A k \in DOMAIN PopsBeforeRsp : PopsBeforeRsp[k] # g) => m1.regs[g] = m0.regs[g]
          /\ m1.stack = SubSeq(m0.stack, 1, Len(m0.stack) - Len(PopsBeforeRsp))
      BY <3>1, Popped, ZenonT(40)
    <3>. QED
      BY <2>1, <2>2, <3>2, Zenon
  <2>. HIDE DEF m1
  <2>4. ASSUME NEW k \in 7 .. 16
        PROVE  m1.regs[Registers[k]] = q[Registers[k]]
    <3>1. /\ 17 - k \in 1 .. 10 /\ 17 - (17 - k) = k /\ 24 + 1 - (17 - k) = 8 + k
          /\ k \in 1 .. 16 /\ k # 6
      BY SMTT(20)
    <3>2. PopsBeforeRsp[17 - k] = Registers[k]
      BY <3>1, ReverseOrder
    <3>3. Registers[k] \in GPRs /\ Registers[k] # "rsp"
      BY <3>1, RegisterNames
    <3>4. s[8 + k] = q[Registers[k]]
      BY <3>1, <3>3
    <3>. QED
      BY <2>3, <3>1, <3>2, <3>3, <3>4
  <2>. QED
    BY <2>3, <2>4
<1>. HIDE DEF m1
<1>2. /\ m1.stack \in Seq(Int) /\ Len(m1.stack) = 14
      /\ \A j \in 1 .. 14 : m1.stack[j] = s[j]
  <2>1. 14 \in Nat /\ 14 <= Len(s)
    OBVIOUS
  <2>2. /\ SubSeq(s, 1, 14) \in Seq(Int) /\ Len(SubSeq(s, 1, 14)) = 14
        /\ \A j \in 1 .. 14 : SubSeq(s, 1, 14)[j] = s[j]
    BY <2>1, FirstWords, Zenon
  <2>. QED
    BY <1>1, <2>2, Zenon
<1>3. Last(m1.stack) = 13
  <2>1. s[8 + 6] = 13
    BY RegisterNames
  <2>2. s[14] = 13
    BY <2>1
  <2>. QED
    BY <1>2, <2>2 DEF Last
<1>4. m2.regs = m1.regs /\ m2.stack = SubSeq(m1.stack, 1, 13)
  <2>1. m1 = [regs |-> m1.regs, stack |-> m1.stack]
    BY DEF m1, Pop
  <2>. QED
    BY <1>3, <2>1 DEF PopRsp
<1>. HIDE DEF m2
<1>5. /\ m2.stack \in Seq(Int) /\ Len(m2.stack) = 13
      /\ \A j \in 1 .. 13 : m2.stack[j] = s[j]
  <2>. DEFINE w == m1.stack
  <2>1. 13 \in Nat /\ 13 <= Len(w) /\ w \in Seq(Int)
    BY <1>2
  <2>2. /\ SubSeq(w, 1, 13) \in Seq(Int) /\ Len(SubSeq(w, 1, 13)) = 13
        /\ \A j \in 1 .. 13 : SubSeq(w, 1, 13)[j] = w[j]
    BY <2>1, FirstWords, Zenon
  <2>3. \A j \in 1 .. 13 : w[j] = s[j]
    <3>1. \A j \in 1 .. 13 : j \in 1 .. 14
      OBVIOUS
    <3>. QED
      BY <1>2, <3>1, Zenon
  <2>. QED
    BY <1>4, <2>2, <2>3, Zenon
<1>6. /\ DOMAIN m3.regs = GPRs
      /\ \A k \in 1 .. 5 : m3.regs[Registers[k]] = q[Registers[k]]
      /\ \A k \in 7 .. 16 : m3.regs[Registers[k]] = q[Registers[k]]
      /\ m3.stack = SubSeq(m2.stack, 1, 8)
  <2>1. /\ 13 \in Nat /\ 5 \in Nat /\ 13 - 5 = 8
        /\ DOMAIN PopsAfterRsp = 1 .. 5 /\ Len(PopsAfterRsp) = 5
        /\ \A j, k \in 1 .. 5 : PopsAfterRsp[j] = PopsAfterRsp[k] => j = k
        /\ DOMAIN m2.regs = GPRs /\ Len(m2.stack) = 13
    BY <1>1, <1>4, <1>5, ReverseOrder
  <2>2. /\ DOMAIN m3.regs = GPRs
        /\ \A k \in 1 .. 5 :
             PopsAfterRsp[k] \in GPRs => m3.regs[PopsAfterRsp[k]] = m2.stack[13 + 1 - k]
        /\ \A g \in GPRs :
             (\A k \in 1 .. 5 : PopsAfterRsp[k] # g) => m3.regs[g] = m2.regs[g]
        /\ m3.stack = SubSeq(m2.stack, 1, 8)
    <3>1. \A j, k \in DOMAIN PopsAfterRsp : PopsAfterRsp[j] = PopsAfterRsp[k] => j = k
      BY <2>1, Zenon
    <3>2. /\ DOMAIN m3.regs = DOMAIN m2.regs
          /\ \A k \in DOMAIN PopsAfterRsp :
               PopsAfterRsp[k] \in DOMAIN m2.regs =>
                 m3.regs[PopsAfterRsp[k]] = m2.stack[Len(m2.stack) + 1 - k]
          /\ \A g \in DOMAIN m2.regs :
               (\A k \in DOMAIN PopsAfterRsp : PopsAfterRsp[k] # g) => m3.regs[g] = m2.regs[g]
          /\ m3.stack = SubSeq(m2.stack, 1, Len(m2.stack) - Len(PopsAfterRsp))
      BY <3>1, Popped, ZenonT(40)
    <3>. QED
      BY <2>1, <3>2, Zenon
  <2>. HIDE DEF m3
  <2>3. ASSUME NEW k \in 1 .. 5
        PROVE  m3.regs[Registers[k]] = q[Registers[k]]
    <3>1. /\ 6 - k \in 1 .. 5 /\ 6 - (6 - k) = k /\ 13 + 1 - (6 - k) = 8 + k
          /\ k \in 1 .. 16 /\ k # 6 /\ 8 + k \in 1 .. 13
      BY SMTT(20)
    <3>2. PopsAfterRsp[6 - k] = Registers[k]
      BY <3>1, ReverseOrder
    <3>3. Registers[k] \in GPRs /\ Registers[k] # "rsp"
      BY <3>1, RegisterNames
    <3>4. m2.stack[8 + k] = q[Registers[k]]
      BY <1>5, <3>1, <3>3
    <3>. QED
      BY <2>2, <3>1, <3>2, <3>3, <3>4
  <2>4. ASSUME NEW k \in 7 .. 16
        PROVE  m3.regs[Registers[k]] = q[Registers[k]]
    <3>1. k \in 1 .. 16 /\ k # 6
      BY SMTT(20)
    <3>2. Registers[k] \in GPRs
      BY <3>1, RegisterNames
    <3>3. \A j \in 1 .. 5 : PopsAfterRsp[j] # Registers[k]
      BY ReverseOrder, Zenon
    <3>4. m3.regs[Registers[k]] = m2.regs[Registers[k]]
      BY <2>2, <3>2, <3>3
    <3>. QED
      BY <1>1, <1>4, <3>4
  <2>. QED
    BY <2>2, <2>3, <2>4
<1>. HIDE DEF m3
<1>7. m3.regs = q
  <2>1. ASSUME NEW g \in GPRs PROVE m3.regs[g] = q[g]
    <3>1. PICK k \in (1 .. 16) \ {6} : g = Registers[k]
      BY RegisterNames
    <3>2. k \in 1 .. 5 \/ k \in 7 .. 16
      OBVIOUS
    <3>. QED
      BY <1>6, <3>1, <3>2
  <2>2. m3.regs = [g \in DOMAIN m3.regs |-> m3.regs[g]]
    BY DEF m3, Pop
  <2>3. q = [g \in GPRs |-> q[g]]
    OBVIOUS
  <2>. QED
    BY <1>6, <2>1, <2>2, <2>3
<1>8. /\ m3.stack \in Seq(Int) /\ Len(m3.stack) = 8
      /\ \A j \in 1 .. 8 : m3.stack[j] = s[j]
  <2>. DEFINE w == m2.stack
  <2>1. 8 \in Nat /\ 8 <= Len(w) /\ w \in Seq(Int)
    BY <1>5
  <2>2. /\ SubSeq(w, 1, 8) \in Seq(Int) /\ Len(SubSeq(w, 1, 8)) = 8
        /\ \A j \in 1 .. 8 : SubSeq(w, 1, 8)[j] = w[j]
    BY <2>1, FirstWords, Zenon
  <2>3. \A j \in 1 .. 8 : w[j] = s[j]
    <3>1. \A j \in 1 .. 8 : j \in 1 .. 13
      OBVIOUS
    <3>. QED
      BY <1>5, <3>1, Zenon
  <2>. QED
    BY <1>6, <2>2, <2>3, Zenon
<1>9. /\ frame \in Seq(Int) /\ Len(frame) = 5
      /\ \A j \in 1 .. 5 : frame[j] = s[j]
  <2>1. frame = SubSeq(m3.stack, 1, 5)
    BY <1>8
  <2>. HIDE DEF frame
  <2>. DEFINE w == m3.stack
  <2>2. 5 \in Nat /\ 5 <= Len(w) /\ w \in Seq(Int)
    BY <1>8
  <2>3. /\ SubSeq(w, 1, 5) \in Seq(Int) /\ Len(SubSeq(w, 1, 5)) = 5
        /\ \A j \in 1 .. 5 : SubSeq(w, 1, 5)[j] = w[j]
    BY <2>2, FirstWords, Zenon
  <2>4. \A j \in 1 .. 5 : w[j] = s[j]
    <3>1. \A j \in 1 .. 5 : j \in 1 .. 8
      OBVIOUS
    <3>. QED
      BY <1>8, <3>1, Zenon
  <2>. QED
    BY <2>1, <2>3, <2>4, Zenon
<1>10. Restored(s, r) = [regs |-> m3.regs, rip |-> Last(frame),
                         stack |-> SubSeq(frame, 1, frame[Len(frame) - 3])]
  BY Zenon DEF Restored, m1, m2, m3
<1>. HIDE DEF frame
<1>11. Last(frame) = s[5]
  BY <1>9 DEF Last
<1>12. SubSeq(frame, 1, frame[Len(frame) - 3]) = <<>>
  <2>1. frame[Len(frame) - 3] = 0
    BY <1>9
  <2>. QED
    BY <1>9, <2>1
<1>. QED
  BY <1>7, <1>10, <1>11, <1>12

-----------------------------------------------------------------------------
(* The PICs, for every interrupt and exception. *)

LEMMA PicStep ==
  ASSUME PicInv, [INext]_ivars
  PROVE  PicInv'
<1>1. CASE Step
  BY <1>1, ThreadPic DEF Step
<1>2. CASE Device
  BY <1>2, RequestPic DEF Device
<1>3. CASE Interrupt
  BY <1>3, AcceptPic DEF Interrupt
<1>4. CASE Handle
  BY <1>4, HandlerPic DEF Handle
<1>5. CASE Return
  BY <1>5, HandlerPic DEF Return
<1>6. CASE \E v \in DOMAIN Faults : Exception(v)
  BY <1>6, FaultPic
<1>7. CASE HandleFault \/ EndFault \/ ReturnFromFault
  BY <1>7, FaultPic
<1>8. CASE UNCHANGED ivars
  BY <1>8 DEF ivars, vars, PicInv, TypeOK, Programmed, OneFrame, ServiceRight, FlagRight,
     InHandler
<1>9. CASE Rest
  <2>1. UNCHANGED ivars
    BY <1>9 DEF Rest, Halt, Lost, ivars, vars
  <2>. QED
    BY <1>8, <2>1
<1>. QED
  BY <1>1, <1>2, <1>3, <1>4, <1>5, <1>6, <1>7, <1>8, <1>9 DEF INext

LEMMA PicsRight == ISpec => []PicInv
<1>1. IInit => PicInv
  BY InitPicInv DEF IInit
<1>2. PicInv /\ [INext]_ivars => PicInv'
  BY PicStep
<1>. QED
  BY <1>1, <1>2, PTL DEF ISpec

-----------------------------------------------------------------------------
(* The interrupted thread. *)

LEMMA ThreadRegsType == ThreadRegs \in [GPRs -> Nat] /\ Clobbered \in [GPRs -> Nat]
<1>1. ASSUME NEW g \in GPRs
      PROVE  200 + (CHOOSE k \in DOMAIN Registers : Registers[k] = g) \in Nat
  <2>1. \E k \in DOMAIN Registers : Registers[k] = g
    BY RegisterNames
  <2>2. (CHOOSE k \in DOMAIN Registers : Registers[k] = g) \in 1 .. 16
    BY <2>1, RegisterNames
  <2>3. \A k \in 1 .. 16 : 200 + k \in Nat
    OBVIOUS
  <2>. QED
    BY <2>2, <2>3, Zenon
<1>. QED
  BY <1>1 DEF ThreadRegs, Clobbered

\* What an interrupt or an exception of the thread's leaves on its stack.
LEMMA SavedRight ==
  ASSUME NEW v \in Nat, NEW code \in Seq(Nat), Len(code) <= 1,
         code # <<>> <=> v \in ErrStubs,
         n \in Nat, rip = n, stack = <<>>, regs = ThreadRegs, Save(v, code)
  PROVE  /\ stack' \in Seq(Int) /\ Len(stack') = 24
         /\ stack'[2] = 0 /\ stack'[5] = n
         /\ stack'[7] = Len(code) /\ stack'[8] = v
         /\ code # <<>> => stack'[6] = code[1]
         /\ \A k \in DOMAIN Registers :
              stack'[8 + k] =
                IF Registers[k] = "rsp" THEN 13 ELSE ThreadRegs[Registers[k]]
<1>. DEFINE s == Interrupted(<<>>, n, code) \o PushedFirst(v)
<1>1. stack' = Push(s, ThreadRegs)
  BY Zenon DEF Save, Saved
<1>2. /\ s \in Seq(Int) /\ Len(s) = 8
      /\ s[2] = 0 /\ s[5] = n /\ s[7] = Len(code) /\ s[8] = v
      /\ code # <<>> => s[6] = code[1]
  BY FirstEight, Zenon
<1>. HIDE DEF s
<1>3. /\ Push(s, ThreadRegs) \in Seq(Int) /\ Len(Push(s, ThreadRegs)) = 24
      /\ \A k \in 1 .. 8 : Push(s, ThreadRegs)[k] = s[k]
      /\ \A k \in 1 .. 16 :
           Push(s, ThreadRegs)[8 + k] =
             IF Registers[k] = "rsp" THEN 13 ELSE ThreadRegs[Registers[k]]
  BY <1>2, ThreadRegsType, RegistersPushed, Zenon
<1>4. 2 \in 1 .. 8 /\ 5 \in 1 .. 8 /\ 6 \in 1 .. 8 /\ 7 \in 1 .. 8 /\ 8 \in 1 .. 8
  OBVIOUS
<1>5. DOMAIN Registers = 1 .. 16
  BY RegisterNames
<1>6. /\ stack'[2] = s[2] /\ stack'[5] = s[5] /\ stack'[6] = s[6]
      /\ stack'[7] = s[7] /\ stack'[8] = s[8]
  BY <1>1, <1>3, <1>4, Zenon
<1>. QED
  BY <1>1, <1>2, <1>3, <1>5, <1>6, Zenon

\* What the pops make of that.
LEMMA RestoredRight ==
  ASSUME StackRight, InHandler, ~Astray, regs \in [GPRs -> Nat], Restore
  PROVE  regs' = ThreadRegs /\ rip' = n /\ stack' = <<>>
<1>1. /\ stack \in Seq(Int) /\ Len(stack) = 24 /\ stack[2] = 0 /\ stack[5] = n
      /\ \A k \in 1 .. 16 :
           stack[8 + k] = IF Registers[k] = "rsp" THEN 13 ELSE ThreadRegs[Registers[k]]
  BY RegisterNames, Zenon DEF StackRight
<1>2. /\ Restored(stack, regs).regs = ThreadRegs
      /\ Restored(stack, regs).rip = stack[5]
      /\ Restored(stack, regs).stack = <<>>
  BY <1>1, ThreadRegsType, Unwound, ZenonT(40)
<1>. QED
  BY <1>1, <1>2, Zenon DEF Restore

LEMMA InitThreadInv == IInit => ThreadInv
BY ThreadRegsType DEF IInit, Init, ThreadInv, StackRight, FaultRight, ContextKept, InHandler,
   Astray

\* Whatever happens keeps the thread's context, or has it on the stack.
LEMMA ThreadStepInv ==
  ASSUME CodesAsStubs, PicInv, PicInv', ThreadInv, [INext]_ivars
  PROVE  ThreadInv'
<1>. USE DEF ThreadInv
<1>1. n \in Nat /\ n' \in Nat
  BY ProgramSteps DEF PicInv, TypeOK
<1>2. /\ frames # <<>> => fault = NoFault /\ frames[1].vector \in 32 .. 47
      /\ frames' # <<>> => fault' = NoFault /\ frames'[1].vector \in 32 .. 47
      /\ IF_flag => frames = <<>> /\ fault = NoFault
  BY DEF PicInv, OneFrame, FlagRight, InHandler
<1>3. CASE Step
  <2>1. /\ frames' = <<>> /\ fault = NoFault /\ fault' = NoFault /\ rip' = n' /\ frames = <<>>
        /\ UNCHANGED <<regs, stack>>
    BY <1>3 DEF Step, ThreadStep
  <2>. QED
    BY <2>1 DEF StackRight, InHandler, FaultRight, ContextKept, Astray
<1>4. CASE Device
  <2>1. UNCHANGED <<n, IF_flag, frames, regs, rip, stack, fault>>
    BY <1>4 DEF Device, Request
  <2>. QED
    BY <2>1 DEF StackRight, InHandler, FaultRight, ContextKept, Astray
<1>5. CASE Interrupt
  <2>1. IF_flag
    BY <1>5 DEF Interrupt, Accept, AcceptMaster, AcceptSlave, AcceptSpurious,
       AcceptSlaveSpurious, AcceptLapicTimer, MayInterrupt
  <2>2. frames = <<>> /\ fault = NoFault
    BY <1>2, <2>1
  <2>3. n' = n /\ \E f : frames' = <<f>> \o frames
    BY <1>5 DEF Interrupt, Accept, AcceptMaster, AcceptSlave, AcceptSpurious,
       AcceptSlaveSpurious, AcceptLapicTimer, Enter
  <2>4. frames' # <<>>
    BY <2>2, <2>3
  <2>. DEFINE v == frames'[1].vector
  <2>5. v \in 32 .. 47
    BY <1>2, <2>4
  <2>. HIDE DEF v
  <2>6. /\ v \in Nat /\ v \notin ErrStubs /\ <<>> \in Seq(Nat) /\ Len(<<>>) <= 1
        /\ Len(<<>>) = 0
    BY <2>5 DEF ErrStubs
  <2>7. /\ UNCHANGED <<regs, fault>>
        /\ IF v \in Stubs THEN Save(v, <<>>) ELSE stack' = Interrupted(stack, rip, <<>>)
    BY <1>5 DEF Interrupt, v
  <2>8. regs = ThreadRegs /\ stack = <<>> /\ rip = n
    BY <2>2 DEF ContextKept
  <2>9. FaultRight' /\ ContextKept' /\ (Astray' <=> v \notin Stubs)
    BY <2>2, <2>4, <2>7 DEF FaultRight, ContextKept, Astray, v
  <2>10. CASE v \notin Stubs
    <3>1. stack' = <<>> \o <<ss, 0, flags, cs, n>> \o <<>>
      BY <2>6, <2>7, <2>8, <2>10, Zenon DEF Interrupted
    <3>2. stack' \in Seq(Int)
      BY <1>1, <3>1 DEF ss, flags, cs
    <3>. QED
      BY <2>7, <2>9, <2>10, <3>2 DEF StackRight
  <2>11. CASE v \in Stubs
    <3>1. /\ stack' \in Seq(Int) /\ Len(stack') = 24
          /\ stack'[2] = 0 /\ stack'[5] = n
          /\ stack'[7] = Len(<<>>) /\ stack'[8] = v
          /\ \A k \in DOMAIN Registers :
               stack'[8 + k] = IF Registers[k] = "rsp" THEN 13 ELSE ThreadRegs[Registers[k]]
      BY <1>1, <2>6, <2>7, <2>8, <2>11, SavedRight, ZenonT(40)
    <3>2. StackRight'
      BY <2>2, <2>3, <2>6, <2>7, <3>1 DEF StackRight, v
    <3>. QED
      BY <2>7, <2>9, <2>11, <3>2
  <2>. QED
    BY <2>10, <2>11
<1>6. CASE Handle
  <2>1. /\ frames # <<>> /\ n' = n /\ regs' = Clobbered
        /\ UNCHANGED <<rip, stack, fault>>
    BY <1>6 DEF Handle, Switch, EoiSlave, EoiMaster, At
  <2>2. fault = NoFault
    BY <1>2, <2>1
  <2>3. PICK place : frames' = [frames EXCEPT ![1].at = place]
    BY <1>6 DEF Handle, Switch, EoiSlave, EoiMaster, GoTo
  <2>4. frames' # <<>> /\ frames'[1].vector = frames[1].vector
    <3>1. frames \in Seq(Frames) /\ Len(frames) = 1
      BY <2>1 DEF PicInv, TypeOK, OneFrame
    <3>2. frames[1] \in Frames
      <4>1. 1 \in 1 .. Len(frames)
        BY <3>1
      <4>. QED
        BY <3>1, <4>1, ElementOfSeq, Zenon
    <3>3. frames'[1] = [frames[1] EXCEPT !.at = place] /\ DOMAIN frames' = 1 .. 1
      BY <2>3, <3>1
    <3>4. frames' # <<>>
      BY <3>3
    <3>. QED
      BY <3>2, <3>3, <3>4 DEF Frames
  <2>5. Astray' <=> Astray
    BY <2>1, <2>4 DEF Astray
  <2>6. StackRight'
    BY <2>1, <2>2, <2>4, <2>5 DEF StackRight, InHandler
  <2>. QED
    BY <2>1, <2>2, <2>4, <2>5, <2>6, ThreadRegsType DEF FaultRight, ContextKept
<1>7. CASE Return
  <2>1. frames # <<>> /\ n' = n /\ fault' = fault /\ Restore /\ frames' = Tail(frames)
    BY <1>7 DEF Return, Iret, At
  <2>2. fault = NoFault /\ frames' = <<>>
    <3>1. frames \in Seq(Frames) /\ Len(frames) = 1
      BY <2>1 DEF PicInv, TypeOK, OneFrame
    <3>. QED
      BY <1>2, <2>1, <3>1
  <2>3. ~Astray
    <3>1. frames[1].vector # 47 /\ frames[1].vector \in 32 .. 47
      BY <1>2, <1>7, <2>1 DEF Return, Iret, At, PicInv, OneFrame
    <3>. QED
      BY <3>1 DEF Astray, Stubs
  <2>4. regs' = ThreadRegs /\ rip' = n /\ stack' = <<>>
    BY <2>1, <2>3, RestoredRight DEF InHandler
  <2>. QED
    BY <2>1, <2>2, <2>4, ThreadRegsType DEF StackRight, InHandler, FaultRight, ContextKept,
       Astray
<1>8. ASSUME NEW v \in DOMAIN Faults, Exception(v)
      PROVE  ThreadInv'
  <2>1. /\ frames = <<>> /\ fault = NoFault /\ fault' = [vector |-> v, at |-> "switch"]
        /\ Save(v, Faults[v]) /\ rip' = None /\ UNCHANGED <<n, frames, regs>>
    BY <1>8 DEF Exception
  <2>2. /\ fault' # NoFault /\ fault'.vector = v /\ fault'.at = "switch"
        /\ fault' \in [vector : DOMAIN Faults, at : {"switch", "frozen", "eoi_master", "iret"}]
    BY <2>1 DEF NoFault
  <2>3. /\ v \in Nat /\ Faults[v] \in Seq(Nat) /\ Len(Faults[v]) <= 1
        /\ Faults[v] # <<>> <=> v \in ErrStubs
    <3>1. v \in 0 .. 31
      BY FaultsAssumption
    <3>2. \A k \in 0 .. 31 : k \in Nat
      OBVIOUS
    <3>3. v \in Nat
      BY <3>1, <3>2, Zenon
    <3>. QED
      BY <3>3, FaultsAssumption, Zenon DEF CodesAsStubs
  <2>4. regs = ThreadRegs /\ stack = <<>> /\ rip = n
    BY <2>1 DEF ContextKept
  <2>5. /\ stack' \in Seq(Int) /\ Len(stack') = 24
        /\ stack'[2] = 0 /\ stack'[5] = n
        /\ stack'[7] = Len(Faults[v]) /\ stack'[8] = v
        /\ Faults[v] # <<>> => stack'[6] = Faults[v][1]
        /\ \A k \in DOMAIN Registers :
             stack'[8 + k] = IF Registers[k] = "rsp" THEN 13 ELSE ThreadRegs[Registers[k]]
    BY <1>1, <2>1, <2>3, <2>4, SavedRight, Zenon
  <2>6. StackRight'
    BY <2>1, <2>2, <2>5 DEF StackRight
  <2>7. FaultRight'
    BY <2>2 DEF FaultRight
  <2>. QED
    BY <2>1, <2>2, <2>6, <2>7 DEF ContextKept, Astray
<1>9. HandleFault \/ EndFault \/ ReturnFromFault =>
        fault # NoFault /\ frames = <<>> /\ InHandler /\ ~Astray
  <2>1. NoFault.at = "none"
    BY DEF NoFault
  <2>. QED
    BY <1>2, <2>1 DEF HandleFault, EndFault, ReturnFromFault, InHandler, Astray
<1>10. ASSUME NEW place \in {"frozen", "eoi_master", "iret"},
              fault # NoFault, frames = <<>>, fault' = [fault EXCEPT !.at = place],
              UNCHANGED <<n, frames, stack>>, regs' \in [GPRs -> Nat],
              place = "frozen" <=> Faults[fault.vector] # <<>>
       PROVE  ThreadInv'
  <2>1. fault \in [vector : DOMAIN Faults, at : {"switch", "frozen", "eoi_master", "iret"}]
    BY <1>10 DEF FaultRight
  <2>2. /\ fault' \in [vector : DOMAIN Faults, at : {"switch", "frozen", "eoi_master", "iret"}]
        /\ fault'.vector = fault.vector /\ fault'.at = place
    BY <1>10, <2>1
  <2>3. fault' # NoFault
    BY <2>2 DEF NoFault
  <2>4. StackRight'
    BY <1>10, <2>2, <2>3 DEF StackRight, InHandler, Astray
  <2>5. FaultRight'
    BY <1>10, <2>2 DEF FaultRight
  <2>. QED
    BY <1>10, <2>3, <2>4, <2>5 DEF ContextKept, Astray
<1>11. CASE HandleFault
  <2>1. /\ fault' = [fault EXCEPT !.at = IF IsError THEN "frozen" ELSE "eoi_master"]
        /\ regs' = Clobbered /\ UNCHANGED <<n, frames, stack>>
    BY <1>11 DEF HandleFault, vars
  <2>2. IsError <=> Faults[fault.vector] # <<>>
    <3>1. Len(stack) = 24 /\ stack[7] = Len(Faults[fault.vector])
      BY <1>9, <1>11 DEF StackRight
    <3>2. Field(stack, "error") = stack[7]
      BY <3>1, FieldAt, Zenon
    <3>3. Faults[fault.vector] \in Seq(Nat)
      BY <1>9, <1>11, FaultsAssumption DEF FaultRight
    <3>4. Len(Faults[fault.vector]) # 0 <=> Faults[fault.vector] # <<>>
      BY <3>3
    <3>. QED
      BY <3>1, <3>2, <3>4, Zenon DEF IsError
  <2>. DEFINE place == IF IsError THEN "frozen" ELSE "eoi_master"
  <2>3. /\ place \in {"frozen", "eoi_master", "iret"}
        /\ place = "frozen" <=> Faults[fault.vector] # <<>>
    BY <2>2
  <2>. HIDE DEF place
  <2>. QED
    BY <1>9, <1>10, <1>11, <2>1, <2>3, ThreadRegsType, Zenon DEF place
<1>12. CASE EndFault
  <2>1. /\ fault.at = "eoi_master" /\ fault' = [fault EXCEPT !.at = "iret"]
        /\ UNCHANGED <<n, frames, regs, stack>>
    BY <1>12 DEF EndFault
  <2>2. Faults[fault.vector] = <<>>
    BY <1>9, <1>12, <2>1 DEF FaultRight
  <2>. QED
    BY <1>9, <1>10, <1>12, <2>1, <2>2
<1>13. CASE ReturnFromFault
  <2>1. Restore /\ fault' = NoFault /\ UNCHANGED <<n, frames>>
    BY <1>13 DEF ReturnFromFault
  <2>2. regs' = ThreadRegs /\ rip' = n /\ stack' = <<>>
    BY <1>9, <1>13, <2>1, RestoredRight
  <2>. QED
    BY <1>9, <1>13, <2>1, <2>2, ThreadRegsType DEF StackRight, InHandler, FaultRight,
       ContextKept, Astray
<1>14. CASE UNCHANGED ivars
  BY <1>14 DEF ivars, vars, StackRight, InHandler, FaultRight, ContextKept, Astray
<1>15. CASE Rest
  <2>1. UNCHANGED ivars
    BY <1>15 DEF Rest, Halt, Lost, ivars, vars
  <2>. QED
    BY <1>14, <2>1
<1>. QED
  BY <1>3, <1>4, <1>5, <1>6, <1>7, <1>8, <1>11, <1>12, <1>13, <1>14, <1>15 DEF INext

LEMMA Invariant == CodesAsStubs => (ISpec => []IInv)
<1>. SUFFICES ASSUME CodesAsStubs PROVE ISpec => []IInv
  OBVIOUS
<1>1. IInit => IInv
  BY InitPicInv, InitThreadInv DEF IInit, IInv
<1>2. IInv /\ [INext]_ivars => IInv'
  BY PicStep, ThreadStepInv DEF IInv
<1>. QED
  BY <1>1, <1>2, PTL DEF ISpec

-----------------------------------------------------------------------------
(* The theorems. *)

\* Without a device at IRQ 15, no vector is ever delivered but those the kernel gives
\* to IRQs, and of these only the slave's spurious one has no stub: none of the
\* firmware's either, though the PICs are programmed while they interrupt
\* (idt.c:88-111, apic.c:15-25).
THEOREM KernelVectorsOnly == NoIrq15 => (ISpec => []OnlyKernelVectors)
<1>. SUFFICES ASSUME NoIrq15 PROVE ISpec => []OnlyKernelVectors
  OBVIOUS
<1>1. PicInv => OnlyKernelVectors
  <2>. SUFFICES ASSUME PicInv, NEW k \in DOMAIN frames
                PROVE  /\ frames[k].vector \in 32 .. 47
                       /\ frames[k].vector \notin Stubs => IsSlaveSpurious(frames[k])
    BY DEF OnlyKernelVectors
  <2>1. frames \in Seq(Frames)
    BY DEF PicInv, TypeOK
  <2>2. frames # <<>>
    BY <2>1
  <2>3. /\ Len(frames) = 1 /\ frames[1].vector \in 32 .. 47
        /\ frames[1].vector = 47 => IsSlaveSpurious(frames[1])
    BY <2>2 DEF PicInv, OneFrame
  <2>4. k = 1
    BY <2>1, <2>3
  <2>. QED
    BY <2>3, <2>4 DEF Stubs
<1>. QED
  BY <1>1, PicsRight, PTL

EveryVectorHasStub == \A k \in DOMAIN frames : frames[k].vector \in Stubs

\* Every vector has a stub if, besides, no device of the slave's withdraws a
\* request: isr_stub_table, from which idt_init takes the gates, ends one entry early
\* (idt.c:102, isr.s:206).
THEOREM StubForEveryVector == NoIrq15 /\ SlaveSteady => (ISpec => []EveryVectorHasStub)
<1>. SUFFICES ASSUME NoIrq15, SlaveSteady PROVE ISpec => []EveryVectorHasStub
  OBVIOUS
<1>1. PicInv => EveryVectorHasStub
  <2>. SUFFICES ASSUME PicInv, NEW k \in DOMAIN frames
                PROVE  frames[k].vector \in Stubs
    BY DEF EveryVectorHasStub
  <2>1. frames \in Seq(Frames)
    BY DEF PicInv, TypeOK
  <2>2. frames # <<>>
    BY <2>1
  <2>3. Len(frames) = 1 /\ frames[1].vector \in 32 .. 47 /\ frames[1].vector # 47
    BY <2>2 DEF PicInv, OneFrame
  <2>4. k = 1
    BY <2>1, <2>3
  <2>. QED
    BY <2>3, <2>4 DEF Stubs
<1>. QED
  BY <1>1, PicsRight, PTL

\* The end-of-interrupt writes, which name no line, end the service of the interrupt
\* being handled and of no other, whatever devices there are (idt.c:67-73).
THEOREM OwnServiceEnded == ISpec => []EndsItsOwnService
<1>1. PicInv => EndsItsOwnService
  BY DEF PicInv, ServiceRight, EndsItsOwnService, Service
<1>. QED
  BY <1>1, PicsRight, PTL

\* Between the handlers no line is in service, and none is blocked.
THEOREM ServiceAlwaysEnded == ISpec => []NothingInService
<1>1. PicInv => NothingInService
  BY DEF PicInv, ServiceRight, NothingInService, Chips
<1>. QED
  BY <1>1, PicsRight, PTL

\* The types, for every set of exceptions with the codes the stubs expect.
THEOREM TypeCorrect == CodesAsStubs => (ISpec => []ITypeOK)
<1>1. IInv => ITypeOK
  <2>. SUFFICES ASSUME IInv PROVE ITypeOK
    OBVIOUS
  <2>1. stack \in Seq(Int)
    <3>1. CASE InHandler
      BY <3>1 DEF IInv, ThreadInv, StackRight
    <3>2. CASE ~InHandler
      <4>1. stack = <<>>
        BY <3>2 DEF IInv, ThreadInv, ContextKept, InHandler
      <4>. QED
        BY <4>1
    <3>. QED
      BY <3>1, <3>2
  <2>. QED
    BY <2>1 DEF IInv, PicInv, ThreadInv, FaultRight, ITypeOK
<1>. QED
  BY <1>1, Invariant, PTL

\* The stubs take back all that they and the processor pushed: the thread goes on
\* with its registers, its stack and its place (isr.s:7-143).
THEOREM ContextAlwaysKept == CodesAsStubs => (ISpec => []ContextKept)
<1>1. IInv => ContextKept
  BY DEF IInv, ThreadInv
<1>. QED
  BY <1>1, Invariant, PTL

\* interrupt_handler sees, through cpu_status_t, the vector, the error code and the
\* registers that there were (cpu.h:70-96).
THEOREM HandlerAlwaysSees == CodesAsStubs => (ISpec => []HandlerSees)
<1>1. IInv => HandlerSees
  <2>. SUFFICES ASSUME IInv PROVE HandlerSees
    OBVIOUS
  <2>0. Astray => fault = NoFault
    BY DEF IInv, PicInv, OneFrame, Astray
  <2>. SUFFICES ASSUME InHandler, ~Astray PROVE HandlerSees
    BY <2>0 DEF HandlerSees, InHandler, Astray
  <2>1. StackRight
    BY DEF IInv, ThreadInv
  <2>2. Len(stack) = 24
    BY <2>1 DEF StackRight
  <2>3. /\ Field(stack, "int_vector") = stack[8]
        /\ Field(stack, "error") = stack[7]
        /\ Field(stack, "error_code") = stack[6]
        /\ Field(stack, "iretq_rip") = stack[5]
        /\ \A k \in 1 .. 16 : Field(stack, Registers[k]) = stack[8 + k]
    BY <2>2, FieldAt, Zenon
  <2>4. ASSUME NEW r \in GPRs
        PROVE  Field(stack, r) = ThreadRegs[r]
    <3>1. PICK k \in (1 .. 16) \ {6} : r = Registers[k]
      BY RegisterNames
    <3>2. stack[8 + k] = ThreadRegs[r]
      BY <2>1, <3>1, RegisterNames DEF StackRight
    <3>. QED
      BY <2>3, <3>1, <3>2
  <2>. QED
    BY <2>1, <2>3, <2>4, Zenon DEF StackRight, HandlerSees
<1>. QED
  BY <1>1, Invariant, PTL

\* After an exception with an error code nothing runs any more (idt.c:5-13, 22-40).
THEOREM ErrorsAlwaysFreeze == CodesAsStubs => (ISpec => ErrorsFreeze)
<1>. DEFINE A == fault # NoFault /\ Faults[fault.vector] # <<>> =>
                   fault'.vector = fault.vector /\ UNCHANGED <<n, IF_flag, frames>>
<1>1. IInv /\ [INext]_ivars => [A]_ivars
  <2>. SUFFICES ASSUME IInv, INext, fault # NoFault, Faults[fault.vector] # <<>>
                PROVE  fault'.vector = fault.vector /\ UNCHANGED <<n, IF_flag, frames>>
    OBVIOUS
  <2>1. frames = <<>> /\ fault.at \in {"switch", "frozen"}
        /\ fault \in [vector : DOMAIN Faults, at : {"switch", "frozen", "eoi_master", "iret"}]
    BY DEF IInv, PicInv, OneFrame, ThreadInv, FaultRight
  <2>2. ~Step /\ ~Interrupt /\ ~\E v \in DOMAIN Faults : Exception(v)
    BY DEF Step, Interrupt, Exception
  <2>3. ~Handle /\ ~Return
    BY <2>1 DEF Handle, Switch, EoiSlave, EoiMaster, Return, Iret, At
  <2>4. ~EndFault /\ ~ReturnFromFault
    BY <2>1 DEF EndFault, ReturnFromFault
  <2>5. CASE Device
    BY <2>5 DEF Device, Request
  <2>6. CASE HandleFault
    BY <2>1, <2>6 DEF HandleFault, vars
  <2>7. CASE Rest
    BY <2>7 DEF Rest, Halt, Lost, ivars, vars
  <2>. QED
    BY <2>2, <2>3, <2>4, <2>5, <2>6, <2>7 DEF INext
<1>. QED
  BY <1>1, Invariant, PTL DEF ISpec, ErrorsFreeze

=============================================================================
