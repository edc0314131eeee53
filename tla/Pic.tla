-------------------------------- MODULE Pic --------------------------------
(***************************************************************************)
(* Interrupts, from the two cascaded 8259 PICs through the IDT to          *)
(* interrupt_handler (src/os/src/cpu/idt.c, isr.s, apic.c): the thread     *)
(* masks the PICs, enables interrupts, and programs the PICs again, one    *)
(* port write at a time, while devices request interrupts; the handler     *)
(* acknowledges each one by end-of-interrupt writes.                       *)
(*                                                                         *)
(* The PICs are the chip set's: the slave is wired to IRQ 2 whatever ICW3  *)
(* says, and a chip delivers nothing before its last initialization word.  *)
(***************************************************************************)
EXTENDS Integers, Sequences, FiniteSets

CONSTANTS
  Devices,       \* the IRQs, 0 .. 15, at which devices are
  Unsteady,      \* those of them that may withdraw a request
  FirmwareBase,  \* the vectors the firmware gave the two PICs
  MaxNesting     \* bound: interrupts inside one another (one at a time)

Chips == {"master", "slave"}
Lines == 0 .. 7
Cascade == 2

ASSUME PicAssumption ==
  /\ Devices \subseteq (0 .. 15) \ {Cascade}
  /\ Unsteady \subseteq Devices
  /\ FirmwareBase \in [Chips -> {8 * k : k \in 0 .. 31}]
  /\ MaxNesting \in Nat \ {0}

VARIABLES
  n,       \* the next step of Program
  IF_flag, \* RFLAGS.IF
  chip,    \* the two PICs
  frames   \* the interrupts being handled, the innermost first

vars == <<n, IF_flag, chip, frames>>

None == -1

\* A PIC: the initialization word it waits for, 0 if it is ready; its mask,
\* request and in-service registers; the vector of its line 0.
Pics == [icw : {0, 2, 3, 4}, imr : SUBSET Lines, irr : SUBSET Lines,
         isr : SUBSET Lines, base : 0 .. 255]

\* An interrupt: its vector, the lines it put in service, the handler's place.
Frames == [vector : 0 .. 255, master : Lines \cup {None},
           slave : Lines \cup {None},
           at : {"switch", "eoi_slave", "eoi_master", "iret"}]

-----------------------------------------------------------------------------
(* The ports of a PIC. *)

PIC_EOI == 32
ICW_1 == 17
ICW_2_Ma == 32

\* Faulty variant: 0x128 for 0x28.
ICW_2_Sl_typo == 296

ICW_2_Sl == 40
ICW_3_Ma == 2
ICW_3_Sl == 4
ICW_4 == 1

BitsOf(v) == {b \in Lines : (v \div 2^b) % 2 = 1}

Lowest(S) == CHOOSE l \in S : \A k \in S : l <= k

\* An ICW1 starts the initialization sequence, which clears the mask; an EOI
\* ends the service of the line of highest priority.
Command(p, v) ==
  IF 4 \in BitsOf(v)
  THEN [p EXCEPT !.icw = 2, !.imr = {}, !.irr = {}, !.isr = {}]
  ELSE IF v = PIC_EOI /\ p.isr # {}
       THEN [p EXCEPT !.isr = p.isr \ {Lowest(p.isr)}]
       ELSE p

Data(p, v) ==
  CASE p.icw = 0 -> [p EXCEPT !.imr = BitsOf(v)]
    [] p.icw = 2 -> [p EXCEPT !.icw = 3, !.base = v]
    [] p.icw = 3 -> [p EXCEPT !.icw = 4]
    [] p.icw = 4 -> [p EXCEPT !.icw = 0]

outb(c, port, v) ==
  chip' = [chip EXCEPT ![c] = IF port = "command" THEN Command(@, v) ELSE Data(@, v)]

-----------------------------------------------------------------------------
(* The thread: idt_init, then disable_pic8259. *)

Out(c, port, v) == [chip |-> c, port |-> port, value |-> v]
Sti == [chip |-> "cpu", port |-> "sti", value |-> 0]

mask_pic_interrupts == <<Out("master", "data", 255), Out("slave", "data", 255)>>

\* Faulty variant: interrupts are enabled before the PICs are masked.
idt_init_sti_first == <<Sti>> \o mask_pic_interrupts

idt_init == mask_pic_interrupts \o <<Sti>>

disable_pic8259 ==
  <<Out("master", "command", ICW_1), Out("slave", "command", ICW_1),
    Out("master", "data", ICW_2_Ma), Out("slave", "data", ICW_2_Sl),
    Out("master", "data", ICW_3_Ma), Out("slave", "data", ICW_3_Sl),
    Out("master", "data", ICW_4), Out("slave", "data", ICW_4)>>

Program == idt_init \o disable_pic8259

TypeOK ==
  /\ n \in 1 .. Len(Program) + 1
  /\ IF_flag \in BOOLEAN
  /\ chip \in [Chips -> Pics]
  /\ frames \in Seq(Frames)

\* The firmware leaves the PICs ready, masked or not, none in service, and the
\* interrupt flag clear.
Init ==
  /\ n = 1
  /\ IF_flag = FALSE
  /\ chip \in [Chips -> [icw : {0}, imr : {{}, Lines}, irr : {{}}, isr : {{}},
                         base : {FirmwareBase["master"], FirmwareBase["slave"]}]]
  /\ \A c \in Chips : chip[c].base = FirmwareBase[c]
  /\ frames = <<>>

ThreadStep ==
  /\ frames = <<>>
  /\ n <= Len(Program)
  /\ n' = n + 1
  /\ IF Program[n] = Sti
     THEN IF_flag' = TRUE /\ UNCHANGED chip
     ELSE outb(Program[n].chip, Program[n].port, Program[n].value) /\ UNCHANGED IF_flag
  /\ UNCHANGED frames

\* The rest of main.
Halt ==
  /\ frames = <<>>
  /\ n > Len(Program)
  /\ UNCHANGED vars

-----------------------------------------------------------------------------
(* Devices and delivery. *)

ChipOf(d) == IF d \in Lines THEN "master" ELSE "slave"

Request(d) ==
  /\ chip' = [chip EXCEPT ![ChipOf(d)].irr = @ \cup {d % 8}]
  /\ UNCHANGED <<n, IF_flag, frames>>

\* The requests of a PIC that are unmasked and of higher priority than those
\* in service; the slave's request is the master's line 2.
Pending(p, requests) ==
  IF p.icw = 0
  THEN {l \in requests \ p.imr : \A k \in p.isr : l < k} ELSE {}

SlavePending == Pending(chip["slave"], chip["slave"].irr)
MasterPending ==
  Pending(chip["master"],
          chip["master"].irr \cup (IF SlavePending # {} THEN {Cascade} ELSE {}))

\* Faulty variant: a trap gate (0x8F), which leaves interrupts enabled.
EnterTrapGate(v, m, s) ==
  /\ frames' = <<[vector |-> v, master |-> m, slave |-> s, at |-> "switch"]>> \o frames
  /\ UNCHANGED <<n, IF_flag>>

\* An interrupt gate (0x8E): it disables interrupts until iretq.
Enter(v, m, s) ==
  /\ frames' = <<[vector |-> v, master |-> m, slave |-> s, at |-> "switch"]>> \o frames
  /\ IF_flag' = FALSE
  /\ UNCHANGED n

MayInterrupt == IF_flag /\ Len(frames) < MaxNesting

InService(c, l) == [chip EXCEPT ![c].irr = @ \ {l}, ![c].isr = @ \cup {l}]

AcceptMaster ==
  /\ MayInterrupt
  /\ MasterPending # {}
  /\ LET l == Lowest(MasterPending)
     IN /\ l # Cascade
        /\ chip' = InService("master", l)
        /\ Enter(chip["master"].base + l, l, None)

AcceptSlave ==
  /\ MayInterrupt
  /\ MasterPending # {}
  /\ Lowest(MasterPending) = Cascade
  /\ LET s == Lowest(SlavePending)
     IN /\ chip' = [InService("slave", s) EXCEPT
                      !["master"].isr = @ \cup {Cascade}]
        /\ Enter(chip["slave"].base + s, Cascade, s)

\* The device at IRQ d withdraws a request, the only one of its PIC.
Withdraws(d) ==
  IF d \in Lines THEN MasterPending = {d}
  ELSE MasterPending = {Cascade} /\ SlavePending = {d - 8}

Withdrawn(d) == [chip EXCEPT ![ChipOf(d)].irr = @ \ {d % 8}]

\* The request goes away before the master is asked for the vector: it says
\* line 7, and puts nothing in service.
AcceptSpurious ==
  /\ MayInterrupt
  /\ \E d \in Unsteady : Withdraws(d) /\ chip' = Withdrawn(d)
  /\ Enter(chip["master"].base + 7, None, None)

\* It goes away after the master has put the cascade line in service, and before
\* the slave is asked: that is what the slave does.
AcceptSlaveSpurious ==
  /\ MayInterrupt
  /\ Cascade \in MasterPending
  /\ \E d \in Unsteady :
       /\ Withdraws(d) /\ ChipOf(d) = "slave"
       /\ chip' = [Withdrawn(d) EXCEPT !["master"].isr = @ \cup {Cascade}]
  /\ Enter(chip["slave"].base + 7, Cascade, None)

\* The LAPIC timer's interrupt has the vector of IRQ 0, and no PIC knows of it.
AcceptLapicTimer ==
  /\ MayInterrupt
  /\ n > Len(Program)
  /\ Enter(ICW_2_Ma, None, None)
  /\ UNCHANGED chip

-----------------------------------------------------------------------------
(* The handler of the innermost interrupt. *)

At(place) == frames # <<>> /\ frames[1].at = place
GoTo(place) == frames' = [frames EXCEPT ![1].at = place]

\* Faulty variant: off by one, IRQ 8 taken for one of the master's.
OfSlaveLate(v) == v > 8 + 32

OfSlave(v) == v >= 8 + 32

\* The vectors whose gates idt_init takes from isr_stub_table: the table has 32
\* entries for exceptions and 15 for IRQs, while idt_init fills 48 gates.
Stubs == 0 .. 46

\* The stub, and the switch on the vector, whose cases do not touch the PICs.
Switch ==
  /\ At("switch")
  /\ frames[1].vector \in Stubs
  /\ GoTo(IF OfSlave(frames[1].vector) THEN "eoi_slave" ELSE "eoi_master")
  /\ UNCHANGED <<n, IF_flag, chip>>

EoiSlave ==
  /\ At("eoi_slave")
  /\ outb("slave", "command", PIC_EOI)
  /\ GoTo("eoi_master")
  /\ UNCHANGED <<n, IF_flag>>

EoiMaster ==
  /\ At("eoi_master")
  /\ outb("master", "command", PIC_EOI)
  /\ GoTo("iret")
  /\ UNCHANGED <<n, IF_flag>>

Iret ==
  /\ At("iret")
  /\ frames' = Tail(frames)
  /\ IF_flag' = TRUE
  /\ UNCHANGED <<n, chip>>

\* A gate without a stub: it leads to whatever the word after isr_stub_table is
\* the address of, and what happens there is not modelled.
Lost ==
  /\ At("switch")
  /\ frames[1].vector \notin Stubs
  /\ UNCHANGED vars

Next ==
  \/ ThreadStep
  \/ Halt
  \/ \E d \in Devices : Request(d)
  \/ AcceptMaster
  \/ AcceptSlave
  \/ AcceptSpurious
  \/ AcceptSlaveSpurious
  \/ AcceptLapicTimer
  \/ Switch
  \/ EoiSlave
  \/ EoiMaster
  \/ Iret
  \/ Lost

Spec == Init /\ [][Next]_vars

-----------------------------------------------------------------------------
(* Properties. *)

\* The slave said IRQ 15 because the request went away.
IsSlaveSpurious(f) == f.master = Cascade /\ f.slave = None

\* Only the vectors that the kernel gives to IRQs are ever delivered: never one
\* of the firmware's, not even while the PICs are being programmed with
\* interrupts enabled (idt.c:88-111, apic.c:15-25).  Each of them has a stub in
\* isr_stub_table, but that of the slave's spurious interrupt, 47: its gate is
\* filled from beyond the table (isr.s:206).
OnlyKernelVectors ==
  \A k \in DOMAIN frames :
    /\ frames[k].vector \in 32 .. 47
    /\ frames[k].vector \notin Stubs => IsSlaveSpurious(frames[k])

\* The end-of-interrupt writes, which name no line, end the service of the
\* interrupt being handled and of no other: also for a spurious interrupt and
\* for one of the LAPIC, after which idt.c:72 writes to the master all the same.
EndsItsOwnService ==
  frames # <<>> =>
    LET f == frames[1] IN
    /\ f.at = "eoi_slave" =>
         chip["slave"].isr = IF f.slave = None THEN {} ELSE {f.slave}
    /\ f.at = "eoi_master" =>
         chip["master"].isr = IF f.master = None THEN {} ELSE {f.master}

\* Nothing is left in service when no handler runs: it would block every line
\* of lower priority for ever.
NothingInService ==
  frames = <<>> => chip["master"].isr = {} /\ chip["slave"].isr = {}

\* Once disable_pic8259 is done the PICs interrupt no more: apic.c:24, "PIC
\* Interrupts were already masked when enabling Interrupts 0-31".
PicSilent == n > Len(Program) => \A k \in DOMAIN frames : frames[k].master = None

=============================================================================
