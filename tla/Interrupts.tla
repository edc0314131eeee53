----------------------------- MODULE Interrupts -----------------------------
(***************************************************************************)
(* Interrupts and exceptions with the stubs around their handler: Pic with *)
(* the registers and the stack of the interrupted code (IsrStub), and with *)
(* the exceptions that the thread may meet once the IDT is loaded.         *)
(***************************************************************************)
EXTENDS Pic, IsrStub

CONSTANTS
  Faults  \* the exceptions met, as a function from vectors to error codes, which
          \* are sequences of one number, or of none

ASSUME FaultsAssumption ==
  /\ DOMAIN Faults \subseteq 0 .. 31
  /\ \A v \in DOMAIN Faults : Faults[v] \in Seq(Nat) /\ Len(Faults[v]) <= 1

VARIABLES
  regs,   \* the registers
  rip,    \* where the thread is: the number of its next step
  stack,
  fault   \* the exception being handled

ivars == <<vars, regs, rip, stack, fault>>

GPRs == {Registers[k] : k \in DOMAIN Registers} \ {"rsp"}

\* The thread's registers have different values, none of them Clobbered.
ThreadRegs == [r \in GPRs |-> 200 + CHOOSE k \in DOMAIN Registers : Registers[k] = r]

\* interrupt_handler may change every register.
Clobbered == [r \in GPRs |-> 0]

NoFault == [vector |-> None, at |-> "none"]

-----------------------------------------------------------------------------

IInit == Init /\ regs = ThreadRegs /\ rip = n /\ stack = <<>> /\ fault = NoFault

Save(v, code) == stack' = Saved(Interrupted(stack, rip, code), regs, v)

Restore ==
  LET m == Restored(stack, regs)
  IN regs' = m.regs /\ stack' = m.stack /\ rip' = m.rip

Step == fault = NoFault /\ ThreadStep /\ rip' = n' /\ UNCHANGED <<regs, stack, fault>>

Device == (\E d \in Devices : Request(d)) /\ UNCHANGED <<regs, rip, stack, fault>>

Accept ==
  \/ AcceptMaster \/ AcceptSlave \/ AcceptSpurious \/ AcceptSlaveSpurious
  \/ AcceptLapicTimer

\* Without a stub only the processor pushes.
Interrupt ==
  /\ fault = NoFault
  /\ Accept
  /\ IF frames'[1].vector \in Stubs
     THEN Save(frames'[1].vector, <<>>)
     ELSE stack' = Interrupted(stack, rip, <<>>)
  /\ rip' = None
  /\ UNCHANGED <<regs, fault>>

\* In interrupt_handler.
Handle ==
  /\ Switch \/ EoiSlave \/ EoiMaster
  /\ regs' = Clobbered
  /\ UNCHANGED <<rip, stack, fault>>

Return == Iret /\ Restore /\ UNCHANGED fault

\* The thread meets an exception: between its steps stand all of main's own.
Exception(v) ==
  /\ frames = <<>> /\ fault = NoFault
  /\ IF_flag
  /\ fault' = [vector |-> v, at |-> "switch"]
  /\ Save(v, Faults[v])
  /\ rip' = None
  /\ IF_flag' = FALSE
  /\ UNCHANGED <<n, chip, frames, regs>>

\* Faulty variant: the error code, which may be 0, tells an error.
IsErrorByCode == Field(stack, "error_code") # 0

IsError == Field(stack, "error") # 0

\* An error: its message, and cpu_freeze (idt.c:3-41).  Others are unexpected
\* interrupts, acknowledged to the master.
HandleFault ==
  /\ fault.at = "switch"
  /\ regs' = Clobbered
  /\ fault' = [fault EXCEPT !.at = IF IsError THEN "frozen" ELSE "eoi_master"]
  /\ UNCHANGED <<vars, rip, stack>>

EndFault ==
  /\ fault.at = "eoi_master"
  /\ outb("master", "command", PIC_EOI)
  /\ fault' = [fault EXCEPT !.at = "iret"]
  /\ UNCHANGED <<n, IF_flag, frames, regs, rip, stack>>

ReturnFromFault ==
  /\ fault.at = "iret"
  /\ Restore
  /\ IF_flag' = TRUE
  /\ fault' = NoFault
  /\ UNCHANGED <<n, chip, frames>>

Rest ==
  \/ fault = NoFault /\ (Halt \/ Lost) /\ UNCHANGED <<regs, rip, stack, fault>>
  \/ fault.at = "frozen" /\ UNCHANGED ivars

INext ==
  \/ Step \/ Device \/ Interrupt \/ Handle \/ Return
  \/ \E v \in DOMAIN Faults : Exception(v)
  \/ HandleFault \/ EndFault \/ ReturnFromFault
  \/ Rest

ISpec == IInit /\ [][INext]_ivars

-----------------------------------------------------------------------------
(* Properties. *)

ITypeOK ==
  /\ TypeOK
  /\ regs \in [GPRs -> Nat]
  /\ stack \in Seq(Int)
  /\ \/ fault = NoFault
     \/ /\ fault.vector \in DOMAIN Faults
        /\ fault.at \in {"switch", "frozen", "eoi_master", "iret"}

\* When no handler runs the thread has its registers, its stack and its place
\* again, as before the interrupt: the stubs take back what they and the CPU
\* pushed, the saved rsp in the middle of it included (isr.s:7-143).
ContextKept ==
  frames = <<>> /\ fault = NoFault =>
    regs = ThreadRegs /\ stack = <<>> /\ rip = n

\* What interrupt_handler, called by a stub, reads through cpu_status_t is what
\* happened: the vector the PIC or the CPU delivered, whether there is an error
\* code, and which, and the place and the registers of the interrupted thread
\* (cpu.h:70-96).
HandlerSees ==
  LET irq == frames # <<>> /\ frames[1].vector \in Stubs
      exception == fault # NoFault
  IN
  /\ irq =>
       Field(stack, "int_vector") = frames[1].vector /\ Field(stack, "error") = 0
  /\ exception =>
       /\ Field(stack, "int_vector") = fault.vector
       /\ Field(stack, "error") = Len(Faults[fault.vector])
       /\ Faults[fault.vector] # <<>> => Field(stack, "error_code") = Faults[fault.vector][1]
  /\ irq \/ exception =>
       /\ Field(stack, "iretq_rip") = n
       /\ \A r \in GPRs : Field(stack, r) = ThreadRegs[r]

\* An exception with an error code is never returned from, and nothing else runs
\* after it (idt.c:5-13, 22-40).
ErrorsFreeze ==
  [][fault # NoFault /\ Faults[fault.vector] # <<>> =>
       fault'.vector = fault.vector /\ UNCHANGED <<n, IF_flag, frames>>]_ivars

=============================================================================
