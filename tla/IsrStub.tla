------------------------------ MODULE IsrStub ------------------------------
(***************************************************************************)
(* The interrupt stubs (src/os/src/cpu/isr.s) and cpu_status_t, through    *)
(* which the C code sees what they saved (src/os/src/inc/cpu/cpu.h).       *)
(* A stack is the sequence of its words, the top at the end; rsp is its    *)
(* length.  All values are numbers.                                        *)
(***************************************************************************)
EXTENDS Integers, SequencesExt

Registers == <<"rax", "rbx", "rcx", "rdx", "rbp", "rsp", "rsi", "rdi",
               "r8", "r9", "r10", "r11", "r12", "r13", "r14", "r15">>

\* The fields of cpu_status_t, in the order of their addresses.
cpu_status_t ==
  <<"r15", "r14", "r13", "r12", "r11", "r10", "r9", "r8", "rdi", "rsi", "rsp",
    "rbp", "rdx", "rcx", "rbx", "rax", "int_vector", "error", "error_code",
    "iretq_rip", "iretq_cs", "iretq_flags", "iretq_rsp", "iretq_ss">>

\* The field f of the structure at the top of a stack.
Field(stack, f) ==
  stack[Len(stack) + 1 - (CHOOSE k \in DOMAIN cpu_status_t : cpu_status_t[k] = f)]

\* What the processor pushes: ss, rsp, flags, cs, rip, and for some an error code.
ss == 101
cs == 102
flags == 103

Interrupted(stack, rip, code) ==
  stack \o <<ss, Len(stack), flags, cs, rip>> \o code

\* The stubs that have the error code pushed already (isr.s:146-177).
ErrStubs == {8, 10, 11, 12, 13, 14, 17, 30}

\* Faulty variant: error and vector pushed in the wrong order.
PushedFirstSwapped(v) ==
  IF v \in ErrStubs THEN <<v, 1>> ELSE <<0, v, 0>>

\* The constants pushed before the registers.
PushedFirst(v) ==
  IF v \in ErrStubs THEN <<1, v>> ELSE <<0, 0, v>>

\* The pushes of the registers: of rsp, its value before.
Push(stack, regs) ==
  stack \o [k \in DOMAIN Registers |->
              IF Registers[k] = "rsp" THEN Len(stack) + k - 1 ELSE regs[Registers[k]]]

\* The stub up to the call of interrupt_handler.
Saved(stack, regs, v) == Push(stack \o PushedFirst(v), regs)

\* The pops before and after that of rsp.
PopsBeforeRsp ==
  <<"r15", "r14", "r13", "r12", "r11", "r10", "r9", "r8", "rdi", "rsi">>

\* Faulty variant: two of the pops in the order of the pushes.
PopsAfterRspSwapped == <<"rbp", "rcx", "rdx", "rbx", "rax">>

PopsAfterRsp == <<"rbp", "rdx", "rcx", "rbx", "rax">>

\* The pops of some registers: the k-th takes the k-th word from the top.
Pop(m, order) ==
  [regs |-> [r \in DOMAIN m.regs |->
               IF \E k \in DOMAIN order : order[k] = r
               THEN m.stack[Len(m.stack) + 1 - (CHOOSE k \in DOMAIN order : order[k] = r)]
               ELSE m.regs[r]],
   stack |-> SubSeq(m.stack, 1, Len(m.stack) - Len(order))]

\* pop of rsp, which becomes what was saved of it.
PopRsp(m) == [m EXCEPT !.stack = SubSeq(@, 1, Last(@))]

\* The stub after the call, which returned what it was given: the pops, the
\* three constants dropped, and iretq.
Restored(stack, regs) ==
  LET popped == Pop(PopRsp(Pop([regs |-> regs, stack |-> stack], PopsBeforeRsp)),
                    PopsAfterRsp)
      frame == SubSeq(popped.stack, 1, Len(popped.stack) - 3)
  IN [regs |-> popped.regs,
      rip |-> Last(frame),
      stack |-> SubSeq(frame, 1, frame[Len(frame) - 3])]

=============================================================================
