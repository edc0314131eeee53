------------------------------- MODULE Digits -------------------------------
(***************************************************************************)
(* Numbers as text: kprint_hex, kprint_num and kprint_bin of the kernel    *)
(* (src/os/src/drivers/vga.c) and their two counterparts in the boot       *)
(* loader (src/bootloader/src/video.c).  A text is a function from 0; its  *)
(* elements are the values of the digits, and Nul.                         *)
(***************************************************************************)
EXTENDS Integers

CONSTANTS
  MaxHexDigits,  \* UI64_T_MAX_HEX_DIGITS and so on: the sizes of the buffers
  MaxDecDigits,
  MaxBinDigits

ASSUME DigitsAssumption == {MaxHexDigits, MaxDecDigits, MaxBinDigits} \subseteq Nat \ {0}

Nul == -1

\* What is left of n after k turns of the loop, each of which divides it.
Left(n, base, max) ==
  LET left[k \in 0 .. max] == IF k = 0 THEN n ELSE left[k - 1] \div base
  IN left

\* stack_top after the loop, which takes the digits from the lowest up.
StackTop(n, base, max) ==
  LET left == Left(n, base, max)
  IN CHOOSE k \in 0 .. max - 1 : left[k + 1] = 0 /\ (k = 0 \/ left[k] # 0)

\* Faulty variant: one turn too many exchanges the two in the middle again.
InLoopOneMore(k, top) == k >= top \div 2

\* The turns of the loop, from stack_top down, that exchange k and top - k.
InLoop(k, top) == k > top \div 2

Exchanged(i, top) == InLoop(i, top) # InLoop(top - i, top)

Finished(stack, top) ==
  [i \in 0 .. top + 1 |->
     IF i = top + 1 THEN Nul
     ELSE IF Exchanged(i, top) THEN stack[top - i] ELSE stack[i]]

Text(n, base, max) ==
  LET top == StackTop(n, base, max)
      left == Left(n, base, max)
  IN Finished([i \in 0 .. top |-> left[i] % base], top)

kprint_hex(n) == Text(n, 16, MaxHexDigits)
kprint_num(n) == Text(n, 10, MaxDecDigits)

\* As many digits as the bytes have bits, and for 0 one more.
kprint_bin(n, size) ==
  LET top == 8 * size - (IF n = 0 THEN 0 ELSE 1)
      left == Left(n, 2, top)
  IN Finished([i \in 0 .. top |-> left[i] % 2], top)

efi_printnum(n) == Text(n, 10, MaxDecDigits)
efi_printhex(n) == Text(n, 16, MaxHexDigits)

\* What a reader of the text takes it for.
Value(text, base) ==
  LET last == (CHOOSE k \in DOMAIN text : text[k] = Nul) - 1
      v[i \in -1 .. last] == IF i = -1 THEN 0 ELSE v[i - 1] * base + text[i]
  IN v[last]

\* A text that can be read as n and as nothing else, and has no idle zero.
Reads(text, base, n) ==
  /\ \A i \in DOMAIN text : text[i] \in 0 .. base - 1 \cup {Nul}
  /\ Value(text, base) = n
  /\ text[0] = 0 => text[1] = Nul

\* The NUL lies in the buffer.
Fits(text, max) == \A i \in DOMAIN text : i < max

=============================================================================
