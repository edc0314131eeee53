------------------------------- MODULE MCPic -------------------------------
(***************************************************************************)
(* The timer (0), the keyboard (1), a real-time clock (8) and the mouse    *)
(* (12); the keyboard and the clock may withdraw a request, so that either *)
(* PIC may deliver a spurious interrupt.  The firmware's vectors are the   *)
(* BIOS ones, 8 to 15 those of exceptions.  An invalid opcode, a general   *)
(* protection fault with error code 0, and a page fault.                   *)
(***************************************************************************)
EXTENDS Interrupts

BiosBase == [c \in Chips |-> IF c = "master" THEN 8 ELSE 112]

FaultCodes ==
  [v \in {6, 13, 14} |-> CASE v = 6 -> <<>> [] v = 13 -> <<0>> [] v = 14 -> <<2>>]

=============================================================================
