----------------------------- MODULE MCKeyboard -----------------------------
(***************************************************************************)
(* Every pair of devices, on a controller with one port or two, healthy or *)
(* not, that the FADT mentions or does not; of the configuration bytes one *)
(* as firmware leaves it: interrupts and translation on, system flag set.  *)
(***************************************************************************)
EXTENDS Keyboard

FirmwareConfig == {0, 1, 2, 6}

\* With one port there is nothing at the second, and its clock is always off.
\* A byte is left over where there is a device at port 1.  What is not
\* detected, or fails its test, is not looked at further.
AllMachines ==
  {m \in [detected : BOOLEAN, attached : [Ports -> Kinds], channels : {1, 2},
          healthy : BOOLEAN, good : BOOLEAN, leftover : BOOLEAN,
          config : {FirmwareConfig, FirmwareConfig \cup {5}}] :
     /\ m.channels = 1 <=> 5 \in m.config
     /\ m.channels = 1 => m.attached[2] = "none"
     /\ m.leftover <=> m.attached[1] # "none"
     /\ ~(m.detected /\ m.healthy /\ m.good) =>
          m.attached[1] = "keyboard" /\ m.attached[2] = "none"
     /\ ~m.detected \/ ~m.healthy => m.good}

\* What is asked to be sent again: the identification's bytes and 0xF0.  The
\* parameter of 0xF0 is not among them, for the driver does not wait for its
\* acknowledgement.
Commands == {PS2_DISABLE_SCANNING, PS2_IDENTIFY, PS2_ENABLE_SCANNING,
             PS2_KEYBOARD_SET_SCANCODE_SET}

=============================================================================
