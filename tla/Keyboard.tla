------------------------------ MODULE Keyboard ------------------------------
(***************************************************************************)
(* The PS/2 keyboard driver (src/os/src/drivers/keyboard.c) on top of the  *)
(* controller's: what main does from kernel.c:31 to 38, the handler of     *)
(* IRQ 1, and a user at the keyboards.                                     *)
(***************************************************************************)
EXTENDS Ps2

CONSTANTS
  TypedOn,   \* the ports at whose keyboards a user types
  Keys,      \* the keys pressed, of those of Makes
  MaxQueue   \* bound: the bytes a keyboard holds when a key is pressed

VARIABLES
  keyboard_enabled,
  shift_down,
  typed      \* what keyboard_handler printed last

vars == <<ps2vars, keyboard_enabled, shift_down, typed>>

\* The codes of a key that is pressed, in scan code sets 1 and 2.
Makes == [a |-> <<30, 28>>, leftShift |-> <<42, 18>>, rightShift |-> <<54, 89>>,
          backspace |-> <<14, 102>>]

ASSUME KeyboardAssumption ==
  TypedOn \subseteq Ports /\ Keys \subseteq DOMAIN Makes /\ MaxQueue \in Nat

Shifts == {"leftShift", "rightShift"}

-----------------------------------------------------------------------------
(* The thread. *)

\* acpi.c:88-101, and the commented-out call of ps2_init.
CheckPs2 ==
  /\ At("check_ps2")
  /\ Then(IF machine.detected THEN ps2_init ELSE <<>>)
  /\ UNCHANGED <<byte, ret, start, ack_start, response, driver>>
  /\ Local

\* Faulty variant: whatever identifies itself is a keyboard.
IsAnything(identified) == identified # <<>>

\* ps2_port_identity_translation, where it says TRANSLATION_KEYBOARD.
IsKeyboard(identified) == Len(identified) = 2

ps2_scancode_correction(p) ==
  ps2_port_write_data(p, PS2_KEYBOARD_SET_SCANCODE_SET) \o <<<<"check">>>>
  \o ps2_wait_for_ack(p, PS2_KEYBOARD_SET_SCANCODE_SET) \o <<<<"check">>>>
  \o ps2_port_write_data(p, Byte(1)) \o <<<<"check">>>>

\* Faulty variant: the buffer is flushed before the handler reads it.
enable_and_flush_late == <<<<"flush">>, <<"enable">>>>

enable_and_flush == <<<<"enable">>, <<"flush">>>>

KeyboardInit ==
  /\ At("keyboard_init")
  /\ LET With(p) == ps2_scancode_correction(p) \o enable_and_flush
     IN Then(CASE ~ps2_initialized -> <<>>
               [] ps2_initialized /\ IsKeyboard(identity[1]) -> With(1)
               [] ps2_initialized /\ ~IsKeyboard(identity[1]) /\ IsKeyboard(identity[2]) -> With(2)
               [] OTHER -> <<<<"flush">>>>)
  /\ UNCHANGED <<byte, ret, start, ack_start, response, driver>>
  /\ Local

\* A failure returns from keyboard_init, past its flush.
Check ==
  /\ At("check")
  /\ IF ret = 1 THEN todo' = <<>> ELSE ReturnFrom
  /\ Gone
  /\ UNCHANGED driver
  /\ Local

Enable ==
  /\ At("enable")
  /\ keyboard_enabled' = TRUE
  /\ ReturnFrom
  /\ UNCHANGED <<byte, ret, start, ack_start, response, driver, shift_down, typed>>
  /\ Local

\* The rest of main.
Halt == todo = <<>> /\ UNCHANGED vars

-----------------------------------------------------------------------------
(* The handler of IRQ 1. *)

\* Faulty variant: no case for the break code of the right shift.
ShiftBreaksOneSided == {Byte(170)}

ShiftBreaks == {Byte(170), Byte(182)}

\* keycode_char: what becomes of shift_down, and what it returns.  The tables
\* have 59 entries; the code of any other key, and of a key released, is read
\* from the memory after them.
NextShift(code, down) ==
  CASE code \in {Byte(42), Byte(54)} -> TRUE
    [] code \in ShiftBreaks -> FALSE
    [] OTHER -> down

InTable == {Byte(v) : v \in 0 .. 58}

keycode_char(code, down) ==
  CASE code \in {Byte(v) : v \in {42, 54, 170, 182}} -> "NUL"
    [] code = Byte(14) -> "backspace"
    [] code = Byte(30) -> IF down THEN "A" ELSE "a"
    [] code \in InTable \ {Byte(v) : v \in {14, 30, 42, 54}} -> "other"
    [] OTHER -> "outside"

\* Where the keyboard is not enabled the byte stays, and its interrupt is over.
KeyboardIrq ==
  /\ handler = "none"
  /\ out.irq /\ out.src \in {1, Controller}
  /\ IF keyboard_enabled
     THEN /\ out' = NoByte
          /\ shift_down' = NextShift(out.byte, shift_down)
          /\ typed' = keycode_char(out.byte, shift_down)
     ELSE /\ out' = [out EXCEPT !.irq = FALSE]
          /\ UNCHANGED <<shift_down, typed>>
  /\ UNCHANGED <<thread, driver, config, in, expects, ticks, handler, machine,
                 dev, keyboard_enabled>>

-----------------------------------------------------------------------------
(* A user, once the drivers are initialized. *)

\* The bytes of a key pressed or released.
CodesOf(key, down, set) ==
  LET code == Byte(Makes[key][set]) IN
  CASE set = 1 -> <<IF down THEN code ELSE code \cup {7}>>
    [] set = 2 -> IF down THEN <<code>> ELSE <<Byte(240), code>>

Key(p, key) ==
  /\ todo = <<>>
  /\ machine.attached[p] = "keyboard"
  /\ Len(dev[p].queue) < MaxQueue
  /\ LET down == key \notin dev[p].held
     IN dev' = [dev EXCEPT
          ![p].held = IF down THEN @ \cup {key} ELSE @ \ {key},
          ![p].queue = IF dev[p].scanning THEN @ \o CodesOf(key, down, dev[p].set) ELSE @]
  /\ UNCHANGED <<thread, driver, controller, ticks, handler, machine,
                 keyboard_enabled, shift_down, typed>>

-----------------------------------------------------------------------------

TypeOK ==
  /\ Ps2TypeOK
  /\ keyboard_enabled \in BOOLEAN /\ shift_down \in BOOLEAN
  /\ typed \in {"nothing", "NUL", "backspace", "a", "A", "other", "outside"}

Init ==
  /\ Ps2Init
  /\ todo = <<<<"check_ps2">>, <<"keyboard_init">>>>
  /\ keyboard_enabled = FALSE
  /\ shift_down = FALSE
  /\ typed = "nothing"

Thread ==
  \/ (Ps2Thread \/ CheckPs2 \/ KeyboardInit \/ Check)
     /\ UNCHANGED <<keyboard_enabled, shift_down, typed>>
  \/ Enable

MouseHandler ==
  (EnterMouseIrq \/ MouseIrq) /\ UNCHANGED <<keyboard_enabled, shift_down, typed>>

Machinery == Hardware /\ UNCHANGED <<keyboard_enabled, shift_down, typed>>

User == \E p \in TypedOn, key \in Keys : Key(p, key)

Next == Thread \/ MouseHandler \/ KeyboardIrq \/ Machinery \/ User \/ Halt

Spec == Init /\ [][Next]_vars

\* The CPU runs the thread and the handlers; the controller and the devices
\* answer, and time passes.
FairSpec ==
  /\ Spec
  /\ WF_vars(Thread)
  /\ WF_vars(MouseHandler)
  /\ WF_vars(KeyboardIrq)
  /\ WF_vars(Machinery)

-----------------------------------------------------------------------------
(* Properties. *)

\* What ps2_port_identify(1) stored is what the device of port 1 answers, also
\* when it asked for bytes again, and the device scans again (ps2.c:298-337).
Port1Identified ==
  LET kind == machine.attached[1] IN
  ps2_initialized /\ port1 = 1 =>
    /\ identity[1] = IF kind = "none" THEN <<>> ELSE IdOf(kind)
    /\ kind # "none" /\ (todo = <<>> \/ At("keyboard_init")) => dev[1].scanning

\* ps2_init leaves the firmware's configuration as it was but for what it means
\* to change: no translation, and the clock and the interrupt of a port on if
\* and only if the port is used (ps2.c:31-36, 128-153).
ConfigKept ==
  ps2_initialized =>
    /\ config \ (0 .. 6) = machine.config \ (0 .. 6)
    /\ config \cap {2, 3} = machine.config \cap {2, 3}
    /\ Translation \notin config
    /\ \A p \in Ports : /\ Usable(p) <=> Irq(p) \in config
                        /\ p <= machine.channels => (Usable(p) <=> ClockOff(p) \notin config)

PortUsed == IF IsKeyboard(identity[1]) THEN 1 ELSE 2

\* keyboard_enabled is only set for a port that holds a keyboard, whatever of its
\* answers the handler of IRQ 12 took away; once all is quiet the keyboard sends
\* scan code set 1, for which the tables are (keyboard.c:23-58).
EnabledIsKeyboard ==
  keyboard_enabled =>
    LET p == IF machine.channels = 1 THEN 1 ELSE PortUsed IN
    /\ machine.attached[p] = "keyboard"
    /\ todo = <<>> /\ ~InFlight => dev[p].set = 1 /\ ~dev[p].param

\* A byte that no one has read has an interrupt that no one has handled: one
\* that came before keyboard_enabled was set and is still there afterwards
\* would block the output buffer, and the keyboard, for ever.
NothingStuck ==
  keyboard_enabled /\ todo = <<>> /\ handler = "none" /\ OutputFull => out.irq

\* When everything sent has been handled and no shift key is held, shift_down is
\* false, whichever shift keys were pressed and released in whichever order.
ShiftNeverStuck ==
  keyboard_enabled /\ todo = <<>> /\ ~InFlight
    /\ (\A p \in Ports : dev[p].held \cap Shifts = {})
  => ~shift_down

\* ps2_init and keyboard_init come to an end, whatever fails.
InitEnds == <>(todo = <<>>)

\* drivers/keyboard.txt:2, "Checks for keyboard type and runs the correct
\* initializations for the type connected": a keyboard on a port that passed its
\* test is enabled.
KeyboardFound ==
  ps2_initialized /\ todo = <<>>
    /\ (\E p \in 1 .. machine.channels : Usable(p) /\ machine.attached[p] = "keyboard")
  => keyboard_enabled

=============================================================================
