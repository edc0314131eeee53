-------------------------------- MODULE Ps2 --------------------------------
(***************************************************************************)
(* The PS/2 controller (src/os/src/drivers/ps2.c): the thread inside       *)
(* ps2_init and ps2_port_identify, the controller, the devices, and the    *)
(* handlers of IRQ 1 and 12 as far as they touch the data port.            *)
(*                                                                         *)
(* A byte is the set of its one bits.  todo holds the operations that the  *)
(* thread has still to execute; a call puts those of its body in front.    *)
(* The loops of the driver test the status port and then read the data     *)
(* port; a handler in between reads the same byte, so the two are one step *)
(* here, with the handler before it.  Time is followed where the driver    *)
(* looks at it, in its two loops with a time-out.                          *)
(***************************************************************************)
EXTENDS Integers, Sequences

CONSTANTS
  Machines,              \* the machines checked, see MachineType
  PS2_TIMEOUT_DURATION,  \* in ticks
  TicksPerSecond,
  Resendable,            \* the bytes a device may ask to be sent again
  MaxResends             \* bound: how often it does

Bits == 0 .. 7
Bytes == SUBSET Bits
Ports == {1, 2}

Kinds == {"none", "keyboard", "mouse"}

\* A machine: whether the FADT tells of a controller; what is attached to the
\* ports, how many the controller has; whether it passes its test and port 1
\* its own; the configuration byte of the firmware and a byte it has not read.
MachineType ==
  [detected : BOOLEAN, attached : [Ports -> Kinds], channels : {1, 2},
   healthy : BOOLEAN, good : BOOLEAN, config : Bytes, leftover : BOOLEAN]

ASSUME Ps2Assumption ==
  /\ Machines \subseteq MachineType
  /\ PS2_TIMEOUT_DURATION \in Nat \ {0}
  /\ TicksPerSecond \in Nat \ {0}
  /\ Resendable \subseteq Bytes
  /\ MaxResends \in Nat

VARIABLES
  todo,      \* the operations the thread has still to execute
  byte,      \* the value read last: response, response_byte
  ret,       \* the value returned last by an int function
  start,     \* timeout_start of the innermost timed loop
  ack_start, \* timeout_start of ps2_wait_for_ack
  response,  \* the data of ps2_port_identify's response
  port1,     \* port1 and port2, which are -1 until their test: true in C
  port2,
  dual_channel,
  ps2_error,
  ps2_initialized,
  identity,  \* identity1 and identity2
  ticks,     \* of Timers
  handler,   \* "none", or "flush", in the handler of IRQ 12
  machine,
  config,    \* the controller: its configuration byte,
  in,        \*   its input buffer,
  out,       \*   its output buffer,
  expects,   \*   and what it takes the next data byte for
  dev        \* the devices

thread == <<todo, byte, ret, start, ack_start, response>>
driver == <<port1, port2, dual_channel, ps2_error, ps2_initialized, identity>>
controller == <<config, in, out, expects>>
ps2vars == <<thread, driver, controller, ticks, handler, machine, dev>>

-----------------------------------------------------------------------------
(* Bytes. *)

Weight == <<1, 2, 4, 8, 16, 32, 64, 128>>

Byte(v) == {b \in Bits : (v \div Weight[b + 1]) % 2 = 1}

PS2_READ_CONFIG_BYTE == Byte(32)
PS2_WRITE_CONFIG_BYTE == Byte(96)
PS2_CONTROLLER_TEST == Byte(170)
PS2_DISABLE_PORT == Byte(173)
PS2_DISABLE_PORT_2 == Byte(167)
PS2_ENABLE_PORT == Byte(174)
PS2_ENABLE_PORT_2 == Byte(168)
PS2_TEST_PORT == Byte(171)
PS2_WRITE_BYTE_INPUT_PORT_2 == Byte(212)

PS2_CONTROLLER_TEST_PASS == Byte(85)
PS2_CONTROLLER_TEST_FAIL == Byte(252)
PS2_PORT_TEST_PASS == Byte(0)
PS2_PORT_TEST_FAIL == {Byte(v) : v \in 1 .. 4}

PS2_DISABLE_SCANNING == Byte(245)
PS2_ENABLE_SCANNING == Byte(244)
PS2_IDENTIFY == Byte(242)
PS2_ACK == Byte(250)
PS2_RESEND == Byte(254)

\* Bits of the configuration byte.
Irq(p) == IF p = 1 THEN 0 ELSE 1
ClockOff(p) == IF p = 1 THEN 4 ELSE 5
Translation == 6

-----------------------------------------------------------------------------
(* The thread: primitives. *)

\* Where a byte in the output buffer is from: a port, or
Nobody == 0
Controller == 3

NoByte == [byte |-> {}, src |-> Nobody, irq |-> FALSE]
NoInput == [byte |-> {}, port |-> "none"]

OutputFull == out.src # Nobody
InputFull == in.port # "none"

\* The thread runs while no handler does.
At(op) == handler = "none" /\ todo # <<>> /\ todo[1][1] = op
Arg(k) == todo[1][k]
Then(ops) == todo' = ops \o Tail(todo)
ReturnFrom == Then(<<>>)

\* ps2_send_cmd and ps2_write_data, once the input buffer is empty.
Out ==
  /\ At("outb")
  /\ ~InputFull
  /\ in' = [byte |-> Arg(3), port |-> Arg(2)]
  /\ ReturnFrom
  /\ UNCHANGED <<byte, ret, start, ack_start, response, driver, config, out,
                 expects, ticks, handler, machine, dev>>

ps2_send_cmd(c) == <<"outb", "command", c>>
ps2_write_data(b) == <<"outb", "data", b>>

\* Faulty variant: the loop tests the status and reads nothing.
Unread == out

Discarded == NoByte

\* flush_ps2_output_buffer: a turn of its loop, and its end.
Flush ==
  /\ At("flush")
  /\ IF OutputFull THEN out' = Discarded /\ UNCHANGED todo
     ELSE ReturnFrom /\ UNCHANGED out
  /\ UNCHANGED <<byte, ret, start, ack_start, response, driver, config, in,
                 expects, ticks, handler, machine, dev>>

\* ps2_read_data, which waits for ever.
ReadData ==
  /\ At("read_data")
  /\ OutputFull
  /\ byte' = out.byte
  /\ out' = NoByte
  /\ ReturnFrom
  /\ UNCHANGED <<ret, start, ack_start, response, driver, config, in, expects,
                 ticks, handler, machine, dev>>

read_ps2_controller_config ==
  <<<<"flush">>, ps2_send_cmd(PS2_READ_CONFIG_BYTE), <<"read_data">>>>

write_ps2_controller_config(b) ==
  <<ps2_send_cmd(PS2_WRITE_CONFIG_BYTE), ps2_write_data(b)>>

-----------------------------------------------------------------------------
(* ps2_init. *)

\* The operations of ps2_init; those between "..." depend on what was read.
ps2_init ==
  <<ps2_send_cmd(PS2_DISABLE_PORT), ps2_send_cmd(PS2_DISABLE_PORT_2),
    <<"flush">>>>
  \o read_ps2_controller_config
  \o <<<<"first_check">>,
       ps2_send_cmd(PS2_CONTROLLER_TEST), <<"read_data">>, <<"self_test">>,
       <<"second_test">>,
       ps2_send_cmd(PS2_TEST_PORT), <<"read_data">>, <<"port_1_test">>,
       <<"test_port_2">>,
       <<"enable_ports">>>>
  \o read_ps2_controller_config
  \o <<<<"enable_interrupts">>,
       <<"identify", 1>>, <<"identified", 1>>,
       <<"identify", 2>>, <<"identified", 2>>,
       <<"initialized">>>>

\* A step of the thread that touches no hardware.
Local == UNCHANGED <<controller, ticks, handler, machine, dev>>

\* Faulty variant: the mask keeps bit 6, the translation.
FirstMaskTranslated == Byte(252)

FirstMask == Byte(188)

\* Bit 5 is compared with 1 (ps2.c:26): never equal.  Then interrupts and
\* translation are switched off.
FirstCheck ==
  /\ At("first_check")
  /\ dual_channel' = (byte \cap {5} = Byte(1))
  /\ Then(write_ps2_controller_config(byte \cap FirstMask) \o read_ps2_controller_config)
  /\ UNCHANGED <<byte, ret, start, ack_start, response, port1, port2, ps2_error,
                 ps2_initialized, identity>>
  /\ Local

\* ps2_init returns 1; keyboard_init is what follows.
Fail == todo' = <<<<"keyboard_init">>>>

SelfTest ==
  /\ At("self_test")
  /\ \/ byte = PS2_CONTROLLER_TEST_PASS /\ ReturnFrom
     \/ byte = PS2_CONTROLLER_TEST_FAIL /\ Fail
     \/ /\ byte \notin {PS2_CONTROLLER_TEST_PASS, PS2_CONTROLLER_TEST_FAIL}
        /\ todo' = <<<<"read_data">>>> \o todo
  /\ UNCHANGED <<byte, ret, start, ack_start, response, driver>>
  /\ Local

SecondTest ==
  /\ At("second_test")
  /\ Then(IF dual_channel THEN <<>>
          ELSE <<ps2_send_cmd(PS2_ENABLE_PORT_2)>> \o read_ps2_controller_config
               \o <<<<"second_check">>>>)
  /\ UNCHANGED <<byte, ret, start, ack_start, response, driver>>
  /\ Local

SecondCheck ==
  /\ At("second_check")
  /\ dual_channel' = (5 \notin byte)
  /\ Then(IF 5 \in byte THEN <<>> ELSE <<ps2_send_cmd(PS2_DISABLE_PORT_2)>>)
  /\ UNCHANGED <<byte, ret, start, ack_start, response, port1, port2, ps2_error,
                 ps2_initialized, identity>>
  /\ Local

\* The switch on the answer; another value is read again.
PortTest(port, portv, op) ==
  /\ At(op)
  /\ IF byte \in {PS2_PORT_TEST_PASS} \cup PS2_PORT_TEST_FAIL
     THEN portv' = (IF byte = PS2_PORT_TEST_PASS THEN 1 ELSE 0) /\ ReturnFrom
     ELSE todo' = <<<<"read_data">>>> \o todo /\ UNCHANGED portv
  /\ UNCHANGED <<byte, ret, start, ack_start, response, port, dual_channel,
                 ps2_error, ps2_initialized, identity>>
  /\ Local

Port1Test == PortTest(port2, port1, "port_1_test")
Port2Test == PortTest(port1, port2, "port_2_test")

\* Port 2 is tested with the command of port 1 (ps2.c:100).
TestPort2 ==
  /\ At("test_port_2")
  /\ Then(IF dual_channel
          THEN <<ps2_send_cmd(PS2_TEST_PORT), <<"read_data">>, <<"port_2_test">>>>
          ELSE <<>>)
  /\ UNCHANGED <<byte, ret, start, ack_start, response, driver>>
  /\ Local

\* -1, not tested, is true.
Usable(p) == (IF p = 1 THEN port1 ELSE port2) # 0

\* The elements of the sequence s for which the condition holds.
OpsIf(condition, s) == IF condition THEN s ELSE <<>>

EnablePorts ==
  /\ At("enable_ports")
  /\ IF ~Usable(1) /\ ~Usable(2) THEN Fail
     ELSE Then(OpsIf(Usable(1), <<ps2_send_cmd(PS2_ENABLE_PORT)>>)
               \o OpsIf(Usable(2), <<ps2_send_cmd(PS2_ENABLE_PORT_2)>>))
  /\ UNCHANGED <<byte, ret, start, ack_start, response, driver>>
  /\ Local

EnableInterrupts ==
  /\ At("enable_interrupts")
  /\ Then(write_ps2_controller_config(byte \cup {Irq(p) : p \in {q \in Ports : Usable(q)}})
          \o read_ps2_controller_config)
  /\ UNCHANGED <<byte, ret, start, ack_start, response, driver>>
  /\ Local

Initialized ==
  /\ At("initialized")
  /\ ps2_initialized' = TRUE
  /\ ReturnFrom
  /\ UNCHANGED <<byte, ret, start, ack_start, response, port1, port2,
                 dual_channel, ps2_error, identity>>
  /\ Local

-----------------------------------------------------------------------------
(* Bytes to and from a device. *)

\* Faulty variant: an error no caller looks for.
WriteErrorMinusOne == -1

WriteError == 1

\* ps2_port_write_data: its own wait compares a bit of value 2 with 1 and is
\* over at once (ps2.c:257), so its time-out never comes.
WritePort ==
  /\ At("write")
  /\ LET p == Arg(2) IN
       /\ ret' = IF Usable(p) THEN 0 ELSE WriteError
       /\ Then(IF ~Usable(p) THEN <<>>
               ELSE OpsIf(p = 2, <<ps2_send_cmd(PS2_WRITE_BYTE_INPUT_PORT_2)>>)
                    \o <<ps2_write_data(Arg(3))>>)
  /\ UNCHANGED <<byte, start, ack_start, response, driver>>
  /\ Local

ps2_port_write_data(p, b) == <<<<"write", p, b>>>>

\* The timed loops start; ps2_wait_for_ack polls for a byte at once.
WaitForAck ==
  /\ At("ack")
  /\ ack_start' = ticks
  /\ start' = ticks
  /\ Then(<<<<"poll">>, <<"ack_test", Arg(2), Arg(3)>>>>)
  /\ UNCHANGED <<byte, ret, response, driver>>
  /\ Local

ps2_wait_for_ack(p, b) == <<<<"ack", p, b>>>>

TimedOut == ticks >= start + PS2_TIMEOUT_DURATION

\* ps2_pol_recieve_byte finds a byte.
PollReceived ==
  /\ At("poll")
  /\ OutputFull
  /\ byte' = out.byte
  /\ out' = NoByte
  /\ ReturnFrom
  /\ UNCHANGED <<ret, start, ack_start, response, driver, config, in, expects,
                 ticks, handler, machine, dev>>

\* Or gives up, with the error flag and a value that does not matter.
PollTimedOut ==
  /\ At("poll")
  /\ ~OutputFull
  /\ TimedOut
  /\ ps2_error' = TRUE
  /\ byte' = Byte(1)
  /\ ReturnFrom
  /\ UNCHANGED <<ret, start, ack_start, response, port1, port2, dual_channel,
                 ps2_initialized, identity>>
  /\ Local

\* The loop of ps2_wait_for_ack, up to the comparison of its time-out.
AckTest ==
  /\ At("ack_test")
  /\ LET done == byte = PS2_ACK \/ ps2_error IN
       /\ ret' = IF ~done THEN ret ELSE IF byte = PS2_ACK THEN 0 ELSE 1
       /\ ps2_error' = (ps2_error /\ byte = PS2_ACK)
       /\ Then(IF done THEN <<>>
               ELSE OpsIf(byte = PS2_RESEND, ps2_port_write_data(Arg(2), Arg(3)))
                    \o <<<<"ack_time", Arg(2), Arg(3)>>>>)
  /\ UNCHANGED <<byte, start, ack_start, response, port1, port2, dual_channel,
                 ps2_initialized, identity>>
  /\ Local

\* Seconds are compared with ticks (ps2.c:290).
AckTime ==
  /\ At("ack_time")
  /\ IF ticks \div TicksPerSecond >= ack_start + PS2_TIMEOUT_DURATION
     THEN ret' = 1 /\ ReturnFrom /\ UNCHANGED start
     ELSE /\ start' = ticks
          /\ Then(<<<<"poll">>, <<"ack_test", Arg(2), Arg(3)>>>>)
          /\ UNCHANGED ret
  /\ UNCHANGED <<byte, ack_start, response, driver>>
  /\ Local

-----------------------------------------------------------------------------
(* ps2_port_identify. *)

Gone == byte' = {} /\ ret' = 0 /\ start' = 0 /\ ack_start' = 0 /\ response' = <<>>

Command(p, b) == ps2_port_write_data(p, b) \o ps2_wait_for_ack(p, b)

Identify ==
  /\ At("identify")
  /\ response' = <<>>
  /\ Then(Command(Arg(2), PS2_DISABLE_SCANNING) \o <<<<"disabled", Arg(2)>>>>)
  /\ UNCHANGED <<byte, ret, start, ack_start, driver>>
  /\ Local

\* A device that does not acknowledge: the error flag is left set.
ScanningDisabled ==
  /\ At("disabled")
  /\ ps2_error' = (ps2_error \/ ret = 1)
  /\ Then(IF ret = 1 THEN <<>>
          ELSE Command(Arg(2), PS2_IDENTIFY) \o <<<<"id_loop", Arg(2)>>>>)
  /\ UNCHANGED <<byte, ret, start, ack_start, response, port1, port2,
                 dual_channel, ps2_initialized, identity>>
  /\ Local

IdLoop ==
  /\ At("id_loop")
  /\ start' = ticks
  /\ Then(IF Len(response) = 2 THEN Command(Arg(2), PS2_ENABLE_SCANNING)
          ELSE <<<<"id_wait", Arg(2)>>>>)
  /\ UNCHANGED <<byte, ret, ack_start, response, driver>>
  /\ Local

\* Faulty variant: the end of the answer does not enable scanning again.
AnswerEndsMute(p) == <<>>

AnswerEnds(p) == Command(p, PS2_ENABLE_SCANNING)

\* A device sends up to two bytes; the end of them is a time-out.
IdWait ==
  /\ At("id_wait")
  /\ OutputFull \/ TimedOut
  /\ start' = ticks
  /\ Then(IF OutputFull THEN <<<<"poll">>, <<"id_byte", Arg(2)>>>>
          ELSE AnswerEnds(Arg(2)))
  /\ UNCHANGED <<byte, ret, ack_start, response, driver>>
  /\ Local

\* The error flag ends the answer, whoever set it.
IdByte ==
  /\ At("id_byte")
  /\ ps2_error' = FALSE
  /\ IF ps2_error THEN ReturnFrom /\ UNCHANGED response
     ELSE response' = Append(response, byte) /\ Then(<<<<"id_loop", Arg(2)>>>>)
  /\ UNCHANGED <<byte, ret, start, ack_start, port1, port2, dual_channel,
                 ps2_initialized, identity>>
  /\ Local

\* ps2_port_identify returns: its variables are gone.
Identified ==
  /\ At("identified")
  /\ identity' = [identity EXCEPT ![Arg(2)] = response]
  /\ Gone
  /\ ReturnFrom
  /\ UNCHANGED <<port1, port2, dual_channel, ps2_error, ps2_initialized>>
  /\ Local

Ps2Thread ==
  \/ Out \/ Flush \/ ReadData
  \/ FirstCheck \/ SelfTest \/ SecondTest \/ SecondCheck \/ Port1Test \/ Port2Test
  \/ TestPort2 \/ EnablePorts \/ EnableInterrupts \/ Initialized
  \/ WritePort \/ WaitForAck \/ PollReceived \/ PollTimedOut \/ AckTest \/ AckTime
  \/ Identify \/ ScanningDisabled \/ IdLoop \/ IdWait \/ IdByte \/ Identified

-----------------------------------------------------------------------------
(* The handler of IRQ 12 (idt.c:54-56), which flushes the output buffer. *)

EnterMouseIrq ==
  /\ handler = "none"
  /\ out.src = 2 /\ out.irq
  /\ handler' = "flush"
  /\ out' = [out EXCEPT !.irq = FALSE]
  /\ UNCHANGED <<thread, driver, config, in, expects, ticks, machine, dev>>

MouseIrq ==
  /\ handler = "flush"
  /\ IF OutputFull THEN out' = Discarded /\ UNCHANGED handler
     ELSE handler' = "none" /\ UNCHANGED out
  /\ UNCHANGED <<thread, driver, config, in, expects, ticks, machine, dev>>

-----------------------------------------------------------------------------
(* The controller and the devices. *)

Silent == UNCHANGED <<thread, driver, ticks, handler, machine>>

AnswerTo(c) ==
  CASE c = PS2_READ_CONFIG_BYTE -> config
    [] c = PS2_CONTROLLER_TEST ->
         IF machine.healthy THEN PS2_CONTROLLER_TEST_PASS ELSE PS2_CONTROLLER_TEST_FAIL
    [] c = PS2_TEST_PORT ->
         IF machine.good THEN PS2_PORT_TEST_PASS ELSE Byte(1)

\* A command with an answer: it needs room for it.
ControllerAnswers ==
  /\ in.port = "command"
  /\ in.byte \in {PS2_READ_CONFIG_BYTE, PS2_CONTROLLER_TEST, PS2_TEST_PORT}
  /\ ~OutputFull
  /\ out' = [byte |-> AnswerTo(in.byte), src |-> Controller, irq |-> Irq(1) \in config]
  /\ in' = NoInput
  /\ expects' = "port 1"
  /\ UNCHANGED <<config, dev>>
  /\ Silent

\* A controller with one port knows nothing of a second: its clock is off,
\* and a byte for it goes to the first.
ControllerObeys ==
  /\ in.port = "command"
  /\ LET c == in.byte
         dual == machine.channels = 2
     IN /\ c \notin {PS2_READ_CONFIG_BYTE, PS2_CONTROLLER_TEST, PS2_TEST_PORT}
        /\ config' = (config \cup {ClockOff(p) : p \in {q \in Ports :
                        c = <<PS2_DISABLE_PORT, PS2_DISABLE_PORT_2>>[q]}})
                     \ {ClockOff(p) : p \in {q \in 1 .. machine.channels :
                        c = <<PS2_ENABLE_PORT, PS2_ENABLE_PORT_2>>[q]}}
        /\ expects' = CASE c = PS2_WRITE_CONFIG_BYTE -> "config"
                        [] c = PS2_WRITE_BYTE_INPUT_PORT_2 /\ dual -> "port 2"
                        [] OTHER -> "port 1"
  /\ in' = NoInput
  /\ UNCHANGED <<out, dev>>
  /\ Silent

TakesConfig ==
  /\ in.port = "data"
  /\ expects = "config"
  /\ config' = in.byte \cup (IF machine.channels = 1 THEN {5} ELSE {})
  /\ in' = NoInput
  /\ expects' = "port 1"
  /\ UNCHANGED <<out, dev>>
  /\ Silent

PS2_KEYBOARD_SET_SCANCODE_SET == Byte(240)

IdOf(kind) ==
  CASE kind = "keyboard" -> <<Byte(171), Byte(131)>>
    [] kind = "mouse" -> <<Byte(0)>>

\* What a device that takes byte b becomes.
Taken(d, kind, b) ==
  CASE d.param -> [d EXCEPT !.param = FALSE, !.set = IF b = Byte(1) THEN 1 ELSE @,
                            !.queue = Append(@, PS2_ACK)]
    [] ~d.param /\ b = PS2_DISABLE_SCANNING ->
         [d EXCEPT !.scanning = FALSE, !.queue = Append(@, PS2_ACK)]
    [] ~d.param /\ b = PS2_ENABLE_SCANNING ->
         [d EXCEPT !.scanning = TRUE, !.queue = Append(@, PS2_ACK)]
    [] ~d.param /\ b = PS2_IDENTIFY ->
         [d EXCEPT !.queue = @ \o <<PS2_ACK>> \o IdOf(kind)]
    [] ~d.param /\ b = PS2_KEYBOARD_SET_SCANCODE_SET ->
         [d EXCEPT !.param = TRUE, !.queue = Append(@, PS2_ACK)]
    [] OTHER -> [d EXCEPT !.queue = Append(@, PS2_RESEND)]

\* The byte goes to a device, which takes it or asks to have it again; where
\* there is none it is lost.
DeviceTakes ==
  /\ in.port = "data"
  /\ expects \in {"port 1", "port 2"}
  /\ LET p == IF expects = "port 2" THEN 2 ELSE 1
         kind == machine.attached[p]
     IN IF kind = "none" THEN UNCHANGED dev
        ELSE \/ dev' = [dev EXCEPT ![p] = Taken(@, kind, in.byte)]
             \/ /\ in.byte \in Resendable
                /\ dev[p].resends < MaxResends
                /\ dev' = [dev EXCEPT ![p].queue = Append(@, PS2_RESEND),
                                      ![p].resends = @ + 1]
  /\ in' = NoInput
  /\ expects' = "port 1"
  /\ UNCHANGED <<config, out>>
  /\ Silent

DeviceSends(p) ==
  /\ dev[p].queue # <<>>
  /\ ClockOff(p) \notin config
  /\ ~OutputFull
  /\ out' = [byte |-> Head(dev[p].queue), src |-> p, irq |-> Irq(p) \in config]
  /\ dev' = [dev EXCEPT ![p].queue = Tail(@)]
  /\ UNCHANGED <<config, in, expects>>
  /\ Silent

\* A byte is on its way that the driver can still get.
InFlight ==
  \/ InputFull
  \/ OutputFull
  \/ \E p \in Ports : dev[p].queue # <<>> /\ ClockOff(p) \notin config

\* Time passes while the driver waits for a byte; a controller and a device
\* answer before a time-out is over.
Tick ==
  /\ At("poll") \/ At("id_wait")
  /\ ~OutputFull
  /\ ticks < start + PS2_TIMEOUT_DURATION
  /\ InFlight => ticks + 1 < start + PS2_TIMEOUT_DURATION
  /\ ticks' = ticks + 1
  /\ UNCHANGED <<thread, driver, controller, handler, machine, dev>>

Hardware ==
  \/ ControllerAnswers \/ ControllerObeys \/ TakesConfig \/ DeviceTakes
  \/ \E p \in Ports : DeviceSends(p)
  \/ Tick

-----------------------------------------------------------------------------

Ps2TypeOK ==
  /\ byte \in Bytes
  /\ ret \in {0, 1}
  /\ {start, ack_start, ticks} \subseteq Nat
  /\ response \in Seq(Bytes) /\ Len(response) <= 2
  /\ {port1, port2} \subseteq {-1, 0, 1}
  /\ dual_channel \in BOOLEAN /\ ps2_error \in BOOLEAN /\ ps2_initialized \in BOOLEAN
  /\ identity \in [Ports -> Seq(Bytes)]
  /\ handler \in {"none", "flush"}
  /\ machine \in Machines
  /\ config \in Bytes
  /\ in \in [byte : Bytes, port : {"none", "command", "data"}]
  /\ out \in [byte : Bytes, src : {Nobody, 1, 2, Controller}, irq : BOOLEAN]
  /\ expects \in {"config", "port 1", "port 2"}
  /\ DOMAIN dev = Ports

\* The globals as the loader leaves them; interrupts off in no particular way,
\* for the firmware's configuration byte is any of the machine's.
Ps2Init ==
  /\ byte = {} /\ ret = 0 /\ start = 0 /\ ack_start = 0 /\ response = <<>>
  /\ port1 = -1 /\ port2 = -1
  /\ dual_channel = FALSE /\ ps2_error = FALSE /\ ps2_initialized = FALSE
  /\ identity = [p \in Ports |-> <<>>]
  /\ ticks = 0
  /\ handler = "none"
  /\ machine \in Machines
  /\ config = machine.config
  /\ in = NoInput
  /\ out = IF machine.leftover THEN [byte |-> Byte(30), src |-> 1, irq |-> FALSE] ELSE NoByte
  /\ expects = "port 1"
  /\ dev = [p \in Ports |-> [scanning |-> TRUE, set |-> 2, param |-> FALSE,
                             queue |-> <<>>, resends |-> 0, held |-> {}]]

=============================================================================
