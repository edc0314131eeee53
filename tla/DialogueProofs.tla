--------------------------- MODULE DialogueProofs ---------------------------
(***************************************************************************)
(* What ps2_init and keyboard_init make of the devices' answers: the       *)
(* identity of port 1, that an enabled port holds a keyboard in scan code  *)
(* set 1, and that shift_down is never left set.  The invariant, Story,    *)
(* says of every place of the program what is still to be done and which   *)
(* bytes of the devices are still due.  A theorem assumes, where it needs  *)
(* them, that a device asks for a byte again fewer times than a second has *)
(* ticks (Patient), that it does not ask for the parameter of scan code    *)
(* set again, which nobody waits for, and that the user types at port 1.   *)
(***************************************************************************)
EXTENDS KeyboardProofs

-----------------------------------------------------------------------------
(* A dialogue with a device. *)

\* The device that a byte for port p reaches; that the clock of port q is on;
\* what the device there identifies itself with; the bytes of it still to be read.
Reached(p) == IF machine.channels = 1 THEN 1 ELSE p
Live(q) == ClockOff(q) \notin config
Identity(q) == IF Live(q) /\ machine.attached[q] # "none" THEN IdOf(machine.attached[q]) ELSE <<>>
Due(q) == (IF out.src = q THEN <<out.byte>> ELSE <<>>) \o (IF Live(q) THEN dev[q].queue ELSE <<>>)

\* The port that the driver names and the device that hears it; whether every
\* answer arrives; whether the error flag is the dialogue's own; the identity.
Dialogue == [port : Ports, to : Ports, exact : BOOLEAN, sound : BOOLEAN, answer : Seq(Bytes)]

DialogueWith(p) ==
  [port |-> p, to |-> Reached(p),
   exact |-> Reached(p) = 1 /\ Usable(1) /\ Usable(p) /\ machine.attached[1] # "none",
   sound |-> p = 1 \/ identity[1] # <<>>,
   answer |-> Identity(Reached(p))]

Fits(d) ==
  /\ d.to = Reached(d.port) /\ d.answer = Identity(d.to)
  /\ d.exact => d.to = 1 /\ d.sound /\ Usable(d.port) /\ Live(1) /\ machine.attached[1] # "none"

\* The other port is silent, and only the handler of IRQ 12 takes bytes away.
Calls(q) == expects = IF q = 2 THEN "port 2" ELSE "port 1"
Other(q) == 3 - q
Quiet(d) ==
  /\ Due(Other(d.to)) = <<>> /\ ~dev[Other(d.to)].param /\ out.src # Controller
  /\ d.to = 1 => handler = "none"
  /\ in.port = "data" => Calls(d.to)
  /\ \A r \in Ports : dev[r].resends <= MaxResends
  /\ ~keyboard_enabled /\ ~shift_down

\* What is left of a sequence of bytes once the first ones are gone.
Rests(s) == {s, <<>>} \cup (IF Len(s) = 2 THEN {<<s[2]>>} ELSE {})

\* What a device answers to a command, after PS2_ACK, and what it then is.
Reply(d, c) == IF c = PS2_IDENTIFY THEN d.answer ELSE <<>>
Effect(d, c) ==
  /\ dev[d.to].param <=> c = PS2_KEYBOARD_SET_SCANCODE_SET
  /\ c = PS2_ENABLE_SCANNING => dev[d.to].scanning

\* Nothing is under way; a byte is to be sent; it is not taken yet; it is refused,
\* or accepted; its answer is lost, or never comes.
Empty == ~InputFull /\ expects = "port 1"
Ready(d, c) == dev[d.to].param <=> c = Byte(1)
Still(d, c) == Empty /\ Due(d.to) = <<>> /\ Ready(d, c)
Prepared(d, c) ==
  /\ Due(d.to) = <<>> /\ Ready(d, c)
  /\ \/ d.port = 2 /\ in = [byte |-> PS2_WRITE_BYTE_INPUT_PORT_2, port |-> "command"]
     \/ ~InputFull /\ Calls(d.to)
Untaken(d, c) ==
  /\ Usable(d.port) /\ in = [byte |-> c, port |-> "data"] /\ Calls(d.to)
  /\ Due(d.to) = <<>> /\ Ready(d, c)
Refused(d) ==
  Empty /\ Due(d.to) = <<PS2_RESEND>> /\ dev[d.to].resends > 0 /\ ~dev[d.to].param
Accepted(d, c) == Empty /\ Due(d.to) = <<PS2_ACK>> \o Reply(d, c) /\ Effect(d, c)
Lost(d, c) ==
  /\ ~d.exact /\ Empty /\ Due(d.to) \in Rests(Reply(d, c))
  /\ dev[d.to].param => c = PS2_KEYBOARD_SET_SCANCODE_SET
Pending(d, c) == Untaken(d, c) \/ Refused(d) \/ Accepted(d, c) \/ Lost(d, c)

\* The time that the refusals so far may have taken.
Allowed(d) == ack_start + dev[d.to].resends * (PS2_TIMEOUT_DURATION - 1)
Pace(d, c, t) ==
  \/ Lost(d, c)
  \/ t <= Allowed(d) /\ (Due(d.to) = <<PS2_RESEND>> => t + (PS2_TIMEOUT_DURATION - 1) <= Allowed(d))
Patience == InFlight => ticks < start + PS2_TIMEOUT_DURATION

\* A byte is written, and M follows.
Writes(d, c, M) ==
  \/ todo = Before(<<"write", d.port, c>>, M) /\ Still(d, c)
  \/ /\ todo = Before(ps2_send_cmd(PS2_WRITE_BYTE_INPUT_PORT_2), Before(ps2_write_data(c), M))
     /\ Usable(d.port) /\ d.port = 2 /\ ret = 0 /\ Still(d, c)
  \/ /\ todo = Before(ps2_write_data(c), M)
     /\ Usable(d.port) /\ ret = 0 /\ Prepared(d, c)

Clean(d) == d.sound => ~ps2_error

\* What has been read is the acknowledgement, or asks for the byte again, or is
\* something else that nobody waits for.
Heard(d, c) ==
  /\ Empty
  /\ \/ /\ byte = PS2_ACK /\ Effect(d, c) /\ Due(d.to) \in Rests(Reply(d, c))
        /\ d.exact => Due(d.to) = Reply(d, c)
     \/ byte = PS2_RESEND /\ Due(d.to) = <<>> /\ ~dev[d.to].param /\ ticks <= Allowed(d)
     \/ byte \notin {PS2_ACK, PS2_RESEND} /\ Lost(d, c)
  /\ d.sound /\ ps2_error => byte \notin {PS2_ACK, PS2_RESEND}

AckOps(d, c, N) == Before(<<"ack", d.port, c>>, N)
TestOps(d, c, N) == Before(<<"ack_test", d.port, c>>, N)
TimeOps(d, c, N) == Before(<<"ack_time", d.port, c>>, N)

\* The command is acknowledged, or it is given up; N follows.
Acknowledging(d, c, N) ==
  \/ todo = AckOps(d, c, N) /\ Pending(d, c) /\ Clean(d)
  \/ /\ todo = Before(<<"poll">>, TestOps(d, c, N))
     /\ Pending(d, c) /\ Pace(d, c, start) /\ Patience /\ Clean(d)
  \/ todo = TestOps(d, c, N) /\ Heard(d, c)
  \/ Writes(d, c, TimeOps(d, c, N)) /\ ticks <= Allowed(d) /\ Clean(d)
  \/ todo = TimeOps(d, c, N) /\ Pending(d, c) /\ Pace(d, c, ticks) /\ Clean(d)
Commanding(d, c, N) ==
  (Writes(d, c, AckOps(d, c, N)) /\ Clean(d)) \/ Acknowledging(d, c, N)
Outcome(d, c) ==
  /\ Empty /\ Due(d.to) \in Rests(Reply(d, c)) /\ Clean(d)
  /\ \/ ret = 0 /\ Effect(d, c) /\ (d.exact => Due(d.to) = Reply(d, c))
     \/ ret = 1 /\ ~d.exact /\ (dev[d.to].param => c = PS2_KEYBOARD_SET_SCANCODE_SET)

-----------------------------------------------------------------------------
(* ps2_port_identify. *)

Identifying(d) ==
  /\ Empty /\ ~dev[d.to].param /\ Due(d.to) \in Rests(d.answer)
  /\ Len(response) + Len(Due(d.to)) <= Len(d.answer)
  /\ d.exact => response \o Due(d.to) = d.answer
GotByte(d) ==
  /\ Empty /\ ~dev[d.to].param /\ Due(d.to) \in Rests(d.answer)
  /\ Len(response) < 2
  /\ d.sound /\ ps2_error => Due(d.to) = <<>>
  /\ d.exact => ~ps2_error /\ Append(response, byte) \o Due(d.to) = d.answer
  /\ Len(response) <= Len(d.answer)
  /\ ~ps2_error => Len(response) + 1 + Len(Due(d.to)) <= Len(d.answer)
Result(d) ==
  /\ Empty /\ ~dev[d.to].param /\ Len(response) <= Len(d.answer)
  /\ d.sound \/ Len(response) = 2 => Due(d.to) = <<>>
  /\ d.exact => response = d.answer /\ dev[d.to].scanning /\ ~ps2_error

DisabledOps(d, N) == Before(<<"disabled", d.port>>, N)
LoopOps(d, N) == Before(<<"id_loop", d.port>>, N)
WaitOps(d, N) == Before(<<"id_wait", d.port>>, N)
ByteOps(d, N) == Before(<<"id_byte", d.port>>, N)

Talk(d, N) ==
  \/ todo = Before(<<"identify", d.port>>, N) /\ Still(d, PS2_DISABLE_SCANNING) /\ Clean(d)
  \/ Commanding(d, PS2_DISABLE_SCANNING, DisabledOps(d, N)) /\ response = <<>>
  \/ todo = DisabledOps(d, N) /\ Outcome(d, PS2_DISABLE_SCANNING) /\ response = <<>>
  \/ Commanding(d, PS2_IDENTIFY, LoopOps(d, N)) /\ response = <<>>
  \/ todo = LoopOps(d, N) /\ Identifying(d) /\ Clean(d)
  \/ todo = WaitOps(d, N) /\ Identifying(d) /\ Clean(d) /\ Patience /\ Len(response) < 2
  \/ /\ todo = Before(<<"poll">>, ByteOps(d, N))
     /\ Identifying(d) /\ Clean(d) /\ Patience /\ Len(response) < 2 /\ (d.exact => OutputFull)
  \/ todo = ByteOps(d, N) /\ GotByte(d)
  \/ /\ Commanding(d, PS2_ENABLE_SCANNING, N)
     /\ Len(response) <= Len(d.answer) /\ (d.exact => response = d.answer)
  \/ todo = N /\ Result(d)

-----------------------------------------------------------------------------
(* From the first dialogue to the end. *)

AtDone == Before(<<"initialized">>, AtKeyboardInit)
AtIdentified2 == Before(<<"identified", 2>>, AtDone)
AtIdentify2 == Before(<<"identify", 2>>, AtIdentified2)
AtIdentified1 == Before(<<"identified", 1>>, AtIdentify2)

Scans == Identity(1) # <<>> => dev[1].scanning
Known == identity[1] = Identity(1)

Identifying1 ==
  /\ ~ps2_initialized
  /\ \E d \in {DialogueWith(1)} : Quiet(d) /\ Talk(d, AtIdentified1)
Identifying2 ==
  /\ ~ps2_initialized /\ Known
  /\ \E d \in {DialogueWith(2)} :
       /\ Quiet(d) /\ Talk(d, AtIdentified2)
       /\ d.to = 2 \/ ~Usable(2) => Scans
Concluding ==
  /\ Known /\ Len(identity[2]) <= Len(Identity(Reached(2))) /\ Scans
  /\ \E d \in {DialogueWith(2)} :
       /\ Quiet(d) /\ Empty /\ ~dev[d.to].param
       /\ identity[1] # <<>> \/ Len(identity[2]) = 2 => Due(d.to) = <<>>
  /\ todo \in {AtDone, AtKeyboardInit}

Setting(p) == [port |-> p, to |-> p, exact |-> FALSE, sound |-> FALSE, answer |-> Identity(p)]
HasKeyboard(p) ==
  p <= machine.channels /\ Live(p) /\ machine.attached[p] = "keyboard" /\ Reached(p) = p
  /\ (p = 2 => Len(Identity(1)) # 2)

EnableOps == <<<<"enable">>, <<"flush">>>>
LastOps(d) == Before(<<"check">>, EnableOps)
SetOps(d) == Before(<<"check">>, Before(<<"write", d.port, Byte(1)>>, LastOps(d)))
SetAckOps(d) == AckOps(d, PS2_KEYBOARD_SET_SCANCODE_SET, SetOps(d))

\* Byte 1, the parameter, is still to be taken, or has been taken.
Finishing(q) ==
  \/ in = [byte |-> Byte(1), port |-> "data"] /\ Calls(q) /\ dev[q].param
  \/ ~InputFull /\ (Byte(1) \notin Resendable => ~dev[q].param /\ dev[q].set = 1)
Finished(q) ==
  \/ in = [byte |-> Byte(1), port |-> "data"] /\ Calls(q) /\ dev[q].param /\ Due(q) = <<>>
  \/ /\ ~InputFull
     /\ Byte(1) \notin Resendable =>
          ~dev[q].param /\ dev[q].set = 1 /\ Due(q) \in {<<>>, <<PS2_ACK>>}

Correcting(d) ==
  \/ Writes(d, PS2_KEYBOARD_SET_SCANCODE_SET, Before(<<"check">>, SetAckOps(d)))
  \/ todo = Before(<<"check">>, SetAckOps(d)) /\ Pending(d, PS2_KEYBOARD_SET_SCANCODE_SET) /\ ret = 0
  \/ Acknowledging(d, PS2_KEYBOARD_SET_SCANCODE_SET, SetOps(d))
  \/ todo = SetOps(d) /\ Outcome(d, PS2_KEYBOARD_SET_SCANCODE_SET)
  \/ Writes(d, Byte(1), LastOps(d))
  \/ todo = LastOps(d) /\ Finished(d.to) /\ ret = 0
  \/ todo = EnableOps /\ Finished(d.to)

Correction ==
  /\ Known /\ Scans
  /\ \E p \in {PortUsed} : HasKeyboard(p)
       /\ \E d \in {Setting(p)} : Quiet(d) /\ Correcting(d)

Over ==
  /\ Known /\ Scans /\ ~keyboard_enabled /\ ~InputFull /\ todo \in {<<>>, <<<<"flush">>>>}

\* Whether shift_down is set once the bytes of s are handled.
ShiftMakes == {Byte(42), Byte(54)}
Down(s, down) ==
  \/ \E i \in 1 .. Len(s) : s[i] \in ShiftMakes /\ \A j \in i + 1 .. Len(s) : s[j] \notin ShiftBreaks
  \/ down /\ \A j \in 1 .. Len(s) : s[j] \notin ShiftBreaks

Following(p) ==
  /\ out.src # Controller
  /\ p = 1 =>
       /\ Due(2) = <<>> /\ handler = "none"
       /\ todo # <<>> => ~shift_down /\ Finished(1)
       /\ Down(Due(1), shift_down) => dev[1].held \cap Shifts # {} /\ dev[1].set = 1
  /\ p = 2 => Due(1) = <<>> /\ ~shift_down

Enabled ==
  /\ Known /\ Scans /\ todo \in {<<>>, <<<<"flush">>>>}
  /\ \E p \in {PortUsed} : 
       /\ HasKeyboard(p) /\ Finishing(p)
       /\ TypedOn \subseteq {1} /\ Byte(1) \notin Resendable => Following(p)

Talks == Identifying1 \/ Identifying2 \/ Concluding \/ Correction \/ Over \/ Enabled

Fresh ==
  /\ ~ps2_error /\ ~shift_down
  /\ \A r \in Ports : dev[r] = [scanning |-> TRUE, set |-> 2, param |-> FALSE,
                                queue |-> <<>>, resends |-> 0, held |-> {}]

Story == (Early /\ Places /\ Fresh) \/ Unused \/ (Settled /\ Talks)

-----------------------------------------------------------------------------
(* Bytes and sequences of them.                                            *)

\* What the driver sends to a device.
Said == {PS2_DISABLE_SCANNING, PS2_ENABLE_SCANNING, PS2_IDENTIFY, PS2_KEYBOARD_SET_SCANCODE_SET,
         Byte(1)}
Orders == Said \ {Byte(1)}

\* An identity: two bytes at most, none of which is an acknowledgement or a refusal.
Plain(s) ==
  /\ s \in Seq(Bytes) /\ Len(s) <= 2
  /\ \A i \in 1 .. Len(s) : s[i] \notin {PS2_ACK, PS2_RESEND}

LEMMA SaidDiffer ==
  /\ Byte(1) \notin {PS2_DISABLE_SCANNING, PS2_ENABLE_SCANNING, PS2_IDENTIFY,
                     PS2_KEYBOARD_SET_SCANCODE_SET, PS2_ACK, PS2_RESEND}
  /\ PS2_ACK # PS2_RESEND
  /\ \A v \in {0, 131, 171} : Byte(v) \notin {PS2_ACK, PS2_RESEND}
  /\ PS2_ACK \notin ShiftMakes \cup ShiftBreaks
<1>. USE BitOf
<1>1. 7 \notin Byte(1) /\ 0 \in Byte(1)
  OBVIOUS
<1>2. 7 \in PS2_DISABLE_SCANNING /\ 7 \in PS2_ENABLE_SCANNING /\ 7 \in PS2_IDENTIFY
      /\ 7 \in PS2_KEYBOARD_SET_SCANCODE_SET
  BY DEF PS2_DISABLE_SCANNING, PS2_ENABLE_SCANNING, PS2_IDENTIFY, PS2_KEYBOARD_SET_SCANCODE_SET
<1>3. 7 \in PS2_ACK /\ 3 \in PS2_ACK /\ 2 \notin PS2_ACK /\ 6 \in PS2_ACK /\ 0 \notin PS2_ACK
  BY DEF PS2_ACK
<1>4. 7 \in PS2_RESEND /\ 2 \in PS2_RESEND /\ 6 \in PS2_RESEND
  BY DEF PS2_RESEND
<1>5. 7 \notin Byte(0) /\ 6 \notin Byte(131) /\ 6 \notin Byte(171)
  OBVIOUS
<1>6. 7 \notin Byte(42) /\ 7 \notin Byte(54) /\ 6 \notin Byte(170) /\ 6 \notin Byte(182)
  OBVIOUS
<1>. QED
  BY <1>1, <1>2, <1>3, <1>4, <1>5, <1>6 DEF ShiftMakes, ShiftBreaks

LEMMA SaidAre ==
  /\ Said \subseteq Bytes /\ Orders \subseteq Said
  /\ PS2_DISABLE_SCANNING \in Orders /\ PS2_ENABLE_SCANNING \in Orders /\ PS2_IDENTIFY \in Orders
  /\ PS2_KEYBOARD_SET_SCANCODE_SET \in Orders /\ Byte(1) \in Said
  /\ PS2_ACK \in Bytes /\ PS2_RESEND \in Bytes /\ PS2_WRITE_BYTE_INPUT_PORT_2 \in Bytes
BY CommandBytes, SaidDiffer DEF Said, Orders

LEMMA BytesJoin ==
  /\ \A s \in Seq(Bytes) : <<>> \o s = s /\ s \o <<>> = s /\ Len(s) \in Nat
  /\ \A s, t \in Seq(Bytes) : s \o t \in Seq(Bytes) /\ Len(s \o t) = Len(s) + Len(t)
  /\ <<>> \in Seq(Bytes)
<1>1. \A s \in Seq(Bytes) : <<>> \o s = s /\ s \o <<>> = s /\ Len(s) \in Nat
  BY ConcatEmptySeq
<1>2. \A s, t \in Seq(Bytes) : s \o t \in Seq(Bytes) /\ Len(s \o t) = Len(s) + Len(t)
  BY ConcatProperties
<1>. QED
  BY <1>1, <1>2

\* A byte in front of others.
LEMMA ByteFirst ==
  ASSUME NEW b \in Bytes, NEW s \in Seq(Bytes)
  PROVE  /\ <<b>> \o s \in Seq(Bytes) /\ <<b>> \o s # <<>> /\ Len(<<b>> \o s) = Len(s) + 1
         /\ Head(<<b>> \o s) = b /\ (<<b>> \o s)[1] = b /\ Tail(<<b>> \o s) = s
OBVIOUS

LEMMA TailShorter ==
  ASSUME NEW s \in Seq(Bytes), s # <<>>
  PROVE  Tail(s) \in Seq(Bytes) /\ Len(Tail(s)) = Len(s) - 1 /\ Head(s) \in Bytes
         /\ <<Head(s)>> \o Tail(s) = s /\ Len(s) \in Nat \ {0}
<1>1. Tail(s) \in Seq(Bytes) /\ Len(Tail(s)) = Len(s) - 1 /\ Head(s) \in Bytes
      /\ Len(s) \in Nat \ {0}
  OBVIOUS
<1>2. <<Head(s)>> \o Tail(s) = s
  <2>. DEFINE t == <<Head(s)>> \o Tail(s)
  <2>1. t \in Seq(Bytes) /\ Len(t) = Len(s)
    BY <1>1, ByteFirst
  <2>2. \A i \in 1 .. Len(s) : t[i] = s[i]
    OBVIOUS
  <2>. HIDE DEF t
  <2>3. t = s
    BY <2>1, <2>2, SeqEqual
  <2>. QED
    BY <2>3 DEF t
<1>. QED
  BY <1>1, <1>2

\* What is left of an identity, and what is left of that.
LEMMA RestsIs ==
  ASSUME NEW s, Plain(s), NEW t \in Rests(s)
  PROVE  /\ t \in Seq(Bytes) /\ Len(t) <= Len(s)
         /\ t # <<>> => Tail(t) \in Rests(s) /\ Head(t) \notin {PS2_ACK, PS2_RESEND}
         /\ <<>> \in Rests(s) /\ s \in Rests(s)
<1>1. s \in Seq(Bytes) /\ Len(s) \in Nat /\ Len(s) <= 2
  BY DEF Plain
<1>2. <<>> \in Rests(s) /\ s \in Rests(s)
  BY DEF Rests
<1>3. CASE t = <<>>
  BY <1>1, <1>2, <1>3
<1>4. CASE t # <<>> /\ t = s
  <2>1. Head(t) = s[1] /\ 1 \in 1 .. Len(s)
    BY <1>1, <1>4
  <2>2. Head(t) \notin {PS2_ACK, PS2_RESEND}
    BY <2>1 DEF Plain
  <2>3. Tail(t) \in Rests(s)
    <3>1. CASE Len(s) = 2
      <4>1. Tail(s) = <<s[2]>>
        BY <1>1, <1>4, <3>1, TailOfTwo
      <4>. QED
        BY <1>4, <3>1, <4>1 DEF Rests
    <3>2. CASE Len(s) # 2
      <4>0. Len(s) # 0
        BY <1>1, <1>4, EmptySeq
      <4>a. \A n \in Nat : n <= 2 /\ n # 2 /\ n # 0 => n = 1
        OBVIOUS
      <4>1. Len(s) = 1
        BY <1>1, <3>2, <4>0, <4>a, Zenon
      <4>2. Tail(s) = <<>>
        BY <1>1, <4>1, TailOfOne, <1>4
      <4>. QED
        BY <1>2, <1>4, <4>2
    <3>. QED
      BY <3>1, <3>2
  <2>. QED
    BY <1>1, <1>2, <1>4, <2>2, <2>3
<1>5. CASE Len(s) = 2 /\ t = <<s[2]>>
  <2>1. t \in Seq(Bytes) /\ Len(t) = 1 /\ Head(t) = s[2] /\ t # <<>>
    BY <1>1, <1>5
  <2>2. Tail(t) = <<>>
    BY <2>1, TailOfOne
  <2>3. Head(t) \notin {PS2_ACK, PS2_RESEND}
    BY <1>5, <2>1 DEF Plain
  <2>. QED
    BY <1>2, <1>5, <2>1, <2>2, <2>3
<1>. QED
  BY <1>3, <1>4, <1>5 DEF Rests

LEMMA NoRests == Plain(<<>>) /\ Rests(<<>>) = {<<>>}
BY DEF Plain, Rests

\* What a device identifies itself with.
LEMMA IdentityIs ==
  ASSUME MachineTypes, NEW q \in Ports
  PROVE  /\ Plain(Identity(q))
         /\ Identity(q) # <<>> <=> Live(q) /\ machine.attached[q] # "none"
         /\ Len(Identity(q)) = 2 <=> Live(q) /\ machine.attached[q] = "keyboard"
<1>1. machine.attached[q] \in Kinds
  BY MachineIs
<1>2. Byte(171) \in Bytes /\ Byte(131) \in Bytes /\ Byte(0) \in Bytes
  BY BitOf
<1>3. /\ IdOf("keyboard") = <<Byte(171), Byte(131)>> /\ IdOf("mouse") = <<Byte(0)>>
  BY DEF IdOf
<1>4. Plain(IdOf("keyboard")) /\ Len(IdOf("keyboard")) = 2
  <2>. DEFINE a == Byte(171)
              b == Byte(131)
  <2>1. a \in Bytes /\ b \in Bytes /\ a \notin {PS2_ACK, PS2_RESEND} /\ b \notin {PS2_ACK, PS2_RESEND}
    BY <1>2, SaidDiffer
  <2>2. IdOf("keyboard") = <<a, b>>
    BY <1>3
  <2>. HIDE DEF a, b
  <2>3. <<a, b>> \in Seq(Bytes) /\ Len(<<a, b>>) = 2 /\ <<a, b>>[1] = a /\ <<a, b>>[2] = b
    BY <2>1
  <2>4. \A i \in 1 .. 2 : i = 1 \/ i = 2
    OBVIOUS
  <2>5. Plain(<<a, b>>)
    <3>1. \A i \in 1 .. Len(<<a, b>>) : <<a, b>>[i] \notin {PS2_ACK, PS2_RESEND}
      BY <2>1, <2>3, <2>4, Zenon
    <3>. QED
      BY <2>3, <3>1 DEF Plain
  <2>. QED
    BY <2>2, <2>3, <2>5
<1>5. Plain(IdOf("mouse")) /\ Len(IdOf("mouse")) = 1
  BY <1>2, <1>3, SaidDiffer DEF Plain
<1>6. Plain(<<>>) /\ Len(<<>>) = 0
  BY NoRests
<1>. QED
  BY <1>1, <1>4, <1>5, <1>6 DEF Identity, Kinds

\* What is still to be read of what a port's device has sent.
LEMMA DueIs ==
  ASSUME MachineTypes, NEW q \in Ports
  PROVE  /\ Due(q) \in Seq(Bytes)
         /\ out.src # q => Due(q) = IF Live(q) THEN dev[q].queue ELSE <<>>
         /\ out.src = q => /\ Due(q) # <<>> /\ Head(Due(q)) = out.byte
                           /\ Tail(Due(q)) = IF Live(q) THEN dev[q].queue ELSE <<>>
         /\ Due(q) = <<>> => out.src # q /\ (Live(q) => dev[q].queue = <<>>)
<1>1. out.byte \in Bytes
  BY MachineIs
<1>2. dev[q] \in Devices
  BY DEF MachineTypes
<1>3. dev[q].queue \in Seq(Bytes)
  BY <1>2 DEF Devices
<1>. DEFINE s == IF Live(q) THEN dev[q].queue ELSE <<>>
<1>4. s \in Seq(Bytes)
  BY <1>3, BytesJoin
<1>. HIDE DEF s
<1>5. out.src # q => Due(q) = s
  <2>1. out.src # q => Due(q) = <<>> \o s
    BY DEF Due, s
  <2>. QED
    BY <2>1, <1>4, BytesJoin
<1>6. out.src = q => Due(q) = <<out.byte>> \o s
  BY DEF Due, s
<1>7. out.src = q => Due(q) # <<>> /\ Head(Due(q)) = out.byte /\ Tail(Due(q)) = s
                     /\ Due(q) \in Seq(Bytes)
  BY <1>1, <1>4, <1>6, ByteFirst
<1>. QED
  BY <1>4, <1>5, <1>7 DEF s

-----------------------------------------------------------------------------
(* The handlers, the controller and the devices during a dialogue.         *)

LEMMA DialogueIs ==
  ASSUME NEW d \in Dialogue
  PROVE  /\ d.port \in Ports /\ d.to \in Ports /\ Other(d.to) \in Ports /\ Other(d.to) # d.to
         /\ d.exact \in BOOLEAN /\ d.sound \in BOOLEAN /\ d.answer \in Seq(Bytes)
         /\ \A r \in Ports : r = d.to \/ r = Other(d.to)
         /\ d.to = 1 => Other(d.to) = 2
         /\ d.to = 2 => Other(d.to) = 1
BY DEF Dialogue, Ports, Other

\* Of the device at port q only the bytes change that it has still to send.
Same(q) ==
  /\ dev'[q].param = dev[q].param /\ dev'[q].scanning = dev[q].scanning
  /\ dev'[q].set = dev[q].set /\ dev'[q].resends = dev[q].resends

\* Nothing that the driver can tell happens, but for time while it waits;
\* the handler of IRQ 12 takes a byte away; the controller obeys; a device takes.
Passes ==
  \/ ticks' = ticks
  \/ /\ At("poll") \/ At("id_wait")
     /\ ticks' = ticks + 1 /\ (InFlight => ticks + 1 < start + PS2_TIMEOUT_DURATION)
Stays(d) ==
  /\ in' = in /\ expects' = expects /\ Due(d.to)' = Due(d.to) /\ Same(d.to)
  /\ OutputFull => OutputFull'
  /\ Passes
Steals(d) ==
  /\ in' = in /\ expects' = expects /\ Same(d.to) /\ ticks' = ticks
  /\ d.to = 2 /\ Due(2) # <<>> /\ Due(d.to)' = Tail(Due(d.to))
Obeys(d) ==
  /\ in.port = "command" /\ in' = NoInput /\ Due(d.to)' = Due(d.to) /\ Same(d.to) /\ ticks' = ticks
  /\ expects' = IF machine.channels = 2 THEN "port 2" ELSE "port 1"
Takes(d) == in.port = "data" /\ Calls(d.to) /\ DeviceTakes
Moves(d) == Stays(d) \/ Steals(d) \/ Obeys(d) \/ Takes(d)

Unmoved == UNCHANGED <<thread, driver, machine, config, keyboard_enabled, shift_down>>

LEMMA UnmovedMeans ==
  ASSUME Unmoved
  PROVE  /\ UNCHANGED <<todo, byte, ret, start, ack_start, response>>
         /\ UNCHANGED <<port1, port2, ps2_error, ps2_initialized, identity>>
         /\ UNCHANGED <<machine, config, keyboard_enabled, shift_down>>
BY Zenon DEF Unmoved, thread, driver

LEMMA DueKept ==
  ASSUME NEW q, out'.src = out.src, out'.byte = out.byte, dev'[q].queue = dev[q].queue,
         config' = config
  PROVE  Due(q)' = Due(q) /\ (Live(q)' <=> Live(q))
BY DEF Due, Live

\* What is to be read after a step.
LEMMA DueAfter ==
  ASSUME MachineTypes', NEW q \in Ports, UNCHANGED config
  PROVE  /\ Live(q)' <=> Live(q)
         /\ dev'[q].queue \in Seq(Bytes) /\ out'.byte \in Bytes
         /\ out'.src # q => Due(q)' = IF Live(q) THEN dev'[q].queue ELSE <<>>
         /\ out'.src = q => Due(q)' = <<out'.byte>> \o (IF Live(q) THEN dev'[q].queue ELSE <<>>)
<1>1. Live(q)' <=> Live(q)
  BY DEF Live
<1>2. out'.byte \in Bytes
  BY DEF MachineTypes
<1>3. dev'[q].queue \in Seq(Bytes)
  <2>1. dev'[q] \in Devices
    BY DEF MachineTypes
  <2>. QED
    BY <2>1 DEF Devices
<1>. DEFINE s == IF Live(q) THEN dev'[q].queue ELSE <<>>
<1>4. s \in Seq(Bytes)
  BY <1>3, BytesJoin
<1>. HIDE DEF s
<1>5. Due(q)' = (IF out'.src = q THEN <<out'.byte>> ELSE <<>>) \o s
  BY <1>1 DEF Due, s
<1>6. <<>> \o s = s
  BY <1>4, BytesJoin
<1>. QED
  BY <1>1, <1>2, <1>3, <1>5, <1>6 DEF s

LEMMA QuietKept ==
  ASSUME NEW d \in Dialogue, Quiet(d), Due(Other(d.to))' = <<>>, Same(Other(d.to)),
         dev'[d.to].resends <= MaxResends,
         out'.src # Controller, d.to = 1 => handler' = "none", in'.port = "data" => Calls(d.to)',
         UNCHANGED <<keyboard_enabled, shift_down>>
  PROVE  Quiet(d)'
<1>1. \A r \in Ports : dev'[r].resends <= MaxResends
  BY DialogueIs DEF Quiet, Same
<1>2. ~dev'[Other(d.to)].param
  BY DEF Quiet, Same
<1>. QED
  BY <1>1, <1>2 DEF Quiet

\* Everything stays but, maybe, whose turn it is and the interrupt of a byte.
LEMMA NothingMoves ==
  ASSUME Types, NEW d \in Dialogue, Quiet(d), Unmoved, UNCHANGED <<in, expects, dev>>, Passes,
         out'.src = out.src, out'.byte = out.byte, d.to = 1 => handler' = "none"
  PROVE  Quiet(d)' /\ Stays(d) /\ Same(Other(d.to))
<1>1. config' = config /\ keyboard_enabled' = keyboard_enabled /\ shift_down' = shift_down
  BY UnmovedMeans
<1>2. \A q : Due(q)' = Due(q)
  BY <1>1, DueKept
<1>3. \A q : Same(q)
  BY DEF Same
<1>4. OutputFull => OutputFull'
  BY DEF OutputFull
<1>5. Stays(d)
  BY <1>2, <1>3, <1>4, Zenon DEF Stays
<1>6. dev'[d.to].resends <= MaxResends
  BY DialogueIs DEF Quiet
<1>7. (in'.port = "data" => Calls(d.to)') /\ out'.src # Controller
  BY DEF Quiet, Calls
<1>8. Due(Other(d.to))' = <<>>
  BY <1>2 DEF Quiet
<1>. QED
  BY <1>1, <1>3, <1>5, <1>6, <1>7, <1>8, QuietKept

LEMMA MouseMoves ==
  ASSUME Types, NEW d \in Dialogue, Quiet(d), MouseHandler
  PROVE  Unmoved /\ Quiet(d)' /\ Moves(d) /\ Same(Other(d.to))
<1>a. MachineTypes
  BY DEF Types
<1>b. /\ d.port \in Ports /\ d.to \in Ports /\ Other(d.to) \in Ports
      /\ d.to = 1 => Other(d.to) = 2
      /\ d.to = 2 => Other(d.to) = 1
  BY DialogueIs
<1>1. Unmoved /\ UNCHANGED <<in, expects, dev, ticks>>
  BY Zenon DEF MouseHandler, EnterMouseIrq, MouseIrq, Unmoved
<1>2. Passes
  BY <1>1 DEF Passes
<1>3. CASE EnterMouseIrq
  <2>1. out.src = 2 /\ out' = [out EXCEPT !.irq = FALSE]
    BY <1>3, Zenon DEF EnterMouseIrq
  <2>2. d.to # 1
    BY <1>a, <1>b, <2>1, DueIs DEF Quiet
  <2>3. out'.src = out.src /\ out'.byte = out.byte
    BY <1>a, <2>1 DEF MachineTypes
  <2>. QED
    BY <1>1, <1>2, <2>2, <2>3, NothingMoves DEF Moves
<1>4. CASE MouseIrq
  <2>1. d.to = 2
    BY <1>4, <1>b DEF MouseIrq, Quiet, Ports
  <2>2. CASE OutputFull
    <3>1. out' = NoByte /\ out'.src = Nobody
      BY <1>4, <2>2 DEF MouseIrq, Discarded, NoByte
    <3>2. out.src = 2
      <4>1. out.src \in {1, 2}
        BY <1>a, <2>2, MachineIs DEF Quiet, OutputFull
      <4>2. Due(1) = <<>>
        BY <1>b, <2>1 DEF Quiet
      <4>. QED
        BY <1>a, <4>1, <4>2, DueIs DEF Ports
    <3>3. /\ Due(2) # <<>>
          /\ Tail(Due(2)) = IF Live(2) THEN dev[2].queue ELSE <<>>
          /\ Due(2) \in Seq(Bytes)
      BY <1>a, <3>2, DueIs DEF Ports
    <3>4. config' = config
      BY <1>1, UnmovedMeans
    <3>5. /\ Live(1)' = Live(1) /\ Live(2)' = Live(2)
          /\ out'.src # 1 /\ out'.src # 2
      BY <3>1, <3>4 DEF Live, Nobody
    <3>6. MachineTypes'
      BY TypesStep, <1>4 DEF Next, MouseHandler, Types
    <3>7. Due(2)' = Tail(Due(2))
      <4>1. Due(2)' = IF Live(2) THEN dev'[2].queue ELSE <<>>
        BY <3>4, <3>5, <3>6, DueAfter DEF Ports
      <4>. QED
        BY <1>1, <3>3, <3>5, <4>1
    <3>8. Due(1)' = <<>>
      <4>1. Due(1)' = IF Live(1) THEN dev'[1].queue ELSE <<>>
        BY <3>4, <3>5, <3>6, DueAfter DEF Ports
      <4>2. Due(1) = <<>>
        BY <1>b, <2>1 DEF Quiet
      <4>3. Live(1) => dev[1].queue = <<>>
        BY <1>a, <4>2, DueIs DEF Ports
      <4>. QED
        BY <1>1, <3>5, <4>1, <4>3
    <3>9. \A q : Same(q)
      BY <1>1 DEF Same
    <3>10. Steals(d)
      BY <1>1, <2>1, <3>3, <3>7, <3>9 DEF Steals
    <3>11. Quiet(d)'
      <4>1. keyboard_enabled' = keyboard_enabled /\ shift_down' = shift_down
        BY <1>1, UnmovedMeans
      <4>2. dev'[d.to].resends <= MaxResends
        BY <1>1, <1>b DEF Quiet
      <4>3. out'.src # Controller
        BY <3>1 DEF Controller, Nobody
      <4>4. in'.port = "data" => Calls(d.to)'
        BY <1>1 DEF Quiet, Calls
      <4>. QED
        BY <1>b, <2>1, <3>8, <3>9, <4>1, <4>2, <4>3, <4>4, QuietKept
    <3>. QED
      BY <1>1, <3>9, <3>10, <3>11 DEF Moves
  <2>3. CASE ~OutputFull
    <3>1. out' = out
      BY <1>4, <2>3 DEF MouseIrq
    <3>. QED
      BY <1>1, <1>2, <2>1, <3>1, NothingMoves DEF Moves
  <2>. QED
    BY <2>2, <2>3
<1>. QED
  BY <1>3, <1>4 DEF MouseHandler

\* A device puts a byte into the output buffer.
LEMMA SendsMoves ==
  ASSUME Types, Types', NEW d \in Dialogue, Quiet(d), NEW p \in Ports, DeviceSends(p),
         UNCHANGED <<keyboard_enabled, shift_down>>
  PROVE  Unmoved /\ Quiet(d)' /\ Stays(d) /\ Same(Other(d.to))
<1>a. MachineTypes /\ MachineTypes'
  BY DEF Types
<1>b. d.to \in Ports /\ Other(d.to) \in Ports /\ (\A r \in Ports : r = d.to \/ r = Other(d.to))
      /\ Other(d.to) # d.to
  BY DialogueIs
<1>1. Unmoved /\ UNCHANGED <<config, in, expects, ticks, handler>>
  BY Zenon DEF DeviceSends, Silent, Unmoved
<1>2. /\ dev[p].queue # <<>> /\ Live(p) /\ ~OutputFull
      /\ out' = [byte |-> Head(dev[p].queue), src |-> p, irq |-> Irq(p) \in config]
      /\ dev' = [dev EXCEPT ![p].queue = Tail(@)]
  BY Zenon DEF DeviceSends, Live
<1>3. out'.byte = Head(dev[p].queue) /\ out'.src = p
  BY <1>2
<1>4. dev[p] \in Devices /\ dev \in [Ports -> Devices]
  BY <1>a DEF MachineTypes
<1>5. dev[p].queue \in Seq(Bytes)
  BY <1>4 DEF Devices
<1>6. /\ \A q \in Ports : Same(q)
      /\ dev'[p].queue = Tail(dev[p].queue)
      /\ \A q \in Ports : q # p => dev'[q].queue = dev[q].queue
  <2>1. \A q \in Ports : q # p => dev'[q] = dev[q]
    BY <1>2, <1>4
  <2>2. dev'[p] = [dev[p] EXCEPT !.queue = Tail(dev[p].queue)]
    BY <1>2, <1>4
  <2>3. Same(p) /\ dev'[p].queue = Tail(dev[p].queue)
    BY <1>4, <2>2 DEF Same, Devices
  <2>. QED
    BY <2>1, <2>3 DEF Same
<1>7. p = d.to
  <2>1. Due(Other(d.to)) = <<>>
    BY DEF Quiet
  <2>2. Live(Other(d.to)) => dev[Other(d.to)].queue = <<>>
    BY <1>a, <1>b, <2>1, DueIs
  <2>. QED
    BY <1>2, <1>b, <2>2
<1>8. Due(p)' = Due(p)
  <2>1. out.src # p
    BY <1>2 DEF OutputFull, Ports, Nobody
  <2>2. Due(p) = dev[p].queue
    BY <1>2, <1>a, <2>1, DueIs
  <2>3. Due(p)' = <<Head(dev[p].queue)>> \o Tail(dev[p].queue)
    BY <1>1, <1>2, <1>3, <1>6, <1>a, DueAfter
  <2>. QED
    BY <1>2, <1>5, <2>2, <2>3, TailShorter
<1>9. Due(Other(d.to))' = <<>>
  <2>. DEFINE o == Other(d.to)
  <2>0. o \in Ports /\ o # p
    BY <1>b, <1>7
  <2>. HIDE DEF o
  <2>1. Due(o) = <<>>
    BY DEF Quiet, o
  <2>2. out'.src # o /\ dev'[o].queue = dev[o].queue
    BY <1>3, <1>6, <2>0
  <2>3. Due(o)' = IF Live(o) THEN dev[o].queue ELSE <<>>
    BY <1>1, <1>a, <2>0, <2>2, DueAfter
  <2>4. Live(o) => dev[o].queue = <<>>
    BY <1>a, <2>0, <2>1, DueIs
  <2>. QED
    BY <2>3, <2>4 DEF o
<1>10. OutputFull'
  BY <1>3 DEF OutputFull, Ports, Nobody
<1>11. Passes
  BY <1>1 DEF Passes
<1>12. Stays(d)
  BY <1>1, <1>6, <1>7, <1>8, <1>10, <1>11 DEF Stays
<1>13. /\ out'.src # Controller /\ (d.to = 1 => handler' = "none")
       /\ in'.port = "data" => Calls(d.to)'
  <2>1. out'.src # Controller
    BY <1>3 DEF Ports, Controller
  <2>2. d.to = 1 => handler' = "none"
    BY <1>1 DEF Quiet
  <2>3. in'.port = "data" => Calls(d.to)'
    BY <1>1 DEF Quiet, Calls
  <2>. QED
    BY <2>1, <2>2, <2>3
<1>14. dev'[d.to].resends <= MaxResends
  BY <1>6, <1>b DEF Same, Quiet
<1>. QED
  BY <1>1, <1>6, <1>b, <1>9, <1>12, <1>13, <1>14, QuietKept

\* What a device at port q that takes a byte changes.
LEMMA TakesChanges ==
  ASSUME Types, DeviceTakes, NEW q \in Ports, Calls(q)
  PROVE  /\ UNCHANGED <<thread, driver, config, out, ticks, handler, machine>>
         /\ in.port = "data" /\ in' = NoInput /\ expects' = "port 1"
         /\ \A r \in Ports : r # q => dev'[r] = dev[r]
         /\ \/ machine.attached[q] = "none" /\ dev' = dev
            \/ /\ machine.attached[q] # "none"
               /\ dev'[q] = Taken(dev[q], machine.attached[q], in.byte)
            \/ /\ machine.attached[q] # "none"
               /\ in.byte \in Resendable /\ dev[q].resends < MaxResends
               /\ dev'[q] = [dev[q] EXCEPT !.queue = Append(@, PS2_RESEND), !.resends = @ + 1]
<1>0. dev \in [Ports -> Devices]
  BY DEF Types, MachineTypes
<1>1. /\ in.port = "data" /\ in' = NoInput /\ expects' = "port 1"
      /\ UNCHANGED <<thread, driver, config, out, ticks, handler, machine>>
  BY Zenon DEF DeviceTakes, Silent
<1>2. (IF expects = "port 2" THEN 2 ELSE 1) = q
  BY DEF Calls, Ports
<1>3. IF machine.attached[q] = "none" THEN UNCHANGED dev
      ELSE \/ dev' = [dev EXCEPT ![q] = Taken(@, machine.attached[q], in.byte)]
           \/ /\ in.byte \in Resendable
              /\ dev[q].resends < MaxResends
              /\ dev' = [dev EXCEPT ![q].queue = Append(@, PS2_RESEND),
                                    ![q].resends = @ + 1]
  BY <1>2 DEF DeviceTakes
<1>4. CASE machine.attached[q] = "none"
  BY <1>1, <1>3, <1>4
<1>5. CASE machine.attached[q] # "none" /\ dev' = [dev EXCEPT ![q] = Taken(@, machine.attached[q], in.byte)]
  BY <1>0, <1>1, <1>5
<1>6. CASE /\ machine.attached[q] # "none" /\ in.byte \in Resendable
           /\ dev[q].resends < MaxResends
           /\ dev' = [dev EXCEPT ![q].queue = Append(@, PS2_RESEND), ![q].resends = @ + 1]
  <2>1. \A r \in Ports : r # q => dev'[r] = dev[r]
    BY <1>0, <1>6
  <2>2. dev[q] \in Devices
    BY <1>0
  <2>3. dev'[q] = [dev[q] EXCEPT !.queue = Append(@, PS2_RESEND), !.resends = @ + 1]
    BY <1>0, <1>6, <2>2 DEF Devices
  <2>. QED
    BY <1>1, <1>6, <2>1, <2>3
<1>. QED
  BY <1>3, <1>4, <1>5, <1>6

\* A device takes what was sent.
LEMMA TakesMoves ==
  ASSUME Types, Types', NEW d \in Dialogue, Quiet(d), DeviceTakes,
         UNCHANGED <<keyboard_enabled, shift_down>>
  PROVE  Unmoved /\ Quiet(d)' /\ Takes(d) /\ Same(Other(d.to))
<1>a. MachineTypes /\ MachineTypes'
  BY DEF Types
<1>. DEFINE q == d.to
            o == Other(d.to)
<1>b. q \in Ports /\ o \in Ports /\ o # q
  BY DialogueIs
<1>0. in.port = "data" /\ Calls(d.to)
  BY Zenon DEF DeviceTakes, Quiet
<1>. HIDE DEF q, o
<1>c. Calls(q)
  BY <1>0 DEF q
<1>1. /\ UNCHANGED <<thread, driver, config, out, ticks, handler, machine>>
      /\ in' = NoInput /\ expects' = "port 1"
      /\ \A r \in Ports : r # q => dev'[r] = dev[r]
      /\ \/ machine.attached[q] = "none" /\ dev' = dev
         \/ /\ machine.attached[q] # "none"
            /\ dev'[q] = Taken(dev[q], machine.attached[q], in.byte)
         \/ /\ machine.attached[q] # "none"
            /\ in.byte \in Resendable /\ dev[q].resends < MaxResends
            /\ dev'[q] = [dev[q] EXCEPT !.queue = Append(@, PS2_RESEND), !.resends = @ + 1]
  BY <1>b, <1>c, TakesChanges
<1>2. Unmoved
  BY <1>1 DEF Unmoved
<1>3. dev[q] \in Devices
  BY <1>a, <1>b DEF MachineTypes
<1>4. dev'[q].resends <= MaxResends
  <2>1. dev[q].resends <= MaxResends /\ dev[q].resends \in Nat /\ MaxResends \in Nat
    BY <1>b, <1>3, Ps2Assumption DEF Quiet, Devices
  <2>2. CASE dev' = dev
    BY <2>1, <2>2
  <2>3. CASE dev'[q] = Taken(dev[q], machine.attached[q], in.byte)
    <3>1. Taken(dev[q], machine.attached[q], in.byte).resends = dev[q].resends
      BY <1>3 DEF Taken, Devices
    <3>. QED
      BY <2>1, <2>3, <3>1
  <2>4. CASE /\ dev[q].resends < MaxResends
             /\ dev'[q] = [dev[q] EXCEPT !.queue = Append(@, PS2_RESEND), !.resends = @ + 1]
    BY <1>3, <2>1, <2>4 DEF Devices
  <2>. QED
    BY <1>1, <2>2, <2>3, <2>4
<1>5. Same(o) /\ dev'[o].queue = dev[o].queue
  BY <1>1, <1>b DEF Same
<1>6. Due(o)' = <<>>
  <2>1. out' = out /\ config' = config
    BY <1>1
  <2>2. Due(o)' = Due(o)
    BY <1>5, <2>1, DueKept
  <2>. QED
    BY <2>2 DEF Quiet, o
<1>7. /\ out'.src # Controller /\ (d.to = 1 => handler' = "none")
      /\ in'.port = "data" => Calls(d.to)'
  BY <1>1 DEF Quiet, NoInput
<1>. QED
  BY <1>0, <1>2, <1>4, <1>5, <1>6, <1>7, QuietKept DEF Takes, q, o

\* No step of another changes what a dialogue rests on, and only a device that
\* takes a byte changes what the device is.
LEMMA OthersMove ==
  ASSUME Types, Configured, Others, todo # <<>>, NEW d \in Dialogue, Quiet(d)
  PROVE  Unmoved /\ Quiet(d)' /\ Moves(d) /\ Same(Other(d.to))
<1>0. Types'
  BY TypesStep DEF Others, Next
<1>a. MachineTypes
  BY DEF Types
<1>1. CASE MouseHandler
  BY <1>1, MouseMoves
<1>2. CASE KeyboardIrq
  <2>1. /\ Unmoved /\ UNCHANGED <<in, expects, dev, handler>> /\ ticks' = ticks
        /\ out' = [out EXCEPT !.irq = FALSE]
    BY <1>2, Zenon DEF KeyboardIrq, Unmoved, Quiet
  <2>2. out'.byte = out.byte /\ out'.src = out.src
    BY <1>a, <2>1 DEF MachineTypes
  <2>3. Passes /\ (d.to = 1 => handler' = "none")
    BY <2>1 DEF Passes, Quiet
  <2>. QED
    BY <2>1, <2>2, <2>3, NothingMoves DEF Moves
<1>3. CASE Machinery
  <2>0. UNCHANGED <<keyboard_enabled, shift_down>> /\ Hardware
    BY <1>3 DEF Machinery
  <2>1. ~ControllerAnswers
    BY CommandsDiffer DEF ControllerAnswers, Configured, Loud
  <2>2. ~TakesConfig
    BY DEF TakesConfig, Quiet, Calls
  <2>3. CASE ControllerObeys
    <3>1. in.port = "command" /\ in.byte = PS2_WRITE_BYTE_INPUT_PORT_2
      BY <2>3 DEF ControllerObeys, Configured
    <3>2. config' = AfterCommand(config, in.byte) /\ in' = NoInput
      BY <2>3, Zenon DEF ControllerObeys, AfterCommand
    <3>3. config' = config
      BY <1>a, <3>1, <3>2, AfterIs, CommandsDiffer DEF MachineTypes
    <3>4. expects' = IF machine.channels = 2 THEN "port 2" ELSE "port 1"
      <4>1. expects' = CASE in.byte = PS2_WRITE_CONFIG_BYTE -> "config"
                        [] in.byte = PS2_WRITE_BYTE_INPUT_PORT_2 /\ machine.channels = 2 -> "port 2"
                        [] OTHER -> "port 1"
        BY <2>3, Zenon DEF ControllerObeys
      <4>. QED
        BY <3>1, <4>1, CommandsDiffer
    <3>5. UNCHANGED <<thread, driver, ticks, handler, machine, out, dev>>
      BY <2>3, Zenon DEF ControllerObeys, Silent
    <3>6. Unmoved
      BY <2>0, <3>3, <3>5 DEF Unmoved
    <3>7. \A q : Due(q)' = Due(q) /\ Same(q)
      BY <3>3, <3>5, DueKept DEF Same
    <3>8. Obeys(d)
      BY <3>1, <3>2, <3>4, <3>5, <3>7 DEF Obeys
    <3>9. /\ out'.src # Controller /\ (d.to = 1 => handler' = "none")
          /\ in'.port = "data" => Calls(d.to)'
          /\ Due(Other(d.to))' = <<>> /\ dev'[d.to].resends <= MaxResends
      BY <3>2, <3>5, <3>7, DialogueIs DEF Quiet, NoInput
    <3>. QED
      BY <2>0, <3>6, <3>7, <3>8, <3>9, QuietKept DEF Moves
  <2>4. CASE DeviceTakes
    BY <1>0, <2>0, <2>4, TakesMoves DEF Moves
  <2>5. ASSUME NEW p \in Ports, DeviceSends(p)
        PROVE  Unmoved /\ Quiet(d)' /\ Moves(d) /\ Same(Other(d.to))
    BY <1>0, <2>0, <2>5, SendsMoves DEF Moves
  <2>6. CASE Tick
    <3>1. /\ UNCHANGED <<thread, driver, in, expects, config, out, handler, machine, dev>>
          /\ At("poll") \/ At("id_wait")
          /\ ticks' = ticks + 1 /\ (InFlight => ticks + 1 < start + PS2_TIMEOUT_DURATION)
      BY <2>6, Zenon DEF Tick, controller
    <3>2. Unmoved /\ Passes
      BY <2>0, <3>1, Zenon DEF Unmoved, Passes
    <3>3. out'.src = out.src /\ out'.byte = out.byte /\ (d.to = 1 => handler' = "none")
      BY <3>1 DEF Quiet
    <3>. QED
      BY <3>1, <3>2, <3>3, NothingMoves DEF Moves
  <2>. QED
    BY <2>0, <2>1, <2>2, <2>3, <2>4, <2>5, <2>6, Zenon DEF Hardware
<1>4. ~User
  BY Zenon DEF User, Key
<1>5. CASE UNCHANGED vars
  <2>1. Unmoved /\ UNCHANGED <<in, expects, dev, handler, out>> /\ ticks' = ticks
    BY <1>5, Zenon DEF vars, ps2vars, controller, Unmoved
  <2>2. Passes /\ (d.to = 1 => handler' = "none")
    BY <2>1 DEF Passes, Quiet
  <2>. QED
    BY <2>1, <2>2, NothingMoves DEF Moves
<1>. QED
  BY <1>1, <1>2, <1>3, <1>4, <1>5 DEF Others, Halt

\* The device takes what it is sent, or asks to have it again; one whose clock is
\* off does so in vain.
IfLive(d, s) == IF Live(d.to) THEN s ELSE <<>>
Ignores(d) == machine.attached[d.to] = "none" /\ Due(d.to)' = <<>> /\ Same(d.to)
Refuses(d, c) ==
  /\ machine.attached[d.to] # "none" /\ c \in Resendable
  /\ Due(d.to)' = IfLive(d, <<PS2_RESEND>>)
  /\ dev'[d.to].param = dev[d.to].param /\ dev'[d.to].scanning = dev[d.to].scanning
  /\ dev'[d.to].set = dev[d.to].set /\ dev'[d.to].resends = dev[d.to].resends + 1
Accepts(d, c) ==
  /\ machine.attached[d.to] # "none"
  /\ Due(d.to)' = IfLive(d, <<PS2_ACK>> \o Reply(d, c)) /\ Effect(d, c)'
  /\ c \notin {PS2_DISABLE_SCANNING, PS2_ENABLE_SCANNING} => dev'[d.to].scanning = dev[d.to].scanning
  /\ c = PS2_ENABLE_SCANNING => dev'[d.to].scanning
  /\ c = Byte(1) => dev'[d.to].set = 1
  /\ dev'[d.to].resends = dev[d.to].resends

\* What a device becomes by what it is sent.
LEMMA TakenIs ==
  ASSUME NEW x \in Devices, NEW kind \in {"keyboard", "mouse"}, NEW c \in Said,
         x.param <=> c = Byte(1), NEW y, y = Taken(x, kind, c)
  PROVE  /\ y.queue = IF c = PS2_IDENTIFY THEN x.queue \o <<PS2_ACK>> \o IdOf(kind)
                      ELSE Append(x.queue, PS2_ACK)
         /\ y.param <=> c = PS2_KEYBOARD_SET_SCANCODE_SET
         /\ c \notin {PS2_DISABLE_SCANNING, PS2_ENABLE_SCANNING} => y.scanning = x.scanning
         /\ c = PS2_ENABLE_SCANNING => y.scanning
         /\ c = Byte(1) => y.set = 1
         /\ y.resends = x.resends
<1>0. x = [scanning |-> x.scanning, set |-> x.set, param |-> x.param, queue |-> x.queue,
           resends |-> x.resends, held |-> x.held]
  BY DEF Devices
<1>1. CASE c = Byte(1)
  <2>1. y = [x EXCEPT !.param = FALSE, !.set = 1, !.queue = Append(@, PS2_ACK)]
    BY <1>1 DEF Taken
  <2>2. /\ y.queue = Append(x.queue, PS2_ACK) /\ y.param = FALSE /\ y.scanning = x.scanning
        /\ y.set = 1 /\ y.resends = x.resends
    BY <1>0, <2>1
  <2>. QED
    BY <1>1, <2>2, SaidDiffer
<1>2. CASE c = PS2_DISABLE_SCANNING
  <2>0. ~x.param
    BY <1>2, SaidDiffer
  <2>1. y = [x EXCEPT !.scanning = FALSE, !.queue = Append(@, PS2_ACK)]
    BY <1>2, <2>0, DeviceCommandsDiffer DEF Taken
  <2>2. /\ y.queue = Append(x.queue, PS2_ACK) /\ y.param = x.param /\ y.scanning = FALSE
        /\ y.resends = x.resends
    BY <1>0, <2>1
  <2>. QED
    BY <1>2, <2>0, <2>2, SaidDiffer, DeviceCommandsDiffer
<1>3. CASE c = PS2_ENABLE_SCANNING
  <2>0. ~x.param
    BY <1>3, SaidDiffer
  <2>1. y = [x EXCEPT !.scanning = TRUE, !.queue = Append(@, PS2_ACK)]
    BY <1>3, <2>0, DeviceCommandsDiffer DEF Taken
  <2>2. /\ y.queue = Append(x.queue, PS2_ACK) /\ y.param = x.param /\ y.scanning = TRUE
        /\ y.resends = x.resends
    BY <1>0, <2>1
  <2>. QED
    BY <1>3, <2>0, <2>2, SaidDiffer, DeviceCommandsDiffer
<1>4. CASE c = PS2_IDENTIFY
  <2>0. ~x.param
    BY <1>4, SaidDiffer
  <2>1. y = [x EXCEPT !.queue = @ \o <<PS2_ACK>> \o IdOf(kind)]
    BY <1>4, <2>0, DeviceCommandsDiffer DEF Taken
  <2>2. /\ y.queue = x.queue \o <<PS2_ACK>> \o IdOf(kind) /\ y.param = x.param
        /\ y.scanning = x.scanning /\ y.resends = x.resends
    BY <1>0, <2>1
  <2>. QED
    BY <1>4, <2>0, <2>2, SaidDiffer, DeviceCommandsDiffer
<1>5. CASE c = PS2_KEYBOARD_SET_SCANCODE_SET
  <2>0. ~x.param
    BY <1>5, SaidDiffer
  <2>1. y = [x EXCEPT !.param = TRUE, !.queue = Append(@, PS2_ACK)]
    BY <1>5, <2>0, DeviceCommandsDiffer DEF Taken
  <2>2. /\ y.queue = Append(x.queue, PS2_ACK) /\ y.param = TRUE /\ y.scanning = x.scanning
        /\ y.resends = x.resends
    BY <1>0, <2>1
  <2>. QED
    BY <1>5, <2>0, <2>2, SaidDiffer, DeviceCommandsDiffer
<1>. QED
  BY <1>1, <1>2, <1>3, <1>4, <1>5 DEF Said

LEMMA TakesDoes ==
  ASSUME Types, Types', NEW d \in Dialogue, d.answer = Identity(d.to), Takes(d),
         NEW c \in Said, in.byte = c, Due(d.to) = <<>>, Ready(d, c)
  PROVE  /\ in' = NoInput /\ Empty' /\ ticks' = ticks
         /\ Ignores(d) \/ Refuses(d, c) \/ Accepts(d, c)
<1>. DEFINE q == d.to
<1>a. q \in Ports /\ MachineTypes /\ MachineTypes'
  BY DialogueIs DEF Types
<1>b. Calls(q) /\ DeviceTakes
  BY DEF Takes
<1>. HIDE DEF q
<1>1. /\ UNCHANGED <<thread, driver, config, out, ticks, handler, machine>>
      /\ in.port = "data" /\ in' = NoInput /\ expects' = "port 1"
      /\ \/ machine.attached[q] = "none" /\ dev' = dev
         \/ /\ machine.attached[q] # "none"
            /\ dev'[q] = Taken(dev[q], machine.attached[q], c)
         \/ /\ machine.attached[q] # "none"
            /\ c \in Resendable /\ dev[q].resends < MaxResends
            /\ dev'[q] = [dev[q] EXCEPT !.queue = Append(@, PS2_RESEND), !.resends = @ + 1]
  BY <1>a, <1>b, TakesChanges
<1>2. Empty' /\ ticks' = ticks
  BY <1>1 DEF Empty, InputFull, NoInput
<1>3. /\ out.src # q /\ out'.src # q /\ config' = config
      /\ Live(q) => dev[q].queue = <<>>
  BY <1>1, <1>a, DueIs DEF q
<1>4. dev[q] \in Devices
  BY <1>a DEF MachineTypes
<1>4a. dev[q].queue \in Seq(Bytes) /\ PS2_ACK \in Bytes /\ PS2_RESEND \in Bytes
  BY <1>4, SaidAre DEF Devices
<1>5. (Live(q)' <=> Live(q)) /\ Due(q)' = IF Live(q) THEN dev'[q].queue ELSE <<>>
  BY <1>a, <1>3, DueAfter
<1>6. CASE machine.attached[q] = "none" /\ dev' = dev
  <2>1. Due(q)' = <<>>
    BY <1>3, <1>5, <1>6
  <2>. QED
    BY <1>1, <1>2, <1>6, <2>1 DEF Ignores, Same, q
<1>7. CASE /\ machine.attached[q] # "none" /\ c \in Resendable
           /\ dev'[q] = [dev[q] EXCEPT !.queue = Append(@, PS2_RESEND), !.resends = @ + 1]
  <2>1. /\ dev'[q].queue = Append(dev[q].queue, PS2_RESEND) /\ dev'[q].param = dev[q].param
        /\ dev'[q].scanning = dev[q].scanning /\ dev'[q].set = dev[q].set
        /\ dev'[q].resends = dev[q].resends + 1
    BY <1>4, <1>7 DEF Devices
  <2>2. Append(<<>>, PS2_RESEND) = <<PS2_RESEND>>
    OBVIOUS
  <2>3. Due(q)' = IF Live(q) THEN <<PS2_RESEND>> ELSE <<>>
    BY <1>3, <1>5, <2>1, <2>2
  <2>. QED
    BY <1>1, <1>2, <1>7, <2>1, <2>3 DEF Refuses, IfLive, q
<1>8. CASE machine.attached[q] # "none" /\ dev'[q] = Taken(dev[q], machine.attached[q], c)
  <2>. DEFINE kind == machine.attached[q]
  <2>1. kind \in {"keyboard", "mouse"}
    BY <1>a, <1>8, MachineIs DEF Kinds
  <2>2. dev[q].param <=> c = Byte(1)
    BY DEF Ready, q
  <2>3. /\ dev'[q].queue = IF c = PS2_IDENTIFY THEN dev[q].queue \o <<PS2_ACK>> \o IdOf(kind)
                           ELSE Append(dev[q].queue, PS2_ACK)
        /\ dev'[q].param <=> c = PS2_KEYBOARD_SET_SCANCODE_SET
        /\ c \notin {PS2_DISABLE_SCANNING, PS2_ENABLE_SCANNING} => dev'[q].scanning = dev[q].scanning
        /\ c = PS2_ENABLE_SCANNING => dev'[q].scanning
        /\ c = Byte(1) => dev'[q].set = 1
        /\ dev'[q].resends = dev[q].resends
    <3>. DEFINE x == dev[q]
                y == dev'[q]
    <3>1. x \in Devices /\ (x.param <=> c = Byte(1)) /\ y = Taken(x, kind, c)
      BY <1>4, <1>8, <2>2
    <3>. HIDE DEF kind, x, y
    <3>2. /\ y.queue = IF c = PS2_IDENTIFY THEN x.queue \o <<PS2_ACK>> \o IdOf(kind)
                       ELSE Append(x.queue, PS2_ACK)
          /\ y.param <=> c = PS2_KEYBOARD_SET_SCANCODE_SET
          /\ c \notin {PS2_DISABLE_SCANNING, PS2_ENABLE_SCANNING} => y.scanning = x.scanning
          /\ c = PS2_ENABLE_SCANNING => y.scanning
          /\ c = Byte(1) => y.set = 1
          /\ y.resends = x.resends
      BY <2>1, <3>1, TakenIs
    <3>. QED
      BY <3>2 DEF x, y
  <2>4. Effect(d, c)'
    BY <2>3, DeviceCommandsDiffer DEF Effect, q
  <2>5. Append(<<>>, PS2_ACK) = <<PS2_ACK>> /\ <<>> \o <<PS2_ACK>> = <<PS2_ACK>>
        /\ <<PS2_ACK>> \o <<>> = <<PS2_ACK>>
    BY <1>4a
  <2>6. Live(q) => Due(q)' = <<PS2_ACK>> \o Reply(d, c)
    <3>1. CASE Live(q) /\ c = PS2_IDENTIFY
      <4>1. Reply(d, c) = IdOf(kind)
        BY <1>8, <3>1 DEF Reply, Identity, q
      <4>. QED
        BY <1>3, <1>5, <2>3, <2>5, <3>1, <4>1
    <3>2. CASE Live(q) /\ c # PS2_IDENTIFY
      <4>1. Reply(d, c) = <<>>
        BY <3>2 DEF Reply
      <4>. QED
        BY <1>3, <1>5, <2>3, <2>5, <3>2, <4>1
    <3>. QED
      BY <3>1, <3>2
  <2>7. Due(q)' = IF Live(q) THEN <<PS2_ACK>> \o Reply(d, c) ELSE <<>>
    BY <1>5, <2>6
  <2>8. c \notin {PS2_DISABLE_SCANNING, PS2_ENABLE_SCANNING} => dev'[q].scanning = dev[q].scanning
    BY <2>3
  <2>9. c = PS2_ENABLE_SCANNING => dev'[q].scanning
    BY <2>3, DeviceCommandsDiffer
  <2>10. Accepts(d, c)
    BY <1>8, <2>3, <2>4, <2>7, <2>8, <2>9 DEF Accepts, IfLive, q
  <2>. QED
    BY <1>1, <1>2, <2>10
<1>. QED
  BY <1>1, <1>6, <1>7, <1>8

-----------------------------------------------------------------------------
(* What the steps of the others leave of a dialogue.                       *)

AllOps == Usual \cup IdOps

LEMMA BeforeHas ==
  ASSUME NEW op \in AllOps, NEW rest \in Seq(AllOps)
  PROVE  /\ Before(op, rest) \in Seq(AllOps) /\ Before(op, rest) # <<>>
         /\ Before(op, rest)[1] = op /\ Tail(Before(op, rest)) = rest
<1>. HIDE DEF AllOps
<1>. QED
  BY DEF Before

LEMMA OpsHave ==
  ASSUME NEW p \in Ports, NEW c \in Bytes
  PROVE  /\ ps2_send_cmd(PS2_WRITE_BYTE_INPUT_PORT_2) \in AllOps /\ ps2_write_data(c) \in AllOps
         /\ <<"write", p, c>> \in AllOps /\ <<"ack", p, c>> \in AllOps
         /\ <<"ack_test", p, c>> \in AllOps /\ <<"ack_time", p, c>> \in AllOps
         /\ <<"identify", p>> \in AllOps /\ <<"identified", p>> \in AllOps
         /\ <<"disabled", p>> \in AllOps /\ <<"id_loop", p>> \in AllOps
         /\ <<"id_wait", p>> \in AllOps /\ <<"id_byte", p>> \in AllOps
         /\ <<"poll">> \in AllOps /\ <<"check">> \in AllOps /\ <<"flush">> \in AllOps
         /\ <<"initialized">> \in AllOps /\ <<"keyboard_init">> \in AllOps /\ <<"enable">> \in AllOps
<1>1. ps2_send_cmd(PS2_WRITE_BYTE_INPUT_PORT_2) \in Usual /\ ps2_write_data(c) \in Usual
  BY OpsAre, SaidAre
<1>2. /\ <<"write", p, c>> \in Usual /\ <<"ack", p, c>> \in Usual
      /\ <<"ack_test", p, c>> \in Usual /\ <<"ack_time", p, c>> \in Usual
  BY DEF Usual, QuietOps, PlainOps
<1>3. /\ <<"identify", p>> \in Usual /\ <<"identified", p>> \in Usual
      /\ <<"disabled", p>> \in Usual /\ <<"id_loop", p>> \in Usual
  BY DEF Usual, QuietOps, PlainOps
<1>4. <<"id_wait", p>> \in IdOps /\ <<"id_byte", p>> \in IdOps
  BY DEF IdOps
<1>5. /\ <<"poll">> \in Usual /\ <<"check">> \in Usual /\ <<"flush">> \in Usual
      /\ <<"initialized">> \in Usual /\ <<"keyboard_init">> \in Usual /\ <<"enable">> \in Usual
  BY DEF Usual, QuietOps, PlainOps
<1>. QED
  BY <1>1, <1>2, <1>3, <1>4, <1>5 DEF AllOps

\* The device of a dialogue is what it asks and what answers.
FlightFact ==
  \A d \in Dialogue :
    MachineTypes /\ Quiet(d) => (InFlight <=> InputFull \/ Due(d.to) # <<>>)

LEMMA FlightIs == FlightFact
<1>. SUFFICES ASSUME NEW d \in Dialogue, MachineTypes, Quiet(d)
              PROVE  InFlight <=> InputFull \/ Due(d.to) # <<>>
  BY DEF FlightFact
<1>. DEFINE q == d.to
            o == Other(d.to)
<1>1. q \in Ports /\ o \in Ports /\ \A r \in Ports : r = q \/ r = o
  BY DialogueIs
<1>2. Due(o) = <<>> /\ out.src # Controller
  BY DEF Quiet
<1>. HIDE DEF q, o
<1>3. out.src # o /\ (Live(o) => dev[o].queue = <<>>)
  BY <1>1, <1>2, DueIs
<1>4. OutputFull => Due(q) # <<>>
  <2>1. OutputFull => out.src \in Ports
    BY <1>2, MachineIs DEF OutputFull, Ports
  <2>. QED
    BY <1>1, <1>3, <2>1, DueIs
<1>5. ASSUME NEW p \in Ports, dev[p].queue # <<>>, Live(p) PROVE Due(q) # <<>>
  BY <1>1, <1>3, <1>5, DueIs
<1>6. Due(q) # <<>> => OutputFull \/ (dev[q].queue # <<>> /\ Live(q))
  <2>1. out.src = q => OutputFull
    BY <1>1 DEF OutputFull, Ports, Nobody
  <2>. QED
    BY <1>1, <2>1, DueIs
<1>7. \A p \in Ports : Live(p) <=> ClockOff(p) \notin config
  BY DEF Live
<1>. QED
  BY <1>1, <1>4, <1>5, <1>6, <1>7 DEF InFlight, q

LEMMA EmptyMoves ==
  ASSUME NEW d, Moves(d), Empty
  PROVE  Empty' /\ (Stays(d) \/ Steals(d))
<1>1. in.port = "none"
  BY DEF Empty, InputFull
<1>2. Stays(d) \/ Steals(d)
  BY <1>1 DEF Moves, Obeys, Takes
<1>3. in' = in /\ expects' = expects
  BY <1>2 DEF Stays, Steals
<1>. QED
  BY <1>2, <1>3 DEF Empty, InputFull

LEMMA StillMoves ==
  ASSUME NEW d, NEW c, Moves(d), Still(d, c)
  PROVE  Still(d, c)' /\ Stays(d)
<1>1. Empty' /\ (Stays(d) \/ Steals(d))
  BY EmptyMoves DEF Still
<1>2. Stays(d)
  BY <1>1 DEF Steals, Still
<1>. QED
  BY <1>1, <1>2 DEF Stays, Same, Still, Ready

LEMMA PreparedMoves ==
  ASSUME NEW d \in Dialogue, NEW c, Moves(d), Fits(d), MachineTypes, UNCHANGED machine,
         Prepared(d, c)
  PROVE  Prepared(d, c)'
<1>0. Due(d.to) = <<>> /\ Ready(d, c)
  BY DEF Prepared
<1>1. ~Steals(d)
  BY <1>0 DEF Steals
<1>2. CASE Stays(d)
  BY <1>2 DEF Stays, Same, Prepared, Ready, Calls, InputFull
<1>3. CASE Obeys(d)
  <2>1. d.port = 2
    BY <1>3 DEF Prepared, Obeys, InputFull
  <2>2. Calls(d.to)'
    BY <1>3, <2>1, MachineIs DEF Obeys, Calls, Fits, Reached
  <2>3. ~InputFull'
    BY <1>3 DEF Obeys, InputFull, NoInput
  <2>. QED
    BY <1>0, <1>3, <2>2, <2>3 DEF Prepared, Obeys, Ready, Same
<1>4. ~Takes(d)
  BY DEF Prepared, Takes, InputFull
<1>. QED
  BY <1>1, <1>2, <1>3, <1>4 DEF Moves

LEMMA PatienceMoves ==
  ASSUME Types, Types', NEW d \in Dialogue, Quiet(d), Quiet(d)', Moves(d), UNCHANGED start, Patience
  PROVE  Patience'
<1>1. InFlight <=> InputFull \/ Due(d.to) # <<>>
  BY FlightIs DEF FlightFact, Types
<1>2. InFlight' <=> InputFull' \/ Due(d.to)' # <<>>
  <2>1. FlightFact'
    BY FlightIs, PTL
  <2>. QED
    BY <2>1 DEF FlightFact, Types
<1>3. InFlight' => InFlight
  <2>1. CASE Stays(d)
    BY <1>1, <1>2, <2>1 DEF Stays, InputFull
  <2>2. CASE Steals(d)
    BY <1>1, <2>2 DEF Steals
  <2>3. CASE Obeys(d) \/ Takes(d)
    BY <1>1, <2>3 DEF Obeys, Takes, InputFull
  <2>. QED
    BY <2>1, <2>2, <2>3 DEF Moves
<1>4. CASE ticks' = ticks
  BY <1>3, <1>4 DEF Patience
<1>5. CASE ticks' = ticks + 1 /\ (InFlight => ticks + 1 < start + PS2_TIMEOUT_DURATION)
  BY <1>3, <1>5 DEF Patience
<1>6. Passes \/ ticks' = ticks
  BY DEF Moves, Stays, Steals, Obeys, Takes, DeviceTakes, Silent
<1>. QED
  BY <1>4, <1>5, <1>6 DEF Passes

\* Time passes only where the thread waits.
LEMMA TimeMoves ==
  ASSUME NEW d, Moves(d), todo[1][1] \notin {"poll", "id_wait"}
  PROVE  ticks' = ticks
BY DEF Moves, Stays, Steals, Obeys, Takes, DeviceTakes, Silent, Passes, At

LEMMA ReplyIs ==
  ASSUME MachineTypes, NEW d \in Dialogue, d.answer = Identity(d.to), NEW c
  PROVE  Plain(d.answer) /\ Plain(Reply(d, c)) /\ (c # PS2_IDENTIFY => Rests(Reply(d, c)) = {<<>>})
<1>1. Plain(Identity(d.to))
  BY DialogueIs, IdentityIs
<1>. QED
  BY <1>1, NoRests DEF Reply

\* A byte that is on its way to be lost is the head of what rests.
LEMMA RestsMove ==
  ASSUME NEW d, NEW s, Plain(s), Due(d.to) \in Rests(s), Stays(d) \/ Steals(d)
  PROVE  /\ Due(d.to)' \in Rests(s)
         /\ Due(d.to) = <<>> => Due(d.to)' = <<>>
         /\ Len(Due(d.to)') <= Len(Due(d.to)) /\ Len(Due(d.to)') \in Nat
<1>1. Due(d.to) \in Seq(Bytes)
  BY RestsIs
<1>2. CASE Stays(d)
  BY <1>1, <1>2 DEF Stays
<1>3. CASE Steals(d)
  <2>1. Due(d.to) # <<>> /\ Due(d.to)' = Tail(Due(d.to))
    BY <1>3 DEF Steals
  <2>2. Tail(Due(d.to)) \in Rests(s)
    BY <2>1, RestsIs
  <2>3. Tail(Due(d.to)) \in Seq(Bytes) /\ Len(Tail(Due(d.to))) = Len(Due(d.to)) - 1
    BY <1>1, <2>1, TailShorter
  <2>. QED
    BY <1>1, <2>1, <2>2, <2>3
<1>. QED
  BY <1>2, <1>3

LEMMA LostMoves ==
  ASSUME MachineTypes, NEW d \in Dialogue, d.answer = Identity(d.to), NEW c, Moves(d), Lost(d, c)
  PROVE  Lost(d, c)'
<1>1. Empty' /\ (Stays(d) \/ Steals(d))
  BY EmptyMoves DEF Lost
<1>2. Due(d.to)' \in Rests(Reply(d, c))
  BY <1>1, RestsMove, ReplyIs DEF Lost
<1>3. dev'[d.to].param = dev[d.to].param
  BY <1>1 DEF Stays, Steals, Same
<1>. QED
  BY <1>1, <1>2, <1>3 DEF Lost, Reply

LEMMA WritesMoves ==
  ASSUME NEW d \in Dialogue, NEW c, NEW M, Moves(d), Fits(d), MachineTypes, Unmoved, Writes(d, c, M)
  PROVE  Writes(d, c, M)'
<1>1. /\ todo' = todo /\ ret' = ret /\ machine' = machine /\ (Usable(d.port)' <=> Usable(d.port))
  BY UnmovedMeans DEF Usable
<1>2. CASE Still(d, c)
  <2>1. Still(d, c)'
    BY <1>2, StillMoves
  <2>2. \/ todo = Before(<<"write", d.port, c>>, M)
        \/ /\ todo = Before(ps2_send_cmd(PS2_WRITE_BYTE_INPUT_PORT_2), Before(ps2_write_data(c), M))
           /\ Usable(d.port) /\ d.port = 2 /\ ret = 0
        \/ /\ todo = Before(ps2_write_data(c), M)
           /\ Usable(d.port) /\ ret = 0 /\ Prepared(d, c)
    BY DEF Writes
  <2>3. Prepared(d, c) => Prepared(d, c)'
    BY <1>1, PreparedMoves
  <2>. QED
    BY <1>1, <2>1, <2>2, <2>3 DEF Writes
<1>3. CASE todo = Before(ps2_write_data(c), M) /\ Usable(d.port) /\ ret = 0 /\ Prepared(d, c)
  <2>1. Prepared(d, c)'
    BY <1>1, <1>3, PreparedMoves
  <2>. QED
    BY <1>1, <1>3, <2>1 DEF Writes
<1>. QED
  BY <1>2, <1>3 DEF Writes

\* Each refusal gives the answer one more time-out, less a tick.
LEMMA PaceOf ==
  ASSUME PS2_TIMEOUT_DURATION \in Nat \ {0}, ack_start \in Nat, NEW r \in Nat
  PROVE  /\ ack_start + r * (PS2_TIMEOUT_DURATION - 1) \in Nat
         /\ ack_start + (r + 1) * (PS2_TIMEOUT_DURATION - 1)
              = (ack_start + r * (PS2_TIMEOUT_DURATION - 1)) + (PS2_TIMEOUT_DURATION - 1)
<1>. DEFINE n == PS2_TIMEOUT_DURATION - 1
<1>1. n \in Nat
  OBVIOUS
<1>. HIDE DEF n
<1>2. \A x, y \in Nat : x * y \in Nat /\ (x + 1) * y = x * y + y
  OBVIOUS
<1>3. r * n \in Nat /\ (r + 1) * n = r * n + n
  BY <1>1, <1>2
<1>4. ack_start + r * n \in Nat /\ ack_start + (r + 1) * n = (ack_start + r * n) + n
  BY <1>1, <1>3
<1>. QED
  BY <1>4 DEF n

LEMMA PendingMoves ==
  ASSUME Types, Types', NEW d \in Dialogue, Fits(d), Quiet(d), Unmoved, Moves(d),
         NEW c \in Orders, Pending(d, c)
  PROVE  Pending(d, c)' /\ \A t \in Nat : Pace(d, c, t) => Pace(d, c, t)'
<1>a. MachineTypes /\ MachineTypes' /\ ack_start \in Nat /\ ack_start' = ack_start
  BY UnmovedMeans DEF Types, ThreadTypes
<1>b. d.answer = Identity(d.to) /\ d.to \in Ports /\ c \in Said /\ c # Byte(1)
  BY DialogueIs, SaidAre DEF Fits, Orders
<1>c. dev[d.to].resends \in Nat
  BY <1>a, <1>b DEF MachineTypes, Devices
<1>d. PS2_TIMEOUT_DURATION \in Nat \ {0}
  BY Ps2Assumption
<1>e. Usable(d.port)' <=> Usable(d.port)
  BY UnmovedMeans DEF Usable
<1>1. CASE Lost(d, c)
  <2>1. Lost(d, c)'
    BY <1>a, <1>b, <1>1, LostMoves
  <2>. QED
    BY <2>1 DEF Pending, Pace
<1>2. ASSUME ~Lost(d, c), UNCHANGED <<Due(d.to), dev[d.to].resends>>
      PROVE  \A t \in Nat : Pace(d, c, t) => Pace(d, c, t)'
  <2>1. Allowed(d)' = Allowed(d)
    BY <1>a, <1>2 DEF Allowed
  <2>. QED
    BY <1>2, <2>1 DEF Pace
<1>3. CASE Untaken(d, c) /\ ~Lost(d, c)
  <2>0. ~dev[d.to].param /\ Due(d.to) = <<>> /\ in.byte = c /\ in.port = "data" /\ Ready(d, c)
    <3>1. in.byte = c /\ in.port = "data"
      <4>1. in = [byte |-> c, port |-> "data"]
        BY <1>3 DEF Untaken
      <4>. QED
        BY <4>1
    <3>. QED
      BY <1>b, <1>3, <3>1 DEF Untaken, Ready
  <2>1. CASE Stays(d)
    <3>1. Untaken(d, c)'
      BY <1>e, <1>3, <2>1 DEF Untaken, Stays, Ready, Calls, Same
    <3>. QED
      BY <1>2, <1>3, <2>1, <3>1 DEF Stays, Same, Pending
  <2>2. CASE Takes(d)
    <3>1. Empty' /\ (Ignores(d) \/ Refuses(d, c) \/ Accepts(d, c))
      BY <1>b, <2>0, <2>2, TakesDoes
    <3>2. <<>> \in Rests(Reply(d, c))
      BY DEF Rests
    <3>3. ASSUME Due(d.to)' = <<>>, ~d.exact,
                 dev'[d.to].param => c = PS2_KEYBOARD_SET_SCANCODE_SET
          PROVE  Pending(d, c)' /\ \A t \in Nat : Pace(d, c, t) => Pace(d, c, t)'
      <4>1. Lost(d, c)'
        BY <3>1, <3>2, <3>3 DEF Lost, Reply
      <4>. QED
        BY <4>1 DEF Pending, Pace
    <3>4. CASE Ignores(d)
      <4>1. ~d.exact
        BY <3>4 DEF Ignores, Fits
      <4>. QED
        BY <2>0, <3>3, <3>4, <4>1 DEF Ignores, Same
    <3>5. CASE Refuses(d, c)
      <4>1. CASE Live(d.to)
        <5>1. Due(d.to)' = <<PS2_RESEND>> /\ dev'[d.to].resends = dev[d.to].resends + 1
              /\ ~dev'[d.to].param
          BY <2>0, <3>5, <4>1 DEF Refuses, IfLive
        <5>2. Refused(d)'
          BY <1>c, <3>1, <5>1 DEF Refused
        <5>3. Allowed(d) \in Nat /\ Allowed(d)' = Allowed(d) + (PS2_TIMEOUT_DURATION - 1)
          BY <1>a, <1>c, <1>d, <5>1, PaceOf DEF Allowed
        <5>4. ASSUME NEW t \in Nat, Pace(d, c, t) PROVE Pace(d, c, t)'
          <6>1. t <= Allowed(d)
            BY <1>3, <5>4 DEF Pace
          <6>2. t <= Allowed(d)' /\ t + (PS2_TIMEOUT_DURATION - 1) <= Allowed(d)'
            BY <1>d, <5>3, <6>1
          <6>. QED
            BY <6>2 DEF Pace
        <5>. QED
          BY <5>2, <5>4 DEF Pending
      <4>2. CASE ~Live(d.to)
        <5>1. Due(d.to)' = <<>> /\ ~dev'[d.to].param
          BY <2>0, <3>5, <4>2 DEF Refuses, IfLive
        <5>2. ~d.exact
          BY <4>2 DEF Fits
        <5>. QED
          BY <3>3, <5>1, <5>2
      <4>. QED
        BY <4>1, <4>2
    <3>6. CASE Accepts(d, c)
      <4>1. CASE Live(d.to)
        <5>1. Due(d.to)' = <<PS2_ACK>> \o Reply(d, c) /\ Effect(d, c)'
              /\ dev'[d.to].resends = dev[d.to].resends
          BY <3>6, <4>1 DEF Accepts, IfLive
        <5>2. Accepted(d, c)'
          BY <3>1, <5>1 DEF Accepted, Reply
        <5>3. Due(d.to)' # <<PS2_RESEND>>
          <6>1. Reply(d, c) \in Seq(Bytes)
            BY <1>a, <1>b, ReplyIs DEF Plain
          <6>2. (<<PS2_ACK>> \o Reply(d, c))[1] = PS2_ACK
            BY <6>1, ByteFirst, SaidAre
          <6>3. <<PS2_RESEND>>[1] = PS2_RESEND
            OBVIOUS
          <6>4. PS2_ACK # PS2_RESEND
            BY SaidDiffer
          <6>. QED
            BY <5>1, <6>2, <6>3, <6>4, Zenon
        <5>4. Allowed(d)' = Allowed(d)
          BY <1>a, <5>1 DEF Allowed
        <5>5. \A t \in Nat : Pace(d, c, t) => Pace(d, c, t)'
          BY <1>3, <5>3, <5>4 DEF Pace
        <5>. QED
          BY <5>2, <5>5 DEF Pending
      <4>2. CASE ~Live(d.to)
        <5>1. Due(d.to)' = <<>> /\ (dev'[d.to].param <=> c = PS2_KEYBOARD_SET_SCANCODE_SET)
          BY <3>6, <4>2 DEF Accepts, IfLive, Effect
        <5>2. ~d.exact
          BY <4>2 DEF Fits
        <5>. QED
          BY <3>3, <5>1, <5>2
      <4>. QED
        BY <4>1, <4>2
    <3>. QED
      BY <3>1, <3>4, <3>5, <3>6
  <2>3. ~Steals(d) /\ ~Obeys(d)
    BY <2>0 DEF Steals, Obeys
  <2>. QED
    BY <2>1, <2>2, <2>3 DEF Moves
<1>4. CASE (Refused(d) \/ Accepted(d, c)) /\ ~Lost(d, c)
  <2>1. Empty' /\ (Stays(d) \/ Steals(d))
    BY <1>4, EmptyMoves DEF Refused, Accepted
  <2>2. CASE Stays(d)
    <3>1. Refused(d) => Refused(d)'
      BY <2>1, <2>2 DEF Refused, Stays, Same
    <3>2. Accepted(d, c) => Accepted(d, c)'
      BY <2>1, <2>2 DEF Accepted, Stays, Same, Effect, Reply
    <3>. QED
      BY <1>2, <1>4, <2>2, <3>1, <3>2 DEF Stays, Same, Pending
  <2>3. CASE Steals(d)
    <3>1. ~d.exact /\ dev'[d.to].param = dev[d.to].param
      BY <2>3 DEF Steals, Fits, Same
    <3>2. Due(d.to)' \in Rests(Reply(d, c))
      <4>0. Due(d.to)' = Tail(Due(d.to))
        BY <2>3 DEF Steals
      <4>1. CASE Due(d.to) = <<PS2_RESEND>>
        BY <4>0, <4>1, SaidAre DEF Rests
      <4>2. CASE Due(d.to) = <<PS2_ACK>> \o Reply(d, c)
        <5>1. Reply(d, c) \in Seq(Bytes)
          BY <1>a, <1>b, ReplyIs DEF Plain
        <5>2. Tail(Due(d.to)) = Reply(d, c)
          BY <4>2, <5>1, ByteFirst, SaidAre
        <5>. QED
          BY <4>0, <5>2 DEF Rests
      <4>. QED
        BY <1>4, <4>1, <4>2 DEF Refused, Accepted
    <3>3. Lost(d, c)'
      BY <1>4, <2>1, <3>1, <3>2 DEF Lost, Refused, Accepted, Effect, Reply
    <3>. QED
      BY <3>3 DEF Pending, Pace
  <2>. QED
    BY <2>1, <2>2, <2>3
<1>. QED
  BY <1>1, <1>3, <1>4 DEF Pending

LEMMA HeardMoves ==
  ASSUME MachineTypes, NEW d \in Dialogue, Fits(d), Unmoved, Moves(d), ticks' = ticks,
         NEW c \in Orders, Heard(d, c)
  PROVE  Heard(d, c)'
<1>a. d.answer = Identity(d.to)
  BY DEF Fits
<1>1. Empty' /\ (Stays(d) \/ Steals(d))
  BY EmptyMoves DEF Heard
<1>2. dev'[d.to].param = dev[d.to].param /\ dev'[d.to].resends = dev[d.to].resends
      /\ dev'[d.to].scanning = dev[d.to].scanning
  BY <1>1 DEF Stays, Steals, Same
<1>3. UNCHANGED <<byte, ack_start, ps2_error>>
  BY UnmovedMeans
<1>4. CASE byte = PS2_ACK /\ Effect(d, c) /\ Due(d.to) \in Rests(Reply(d, c))
           /\ (d.exact => Due(d.to) = Reply(d, c))
  <2>1. Due(d.to)' \in Rests(Reply(d, c))
    BY <1>a, <1>1, <1>4, RestsMove, ReplyIs
  <2>2. d.exact => Due(d.to)' = Reply(d, c)
    BY <1>1, <1>4 DEF Stays, Steals, Fits
  <2>3. Effect(d, c)'
    BY <1>2, <1>4 DEF Effect
  <2>. QED
    BY <1>1, <1>3, <1>4, <2>1, <2>2, <2>3 DEF Heard, Reply
<1>5. CASE byte = PS2_RESEND /\ Due(d.to) = <<>> /\ ~dev[d.to].param /\ ticks <= Allowed(d)
  <2>1. Due(d.to)' = <<>>
    BY <1>1, <1>5 DEF Stays, Steals
  <2>2. ticks' <= Allowed(d)'
    BY <1>2, <1>3, <1>5 DEF Allowed
  <2>. QED
    BY <1>1, <1>2, <1>3, <1>5, <2>1, <2>2 DEF Heard
<1>6. CASE byte \notin {PS2_ACK, PS2_RESEND} /\ Lost(d, c)
  <2>1. Lost(d, c)'
    BY <1>a, <1>6, LostMoves
  <2>. QED
    BY <1>1, <1>3, <1>6, <2>1 DEF Heard
<1>. QED
  BY <1>4, <1>5, <1>6 DEF Heard

LEMMA OutcomeMoves ==
  ASSUME MachineTypes, NEW d \in Dialogue, Fits(d), Unmoved, Moves(d), NEW c, Outcome(d, c)
  PROVE  Outcome(d, c)'
<1>a. d.answer = Identity(d.to)
  BY DEF Fits
<1>1. Empty' /\ (Stays(d) \/ Steals(d))
  BY EmptyMoves DEF Outcome
<1>2. dev'[d.to].param = dev[d.to].param /\ dev'[d.to].scanning = dev[d.to].scanning
  BY <1>1 DEF Stays, Steals, Same
<1>3. UNCHANGED <<ret, ps2_error>>
  BY UnmovedMeans
<1>4. Due(d.to)' \in Rests(Reply(d, c))
  BY <1>a, <1>1, RestsMove, ReplyIs DEF Outcome
<1>5. d.exact /\ Due(d.to) = Reply(d, c) => Due(d.to)' = Reply(d, c)
  BY <1>1 DEF Stays, Steals, Fits
<1>6. Clean(d)'
  BY <1>3 DEF Clean, Outcome
<1>7. CASE ret = 0 /\ Effect(d, c) /\ (d.exact => Due(d.to) = Reply(d, c))
  <2>1. Effect(d, c)'
    BY <1>2, <1>7 DEF Effect
  <2>. QED
    BY <1>1, <1>3, <1>4, <1>5, <1>6, <1>7, <2>1 DEF Outcome, Reply
<1>8. CASE ret = 1 /\ ~d.exact /\ (dev[d.to].param => c = PS2_KEYBOARD_SET_SCANCODE_SET)
  BY <1>1, <1>2, <1>3, <1>4, <1>6, <1>8 DEF Outcome, Reply
<1>. QED
  BY <1>7, <1>8 DEF Outcome

LEMMA CommandingMoves ==
  ASSUME Types, Types', NEW d \in Dialogue, Fits(d), Quiet(d), Quiet(d)', Unmoved, Moves(d),
         NEW c \in Orders, NEW N \in Seq(AllOps), Commanding(d, c, N)
  PROVE  Commanding(d, c, N)' /\ (Acknowledging(d, c, N) => Acknowledging(d, c, N)')
<1>a. MachineTypes /\ start \in Nat /\ ticks \in Nat
  BY DEF Types, ThreadTypes, MachineTypes
<1>b. d.port \in Ports /\ c \in Bytes
  BY DialogueIs, SaidAre DEF Orders
<1>c. UNCHANGED <<todo, byte, ret, start, ack_start, ps2_error>>
  BY UnmovedMeans
<1>d. Clean(d) => Clean(d)'
  BY <1>c DEF Clean
<1>e. ASSUME NEW t \in Nat, Pending(d, c), Pace(d, c, t) PROVE Pace(d, c, t)'
  BY <1>e, PendingMoves
<1>f. Pending(d, c) => Pending(d, c)'
  BY PendingMoves
<1>1. ASSUME Writes(d, c, AckOps(d, c, N)), Clean(d)
      PROVE  Writes(d, c, AckOps(d, c, N))' /\ Clean(d)'
  BY <1>1, <1>a, <1>d, WritesMoves DEF AckOps
<1>2. CASE todo = AckOps(d, c, N) /\ Pending(d, c) /\ Clean(d)
  <2>1. Acknowledging(d, c, N)'
    BY <1>2, <1>c, <1>d, <1>f DEF Acknowledging, AckOps
  <2>. QED
    BY <2>1 DEF Commanding
<1>3. CASE /\ todo = Before(<<"poll">>, TestOps(d, c, N))
           /\ Pending(d, c) /\ Pace(d, c, start) /\ Patience /\ Clean(d)
  <2>1. Patience'
    BY <1>3, <1>c, PatienceMoves
  <2>2. Pace(d, c, start)'
    BY <1>3, <1>a, <1>c, <1>e DEF Pace
  <2>3. Acknowledging(d, c, N)'
    BY <1>3, <1>c, <1>d, <1>f, <2>1, <2>2 DEF Acknowledging, TestOps
  <2>. QED
    BY <2>3 DEF Commanding
<1>4. CASE todo = TestOps(d, c, N) /\ Heard(d, c)
  <2>1. todo[1] = <<"ack_test", d.port, c>>
    BY <1>4, <1>b, OpsHave, BeforeHas DEF TestOps
  <2>2. ticks' = ticks
    BY <2>1, TimeMoves
  <2>3. Heard(d, c)'
    BY <1>4, <1>a, <2>2, HeardMoves
  <2>4. Acknowledging(d, c, N)'
    BY <1>4, <1>c, <2>3 DEF Acknowledging, TestOps
  <2>. QED
    BY <2>4 DEF Commanding
<1>5. CASE Writes(d, c, TimeOps(d, c, N)) /\ ticks <= Allowed(d) /\ Clean(d)
  <2>1. Writes(d, c, TimeOps(d, c, N))'
    BY <1>5, <1>a, WritesMoves DEF TimeOps
  <2>2. TimeOps(d, c, N) \in Seq(AllOps)
    BY <1>b, OpsHave, BeforeHas DEF TimeOps
  <2>3. todo[1][1] \in {"write", "outb"}
    <3>1. \A op \in AllOps, rest \in Seq(AllOps) :
            Before(op, rest) \in Seq(AllOps) /\ Before(op, rest)[1] = op
      BY BeforeHas
    <3>2. /\ <<"write", d.port, c>> \in AllOps /\ ps2_write_data(c) \in AllOps
          /\ ps2_send_cmd(PS2_WRITE_BYTE_INPUT_PORT_2) \in AllOps
      BY <1>b, OpsHave
    <3>3. todo[1] \in {<<"write", d.port, c>>, ps2_write_data(c),
                       ps2_send_cmd(PS2_WRITE_BYTE_INPUT_PORT_2)}
      BY <1>5, <2>2, <3>1, <3>2 DEF Writes
    <3>. QED
      BY <3>3 DEF ps2_write_data, ps2_send_cmd
  <2>4. ticks' = ticks
    BY <2>3, TimeMoves
  <2>5. Allowed(d)' = Allowed(d)
    <3>1. ~Takes(d)
      <4>1. Still(d, c) \/ Prepared(d, c)
        BY <1>5 DEF Writes
      <4>2. in.port # "data"
        <5>1. CASE Still(d, c)
          BY <5>1 DEF Still, Empty, InputFull
        <5>2. CASE Prepared(d, c)
          BY <5>2 DEF Prepared, InputFull
        <5>. QED
          BY <4>1, <5>1, <5>2
      <4>. QED
        BY <4>2 DEF Takes
    <3>. QED
      BY <1>c, <3>1 DEF Moves, Stays, Steals, Obeys, Same, Allowed
  <2>6. Acknowledging(d, c, N)'
    BY <1>5, <1>d, <2>1, <2>4, <2>5 DEF Acknowledging, TimeOps
  <2>. QED
    BY <2>6 DEF Commanding
<1>6. CASE todo = TimeOps(d, c, N) /\ Pending(d, c) /\ Pace(d, c, ticks) /\ Clean(d)
  <2>1. todo[1] = <<"ack_time", d.port, c>>
    BY <1>6, <1>b, OpsHave, BeforeHas DEF TimeOps
  <2>2. ticks' = ticks
    BY <2>1, TimeMoves
  <2>3. Pace(d, c, ticks)'
    BY <1>6, <1>a, <1>e, <2>2 DEF Pace
  <2>4. Acknowledging(d, c, N)'
    BY <1>6, <1>c, <1>d, <1>f, <2>3 DEF Acknowledging, TimeOps
  <2>. QED
    BY <2>4 DEF Commanding
<1>. QED
  BY <1>1, <1>2, <1>3, <1>4, <1>5, <1>6 DEF Commanding, Acknowledging

\* What an identity consists of keeps its length, whoever takes bytes away.
LEMMA IdentifyingMoves ==
  ASSUME Types, NEW d \in Dialogue, Fits(d), Unmoved, Moves(d)
  PROVE  /\ Identifying(d) => Identifying(d)' /\ (d.exact => Stays(d))
         /\ GotByte(d) => GotByte(d)'
         /\ Result(d) => Result(d)'
<1>a. Plain(d.answer) /\ Len(response) \in Nat /\ Len(d.answer) \in Nat
  BY ReplyIs DEF Types, ThreadTypes, Fits, Plain
<1>c. UNCHANGED <<byte, response, ps2_error>>
  BY UnmovedMeans
<1>1. ASSUME Empty, ~dev[d.to].param
      PROVE  /\ Empty' /\ ~dev'[d.to].param /\ (Stays(d) \/ Steals(d))
             /\ d.exact => Stays(d)
             /\ dev'[d.to].scanning = dev[d.to].scanning
             /\ Due(d.to) = <<>> => Due(d.to)' = <<>>
  BY <1>1, EmptyMoves DEF Stays, Steals, Same, Fits
<1>2. ASSUME Empty, Due(d.to) \in Rests(d.answer)
      PROVE  /\ Due(d.to)' \in Rests(d.answer)
             /\ Len(Due(d.to)) \in Nat /\ Len(Due(d.to)') \in Nat /\ Len(Due(d.to)') <= Len(Due(d.to))
  <2>1. Stays(d) \/ Steals(d)
    BY <1>2, EmptyMoves
  <2>2. Due(d.to) \in Seq(Bytes)
    BY <1>2, <1>a, RestsIs
  <2>. QED
    BY <1>2, <1>a, <2>1, <2>2, RestsMove
<1>3. ASSUME Identifying(d) PROVE Identifying(d)' /\ (d.exact => Stays(d))
  <2>1. Len(response') + Len(Due(d.to)') <= Len(d.answer)
    BY <1>2, <1>3, <1>a, <1>c DEF Identifying
  <2>2. d.exact => response' \o Due(d.to)' = d.answer
    BY <1>1, <1>3, <1>c DEF Identifying, Stays
  <2>. QED
    BY <1>1, <1>2, <1>3, <2>1, <2>2 DEF Identifying
<1>4. ASSUME GotByte(d) PROVE GotByte(d)'
  <2>1. ~ps2_error' => Len(response') + 1 + Len(Due(d.to)') <= Len(d.answer)
    BY <1>2, <1>4, <1>a, <1>c DEF GotByte
  <2>2. d.exact => ~ps2_error' /\ Append(response', byte') \o Due(d.to)' = d.answer
    BY <1>1, <1>4, <1>c DEF GotByte, Stays
  <2>3. d.sound /\ ps2_error' => Due(d.to)' = <<>>
    BY <1>1, <1>4, <1>c DEF GotByte
  <2>. QED
    BY <1>1, <1>2, <1>4, <1>c, <2>1, <2>2, <2>3 DEF GotByte
<1>5. ASSUME Result(d) PROVE Result(d)'
  BY <1>1, <1>5, <1>c DEF Result
<1>. QED
  BY <1>3, <1>4, <1>5

LEMMA TalkMoves ==
  ASSUME Types, Types', NEW d \in Dialogue, Fits(d), Quiet(d), Quiet(d)', Unmoved, Moves(d),
         NEW N \in Seq(AllOps), Talk(d, N)
  PROVE  Talk(d, N)'
<1>a. MachineTypes /\ d.port \in Ports
  BY DialogueIs DEF Types
<1>c. UNCHANGED <<todo, byte, ret, start, response, ps2_error>>
  BY UnmovedMeans
<1>d. Clean(d) => Clean(d)'
  BY <1>c DEF Clean
<1>e. Patience => Patience'
  BY <1>c, PatienceMoves
<1>f. DisabledOps(d, N) \in Seq(AllOps) /\ LoopOps(d, N) \in Seq(AllOps)
  BY <1>a, OpsHave, BeforeHas, SaidAre DEF DisabledOps, LoopOps
<1>g. /\ PS2_DISABLE_SCANNING \in Orders /\ PS2_IDENTIFY \in Orders /\ PS2_ENABLE_SCANNING \in Orders
  BY SaidAre
<1>1. CASE todo = Before(<<"identify", d.port>>, N) /\ Still(d, PS2_DISABLE_SCANNING) /\ Clean(d)
  <2>1. Still(d, PS2_DISABLE_SCANNING)'
    BY <1>1, StillMoves
  <2>. QED
    BY <1>1, <1>c, <1>d, <2>1 DEF Talk
<1>2. CASE Commanding(d, PS2_DISABLE_SCANNING, DisabledOps(d, N)) /\ response = <<>>
  <2>1. Commanding(d, PS2_DISABLE_SCANNING, DisabledOps(d, N))'
    BY <1>2, <1>f, <1>g, CommandingMoves DEF DisabledOps
  <2>. QED
    BY <1>2, <1>c, <2>1 DEF Talk, DisabledOps
<1>3. CASE todo = DisabledOps(d, N) /\ Outcome(d, PS2_DISABLE_SCANNING) /\ response = <<>>
  <2>1. Outcome(d, PS2_DISABLE_SCANNING)'
    BY <1>3, <1>a, OutcomeMoves
  <2>. QED
    BY <1>3, <1>c, <2>1 DEF Talk, DisabledOps
<1>4. CASE Commanding(d, PS2_IDENTIFY, LoopOps(d, N)) /\ response = <<>>
  <2>1. Commanding(d, PS2_IDENTIFY, LoopOps(d, N))'
    BY <1>4, <1>f, <1>g, CommandingMoves DEF LoopOps
  <2>. QED
    BY <1>4, <1>c, <2>1 DEF Talk, LoopOps
<1>5. CASE todo = LoopOps(d, N) /\ Identifying(d) /\ Clean(d)
  <2>1. Identifying(d)'
    BY <1>5, IdentifyingMoves
  <2>. QED
    BY <1>5, <1>c, <1>d, <2>1 DEF Talk, LoopOps
<1>6. CASE todo = WaitOps(d, N) /\ Identifying(d) /\ Clean(d) /\ Patience /\ Len(response) < 2
  <2>1. Identifying(d)'
    BY <1>6, IdentifyingMoves
  <2>. QED
    BY <1>6, <1>c, <1>d, <1>e, <2>1 DEF Talk, WaitOps
<1>7. CASE /\ todo = Before(<<"poll">>, ByteOps(d, N))
           /\ Identifying(d) /\ Clean(d) /\ Patience /\ Len(response) < 2 /\ (d.exact => OutputFull)
  <2>1. Identifying(d)' /\ (d.exact => Stays(d))
    BY <1>7, IdentifyingMoves
  <2>2. d.exact => OutputFull'
    BY <1>7, <2>1 DEF Stays
  <2>. QED
    BY <1>7, <1>c, <1>d, <1>e, <2>1, <2>2 DEF Talk, ByteOps
<1>8. CASE todo = ByteOps(d, N) /\ GotByte(d)
  <2>1. GotByte(d)'
    BY <1>8, IdentifyingMoves
  <2>. QED
    BY <1>8, <1>c, <2>1 DEF Talk, ByteOps
<1>9. CASE /\ Commanding(d, PS2_ENABLE_SCANNING, N)
           /\ Len(response) <= Len(d.answer) /\ (d.exact => response = d.answer)
  <2>1. Commanding(d, PS2_ENABLE_SCANNING, N)'
    BY <1>9, <1>g, CommandingMoves
  <2>. QED
    BY <1>9, <1>c, <2>1 DEF Talk
<1>10. CASE todo = N /\ Result(d)
  <2>1. Result(d)'
    BY <1>10, IdentifyingMoves
  <2>. QED
    BY <1>10, <1>c, <2>1 DEF Talk
<1>. QED
  BY <1>1, <1>2, <1>3, <1>4, <1>5, <1>6, <1>7, <1>8, <1>9, <1>10 DEF Talk

LEMMA SettingSeqs ==
  ASSUME NEW d \in Dialogue
  PROVE  /\ EnableOps \in Seq(AllOps) /\ LastOps(d) \in Seq(AllOps) /\ SetOps(d) \in Seq(AllOps)
         /\ SetAckOps(d) \in Seq(AllOps)
         /\ Before(<<"check">>, SetAckOps(d)) \in Seq(AllOps)
         /\ Before(<<"write", d.port, Byte(1)>>, LastOps(d)) \in Seq(AllOps)
<1>1. d.port \in Ports /\ Byte(1) \in Bytes /\ PS2_KEYBOARD_SET_SCANCODE_SET \in Bytes
  BY DialogueIs, SaidAre
<1>2. /\ <<"check">> \in AllOps /\ <<"enable">> \in AllOps /\ <<"flush">> \in AllOps
      /\ <<"write", d.port, Byte(1)>> \in AllOps
      /\ <<"ack", d.port, PS2_KEYBOARD_SET_SCANCODE_SET>> \in AllOps
  BY <1>1, OpsHave
<1>3. EnableOps \in Seq(AllOps)
  <2>. HIDE DEF AllOps
  <2>. QED
    BY <1>2 DEF EnableOps
<1>4. LastOps(d) \in Seq(AllOps)
  BY <1>2, <1>3, BeforeHas DEF LastOps
<1>5. Before(<<"write", d.port, Byte(1)>>, LastOps(d)) \in Seq(AllOps)
  BY <1>2, <1>4, BeforeHas
<1>6. SetOps(d) \in Seq(AllOps)
  BY <1>2, <1>5, BeforeHas DEF SetOps
<1>7. SetAckOps(d) \in Seq(AllOps)
  BY <1>2, <1>6, BeforeHas DEF SetAckOps, AckOps
<1>8. Before(<<"check">>, SetAckOps(d)) \in Seq(AllOps)
  BY <1>2, <1>7, BeforeHas
<1>. QED
  BY <1>3, <1>4, <1>5, <1>6, <1>7, <1>8

LEMMA FinishedMoves ==
  ASSUME Types, Types', NEW d \in Dialogue, Fits(d), Quiet(d), Unmoved, Moves(d),
         Live(d.to), machine.attached[d.to] # "none", Finished(d.to)
  PROVE  Finished(d.to)'
<1>a. d.answer = Identity(d.to) /\ Byte(1) \in Said
  BY SaidAre DEF Fits
<1>1. CASE in = [byte |-> Byte(1), port |-> "data"] /\ Calls(d.to) /\ dev[d.to].param /\ Due(d.to) = <<>>
  <2>1. in.byte = Byte(1) /\ in.port = "data" /\ Ready(d, Byte(1))
    <3>1. in.byte = Byte(1) /\ in.port = "data"
      <4>1. in = [byte |-> Byte(1), port |-> "data"]
        BY <1>1
      <4>. QED
        BY <4>1
    <3>. QED
      BY <1>1, <3>1 DEF Ready
  <2>2. CASE Stays(d)
    BY <1>1, <2>2 DEF Finished, Stays, Same, Calls
  <2>3. CASE Takes(d)
    <3>1. in' = NoInput /\ (Ignores(d) \/ Refuses(d, Byte(1)) \/ Accepts(d, Byte(1)))
      BY <1>1, <1>a, <2>1, <2>3, TakesDoes
    <3>2. ~InputFull'
      BY <3>1 DEF InputFull, NoInput
    <3>3. ~Ignores(d)
      BY DEF Ignores
    <3>4. Refuses(d, Byte(1)) => Byte(1) \in Resendable
      BY DEF Refuses
    <3>5. Accepts(d, Byte(1)) => ~dev'[d.to].param /\ dev'[d.to].set = 1 /\ Due(d.to)' = <<PS2_ACK>>
      <4>. SUFFICES ASSUME Accepts(d, Byte(1))
                    PROVE  ~dev'[d.to].param /\ dev'[d.to].set = 1 /\ Due(d.to)' = <<PS2_ACK>>
        OBVIOUS
      <4>1. ~dev'[d.to].param /\ dev'[d.to].set = 1
        BY SaidDiffer DEF Accepts, Effect
      <4>2. Due(d.to)' = <<PS2_ACK>> \o Reply(d, Byte(1))
        BY DEF Accepts, IfLive
      <4>3. Reply(d, Byte(1)) = <<>>
        BY SaidDiffer DEF Reply
      <4>4. <<PS2_ACK>> \o <<>> = <<PS2_ACK>>
        BY SaidAre
      <4>. QED
        BY <4>1, <4>2, <4>3, <4>4
    <3>. QED
      BY <3>1, <3>2, <3>3, <3>4, <3>5 DEF Finished
  <2>4. ~Steals(d) /\ ~Obeys(d)
    BY <1>1, <2>1 DEF Steals, Obeys
  <2>. QED
    BY <2>2, <2>3, <2>4 DEF Moves
<1>2. CASE /\ ~InputFull
           /\ Byte(1) \notin Resendable =>
                ~dev[d.to].param /\ dev[d.to].set = 1 /\ Due(d.to) \in {<<>>, <<PS2_ACK>>}
  <2>1. Stays(d) \/ Steals(d)
    BY <1>2 DEF Moves, Obeys, Takes, InputFull
  <2>2. ~InputFull'
    BY <1>2, <2>1 DEF Stays, Steals, InputFull
  <2>3. dev'[d.to].param = dev[d.to].param /\ dev'[d.to].set = dev[d.to].set
    BY <2>1 DEF Stays, Steals, Same
  <2>4. Due(d.to) \in {<<>>, <<PS2_ACK>>} => Due(d.to)' \in {<<>>, <<PS2_ACK>>}
    <3>1. Tail(<<PS2_ACK>>) = <<>>
      BY SaidAre
    <3>. QED
      BY <2>1, <3>1 DEF Stays, Steals
  <2>. QED
    BY <1>2, <2>2, <2>3, <2>4 DEF Finished
<1>. QED
  BY <1>1, <1>2 DEF Finished

LEMMA CorrectingMoves ==
  ASSUME Types, Types', NEW d \in Dialogue, Fits(d), Quiet(d), Quiet(d)', Unmoved, Moves(d),
         Live(d.to), machine.attached[d.to] # "none", Correcting(d)
  PROVE  Correcting(d)'
<1>a. MachineTypes
  BY DEF Types
<1>b. SetOps(d) \in Seq(AllOps) /\ PS2_KEYBOARD_SET_SCANCODE_SET \in Orders
  BY SettingSeqs, SaidAre
<1>c. UNCHANGED <<todo, ret>>
  BY UnmovedMeans
<1>. DEFINE M == Before(<<"check">>, SetAckOps(d))
<1>1. CASE Writes(d, PS2_KEYBOARD_SET_SCANCODE_SET, M)
  <2>1. Writes(d, PS2_KEYBOARD_SET_SCANCODE_SET, M)'
    BY <1>1, <1>a, WritesMoves DEF SetAckOps, SetOps, LastOps, AckOps, EnableOps
  <2>. QED
    BY <2>1 DEF Correcting
<1>2. CASE todo = M /\ Pending(d, PS2_KEYBOARD_SET_SCANCODE_SET) /\ ret = 0
  <2>1. Pending(d, PS2_KEYBOARD_SET_SCANCODE_SET)'
    BY <1>2, <1>b, PendingMoves
  <2>2. todo' = M /\ ret' = 0
    BY <1>2, <1>c
  <2>. QED
    BY <2>1, <2>2 DEF Correcting, SetAckOps, SetOps, LastOps, AckOps, EnableOps
<1>3. CASE Acknowledging(d, PS2_KEYBOARD_SET_SCANCODE_SET, SetOps(d))
  <2>1. Acknowledging(d, PS2_KEYBOARD_SET_SCANCODE_SET, SetOps(d))'
    BY <1>3, <1>b, CommandingMoves DEF SetOps, LastOps, EnableOps, Commanding
  <2>. QED
    BY <2>1 DEF Correcting
<1>4. CASE todo = SetOps(d) /\ Outcome(d, PS2_KEYBOARD_SET_SCANCODE_SET)
  <2>1. Outcome(d, PS2_KEYBOARD_SET_SCANCODE_SET)'
    BY <1>4, <1>a, OutcomeMoves
  <2>. QED
    BY <1>4, <1>c, <2>1 DEF Correcting, SetOps, LastOps, EnableOps
<1>5. CASE Writes(d, Byte(1), LastOps(d))
  <2>1. Writes(d, Byte(1), LastOps(d))'
    BY <1>5, <1>a, WritesMoves DEF LastOps, EnableOps
  <2>. QED
    BY <2>1 DEF Correcting
<1>6. CASE (todo = LastOps(d) /\ Finished(d.to) /\ ret = 0) \/ (todo = EnableOps /\ Finished(d.to))
  <2>1. Finished(d.to)'
    BY <1>6, FinishedMoves
  <2>. QED
    BY <1>6, <1>c, <2>1 DEF Correcting, LastOps, EnableOps
<1>. QED
  BY <1>1, <1>2, <1>3, <1>4, <1>5, <1>6 DEF Correcting

\* A device has its clock on if and only if its port is used.
LEMMA LivePorts ==
  ASSUME MachineTypes, Configured
  PROVE  /\ Live(1) <=> Usable(1)
         /\ Live(2) <=> Usable(2) /\ machine.channels = 2
<1>1. /\ \A b : b \in ClocksOff => b \in config
      /\ \A b : b \in ClocksOn => b \notin config
      /\ machine.channels = 1 => 5 \in config
  BY DEF Configured, Holds
<1>2. /\ ClockOff(1) = 4 /\ ClockOff(2) = 5 /\ machine.channels \in {1, 2}
      /\ \A b : b \in ClocksOff <=> \/ b = 4 /\ ~Usable(1)
                                    \/ b = 5 /\ ~Usable(2) /\ machine.channels = 2
      /\ \A b : b \in ClocksOn <=> \/ b = 4 /\ Usable(1)
                                   \/ b = 5 /\ Usable(2) /\ machine.channels = 2
  BY PortBits
<1>3. Live(1) <=> Usable(1)
  BY <1>1, <1>2 DEF Live
<1>4. Live(2) <=> Usable(2) /\ machine.channels = 2
  BY <1>1, <1>2 DEF Live
<1>. QED
  BY <1>3, <1>4

LEMMA WithIs ==
  ASSUME Types, Configured, NEW p \in Ports, p = 2 => Known, NEW d, d = DialogueWith(p)
  PROVE  /\ d \in Dialogue /\ Fits(d) /\ d.port = p /\ d.to = Reached(p)
         /\ p = 1 => d.to = 1 /\ d.sound /\ (d.exact <=> Identity(1) # <<>>)
         /\ p = 2 => /\ d.to = IF machine.channels = 1 THEN 1 ELSE 2
                     /\ d.sound <=> Identity(1) # <<>>
                     /\ d.exact <=> d.to = 1 /\ Usable(2) /\ Identity(1) # <<>>
<1>a. MachineTypes
  BY DEF Types
<1>1. /\ d.port = p /\ d.to = Reached(p) /\ d.answer = Identity(Reached(p))
      /\ d.exact <=> Reached(p) = 1 /\ Usable(1) /\ Usable(p) /\ machine.attached[1] # "none"
      /\ d.sound <=> p = 1 \/ identity[1] # <<>>
  BY Zenon DEF DialogueWith
<1>2. Reached(p) \in Ports /\ Reached(1) = 1
      /\ Reached(2) = IF machine.channels = 1 THEN 1 ELSE 2
  BY DEF Reached, Ports
<1>3. Identity(Reached(p)) \in Seq(Bytes)
  BY <1>2, <1>a, IdentityIs DEF Plain
<1>4. (Live(1) <=> Usable(1)) /\ (Identity(1) # <<>> <=> Live(1) /\ machine.attached[1] # "none")
  BY <1>a, LivePorts, IdentityIs DEF Ports
<1>5. d \in Dialogue
  BY <1>2, <1>3 DEF Dialogue, DialogueWith
<1>6. p = 1 \/ p = 2
  BY DEF Ports
<1>7. p = 1 => d.to = 1 /\ d.sound /\ (d.exact <=> Identity(1) # <<>>)
  BY <1>1, <1>2, <1>4
<1>8. p = 2 => /\ d.to = IF machine.channels = 1 THEN 1 ELSE 2
               /\ d.sound <=> Identity(1) # <<>>
               /\ d.exact <=> d.to = 1 /\ Usable(2) /\ Identity(1) # <<>>
  BY <1>1, <1>2, <1>4 DEF Known
<1>9. Fits(d)
  BY <1>1, <1>4, <1>6, <1>7, <1>8 DEF Fits
<1>. QED
  BY <1>1, <1>5, <1>7, <1>8, <1>9

LEMMA SettingIs ==
  ASSUME MachineTypes, NEW p \in Ports, HasKeyboard(p), NEW d, d = Setting(p)
  PROVE  d \in Dialogue /\ Fits(d) /\ d.port = p /\ d.to = p /\ ~d.exact /\ ~d.sound
<1>1. d.port = p /\ d.to = p /\ ~d.exact /\ ~d.sound /\ d.answer = Identity(p)
  BY DEF Setting
<1>2. Identity(p) \in Seq(Bytes)
  BY IdentityIs DEF Plain
<1>3. d \in Dialogue
  BY <1>2 DEF Dialogue, Setting
<1>. QED
  BY <1>1, <1>3 DEF Fits, HasKeyboard

\* What the places say of the machine, the driver and their identities stays.
LEMMA IdentitiesStay ==
  ASSUME UNCHANGED <<machine, config, port1, port2>>
  PROVE  /\ \A p : Setting(p)' = Setting(p)
         /\ \A p : HasKeyboard(p)' <=> HasKeyboard(p)
         /\ \A q : Identity(q)' = Identity(q) /\ Reached(q)' = Reached(q)
         /\ identity'[1] = identity[1] =>
              (Known' <=> Known) /\ \A p : DialogueWith(p)' = DialogueWith(p)
         /\ identity'[1] = identity[1] => PortUsed' = PortUsed
<1>1. UNCHANGED <<machine, config, port1, port2>>
  OBVIOUS
<1>2. \A q : Identity(q)' = Identity(q) /\ Reached(q)' = Reached(q)
  BY <1>1 DEF Identity, Live, Reached
<1>3. \A p : HasKeyboard(p)' <=> HasKeyboard(p)
  BY <1>1, <1>2 DEF HasKeyboard, Live
<1>4. identity'[1] = identity[1] => \A p : DialogueWith(p)' = DialogueWith(p)
  <2>. SUFFICES ASSUME identity'[1] = identity[1], NEW p PROVE DialogueWith(p)' = DialogueWith(p)
    OBVIOUS
  <2>1. Identity(Reached(p))' = Identity(Reached(p)) /\ Reached(p)' = Reached(p)
    BY <1>1 DEF Identity, Live, Reached
  <2>2. (Usable(1)' <=> Usable(1)) /\ (Usable(p)' <=> Usable(p))
    BY <1>1 DEF Usable
  <2>. QED
    BY <1>1, <2>1, <2>2 DEF DialogueWith
<1>5. \A p : Setting(p)' = Setting(p)
  BY <1>2 DEF Setting
<1>6. identity'[1] = identity[1] => (Known' <=> Known) /\ PortUsed' = PortUsed
  BY <1>1, <1>2 DEF Known, PortUsed, IsKeyboard
<1>. QED
  BY <1>2, <1>3, <1>4, <1>5, <1>6

LEMMA IdentitiesKept ==
  ASSUME Unmoved
  PROVE  /\ \A p : DialogueWith(p)' = DialogueWith(p) /\ Setting(p)' = Setting(p)
         /\ \A p : HasKeyboard(p)' <=> HasKeyboard(p)
         /\ \A q : Identity(q)' = Identity(q) /\ Reached(q)' = Reached(q)
         /\ Known' <=> Known
         /\ PortUsed' = PortUsed
<1>1. UNCHANGED <<machine, config, port1, port2, identity>>
  BY UnmovedMeans
<1>. QED
  BY <1>1, IdentitiesStay

\* Nothing is sent to a port that is not used.
LEMMA TalkTakes ==
  ASSUME NEW d, NEW N, Talk(d, N), Takes(d)
  PROVE  Usable(d.port)
<1>1. in.port = "data"
  BY DEF Takes
<1>2. ~Empty
  BY <1>1 DEF Empty, InputFull
<1>3. \A c, M : Writes(d, c, M) => Usable(d.port)
  BY <1>2 DEF Writes, Still
<1>4. \A c : Pending(d, c) => Usable(d.port)
  BY <1>2 DEF Pending, Untaken, Refused, Accepted, Lost
<1>5. \A c : ~Heard(d, c) /\ ~Outcome(d, c)
  BY <1>2 DEF Heard, Outcome
<1>6. \A c, M : Commanding(d, c, M) => Usable(d.port)
  BY <1>3, <1>4, <1>5 DEF Commanding, Acknowledging
<1>. QED
  BY <1>2, <1>5, <1>6 DEF Talk, Still, Identifying, GotByte, Result

\* Of the correction the device takes the command and its parameter.
LEMMA CorrectingTakes ==
  ASSUME NEW d, Correcting(d), Takes(d)
  PROVE  \E c \in {PS2_KEYBOARD_SET_SCANCODE_SET, Byte(1)} :
           in.byte = c /\ Due(d.to) = <<>> /\ Ready(d, c)
<1>1. in.port = "data"
  BY DEF Takes
<1>2. ~Empty
  BY <1>1 DEF Empty, InputFull
<1>3. \A c, M : ~Writes(d, c, M)
  <2>1. \A c : ~Prepared(d, c)
    <3>. SUFFICES ASSUME NEW c, Prepared(d, c) PROVE FALSE
      OBVIOUS
    <3>. QED
      BY <1>1 DEF Prepared, InputFull
  <2>. QED
    BY <1>2, <2>1 DEF Writes, Still
<1>4. \A c : Pending(d, c) => in.byte = c /\ Due(d.to) = <<>> /\ Ready(d, c)
  <2>. SUFFICES ASSUME NEW c, Pending(d, c) PROVE in.byte = c /\ Due(d.to) = <<>> /\ Ready(d, c)
    OBVIOUS
  <2>1. Untaken(d, c)
    BY <1>2 DEF Pending, Refused, Accepted, Lost
  <2>2. in = [byte |-> c, port |-> "data"]
    BY <2>1 DEF Untaken
  <2>3. in.byte = c
    BY <2>2
  <2>. QED
    BY <2>1, <2>3 DEF Untaken
<1>5. Finished(d.to) => in.byte = Byte(1) /\ Due(d.to) = <<>> /\ Ready(d, Byte(1))
  <2>. SUFFICES ASSUME Finished(d.to)
                PROVE  in.byte = Byte(1) /\ Due(d.to) = <<>> /\ Ready(d, Byte(1))
    OBVIOUS
  <2>1. in = [byte |-> Byte(1), port |-> "data"] /\ dev[d.to].param /\ Due(d.to) = <<>>
    BY <1>1 DEF Finished, InputFull
  <2>2. in.byte = Byte(1)
    BY <2>1
  <2>. QED
    BY <2>1, <2>2 DEF Ready
<1>6. \A c : ~Heard(d, c) /\ ~Outcome(d, c)
  BY <1>2 DEF Heard, Outcome
<1>. QED
  BY <1>3, <1>4, <1>5, <1>6 DEF Correcting, Acknowledging

LEMMA PlacesAre ==
  /\ AtKeyboardInit \in Seq(AllOps) /\ AtDone \in Seq(AllOps) /\ AtIdentified2 \in Seq(AllOps)
  /\ AtIdentify2 \in Seq(AllOps) /\ AtIdentified1 \in Seq(AllOps)
<1>1. 1 \in Ports /\ 2 \in Ports /\ Byte(1) \in Bytes
  BY SaidAre DEF Ports
<1>2. /\ <<"keyboard_init">> \in AllOps /\ <<"initialized">> \in AllOps
      /\ <<"identify", 2>> \in AllOps /\ <<"identified", 1>> \in AllOps /\ <<"identified", 2>> \in AllOps
  BY <1>1, OpsHave
<1>3. AtKeyboardInit \in Seq(AllOps)
  <2>. HIDE DEF AllOps
  <2>. QED
    BY <1>2 DEF AtKeyboardInit
<1>4. AtDone \in Seq(AllOps)
  BY <1>2, <1>3, BeforeHas DEF AtDone
<1>5. AtIdentified2 \in Seq(AllOps)
  BY <1>2, <1>4, BeforeHas DEF AtIdentified2
<1>6. AtIdentify2 \in Seq(AllOps)
  BY <1>2, <1>5, BeforeHas DEF AtIdentify2
<1>7. AtIdentified1 \in Seq(AllOps)
  BY <1>2, <1>6, BeforeHas DEF AtIdentified1
<1>. QED
  BY <1>3, <1>4, <1>5, <1>6, <1>7

\* Only a device that is told not to scan stops it.
LEMMA ScansMoves ==
  ASSUME Types, Types', NEW d \in Dialogue, Fits(d), Unmoved, Moves(d), Same(Other(d.to)), Scans,
         d.to = 1 /\ Takes(d) =>
           \E c \in Said \ {PS2_DISABLE_SCANNING} : in.byte = c /\ Due(d.to) = <<>> /\ Ready(d, c)
  PROVE  Scans'
<1>1. Identity(1)' = Identity(1)
  BY IdentitiesKept
<1>2. dev[1].scanning => dev'[1].scanning
  <2>1. CASE d.to = 2
    <3>1. Other(d.to) = 1
      BY <2>1, DialogueIs
    <3>. QED
      BY <3>1 DEF Same
  <2>2. CASE d.to = 1 /\ Takes(d)
    <3>1. PICK c \in Said \ {PS2_DISABLE_SCANNING} : in.byte = c /\ Due(d.to) = <<>> /\ Ready(d, c)
      BY <2>2
    <3>2. Ignores(d) \/ Refuses(d, c) \/ Accepts(d, c)
      BY <2>2, <3>1, TakesDoes DEF Fits
    <3>. QED
      BY <2>2, <3>1, <3>2 DEF Ignores, Refuses, Accepts, Same
  <2>3. CASE d.to = 1 /\ ~Takes(d)
    BY <2>3 DEF Moves, Stays, Steals, Obeys, Same
  <2>4. d.to = 1 \/ d.to = 2
    BY DialogueIs DEF Ports
  <2>. QED
    BY <2>1, <2>2, <2>3, <2>4
<1>. QED
  BY <1>1, <1>2 DEF Scans

\* The steps of the others while ps2_init talks to the devices.
LEMMA Identifying1Others ==
  ASSUME Types, Configured, Others, Identifying1, todo # <<>>
  PROVE  Identifying1'
<1>1. Types'
  BY TypesStep DEF Others, Next
<1>2. PICK d \in {DialogueWith(1)} : Quiet(d) /\ Talk(d, AtIdentified1)
  BY DEF Identifying1
<1>3. d \in Dialogue /\ Fits(d)
  BY <1>2, WithIs DEF Ports
<1>4. Unmoved /\ Quiet(d)' /\ Moves(d)
  BY <1>2, <1>3, OthersMove
<1>5. Talk(d, AtIdentified1)'
  BY <1>1, <1>2, <1>3, <1>4, TalkMoves, PlacesAre DEF AtIdentified1, AtIdentify2, AtIdentified2,
     AtDone, AtKeyboardInit
<1>6. d = DialogueWith(1)' /\ ~ps2_initialized'
  BY <1>2, <1>4, IdentitiesKept, UnmovedMeans DEF Identifying1
<1>. QED
  BY <1>4, <1>5, <1>6 DEF Identifying1

LEMMA Identifying2Others ==
  ASSUME Types, Configured, Others, Identifying2, todo # <<>>
  PROVE  Identifying2'
<1>1. Types'
  BY TypesStep DEF Others, Next
<1>2. PICK d \in {DialogueWith(2)} :
        Quiet(d) /\ Talk(d, AtIdentified2) /\ (d.to = 2 \/ ~Usable(2) => Scans)
  BY DEF Identifying2
<1>3. d \in Dialogue /\ Fits(d) /\ d.port = 2
  BY <1>2, WithIs DEF Ports, Identifying2
<1>4. Unmoved /\ Quiet(d)' /\ Moves(d) /\ Same(Other(d.to))
  BY <1>2, <1>3, OthersMove
<1>5. Talk(d, AtIdentified2)'
  BY <1>1, <1>2, <1>3, <1>4, TalkMoves, PlacesAre DEF AtIdentified2, AtDone, AtKeyboardInit
<1>6. d = DialogueWith(2)' /\ ~ps2_initialized' /\ Known'
  BY <1>2, <1>4, IdentitiesKept, UnmovedMeans DEF Identifying2
<1>7. Usable(2)' <=> Usable(2)
  BY <1>4, UnmovedMeans DEF Usable
<1>8. d.to = 2 \/ ~Usable(2) => Scans'
  <2>. SUFFICES ASSUME d.to = 2 \/ ~Usable(2) PROVE Scans'
    OBVIOUS
  <2>1. ~(d.to = 1 /\ Takes(d))
    <3>1. Takes(d) => Usable(2)
      BY <1>2, <1>3, TalkTakes
    <3>. QED
      BY <3>1
  <2>. QED
    BY <1>1, <1>2, <1>3, <1>4, <2>1, ScansMoves
<1>. QED
  BY <1>4, <1>5, <1>6, <1>7, <1>8 DEF Identifying2

LEMMA ConcludingOthers ==
  ASSUME Types, Configured, Others, Concluding, todo # <<>>
  PROVE  Concluding'
<1>1. Types'
  BY TypesStep DEF Others, Next
<1>2. PICK d \in {DialogueWith(2)} :
        /\ Quiet(d) /\ Empty /\ ~dev[d.to].param
        /\ identity[1] # <<>> \/ Len(identity[2]) = 2 => Due(d.to) = <<>>
  BY DEF Concluding
<1>3. d \in Dialogue /\ Fits(d)
  BY <1>2, WithIs DEF Ports, Concluding
<1>4. Unmoved /\ Quiet(d)' /\ Moves(d) /\ Same(Other(d.to))
  BY <1>2, <1>3, OthersMove
<1>5. Empty' /\ (Stays(d) \/ Steals(d))
  BY <1>2, <1>4, EmptyMoves
<1>6. ~dev'[d.to].param /\ (Due(d.to) = <<>> => Due(d.to)' = <<>>)
  BY <1>2, <1>5 DEF Stays, Steals, Same
<1>7. UNCHANGED <<todo, identity>> /\ d = DialogueWith(2)' /\ Known'
      /\ Identity(Reached(2))' = Identity(Reached(2))
  <2>1. UNCHANGED <<todo, identity, machine, config>>
    BY <1>4, UnmovedMeans
  <2>2. Identity(Reached(2))' = Identity(Reached(2))
    BY <2>1 DEF Identity, Live, Reached
  <2>. QED
    BY <1>2, <1>4, <2>1, <2>2, IdentitiesKept DEF Concluding
<1>8. Scans'
  <2>1. ~Takes(d)
    BY <1>2 DEF Takes, Empty, InputFull
  <2>. QED
    BY <1>1, <1>3, <1>4, <2>1, ScansMoves DEF Concluding
<1>9. identity'[1] # <<>> \/ Len(identity'[2]) = 2 => Due(d.to)' = <<>>
  BY <1>2, <1>6, <1>7
<1>10. Len(identity'[2]) <= Len(Identity(Reached(2))') /\ todo' \in {AtDone, AtKeyboardInit}
  BY <1>7 DEF Concluding
<1>. QED
  BY <1>4, <1>5, <1>6, <1>7, <1>8, <1>9, <1>10 DEF Concluding, AtDone, AtKeyboardInit

LEMMA CorrectionOthers ==
  ASSUME Types, Configured, Others, Correction, todo # <<>>
  PROVE  Correction'
<1>a. MachineTypes
  BY DEF Types
<1>1. Types'
  BY TypesStep DEF Others, Next
<1>2. PICK p \in {PortUsed} :
        HasKeyboard(p) /\ \E d \in {Setting(p)} : Quiet(d) /\ Correcting(d)
  BY DEF Correction
<1>3. PICK d \in {Setting(p)} : Quiet(d) /\ Correcting(d)
  BY <1>2
<1>4. p \in Ports
  BY <1>2 DEF PortUsed, Ports
<1>5. d \in Dialogue /\ Fits(d) /\ d.to = p
  BY <1>a, <1>2, <1>3, <1>4, SettingIs
<1>6. Unmoved /\ Quiet(d)' /\ Moves(d) /\ Same(Other(d.to))
  BY <1>3, <1>5, OthersMove
<1>7. Live(d.to) /\ machine.attached[d.to] # "none"
  BY <1>2, <1>5 DEF HasKeyboard
<1>8. Correcting(d)'
  BY <1>1, <1>3, <1>5, <1>6, <1>7, CorrectingMoves
<1>9. Scans'
  <2>1. d.to = 1 /\ Takes(d) =>
          \E c \in Said \ {PS2_DISABLE_SCANNING} : in.byte = c /\ Due(d.to) = <<>> /\ Ready(d, c)
    <3>1. /\ PS2_KEYBOARD_SET_SCANCODE_SET \in Said \ {PS2_DISABLE_SCANNING}
          /\ Byte(1) \in Said \ {PS2_DISABLE_SCANNING}
      BY SaidAre, SaidDiffer, DeviceCommandsDiffer
    <3>. QED
      BY <1>3, <3>1, CorrectingTakes
  <2>. QED
    BY <1>1, <1>5, <1>6, <2>1, ScansMoves DEF Correction
<1>10. /\ p = PortUsed' /\ HasKeyboard(p)' /\ d = Setting(p)' /\ Known'
  BY <1>2, <1>3, <1>6, IdentitiesKept DEF Correction
<1>. QED
  BY <1>6, <1>8, <1>9, <1>10 DEF Correction

-----------------------------------------------------------------------------
(* What each operation of a dialogue does.                                 *)

\* Operations in front of others.
LEMMA ListsHave ==
  ASSUME NEW a \in AllOps, NEW b \in AllOps, NEW c \in AllOps, NEW rest \in Seq(AllOps)
  PROVE  /\ <<>> \o rest = rest
         /\ <<a>> \o rest = Before(a, rest)
         /\ <<a, b>> \o rest = Before(a, Before(b, rest))
         /\ (<<a>> \o <<b>>) \o rest = Before(a, Before(b, rest))
         /\ ((<<a>> \o <<b>>) \o <<c>>) \o rest = Before(a, Before(b, Before(c, rest)))
<1>. HIDE DEF AllOps
<1>1. <<>> \o rest = rest
  BY ConcatEmptySeq
<1>2. <<a>> \o rest = Before(a, rest)
  BY DEF Before
<1>3. <<a, b>> \o rest = Before(a, Before(b, rest))
  BY TwoAre DEF Before
<1>. DEFINE x == <<a>>
            y == <<b>>
            z == <<c>>
<1>4. x \in Seq(AllOps)
  OBVIOUS
<1>5. y \in Seq(AllOps)
  OBVIOUS
<1>6. z \in Seq(AllOps)
  OBVIOUS
<1>. HIDE DEF x, y, z
<1>a. \A s, t, u \in Seq(AllOps) : (s \o t) \o u = s \o (t \o u)
  BY ConcatAssociative
<1>b. \A s, t \in Seq(AllOps) : s \o t \in Seq(AllOps)
  BY ConcatProperties
<1>7. (x \o y) \o rest = x \o (y \o rest)
  BY <1>4, <1>5, <1>a, Zenon
<1>8. x \o y \in Seq(AllOps)
  BY <1>4, <1>5, <1>b, Zenon
<1>9. ((x \o y) \o z) \o rest = (x \o y) \o (z \o rest)
  BY <1>6, <1>8, <1>a, Zenon
<1>10. z \o rest \in Seq(AllOps)
  BY <1>6, <1>b, Zenon
<1>11. (x \o y) \o (z \o rest) = x \o (y \o (z \o rest))
  BY <1>4, <1>5, <1>10, <1>a, Zenon
<1>. QED
  BY <1>1, <1>2, <1>3, <1>7, <1>9, <1>11 DEF Before, x, y, z

LEMMA TwoHave ==
  ASSUME NEW a \in AllOps, NEW b \in AllOps, NEW rest \in Seq(AllOps)
  PROVE  /\ <<a>> \o rest = Before(a, rest)
         /\ <<a, b>> \o rest = Before(a, Before(b, rest))
         /\ (<<a>> \o <<b>>) \o rest = Before(a, Before(b, rest))
<1>. HIDE DEF AllOps
<1>1. <<a>> \o rest = Before(a, rest)
  BY DEF Before
<1>2. <<a, b>> \o rest = Before(a, Before(b, rest))
  BY TwoAre DEF Before
<1>. DEFINE x == <<a>>
            y == <<b>>
<1>3. x \in Seq(AllOps)
  OBVIOUS
<1>4. y \in Seq(AllOps)
  OBVIOUS
<1>. HIDE DEF x, y
<1>5. \A s, t, u \in Seq(AllOps) : (s \o t) \o u = s \o (t \o u)
  BY ConcatAssociative
<1>6. (x \o y) \o rest = x \o (y \o rest)
  BY <1>3, <1>4, <1>5, Zenon
<1>. QED
  BY <1>1, <1>2, <1>6 DEF Before, x, y

LEMMA StepHas ==
  ASSUME NEW op \in AllOps, NEW rest \in Seq(AllOps), todo = Before(op, rest), Thread
  PROVE  /\ todo[1] = op /\ Tail(todo) = rest /\ handler = "none"
         /\ \A ops : Then(ops) => todo' = ops \o rest
         /\ ReturnFrom => todo' = rest
         /\ op[1] # "enable" => Untouched
<1>1. todo[1] = op /\ Tail(todo) = rest
  BY BeforeHas
<1>2. handler = "none" /\ (op[1] # "enable" => Untouched)
  BY <1>1, ThreadAt
<1>3. <<>> \o rest = rest
  <2>. HIDE DEF AllOps
  <2>. QED
    BY ConcatEmptySeq
<1>. QED
  BY <1>1, <1>2, <1>3, Zenon DEF Then, ReturnFrom

\* What the thread does not change in a dialogue.
Speaks ==
  UNCHANGED <<ticks, port1, port2, machine, config, expects, handler, dev, ps2_initialized,
              identity, keyboard_enabled, shift_down>>

LEMMA OutHas ==
  ASSUME NEW port \in {"command", "data"}, NEW c \in Bytes, NEW rest \in Seq(AllOps),
         <<"outb", port, c>> \in AllOps, todo = Before(<<"outb", port, c>>, rest), Thread
  PROVE  /\ todo' = rest /\ Speaks /\ UNCHANGED <<byte, ret, start, ack_start, response, ps2_error, out>>
         /\ ~InputFull /\ in' = [byte |-> c, port |-> port]
<1>1. todo[1] = <<"outb", port, c>> /\ (ReturnFrom => todo' = rest) /\ Untouched
  BY StepHas
<1>2. Out
  BY <1>1, ThreadAt
<1>3. /\ ReturnFrom /\ ~InputFull /\ in' = [byte |-> Arg(3), port |-> Arg(2)]
      /\ UNCHANGED <<byte, ret, start, ack_start, response, driver, config, out, expects, ticks,
                     handler, machine, dev>>
  BY <1>2, Zenon DEF Out
<1>4. Arg(3) = c /\ Arg(2) = port
  BY <1>1 DEF Arg
<1>5. Speaks /\ UNCHANGED ps2_error
  BY <1>1, <1>3, Zenon DEF Speaks, driver, Untouched
<1>. QED
  BY <1>1, <1>3, <1>4, <1>5, Zenon

LEMMA WriteHas ==
  ASSUME NEW p \in Ports, NEW c \in Bytes, NEW rest \in Seq(AllOps),
         todo = Before(<<"write", p, c>>, rest), Thread
  PROVE  /\ Speaks /\ UNCHANGED <<byte, start, ack_start, response, ps2_error, in, out>>
         /\ ~Usable(p) => ret' = 1 /\ todo' = rest
         /\ Usable(p) => /\ ret' = 0
                         /\ p = 1 => todo' = Before(ps2_write_data(c), rest)
                         /\ p = 2 => todo' = Before(ps2_send_cmd(PS2_WRITE_BYTE_INPUT_PORT_2),
                                                    Before(ps2_write_data(c), rest))
<1>0. <<"write", p, c>> \in AllOps
  BY OpsHave
<1>1. /\ todo[1] = <<"write", p, c>> /\ Untouched
      /\ \A ops : Then(ops) => todo' = ops \o rest
  BY <1>0, StepHas
<1>2. Arg(2) = p /\ Arg(3) = c
  BY <1>1 DEF Arg
<1>3. WritePort
  BY <1>1, ThreadAt, Heads DEF QuietThread, At
<1>4. /\ ret' = (IF Usable(Arg(2)) THEN 0 ELSE WriteError)
      /\ Then(IF ~Usable(Arg(2)) THEN <<>>
              ELSE OpsIf(Arg(2) = 2, <<ps2_send_cmd(PS2_WRITE_BYTE_INPUT_PORT_2)>>)
                   \o <<ps2_write_data(Arg(3))>>)
      /\ UNCHANGED <<byte, start, ack_start, response, driver>> /\ Local
  BY <1>3 DEF WritePort
<1>4a. /\ ret' = (IF Usable(p) THEN 0 ELSE 1)
       /\ ~Usable(p) => Then(<<>>)
       /\ Usable(p) => Then(OpsIf(p = 2, <<ps2_send_cmd(PS2_WRITE_BYTE_INPUT_PORT_2)>>)
                            \o <<ps2_write_data(c)>>)
  BY <1>2, <1>4 DEF WriteError
<1>5. Speaks /\ UNCHANGED <<byte, start, ack_start, response, ps2_error, in, out>>
  BY <1>1, <1>4, Zenon DEF Speaks, driver, Untouched, Local, controller
<1>6. ps2_send_cmd(PS2_WRITE_BYTE_INPUT_PORT_2) \in AllOps /\ ps2_write_data(c) \in AllOps
  BY OpsHave
<1>7. ~Usable(p) => todo' = rest
  <2>1. ~Usable(p) => todo' = <<>> \o rest
    BY <1>1, <1>4a, Zenon
  <2>. QED
    BY <2>1, <1>6, ListsHave
<1>8. Usable(p) /\ p = 1 => todo' = Before(ps2_write_data(c), rest)
  <2>. DEFINE w == ps2_write_data(c)
              x == ps2_send_cmd(PS2_WRITE_BYTE_INPUT_PORT_2)
  <2>1. w \in AllOps
    BY <1>6
  <2>2. Usable(p) => Then(OpsIf(p = 2, <<x>>) \o <<w>>)
    BY <1>4a
  <2>. HIDE DEF w, x, AllOps
  <2>3. p = 1 => OpsIf(p = 2, <<x>>) = <<>>
    BY DEF OpsIf
  <2>4. <<w>> \in Seq(AllOps)
    BY <2>1
  <2>5. <<>> \o <<w>> = <<w>>
    BY <2>4, ConcatEmptySeq
  <2>6. Usable(p) /\ p = 1 => Then(<<w>>)
    BY <2>2, <2>3, <2>5, Zenon
  <2>7. Usable(p) /\ p = 1 => todo' = <<w>> \o rest
    BY <2>6, <1>1, Zenon
  <2>. QED
    BY <2>7 DEF Before, w
<1>9. Usable(p) /\ p = 2 => todo' = Before(ps2_send_cmd(PS2_WRITE_BYTE_INPUT_PORT_2),
                                           Before(ps2_write_data(c), rest))
  <2>1. Usable(p) /\ p = 2
          => todo' = (<<ps2_send_cmd(PS2_WRITE_BYTE_INPUT_PORT_2)>> \o <<ps2_write_data(c)>>) \o rest
    BY <1>1, <1>4a DEF OpsIf
  <2>. QED
    BY <2>1, <1>6, ListsHave
<1>. QED
  BY <1>4a, <1>5, <1>7, <1>8, <1>9

LEMMA AckHas ==
  ASSUME NEW p \in Ports, NEW c \in Bytes, NEW rest \in Seq(AllOps),
         todo = Before(<<"ack", p, c>>, rest), Thread
  PROVE  /\ Speaks /\ UNCHANGED <<byte, ret, response, ps2_error, in, out>>
         /\ start' = ticks /\ ack_start' = ticks
         /\ todo' = Before(<<"poll">>, Before(<<"ack_test", p, c>>, rest))
<1>0. <<"ack", p, c>> \in AllOps /\ <<"poll">> \in AllOps /\ <<"ack_test", p, c>> \in AllOps
  BY OpsHave
<1>1. /\ todo[1] = <<"ack", p, c>> /\ Untouched
      /\ \A ops : Then(ops) => todo' = ops \o rest
  BY <1>0, StepHas
<1>2. Arg(2) = p /\ Arg(3) = c
  BY <1>1 DEF Arg
<1>3. WaitForAck
  BY <1>1, ThreadAt, Heads DEF QuietThread, At
<1>4. /\ start' = ticks /\ ack_start' = ticks
      /\ Then(<<<<"poll">>, <<"ack_test", Arg(2), Arg(3)>>>>)
      /\ UNCHANGED <<byte, ret, response, driver>> /\ Local
  BY <1>3 DEF WaitForAck
<1>5. Speaks /\ UNCHANGED <<byte, ret, response, ps2_error, in, out>>
  BY <1>1, <1>4, Zenon DEF Speaks, driver, Untouched, Local, controller
<1>6. todo' = <<<<"poll">>, <<"ack_test", p, c>>>> \o rest
  BY <1>1, <1>2, <1>4
<1>. QED
  BY <1>0, <1>4, <1>5, <1>6, ListsHave


\* The handlers and the devices see nothing of a step of the thread but a byte
\* that is gone, or one that is sent.
LEMMA QuietThreadKept ==
  ASSUME Types, Types', NEW d \in Dialogue, Quiet(d), out' = out \/ out' = NoByte,
         UNCHANGED <<config, expects, handler, dev, keyboard_enabled, shift_down>>,
         in' = in \/ Calls(d.to)
  PROVE  Quiet(d)'
<1>a. MachineTypes /\ MachineTypes'
  BY DEF Types
<1>b. d.to \in Ports /\ Other(d.to) \in Ports
  BY DialogueIs
<1>1. \A q : Same(q)
  BY DEF Same
<1>2. out'.src # Controller
  BY DEF Quiet, NoByte, Nobody, Controller
<1>3. Due(Other(d.to))' = <<>>
  <2>1. Due(Other(d.to)) = <<>> /\ out.src # Other(d.to)
        /\ (Live(Other(d.to)) => dev[Other(d.to)].queue = <<>>)
    BY <1>a, <1>b, DueIs DEF Quiet
  <2>2. out'.src # Other(d.to)
    BY <2>1, <1>b DEF NoByte, Nobody, Ports
  <2>3. Due(Other(d.to))' = IF Live(Other(d.to)) THEN dev'[Other(d.to)].queue ELSE <<>>
    BY <2>2, <1>a, <1>b, DueAfter
  <2>. QED
    BY <2>1, <2>3
<1>4. in'.port = "data" => Calls(d.to)'
  BY DEF Quiet, Calls
<1>5. d.to = 1 => handler' = "none"
  BY DEF Quiet
<1>6. dev'[d.to].resends <= MaxResends
  BY <1>b DEF Quiet
<1>. QED
  BY <1>1, <1>2, <1>3, <1>4, <1>5, <1>6, QuietKept

LEMMA PollHas ==
  ASSUME Types, Types', NEW d \in Dialogue, Quiet(d),
         NEW rest \in Seq(AllOps), todo = Before(<<"poll">>, rest), Thread
  PROVE  /\ Speaks /\ UNCHANGED <<ret, start, ack_start, response, in>> /\ todo' = rest
         /\ out' = out \/ out' = NoByte
         /\ \/ /\ OutputFull /\ UNCHANGED ps2_error
               /\ Due(d.to) # <<>> /\ byte' = Head(Due(d.to)) /\ Due(d.to)' = Tail(Due(d.to))
            \/ /\ ~OutputFull /\ TimedOut
               /\ ps2_error' /\ byte' = Byte(1) /\ out' = out
<1>0. <<"poll">> \in AllOps
  BY OpsHave, SaidAre DEF Ports
<1>a. MachineTypes /\ MachineTypes'
  BY DEF Types
<1>b. d.to \in Ports /\ \A r \in Ports : r = d.to \/ r = Other(d.to)
  BY DialogueIs
<1>1. todo[1] = <<"poll">> /\ Untouched /\ (ReturnFrom => todo' = rest)
  BY <1>0, StepHas
<1>2. PollReceived \/ PollTimedOut
  BY <1>1, ThreadAt, Heads DEF QuietThread, At
<1>3. CASE PollReceived
  <2>1. /\ OutputFull /\ byte' = out.byte /\ out' = NoByte /\ ReturnFrom
        /\ UNCHANGED <<ret, start, ack_start, response, driver, config, in, expects,
                       ticks, handler, machine, dev>>
    BY <1>3 DEF PollReceived
  <2>2. Speaks /\ UNCHANGED <<ret, start, ack_start, response, in, ps2_error, config>>
    BY <1>1, <2>1, Zenon DEF Speaks, driver, Untouched
  <2>3. out.src = d.to
    <3>1. out.src \in {1, 2}
      BY <1>a, <2>1, MachineIs DEF OutputFull, Quiet, Nobody, Controller
    <3>2. out.src # Other(d.to)
      BY DEF Quiet, Due, DueIs
    <3>. QED
      BY <3>1, <3>2, <1>b DEF Ports
  <2>4. /\ Due(d.to) # <<>> /\ Head(Due(d.to)) = out.byte
        /\ Tail(Due(d.to)) = IF Live(d.to) THEN dev[d.to].queue ELSE <<>>
    BY <2>3, <1>a, <1>b, DueIs
  <2>5. out'.src # d.to
    BY <2>1, <1>b DEF NoByte, Nobody, Ports
  <2>6. Due(d.to)' = IF Live(d.to) THEN dev'[d.to].queue ELSE <<>>
    BY <2>2, <2>5, <1>a, <1>b, DueAfter
  <2>. QED
    BY <1>1, <2>1, <2>2, <2>4, <2>6
<1>4. CASE PollTimedOut
  <2>1. /\ ~OutputFull /\ TimedOut /\ ps2_error' /\ byte' = Byte(1) /\ ReturnFrom
        /\ UNCHANGED <<ret, start, ack_start, response, port1, port2, dual_channel,
                       ps2_initialized, identity>>
        /\ Local
    BY <1>4 DEF PollTimedOut
  <2>2. Speaks /\ UNCHANGED <<ret, start, ack_start, response, in, out>>
    BY <1>1, <2>1, Zenon DEF Speaks, Untouched, Local, controller
  <2>. QED
    BY <1>1, <2>1, <2>2
<1>. QED
  BY <1>2, <1>3, <1>4

LEMMA TestHas ==
  ASSUME NEW p \in Ports, NEW c \in Bytes, NEW rest \in Seq(AllOps),
         todo = Before(<<"ack_test", p, c>>, rest), Thread
  PROVE  /\ Speaks /\ UNCHANGED <<byte, start, ack_start, response, in, out>>
         /\ ps2_error' <=> ps2_error /\ byte = PS2_ACK
         /\ byte = PS2_ACK => todo' = rest /\ ret' = 0
         /\ byte # PS2_ACK /\ ps2_error => todo' = rest /\ ret' = 1
         /\ byte = PS2_RESEND /\ ~ps2_error =>
              todo' = Before(<<"write", p, c>>, Before(<<"ack_time", p, c>>, rest))
         /\ byte \notin {PS2_ACK, PS2_RESEND} /\ ~ps2_error => todo' = Before(<<"ack_time", p, c>>, rest)
<1>0. <<"ack_test", p, c>> \in AllOps /\ <<"ack_time", p, c>> \in AllOps /\ <<"write", p, c>> \in AllOps
  BY OpsHave
<1>1. /\ todo[1] = <<"ack_test", p, c>> /\ Untouched
      /\ \A ops : Then(ops) => todo' = ops \o rest
  BY <1>0, StepHas
<1>2. Arg(2) = p /\ Arg(3) = c
  BY <1>1 DEF Arg
<1>3. AckTest
  BY <1>1, ThreadAt, Heads DEF QuietThread, At
<1>. DEFINE done == byte = PS2_ACK \/ ps2_error
            w == <<"write", p, c>>
            t == <<"ack_time", p, c>>
<1>4. /\ ret' = IF ~done THEN ret ELSE IF byte = PS2_ACK THEN 0 ELSE 1
      /\ ps2_error' = (ps2_error /\ byte = PS2_ACK)
      /\ Then(IF done THEN <<>> ELSE OpsIf(byte = PS2_RESEND, <<w>>) \o <<t>>)
      /\ UNCHANGED <<byte, start, ack_start, response, port1, port2, dual_channel,
                     ps2_initialized, identity>>
      /\ Local
  BY <1>2, <1>3 DEF AckTest, ps2_port_write_data
<1>5. Speaks /\ UNCHANGED <<byte, start, ack_start, response, in, out>>
  BY <1>1, <1>4, Zenon DEF Speaks, Untouched, Local, controller
<1>6. w \in AllOps /\ t \in AllOps
  BY <1>0
<1>7. done => todo' = rest
  <2>1. done => todo' = <<>> \o rest
    BY <1>1, <1>4, Zenon
  <2>2. <<>> \o rest = rest
    BY <1>6, ListsHave
  <2>. QED
    BY <2>1, <2>2, Zenon
<1>8. byte = PS2_RESEND /\ ~done => todo' = Before(w, Before(t, rest))
  <2>1. byte = PS2_RESEND /\ ~done => Then(<<w>> \o <<t>>)
    BY <1>4 DEF OpsIf
  <2>2. byte = PS2_RESEND /\ ~done => todo' = (<<w>> \o <<t>>) \o rest
    BY <1>1, <2>1, Zenon
  <2>3. (<<w>> \o <<t>>) \o rest = Before(w, Before(t, rest))
    <3>. HIDE DEF w, t
    <3>. QED
      BY <1>6, ListsHave
  <2>. QED
    BY <2>2, <2>3, Zenon
<1>9. byte # PS2_RESEND /\ ~done => todo' = Before(t, rest)
  <2>. HIDE DEF w, t, AllOps
  <2>1. byte # PS2_RESEND => OpsIf(byte = PS2_RESEND, <<w>>) = <<>>
    BY DEF OpsIf
  <2>2. <<t>> \in Seq(AllOps)
    BY <1>6
  <2>3. <<>> \o <<t>> = <<t>>
    BY <2>2, ConcatEmptySeq
  <2>4. byte # PS2_RESEND /\ ~done => Then(<<t>>)
    BY <1>4, <2>1, <2>3, Zenon
  <2>5. byte # PS2_RESEND /\ ~done => todo' = <<t>> \o rest
    BY <2>4, <1>1, Zenon
  <2>. QED
    BY <2>5, Zenon DEF Before
<1>10. ps2_error' <=> ps2_error /\ byte = PS2_ACK
  BY <1>4, Zenon
<1>11. /\ byte = PS2_ACK => ret' = 0
       /\ byte # PS2_ACK /\ ps2_error => ret' = 1
  BY <1>4
<1>. QED
  BY <1>5, <1>7, <1>8, <1>9, <1>10, <1>11, SaidDiffer, Zenon

LEMMA TimeHas ==
  ASSUME NEW p \in Ports, NEW c \in Bytes, NEW rest \in Seq(AllOps),
         todo = Before(<<"ack_time", p, c>>, rest), Thread
  PROVE  /\ Speaks /\ UNCHANGED <<byte, ack_start, response, ps2_error, in, out>>
         /\ \/ /\ ticks \div TicksPerSecond >= ack_start + PS2_TIMEOUT_DURATION
               /\ ret' = 1 /\ todo' = rest
            \/ /\ start' = ticks /\ ret' = ret
               /\ todo' = Before(<<"poll">>, Before(<<"ack_test", p, c>>, rest))
<1>0. <<"ack_test", p, c>> \in AllOps /\ <<"ack_time", p, c>> \in AllOps /\ <<"poll">> \in AllOps
  BY OpsHave
<1>1. /\ todo[1] = <<"ack_time", p, c>> /\ Untouched
      /\ \A ops : Then(ops) => todo' = ops \o rest
  BY <1>0, StepHas
<1>1b. ReturnFrom => todo' = rest
  BY <1>0, StepHas
<1>2. Arg(2) = p /\ Arg(3) = c
  BY <1>1 DEF Arg
<1>3. AckTime
  BY <1>1, ThreadAt, Heads DEF QuietThread, At
<1>4. /\ \/ /\ ticks \div TicksPerSecond >= ack_start + PS2_TIMEOUT_DURATION
            /\ ret' = 1 /\ ReturnFrom
         \/ /\ start' = ticks /\ ret' = ret
            /\ Then(<<<<"poll">>, <<"ack_test", p, c>>>>)
      /\ UNCHANGED <<byte, ack_start, response, driver>> /\ Local
  BY <1>2, <1>3 DEF AckTime
<1>5. Speaks /\ UNCHANGED <<byte, ack_start, response, ps2_error, in, out>>
  BY <1>1, <1>4, Zenon DEF Speaks, driver, Untouched, Local, controller
<1>6. <<<<"poll">>, <<"ack_test", p, c>>>> \o rest = Before(<<"poll">>, Before(<<"ack_test", p, c>>, rest))
  BY <1>0, ListsHave
<1>. QED
  BY <1>1, <1>1b, <1>4, <1>5, <1>6


LEMMA IdentifyHas ==
  ASSUME NEW p \in Ports, NEW rest \in Seq(AllOps), todo = Before(<<"identify", p>>, rest), Thread
  PROVE  /\ Speaks /\ UNCHANGED <<byte, ret, start, ack_start, ps2_error, in, out>>
         /\ response' = <<>>
         /\ todo' = Before(<<"write", p, PS2_DISABLE_SCANNING>>,
                      Before(<<"ack", p, PS2_DISABLE_SCANNING>>, Before(<<"disabled", p>>, rest)))
<1>0. <<"identify", p>> \in AllOps /\ <<"disabled", p>> \in AllOps
      /\ \A c \in Bytes : <<"write", p, c>> \in AllOps /\ <<"ack", p, c>> \in AllOps
  BY OpsHave, SaidAre
<1>1. /\ todo[1] = <<"identify", p>> /\ Untouched
      /\ \A ops : Then(ops) => todo' = ops \o rest
  BY <1>0, StepHas
<1>2. Arg(2) = p
  BY <1>1 DEF Arg
<1>3. Identify
  BY <1>1, ThreadAt, Heads DEF QuietThread, At
<1>. DEFINE w == <<"write", p, PS2_DISABLE_SCANNING>>
            a == <<"ack", p, PS2_DISABLE_SCANNING>>
            n == <<"disabled", p>>
<1>4. /\ response' = <<>>
      /\ Then((<<w>> \o <<a>>) \o <<n>>)
      /\ UNCHANGED <<byte, ret, start, ack_start, driver>> /\ Local
  BY <1>2, <1>3 DEF Identify, Command, ps2_port_write_data, ps2_wait_for_ack
<1>5. Speaks /\ UNCHANGED <<byte, ret, start, ack_start, ps2_error, in, out>>
  BY <1>1, <1>4, Zenon DEF Speaks, driver, Untouched, Local, controller
<1>6. w \in AllOps /\ a \in AllOps /\ n \in AllOps
  BY <1>0, SaidAre
<1>7. ((<<w>> \o <<a>>) \o <<n>>) \o rest = Before(w, Before(a, Before(n, rest)))
  <2>. HIDE DEF w, a, n
  <2>. QED
    BY <1>6, ListsHave, Zenon
<1>8. todo' = ((<<w>> \o <<a>>) \o <<n>>) \o rest
  BY <1>1, <1>4, Zenon
<1>. QED
  BY <1>4, <1>5, <1>7, <1>8, Zenon

LEMMA DisabledHas ==
  ASSUME NEW p \in Ports, NEW rest \in Seq(AllOps), todo = Before(<<"disabled", p>>, rest), Thread
  PROVE  /\ Speaks /\ UNCHANGED <<byte, ret, start, ack_start, response, in, out>>
         /\ ps2_error' <=> ps2_error \/ ret = 1
         /\ ret = 1 => todo' = rest
         /\ ret # 1 => todo' = Before(<<"write", p, PS2_IDENTIFY>>,
                         Before(<<"ack", p, PS2_IDENTIFY>>, Before(<<"id_loop", p>>, rest)))
<1>0. <<"disabled", p>> \in AllOps /\ <<"id_loop", p>> \in AllOps
      /\ \A c \in Bytes : <<"write", p, c>> \in AllOps /\ <<"ack", p, c>> \in AllOps
  BY OpsHave, SaidAre
<1>1. /\ todo[1] = <<"disabled", p>> /\ Untouched
      /\ \A ops : Then(ops) => todo' = ops \o rest
  BY <1>0, StepHas
<1>2. Arg(2) = p
  BY <1>1 DEF Arg
<1>3. ScanningDisabled
  BY <1>1, ThreadAt, Heads DEF QuietThread, At
<1>. DEFINE w == <<"write", p, PS2_IDENTIFY>>
            a == <<"ack", p, PS2_IDENTIFY>>
            n == <<"id_loop", p>>
<1>4. /\ ps2_error' = (ps2_error \/ ret = 1)
      /\ Then(IF ret = 1 THEN <<>> ELSE (<<w>> \o <<a>>) \o <<n>>)
      /\ UNCHANGED <<byte, ret, start, ack_start, response, port1, port2,
                     dual_channel, ps2_initialized, identity>>
      /\ Local
  BY <1>2, <1>3 DEF ScanningDisabled, Command, ps2_port_write_data, ps2_wait_for_ack
<1>5. Speaks /\ UNCHANGED <<byte, ret, start, ack_start, response, in, out>>
  BY <1>1, <1>4, Zenon DEF Speaks, Untouched, Local, controller
<1>6. w \in AllOps /\ a \in AllOps /\ n \in AllOps
  BY <1>0, SaidAre
<1>7. ((<<w>> \o <<a>>) \o <<n>>) \o rest = Before(w, Before(a, Before(n, rest)))
      /\ <<>> \o rest = rest
  <2>. HIDE DEF w, a, n
  <2>. QED
    BY <1>6, ListsHave, Zenon
<1>8. /\ ret = 1 => todo' = <<>> \o rest
      /\ ret # 1 => todo' = ((<<w>> \o <<a>>) \o <<n>>) \o rest
  BY <1>1, <1>4, Zenon
<1>9. ps2_error' <=> ps2_error \/ ret = 1
  BY <1>4, Zenon
<1>. QED
  BY <1>5, <1>7, <1>8, <1>9, Zenon

\* The end of the answer.
EndsOps(p, rest) == Before(<<"write", p, PS2_ENABLE_SCANNING>>,
                           Before(<<"ack", p, PS2_ENABLE_SCANNING>>, rest))

LEMMA LoopHas ==
  ASSUME NEW p \in Ports, NEW rest \in Seq(AllOps), todo = Before(<<"id_loop", p>>, rest), Thread
  PROVE  /\ Speaks /\ UNCHANGED <<byte, ret, ack_start, response, ps2_error, in, out>>
         /\ start' = ticks
         /\ Len(response) = 2 => todo' = EndsOps(p, rest)
         /\ Len(response) # 2 => todo' = Before(<<"id_wait", p>>, rest)
<1>0. <<"id_loop", p>> \in AllOps /\ <<"id_wait", p>> \in AllOps
      /\ \A c \in Bytes : <<"write", p, c>> \in AllOps /\ <<"ack", p, c>> \in AllOps
  BY OpsHave, SaidAre
<1>1. /\ todo[1] = <<"id_loop", p>> /\ Untouched
      /\ \A ops : Then(ops) => todo' = ops \o rest
  BY <1>0, StepHas
<1>2. Arg(2) = p
  BY <1>1 DEF Arg
<1>3. IdLoop
  BY <1>1, ThreadAt, Heads DEF QuietThread, At
<1>. DEFINE w == <<"write", p, PS2_ENABLE_SCANNING>>
            a == <<"ack", p, PS2_ENABLE_SCANNING>>
            n == <<"id_wait", p>>
<1>4. /\ start' = ticks
      /\ Then(IF Len(response) = 2 THEN <<w>> \o <<a>> ELSE <<n>>)
      /\ UNCHANGED <<byte, ret, ack_start, response, driver>> /\ Local
  BY <1>2, <1>3 DEF IdLoop, Command, ps2_port_write_data, ps2_wait_for_ack
<1>5. Speaks /\ UNCHANGED <<byte, ret, ack_start, response, ps2_error, in, out>>
  BY <1>1, <1>4, Zenon DEF Speaks, driver, Untouched, Local, controller
<1>6. w \in AllOps /\ a \in AllOps /\ n \in AllOps
  BY <1>0, SaidAre
<1>7. (<<w>> \o <<a>>) \o rest = Before(w, Before(a, rest)) /\ <<n>> \o rest = Before(n, rest)
  <2>. HIDE DEF w, a, n
  <2>. QED
    BY <1>6, TwoHave, Zenon
<1>8. /\ Len(response) = 2 => todo' = (<<w>> \o <<a>>) \o rest
      /\ Len(response) # 2 => todo' = <<n>> \o rest
  BY <1>1, <1>4, Zenon
<1>. QED
  BY <1>4, <1>5, <1>7, <1>8, Zenon DEF EndsOps

LEMMA WaitHas ==
  ASSUME NEW p \in Ports, NEW rest \in Seq(AllOps), todo = Before(<<"id_wait", p>>, rest), Thread
  PROVE  /\ Speaks /\ UNCHANGED <<byte, ret, ack_start, response, ps2_error, in, out>>
         /\ start' = ticks
         /\ \/ OutputFull /\ todo' = Before(<<"poll">>, Before(<<"id_byte", p>>, rest))
            \/ ~OutputFull /\ TimedOut /\ todo' = EndsOps(p, rest)
<1>0. <<"id_wait", p>> \in AllOps /\ <<"id_byte", p>> \in AllOps /\ <<"poll">> \in AllOps
      /\ \A c \in Bytes : <<"write", p, c>> \in AllOps /\ <<"ack", p, c>> \in AllOps
  BY OpsHave, SaidAre
<1>1. /\ todo[1] = <<"id_wait", p>> /\ Untouched
      /\ \A ops : Then(ops) => todo' = ops \o rest
  BY <1>0, StepHas
<1>2. Arg(2) = p
  BY <1>1 DEF Arg
<1>3. IdWait
  BY <1>1, ThreadAt, Heads DEF QuietThread, At
<1>. DEFINE w == <<"write", p, PS2_ENABLE_SCANNING>>
            a == <<"ack", p, PS2_ENABLE_SCANNING>>
            b == <<"poll">>
            n == <<"id_byte", p>>
<1>4. /\ start' = ticks /\ (OutputFull \/ TimedOut)
      /\ Then(IF OutputFull THEN <<b, n>> ELSE <<w>> \o <<a>>)
      /\ UNCHANGED <<byte, ret, ack_start, response, driver>> /\ Local
  BY <1>2, <1>3 DEF IdWait, AnswerEnds, Command, ps2_port_write_data, ps2_wait_for_ack
<1>5. Speaks /\ UNCHANGED <<byte, ret, ack_start, response, ps2_error, in, out>>
  BY <1>1, <1>4, Zenon DEF Speaks, driver, Untouched, Local, controller
<1>6. w \in AllOps /\ a \in AllOps /\ n \in AllOps /\ b \in AllOps
  BY <1>0, SaidAre
<1>7. (<<w>> \o <<a>>) \o rest = Before(w, Before(a, rest)) /\ <<b, n>> \o rest = Before(b, Before(n, rest))
  <2>. HIDE DEF w, a, n, b
  <2>1. (<<w>> \o <<a>>) \o rest = Before(w, Before(a, rest))
    BY <1>6, TwoHave, Zenon
  <2>2. <<b, n>> \o rest = Before(b, Before(n, rest))
    BY <1>6, TwoHave, Zenon
  <2>. QED
    BY <2>1, <2>2, Zenon
<1>8. /\ OutputFull => todo' = <<b, n>> \o rest
      /\ ~OutputFull => todo' = (<<w>> \o <<a>>) \o rest
  BY <1>1, <1>4, Zenon
<1>. QED
  BY <1>4, <1>5, <1>7, <1>8, Zenon DEF EndsOps

LEMMA ByteHas ==
  ASSUME NEW p \in Ports, NEW rest \in Seq(AllOps), todo = Before(<<"id_byte", p>>, rest), Thread
  PROVE  /\ Speaks /\ UNCHANGED <<byte, ret, start, ack_start, in, out>> /\ ~ps2_error'
         /\ ps2_error => todo' = rest /\ response' = response
         /\ ~ps2_error => todo' = Before(<<"id_loop", p>>, rest) /\ response' = Append(response, byte)
<1>0. <<"id_byte", p>> \in AllOps /\ <<"id_loop", p>> \in AllOps
  BY OpsHave, SaidAre
<1>1. /\ todo[1] = <<"id_byte", p>> /\ Untouched
      /\ \A ops : Then(ops) => todo' = ops \o rest
  BY <1>0, StepHas
<1>1b. ReturnFrom => todo' = rest
  BY <1>0, StepHas
<1>2. Arg(2) = p
  BY <1>1 DEF Arg
<1>3. IdByte
  BY <1>1, ThreadAt, Heads DEF QuietThread, At
<1>4. /\ ps2_error' = FALSE
      /\ ps2_error => ReturnFrom /\ response' = response
      /\ ~ps2_error => response' = Append(response, byte) /\ Then(<<<<"id_loop", p>>>>)
      /\ UNCHANGED <<byte, ret, start, ack_start, port1, port2, dual_channel,
                     ps2_initialized, identity>>
      /\ Local
  BY <1>2, <1>3 DEF IdByte
<1>5. Speaks /\ UNCHANGED <<byte, ret, start, ack_start, in, out>>
  BY <1>1, <1>4, Zenon DEF Speaks, Untouched, Local, controller
<1>6. <<<<"id_loop", p>>>> \o rest = Before(<<"id_loop", p>>, rest)
  BY DEF Before
<1>. QED
  BY <1>1, <1>1b, <1>4, <1>5, <1>6


LEMMA IdentifiedHas ==
  ASSUME NEW p \in Ports, NEW rest \in Seq(AllOps), todo = Before(<<"identified", p>>, rest), Thread
  PROVE  /\ todo' = rest /\ identity' = [identity EXCEPT ![p] = response]
         /\ UNCHANGED <<port1, port2, machine, config, expects, handler, dev, ps2_initialized, ps2_error,
                        in, out, keyboard_enabled, shift_down>>
         /\ response' = <<>>
<1>0. <<"identified", p>> \in AllOps
  BY OpsHave, SaidAre
<1>1. todo[1] = <<"identified", p>> /\ Untouched
  BY <1>0, StepHas
<1>1b. ReturnFrom => todo' = rest
  BY <1>0, StepHas
<1>2. Arg(2) = p
  BY <1>1 DEF Arg
<1>3. Identified
  BY <1>1, ThreadAt, Heads DEF QuietThread, At
<1>4. /\ identity' = [identity EXCEPT ![p] = response]
      /\ ReturnFrom /\ response' = <<>>
      /\ UNCHANGED <<port1, port2, dual_channel, ps2_error, ps2_initialized>>
      /\ Local
  BY <1>2, <1>3 DEF Identified, Gone
<1>. QED
  BY <1>1, <1>1b, <1>4, Zenon DEF Untouched, Local, controller

LEMMA InitializedHas ==
  ASSUME NEW rest \in Seq(AllOps), todo = Before(<<"initialized">>, rest), Thread
  PROVE  /\ todo' = rest
         /\ UNCHANGED <<port1, port2, machine, config, expects, handler, dev, identity, ps2_error,
                        in, out, keyboard_enabled, shift_down>>
<1>0. <<"initialized">> \in AllOps
  BY OpsHave, SaidAre DEF Ports
<1>1. todo[1] = <<"initialized">> /\ Untouched
  BY <1>0, StepHas
<1>1b. ReturnFrom => todo' = rest
  BY <1>0, StepHas
<1>3. Initialized
  BY <1>1, ThreadAt, Heads DEF QuietThread, At
<1>4. /\ ReturnFrom
      /\ UNCHANGED <<port1, port2, dual_channel, ps2_error, identity>>
      /\ Local
  BY <1>3 DEF Initialized
<1>. QED
  BY <1>1, <1>1b, <1>4, Zenon DEF Untouched, Local, controller

\* A failure ends the thread.
LEMMA CheckHas ==
  ASSUME NEW rest \in Seq(AllOps), todo = Before(<<"check">>, rest), Thread
  PROVE  /\ Speaks /\ UNCHANGED <<in, out>> /\ ret' = 0
         /\ ret = 1 => todo' = <<>>
         /\ ret # 1 => todo' = rest
<1>0. <<"check">> \in AllOps
  BY OpsHave, SaidAre DEF Ports
<1>1. todo[1] = <<"check">> /\ Untouched
  BY <1>0, StepHas
<1>1b. ReturnFrom => todo' = rest
  BY <1>0, StepHas
<1>3. Check
  BY <1>1, ThreadAt, Heads DEF QuietThread, At
<1>4. /\ ret = 1 => todo' = <<>>
      /\ ret # 1 => ReturnFrom
      /\ ret' = 0
      /\ UNCHANGED driver /\ Local
  BY <1>3 DEF Check, Gone
<1>5. Speaks /\ UNCHANGED <<in, out>>
  BY <1>1, <1>4, Zenon DEF Speaks, driver, Untouched, Local, controller
<1>. QED
  BY <1>1, <1>1b, <1>4, <1>5

LEMMA EnableHas ==
  ASSUME NEW rest \in Seq(AllOps), todo = Before(<<"enable">>, rest), Thread
  PROVE  /\ todo' = rest
         /\ UNCHANGED <<port1, port2, machine, config, expects, handler, dev, identity, ps2_error,
                        ps2_initialized, in, out, shift_down, ticks>>
<1>0. <<"enable">> \in AllOps
  BY OpsHave, SaidAre DEF Ports
<1>1. todo[1] = <<"enable">>
  BY <1>0, StepHas
<1>1b. ReturnFrom => todo' = rest
  BY <1>0, StepHas
<1>3. Enable
  BY <1>1, ThreadAt, Heads DEF QuietThread, At
<1>4. ReturnFrom /\ UNCHANGED <<driver, shift_down>> /\ Local
  BY <1>3, Zenon DEF Enable
<1>. QED
  BY <1>1b, <1>4, Zenon DEF Local, controller, driver

LEMMA FlushHas ==
  ASSUME NEW rest \in Seq(AllOps), todo = Before(<<"flush">>, rest), Thread
  PROVE  /\ Speaks /\ UNCHANGED in
         /\ \/ todo' = todo /\ out' = NoByte
            \/ todo' = rest /\ ~OutputFull /\ out' = out
<1>0. <<"flush">> \in AllOps
  BY OpsHave, SaidAre DEF Ports
<1>1. todo[1] = <<"flush">> /\ Untouched
  BY <1>0, StepHas
<1>1b. ReturnFrom => todo' = rest
  BY <1>0, StepHas
<1>3. Flush
  BY <1>1, ThreadAt, Heads DEF QuietThread, At
<1>4. /\ \/ out' = NoByte /\ todo' = todo
         \/ ~OutputFull /\ ReturnFrom /\ out' = out
      /\ UNCHANGED <<byte, ret, start, ack_start, response, driver, config, in,
                     expects, ticks, handler, machine, dev>>
  BY <1>3, Zenon DEF Flush, Discarded
<1>5. Speaks /\ UNCHANGED in
  BY <1>1, <1>4, Zenon DEF Speaks, driver, Untouched
<1>. QED
  BY <1>1b, <1>4, <1>5, Zenon

LEMMA OneMore ==
  ASSUME NEW s \in Seq(AllOps), NEW op \in AllOps, NEW rest \in Seq(AllOps)
  PROVE  /\ (s \o <<op>>) \o rest = s \o Before(op, rest)
         /\ s \o <<op>> \in Seq(AllOps) /\ Before(op, rest) \in Seq(AllOps)
<1>. HIDE DEF AllOps
<1>. DEFINE x == <<op>>
<1>1. x \in Seq(AllOps)
  OBVIOUS
<1>. HIDE DEF x
<1>2. (s \o x) \o rest = s \o (x \o rest)
  BY <1>1, ConcatAssociative
<1>3. s \o x \in Seq(AllOps)
  BY <1>1, ConcatProperties
<1>4. x \o rest \in Seq(AllOps)
  BY <1>1, ConcatProperties
<1>. QED
  BY <1>2, <1>3, <1>4 DEF x, Before

LEMMA ScancodeOps ==
  ASSUME NEW p \in Ports, NEW d, d = Setting(p)
  PROVE  ps2_scancode_correction(p) \o enable_and_flush
           = Before(<<"write", p, PS2_KEYBOARD_SET_SCANCODE_SET>>, Before(<<"check">>, SetAckOps(d)))
<1>. DEFINE w == <<"write", p, PS2_KEYBOARD_SET_SCANCODE_SET>>
            k == <<"check">>
            a == <<"ack", p, PS2_KEYBOARD_SET_SCANCODE_SET>>
            v == <<"write", p, Byte(1)>>
            s1 == <<w>>
            s2 == s1 \o <<k>>
            s3 == s2 \o <<a>>
            s4 == s3 \o <<k>>
            s5 == s4 \o <<v>>
            e == enable_and_flush
<1>1. w \in AllOps /\ k \in AllOps /\ a \in AllOps /\ v \in AllOps
  BY OpsHave, SaidAre
<1>2. e \in Seq(AllOps)
  <2>1. <<"enable">> \in AllOps /\ <<"flush">> \in AllOps
    BY OpsHave, SaidAre
  <2>. HIDE DEF AllOps
  <2>. QED
    BY <2>1 DEF enable_and_flush
<1>3. ps2_scancode_correction(p) \o enable_and_flush = (s5 \o <<k>>) \o e
  BY DEF ps2_scancode_correction, ps2_port_write_data, ps2_wait_for_ack
<1>4. d.port = p
  BY DEF Setting
<1>5. Before(w, Before(k, Before(a, Before(k, Before(v, Before(k, e))))))
        = Before(<<"write", p, PS2_KEYBOARD_SET_SCANCODE_SET>>, Before(<<"check">>, SetAckOps(d)))
  BY <1>4 DEF SetAckOps, SetOps, LastOps, EnableOps, AckOps, enable_and_flush
<1>6. s1 \in Seq(AllOps)
  <2>. HIDE DEF AllOps, w
  <2>. QED
    BY <1>1
<1>. HIDE DEF e, w, k, a, v
<1>7. s2 \in Seq(AllOps)
  <2>. HIDE DEF s1
  <2>. QED
    BY <1>1, <1>2, <1>6, OneMore, Zenon DEF s2
<1>8. s3 \in Seq(AllOps)
  <2>. HIDE DEF s2
  <2>. QED
    BY <1>1, <1>2, <1>7, OneMore, Zenon DEF s3
<1>9. s4 \in Seq(AllOps)
  <2>. HIDE DEF s3
  <2>. QED
    BY <1>1, <1>2, <1>8, OneMore, Zenon DEF s4
<1>10. s5 \in Seq(AllOps)
  <2>. HIDE DEF s4
  <2>. QED
    BY <1>1, <1>2, <1>9, OneMore, Zenon DEF s5
<1>. DEFINE r6 == Before(k, e)
            r5 == Before(v, r6)
            r4 == Before(k, r5)
            r3 == Before(a, r4)
            r2 == Before(k, r3)
<1>11. r6 \in Seq(AllOps) /\ (s5 \o <<k>>) \o e = s5 \o r6
  <2>. HIDE DEF s5
  <2>. QED
    BY <1>1, <1>2, <1>10, OneMore, Zenon
<1>12. r5 \in Seq(AllOps) /\ s5 \o r6 = s4 \o r5
  <2>. HIDE DEF s4, r6
  <2>. QED
    BY <1>1, <1>9, <1>11, OneMore, Zenon DEF s5
<1>13. r4 \in Seq(AllOps) /\ s4 \o r5 = s3 \o r4
  <2>. HIDE DEF s3, r5
  <2>. QED
    BY <1>1, <1>8, <1>12, OneMore, Zenon DEF s4
<1>14. r3 \in Seq(AllOps) /\ s3 \o r4 = s2 \o r3
  <2>. HIDE DEF s2, r4
  <2>. QED
    BY <1>1, <1>7, <1>13, OneMore, Zenon DEF s3
<1>15. r2 \in Seq(AllOps) /\ s2 \o r3 = s1 \o r2
  <2>. HIDE DEF s1, r3
  <2>. QED
    BY <1>1, <1>6, <1>14, OneMore, Zenon DEF s2
<1>16. s1 \o r2 = Before(w, r2)
  <2>. HIDE DEF r2
  <2>. QED
    BY Zenon DEF Before, s1
<1>17. (s5 \o <<k>>) \o e = Before(w, r2)
  <2>. HIDE DEF s1, s2, s3, s4, s5, r2, r3, r4, r5, r6
  <2>. QED
    BY <1>11, <1>12, <1>13, <1>14, <1>15, <1>16, Zenon
<1>. QED
  BY <1>3, <1>5, <1>17, Zenon DEF r2, r3, r4, r5, r6

\* keyboard_init, past its test of ps2_initialized.
LEMMA KeyboardInitHas ==
  ASSUME MachineTypes, todo = AtKeyboardInit, Thread
  PROVE  /\ Speaks /\ UNCHANGED <<ret, ps2_error, in, out>>
         /\ todo' \in {<<>>, <<<<"flush">>>>}
            \/ \E p \in Ports : \E d \in {Setting(p)} :
                 /\ IsKeyboard(identity[p]) /\ (p = 2 => ~IsKeyboard(identity[1]))
                 /\ ps2_initialized
                 /\ todo' = Before(<<"write", p, PS2_KEYBOARD_SET_SCANCODE_SET>>,
                                   Before(<<"check">>, SetAckOps(d)))
<1>0. <<"keyboard_init">> \in AllOps /\ <<>> \in Seq(AllOps)
  <2>1. <<"keyboard_init">> \in AllOps
    BY OpsHave, SaidAre DEF Ports
  <2>. HIDE DEF AllOps
  <2>. QED
    BY <2>1
<1>1. todo = Before(<<"keyboard_init">>, <<>>)
  BY <1>0, ConsIs DEF AtKeyboardInit, Before
<1>2. todo[1] = <<"keyboard_init">> /\ Untouched
  BY <1>0, <1>1, StepHas
<1>3. Tail(todo) = <<>>
  BY <1>0, <1>1, BeforeHas
<1>4. KeyboardInit
  BY <1>2, ThreadAt, Heads DEF QuietThread, At
<1>5. UNCHANGED <<byte, ret, start, ack_start, response, driver>> /\ Local
  BY <1>4 DEF KeyboardInit
<1>6. Speaks /\ UNCHANGED <<ret, ps2_error, in, out>>
  BY <1>2, <1>5, Zenon DEF Speaks, driver, Untouched, Local, controller
<1>7. \/ Then(<<>>) \/ Then(<<<<"flush">>>>)
      \/ \E p \in Ports : /\ IsKeyboard(identity[p]) /\ (p = 2 => ~IsKeyboard(identity[1]))
                          /\ ps2_initialized
                          /\ Then(ps2_scancode_correction(p) \o enable_and_flush)
  <2>1. 1 \in Ports /\ 2 \in Ports
    BY DEF Ports
  <2>. HIDE DEF IsKeyboard
  <2>2. CASE ~ps2_initialized
    BY <2>2, <1>4 DEF KeyboardInit
  <2>3. CASE ps2_initialized /\ IsKeyboard(identity[1])
    BY <2>1, <2>3, <1>4 DEF KeyboardInit
  <2>4. CASE ps2_initialized /\ ~IsKeyboard(identity[1]) /\ IsKeyboard(identity[2])
    BY <2>1, <2>4, <1>4 DEF KeyboardInit
  <2>5. CASE ps2_initialized /\ ~IsKeyboard(identity[1]) /\ ~IsKeyboard(identity[2])
    BY <2>1, <2>5, <1>4 DEF KeyboardInit
  <2>. QED
    BY <2>2, <2>3, <2>4, <2>5
<1>8. \A ops \in Seq(AllOps) : Then(ops) => todo' = ops
  <2>. HIDE DEF AllOps
  <2>. QED
    BY <1>3, ConcatEmptySeq DEF Then
<1>9. CASE Then(<<>>)
  BY <1>0, <1>6, <1>8, <1>9
<1>10. CASE Then(<<<<"flush">>>>)
  <2>1. <<"flush">> \in AllOps
    BY OpsHave, SaidAre DEF Ports
  <2>2. <<<<"flush">>>> \in Seq(AllOps)
    <3>. HIDE DEF AllOps
    <3>. QED
      BY <2>1
  <2>3. todo' = <<<<"flush">>>>
    BY <1>8, <1>10, <2>2, Zenon
  <2>. QED
    BY <1>6, <2>3
<1>11. ASSUME NEW p \in Ports, IsKeyboard(identity[p]), p = 2 => ~IsKeyboard(identity[1]),
              ps2_initialized, Then(ps2_scancode_correction(p) \o enable_and_flush)
       PROVE  \E d \in {Setting(p)} :
                todo' = Before(<<"write", p, PS2_KEYBOARD_SET_SCANCODE_SET>>,
                               Before(<<"check">>, SetAckOps(d)))
  <2>1. PICK d : d = Setting(p)
    OBVIOUS
  <2>. DEFINE s == Before(<<"write", p, PS2_KEYBOARD_SET_SCANCODE_SET>>,
                          Before(<<"check">>, SetAckOps(d)))
  <2>2. ps2_scancode_correction(p) \o enable_and_flush = s
    BY <2>1, ScancodeOps
  <2>3. s \in Seq(AllOps)
    <3>0. Identity(p) \in Seq(Bytes)
      BY IdentityIs DEF Plain
    <3>1. d \in Dialogue /\ d.port = p
      BY <2>1, <3>0 DEF Dialogue, Setting
    <3>2. Before(<<"check">>, SetAckOps(d)) \in Seq(AllOps)
      BY <3>1, SettingSeqs
    <3>. QED
      BY <3>2, OpsHave, SaidAre, BeforeHas
  <2>4. todo' = s
    BY <1>8, <1>11, <2>2, <2>3, Zenon
  <2>. QED
    BY <2>1, <2>4, Zenon
<1>. QED
  BY <1>6, <1>7, <1>9, <1>10, <1>11

-----------------------------------------------------------------------------
(* The thread in a dialogue.                                               *)

\* What is alike after a step of the thread that takes no byte from the controller.
Alike(d) ==
  /\ Due(d.to)' = Due(d.to) /\ (Live(d.to)' <=> Live(d.to))
  /\ dev' = dev /\ (Usable(d.port)' <=> Usable(d.port)) /\ (Calls(d.to)' <=> Calls(d.to))
  /\ expects' = expects

LEMMA CallsIs ==
  ASSUME NEW q \in Ports
  PROVE  /\ q = 1 => (Calls(q) <=> expects = "port 1")
         /\ q = 2 => (Calls(q) <=> expects = "port 2")
<1>1. q # 2 => (Calls(q) <=> expects = "port 1")
  BY Zenon DEF Calls
<1>2. q = 2 => (Calls(q) <=> expects = "port 2")
  BY Zenon DEF Calls
<1>3. q = 1 => q # 2
  OBVIOUS
<1>. QED
  BY <1>1, <1>2, <1>3, Zenon

LEMMA SpeaksKeeps ==
  ASSUME NEW d \in Dialogue, Speaks
  PROVE  /\ out' = out => Alike(d)
         /\ in' = in => (InputFull' <=> InputFull) /\ (Empty' <=> Empty)
         /\ Fits(d) => Fits(d)'
<1>1. UNCHANGED <<port1, port2, machine, config, expects, dev>>
  BY DEF Speaks
<1>2. out' = out => Due(d.to)' = Due(d.to) /\ (Live(d.to)' <=> Live(d.to))
  BY <1>1 DEF Due, Live
<1>3. /\ (Usable(d.port)' <=> Usable(d.port)) /\ (Calls(d.to)' <=> Calls(d.to))
      /\ in' = in => (InputFull' <=> InputFull) /\ (Empty' <=> Empty)
  BY <1>1 DEF Usable, Calls, InputFull, Empty
<1>4. Fits(d) => Fits(d)'
  BY <1>1 DEF Fits, Reached, Identity, Live, Usable
<1>. QED
  BY <1>1, <1>2, <1>3, <1>4 DEF Alike

LEMMA WritesStep ==
  ASSUME Types, Types', NEW d \in Dialogue, Fits(d), Quiet(d), NEW c \in Said,
         NEW M \in Seq(AllOps), Writes(d, c, M), Thread
  PROVE  /\ Speaks /\ UNCHANGED <<byte, start, ack_start, response, ps2_error>> /\ Quiet(d)'
         /\ \/ Writes(d, c, M)'
            \/ todo' = M /\ Untaken(d, c)' /\ ret' = 0
            \/ ~Usable(d.port) /\ todo' = M /\ ret' = 1 /\ Still(d, c)'
<1>a. d.port \in Ports /\ d.to \in Ports
  BY DialogueIs
<1>b. c \in Bytes /\ PS2_WRITE_BYTE_INPUT_PORT_2 \in Bytes
  BY SaidAre
<1>c. /\ ps2_send_cmd(PS2_WRITE_BYTE_INPUT_PORT_2) \in AllOps /\ ps2_write_data(c) \in AllOps
  BY <1>a, <1>b, OpsHave
<1>d. Before(ps2_write_data(c), M) \in Seq(AllOps)
  BY <1>c, BeforeHas
<1>1. CASE todo = Before(<<"write", d.port, c>>, M) /\ Still(d, c)
  <2>1. /\ Speaks /\ UNCHANGED <<byte, start, ack_start, response, ps2_error, in, out>>
        /\ ~Usable(d.port) => ret' = 1 /\ todo' = M
        /\ Usable(d.port) =>
             /\ ret' = 0
             /\ d.port = 1 => todo' = Before(ps2_write_data(c), M)
             /\ d.port = 2 => todo' = Before(ps2_send_cmd(PS2_WRITE_BYTE_INPUT_PORT_2),
                                             Before(ps2_write_data(c), M))
    BY <1>1, <1>a, <1>b, WriteHas
  <2>2. Alike(d) /\ (Empty' <=> Empty)
    BY <2>1, SpeaksKeeps
  <2>3. Still(d, c)'
    BY <1>1, <2>2 DEF Still, Ready, Alike
  <2>4. Quiet(d)'
    BY <2>1, QuietThreadKept DEF Speaks
  <2>5. CASE ~Usable(d.port)
    BY <2>1, <2>3, <2>4, <2>5
  <2>6. CASE Usable(d.port) /\ d.port = 1
    <3>1. d.to = 1
      BY <2>6 DEF Fits, Reached
    <3>2. Prepared(d, c)'
      <4>1. Due(d.to)' = <<>> /\ Ready(d, c)'
        BY <2>3 DEF Still
      <4>2. ~InputFull'
        BY <2>3 DEF Still, Empty
      <4>3. expects = "port 1"
        BY <1>1 DEF Still, Empty
      <4>4. Calls(d.to)
        BY <1>a, <3>1, <4>3, CallsIs
      <4>. QED
        BY <2>2, <4>1, <4>2, <4>4, Zenon DEF Prepared, Alike
    <3>. QED
      BY <2>1, <2>2, <2>4, <2>6, <3>2 DEF Writes, Alike
  <2>7. CASE Usable(d.port) /\ d.port = 2
    BY <2>1, <2>2, <2>3, <2>4, <2>7 DEF Writes, Alike
  <2>. QED
    BY <1>a, <2>5, <2>6, <2>7 DEF Ports
<1>2. CASE /\ todo = Before(ps2_send_cmd(PS2_WRITE_BYTE_INPUT_PORT_2), Before(ps2_write_data(c), M))
           /\ Usable(d.port) /\ d.port = 2 /\ ret = 0 /\ Still(d, c)
  <2>1. /\ todo' = Before(ps2_write_data(c), M) /\ Speaks
        /\ UNCHANGED <<byte, ret, start, ack_start, response, ps2_error, out>>
        /\ in' = [byte |-> PS2_WRITE_BYTE_INPUT_PORT_2, port |-> "command"]
    BY <1>2, <1>b, <1>c, <1>d, OutHas DEF ps2_send_cmd
  <2>2. Alike(d)
    BY <2>1, SpeaksKeeps
  <2>3. Prepared(d, c)'
    BY <1>2, <2>1, <2>2 DEF Still, Prepared, Ready, Alike
  <2>4. Quiet(d)'
    <3>1. in'.port # "data"
      BY <2>1
    <3>4. Due(Other(d.to))' = <<>>
      BY <2>1 DEF Quiet, Due, Live, Speaks
    <3>5. Same(Other(d.to)) /\ dev'[d.to].resends <= MaxResends
      BY <1>a, <2>1 DEF Quiet, Same, Speaks
    <3>6. out'.src # Controller /\ (d.to = 1 => handler' = "none")
      BY <2>1 DEF Quiet, Speaks
    <3>. QED
      BY <2>1, <3>1, <3>4, <3>5, <3>6, QuietKept DEF Speaks
  <2>. QED
    BY <1>2, <2>1, <2>2, <2>3, <2>4 DEF Writes, Alike
<1>3. CASE /\ todo = Before(ps2_write_data(c), M)
           /\ Usable(d.port) /\ ret = 0 /\ Prepared(d, c)
  <2>1. /\ todo' = M /\ Speaks
        /\ UNCHANGED <<byte, ret, start, ack_start, response, ps2_error, out>>
        /\ ~InputFull /\ in' = [byte |-> c, port |-> "data"]
    BY <1>3, <1>b, <1>c, OutHas DEF ps2_write_data
  <2>2. Alike(d)
    BY <2>1, SpeaksKeeps
  <2>3. Calls(d.to)
    BY <1>3, <2>1 DEF Prepared, InputFull
  <2>4. Untaken(d, c)'
    BY <1>3, <2>1, <2>2, <2>3 DEF Prepared, Untaken, Ready, Alike
  <2>5. Quiet(d)'
    BY <2>1, <2>3, QuietThreadKept DEF Speaks
  <2>. QED
    BY <1>3, <2>1, <2>4, <2>5
<1>. QED
  BY <1>1, <1>2, <1>3 DEF Writes


\* The device does not ask for a byte so often that the driver gives up: a time-out
\* is PS2_TIMEOUT_DURATION ticks, and a wait that many seconds.
Patient == MaxResends < TicksPerSecond

LEMMA InTime ==
  ASSUME PS2_TIMEOUT_DURATION \in Nat \ {0}, TicksPerSecond \in Nat \ {0}, MaxResends \in Nat,
         Patient, NEW t \in Nat, NEW a \in Nat, NEW r \in Nat, r <= MaxResends,
         t <= a + r * (PS2_TIMEOUT_DURATION - 1)
  PROVE  t \div TicksPerSecond < a + PS2_TIMEOUT_DURATION
<1>. DEFINE D == PS2_TIMEOUT_DURATION
            T == TicksPerSecond
            q == t \div T
<1>0. D \in Nat \ {0} /\ T \in Nat \ {0} /\ r < T
  BY DEF Patient
<1>1. q \in Nat /\ q * T <= t
  <2>1. q \in Nat /\ t = T * q + (t % T) /\ t % T \in Nat
    BY <1>0
  <2>. QED
    BY <2>1, <1>0
<1>2. t <= a + r * (D - 1)
  OBVIOUS
<1>. HIDE DEF D, T, q
<1>3. r * (D - 1) <= T * (D - 1)
  BY <1>0
<1>4. ASSUME q >= a + D PROVE FALSE
  <2>1. q * T >= (a + D) * T
    BY <1>0, <1>1, <1>4
  <2>2. (a + D) * T = a * T + D * T
    BY <1>0
  <2>3. a * T >= a
    BY <1>0
  <2>4. T * (D - 1) = D * T - T
    BY <1>0
  <2>5. a * T \in Nat /\ D * T \in Nat /\ r * (D - 1) \in Nat /\ q * T \in Nat
    BY <1>0, <1>1
  <2>. QED
    BY <1>0, <1>1, <1>2, <1>3, <2>1, <2>2, <2>3, <2>4, <2>5
<1>. QED
  BY <1>0, <1>1, <1>4 DEF q, D, T


LEMMA AlikeKeeps ==
  ASSUME NEW d, NEW c, Alike(d), in' = in
  PROVE  /\ (Still(d, c)' <=> Still(d, c)) /\ (Lost(d, c)' <=> Lost(d, c))
         /\ (Pending(d, c)' <=> Pending(d, c)) /\ (Effect(d, c)' <=> Effect(d, c))
         /\ ack_start' = ack_start =>
              Allowed(d)' = Allowed(d) /\ \A t : Pace(d, c, t)' <=> Pace(d, c, t)
<1>1. Empty' <=> Empty
  BY DEF Alike, Empty, InputFull
<1>2. Still(d, c)' <=> Still(d, c)
  BY <1>1 DEF Alike, Still, Ready
<1>3. Lost(d, c)' <=> Lost(d, c)
  BY <1>1 DEF Alike, Lost, Reply
<1>4. Effect(d, c)' <=> Effect(d, c)
  BY DEF Alike, Effect
<1>5. Untaken(d, c)' <=> Untaken(d, c)
  BY DEF Alike, Untaken, Ready
<1>6. Refused(d)' <=> Refused(d)
  BY <1>1 DEF Alike, Refused
<1>7. Accepted(d, c)' <=> Accepted(d, c)
  BY <1>1, <1>4 DEF Alike, Accepted, Reply
<1>8. Pending(d, c)' <=> Pending(d, c)
  BY <1>3, <1>5, <1>6, <1>7 DEF Pending
<1>9. ASSUME ack_start' = ack_start
      PROVE  Allowed(d)' = Allowed(d) /\ \A t : Pace(d, c, t)' <=> Pace(d, c, t)
  <2>1. Allowed(d)' = Allowed(d)
    BY <1>9 DEF Alike, Allowed
  <2>2. Due(d.to)' = Due(d.to)
    BY DEF Alike
  <2>. QED
    BY <1>3, <2>1, <2>2 DEF Pace
<1>. QED
  BY <1>2, <1>3, <1>4, <1>8, <1>9

\* What has come, or comes, of a command.
LEMMA PendingIs ==
  ASSUME MachineTypes, NEW d \in Dialogue, Fits(d), NEW c \in Orders, Pending(d, c)
  PROVE  /\ Due(d.to) = <<>> => Untaken(d, c) \/ Lost(d, c)
         /\ Due(d.to) = <<PS2_RESEND>> => Refused(d) /\ ~Lost(d, c)
         /\ InputFull <=> Untaken(d, c)
         /\ Untaken(d, c) \/ Lost(d, c) \/ Refused(d) \/ Accepted(d, c)
<1>1. Plain(Reply(d, c))
  BY ReplyIs DEF Fits
<1>2. Reply(d, c) \in Seq(Bytes) /\ PS2_ACK \in Bytes /\ PS2_RESEND \in Bytes
  BY <1>1, SaidAre DEF Plain
<1>3. Accepted(d, c) => Due(d.to) # <<>> /\ Due(d.to) # <<PS2_RESEND>>
  <2>1. <<PS2_ACK>> \o Reply(d, c) # <<>> /\ Head(<<PS2_ACK>> \o Reply(d, c)) = PS2_ACK
    BY <1>2, ByteFirst
  <2>2. Head(<<PS2_RESEND>>) = PS2_RESEND
    OBVIOUS
  <2>. QED
    BY <2>1, <2>2, SaidDiffer DEF Accepted
<1>4. Refused(d) => Due(d.to) # <<>>
  BY DEF Refused
<1>5. Lost(d, c) => Due(d.to) # <<PS2_RESEND>>
  <2>1. ASSUME Lost(d, c), Due(d.to) = <<PS2_RESEND>> PROVE FALSE
    <3>1. Due(d.to) \in Rests(Reply(d, c)) /\ Due(d.to) # <<>> /\ Head(Due(d.to)) = PS2_RESEND
      BY <2>1 DEF Lost
    <3>. QED
      BY <1>1, <3>1, RestsIs
  <2>. QED
    BY <2>1
<1>6. Untaken(d, c) => Due(d.to) # <<PS2_RESEND>>
  BY DEF Untaken
<1>7. Untaken(d, c) => InputFull
  BY DEF Untaken, InputFull
<1>8. Refused(d) \/ Accepted(d, c) \/ Lost(d, c) => ~InputFull
  BY DEF Refused, Accepted, Lost, Empty
<1>. QED
  BY <1>3, <1>4, <1>5, <1>6, <1>7, <1>8 DEF Pending


\* The thread starts to wait for an acknowledgement.
LEMMA AckStep ==
  ASSUME Types, Types', NEW d \in Dialogue, Fits(d), Quiet(d), NEW c \in Orders,
         NEW N \in Seq(AllOps), Thread, todo = AckOps(d, c, N), Pending(d, c), Clean(d)
  PROVE  /\ Speaks /\ response' = response /\ Quiet(d)' /\ Acknowledging(d, c, N)'
<1>a. d.port \in Ports /\ d.to \in Ports /\ c \in Bytes
  BY DialogueIs, SaidAre
<1>b. ThreadTypes /\ MachineTypes
  BY DEF Types
<1>1. /\ Speaks /\ UNCHANGED <<byte, ret, response, ps2_error, in, out>>
      /\ start' = ticks /\ ack_start' = ticks
      /\ todo' = Before(<<"poll">>, TestOps(d, c, N))
  BY <1>a, AckHas DEF AckOps, TestOps
<1>2. Alike(d) /\ Quiet(d)'
  BY <1>1, SpeaksKeeps, QuietThreadKept DEF Speaks
<1>3. Pending(d, c)'
  BY <1>1, <1>2, AlikeKeeps
<1>4. Pace(d, c, start)'
  <2>1. dev[d.to].resends \in Nat /\ ticks \in Nat /\ PS2_TIMEOUT_DURATION \in Nat \ {0}
    BY <1>a, <1>b, Ps2Assumption DEF MachineTypes, Devices
  <2>2. /\ Due(d.to)' = Due(d.to) /\ dev' = dev
    BY <1>2 DEF Alike
  <2>3. Allowed(d)' = ticks + dev[d.to].resends * (PS2_TIMEOUT_DURATION - 1)
    BY <1>1, <2>2 DEF Allowed
  <2>4. Due(d.to) = <<PS2_RESEND>> => dev[d.to].resends > 0
    BY <1>b, PendingIs DEF Refused
  <2>. DEFINE r == dev[d.to].resends
              D == PS2_TIMEOUT_DURATION - 1
  <2>5. r \in Nat /\ D \in Nat
    BY <2>1
  <2>. HIDE DEF r, D
  <2>6. r * D \in Nat /\ (r > 0 => r * D >= D)
    BY <2>5
  <2>7. ticks <= ticks + r * D /\ (r > 0 => ticks + D <= ticks + r * D)
    BY <2>1, <2>5, <2>6
  <2>. QED
    BY <1>1, <2>2, <2>3, <2>4, <2>7 DEF Pace, r, D
<1>5. Patience'
  <2>1. ticks' = ticks /\ ticks \in Nat /\ PS2_TIMEOUT_DURATION \in Nat \ {0}
    BY <1>1, <1>b, Ps2Assumption DEF MachineTypes, Speaks
  <2>2. ticks' < start' + PS2_TIMEOUT_DURATION
    BY <1>1, <2>1
  <2>. QED
    BY <2>2 DEF Patience
<1>6. Clean(d)'
  BY <1>1 DEF Clean
<1>. QED
  BY <1>1, <1>2, <1>3, <1>4, <1>5, <1>6 DEF Acknowledging

\* It reads a byte, or the time is out.
LEMMA PollStep ==
  ASSUME Types, Types', NEW d \in Dialogue, Fits(d), Quiet(d), NEW c \in Orders,
         NEW N \in Seq(AllOps), Thread, todo = Before(<<"poll">>, TestOps(d, c, N)),
         Pending(d, c), Pace(d, c, start), Patience, Clean(d)
  PROVE  /\ Speaks /\ response' = response /\ Quiet(d)' /\ Acknowledging(d, c, N)'
<1>a. d.port \in Ports /\ d.to \in Ports /\ c \in Bytes /\ d.sound \in BOOLEAN
  BY DialogueIs, SaidAre
<1>b. ThreadTypes /\ MachineTypes
  BY DEF Types
<1>c. TestOps(d, c, N) \in Seq(AllOps)
  BY <1>a, OpsHave, BeforeHas DEF TestOps
<1>1. /\ Speaks /\ UNCHANGED <<ret, start, ack_start, response, in>> /\ todo' = TestOps(d, c, N)
      /\ out' = out \/ out' = NoByte
      /\ \/ /\ OutputFull /\ UNCHANGED ps2_error
            /\ Due(d.to) # <<>> /\ byte' = Head(Due(d.to)) /\ Due(d.to)' = Tail(Due(d.to))
         \/ /\ ~OutputFull /\ TimedOut
            /\ ps2_error' /\ byte' = Byte(1) /\ out' = out
  BY <1>c, PollHas
<1>2. Quiet(d)' /\ (Empty' <=> Empty) /\ dev' = dev /\ ticks' = ticks
  BY <1>1, SpeaksKeeps, QuietThreadKept DEF Speaks
<1>3. Plain(Reply(d, c))
  BY <1>b, ReplyIs DEF Fits
<1>4. Effect(d, c)' <=> Effect(d, c)
  BY <1>2 DEF Effect
<1>5. ack_start \in Nat /\ start \in Nat /\ ticks \in Nat /\ PS2_TIMEOUT_DURATION \in Nat \ {0}
      /\ dev[d.to].resends \in Nat
  BY <1>a, <1>b, Ps2Assumption DEF ThreadTypes, MachineTypes, Devices
<1>6. Allowed(d)' = Allowed(d) /\ Allowed(d) \in Nat
  BY <1>1, <1>2, <1>5, PaceOf DEF Allowed
<1>7. Reply(d, c)' = Reply(d, c)
  BY DEF Reply
<1>8. CASE /\ OutputFull /\ UNCHANGED ps2_error
           /\ Due(d.to) # <<>> /\ byte' = Head(Due(d.to)) /\ Due(d.to)' = Tail(Due(d.to))
  <2>1. d.sound => ~ps2_error'
    BY <1>8 DEF Clean
  <2>2. CASE Refused(d)
    <3>1. Due(d.to) = <<PS2_RESEND>> /\ Empty /\ ~dev[d.to].param
      BY <2>2 DEF Refused
    <3>2. byte' = PS2_RESEND /\ Due(d.to)' = <<>>
      BY <1>8, <3>1
    <3>3. start + (PS2_TIMEOUT_DURATION - 1) <= Allowed(d)
      BY <1>b, <3>1, PendingIs DEF Pace
    <3>4. ticks < start + PS2_TIMEOUT_DURATION
      BY <1>8 DEF Patience, InFlight
    <3>5. ticks <= Allowed(d)
      BY <1>5, <1>6, <3>3, <3>4
    <3>6. Heard(d, c)'
      BY <1>2, <1>6, <2>1, <3>1, <3>2, <3>5 DEF Heard
    <3>. QED
      BY <1>1, <1>2, <3>6 DEF Acknowledging
  <2>3. CASE Accepted(d, c)
    <3>1. Due(d.to) = <<PS2_ACK>> \o Reply(d, c) /\ Empty /\ Effect(d, c)
      BY <2>3 DEF Accepted
    <3>2. byte' = PS2_ACK /\ Due(d.to)' = Reply(d, c)
      <4>1. Reply(d, c) \in Seq(Bytes) /\ PS2_ACK \in Bytes
        BY <1>3, SaidAre DEF Plain
      <4>. QED
        BY <1>8, <3>1, <4>1, ByteFirst
    <3>3. Reply(d, c) \in Rests(Reply(d, c))
      BY DEF Rests
    <3>4. Heard(d, c)'
      BY <1>2, <1>4, <1>7, <2>1, <3>1, <3>2, <3>3 DEF Heard
    <3>. QED
      BY <1>1, <1>2, <3>4 DEF Acknowledging
  <2>4. CASE Lost(d, c)
    <3>1. Due(d.to) \in Rests(Reply(d, c)) /\ Empty
      BY <2>4 DEF Lost
    <3>2. byte' \notin {PS2_ACK, PS2_RESEND} /\ Due(d.to)' \in Rests(Reply(d, c))
      BY <1>3, <1>8, <3>1, RestsIs
    <3>3. Lost(d, c)'
      BY <1>2, <1>7, <2>4, <3>1, <3>2 DEF Lost
    <3>4. Heard(d, c)'
      BY <1>2, <3>1, <3>2, <3>3 DEF Heard
    <3>. QED
      BY <1>1, <1>2, <3>4 DEF Acknowledging
  <2>. QED
    BY <1>b, <1>8, <2>2, <2>3, <2>4, PendingIs DEF Untaken
<1>9. CASE ~OutputFull /\ TimedOut /\ ps2_error' /\ byte' = Byte(1) /\ out' = out
  <2>1. ~InFlight
    BY <1>5, <1>9 DEF Patience, TimedOut
  <2>2. ~InputFull /\ Due(d.to) = <<>>
    BY <1>b, <2>1, FlightIs DEF FlightFact
  <2>3. Lost(d, c)
    BY <1>b, <2>2, PendingIs
  <2>4. Alike(d)
    BY <1>1, <1>9, SpeaksKeeps
  <2>5. Lost(d, c)' /\ Empty'
    BY <1>1, <2>3, <2>4, AlikeKeeps DEF Lost
  <2>6. byte' \notin {PS2_ACK, PS2_RESEND}
    BY <1>9, SaidDiffer
  <2>7. Heard(d, c)'
    BY <2>5, <2>6 DEF Heard
  <2>. QED
    BY <1>1, <1>2, <2>7 DEF Acknowledging
<1>. QED
  BY <1>1, <1>8, <1>9


\* It looks at what it has read.
LEMMA TestStep ==
  ASSUME Types, Types', NEW d \in Dialogue, Fits(d), Quiet(d), NEW c \in Orders,
         NEW N \in Seq(AllOps), Thread, todo = TestOps(d, c, N), Heard(d, c)
  PROVE  /\ Speaks /\ response' = response /\ Quiet(d)'
         /\ Acknowledging(d, c, N)' \/ (todo' = N /\ Outcome(d, c)')
<1>a. d.port \in Ports /\ d.to \in Ports /\ c \in Bytes /\ d.sound \in BOOLEAN /\ c # Byte(1)
  BY DialogueIs, SaidAre DEF Orders
<1>b. ThreadTypes /\ MachineTypes
  BY DEF Types
<1>1. /\ Speaks /\ UNCHANGED <<byte, start, ack_start, response, in, out>>
      /\ ps2_error' <=> ps2_error /\ byte = PS2_ACK
      /\ byte = PS2_ACK => todo' = N /\ ret' = 0
      /\ byte # PS2_ACK /\ ps2_error => todo' = N /\ ret' = 1
      /\ byte = PS2_RESEND /\ ~ps2_error =>
           todo' = Before(<<"write", d.port, c>>, TimeOps(d, c, N))
      /\ byte \notin {PS2_ACK, PS2_RESEND} /\ ~ps2_error => todo' = TimeOps(d, c, N)
  BY <1>a, TestHas DEF TestOps, TimeOps
<1>2. Alike(d) /\ Quiet(d)' /\ (Empty' <=> Empty) /\ ticks' = ticks
  BY <1>1, SpeaksKeeps, QuietThreadKept DEF Speaks
<1>3. /\ (Still(d, c)' <=> Still(d, c)) /\ (Lost(d, c)' <=> Lost(d, c))
      /\ (Pending(d, c)' <=> Pending(d, c)) /\ (Effect(d, c)' <=> Effect(d, c))
      /\ Allowed(d)' = Allowed(d)
  BY <1>1, <1>2, AlikeKeeps
<1>4. Due(d.to)' = Due(d.to) /\ Reply(d, c)' = Reply(d, c) /\ dev' = dev
  BY <1>2 DEF Reply, Alike
<1>5. Plain(Reply(d, c)) /\ <<>> \in Rests(Reply(d, c))
  BY <1>b, ReplyIs DEF Fits, Rests
<1>6. Empty
  BY DEF Heard
<1>7. Clean(d)'
  BY <1>1 DEF Clean, Heard
<1>8. CASE byte = PS2_ACK
  <2>1. Effect(d, c) /\ Due(d.to) \in Rests(Reply(d, c)) /\ (d.exact => Due(d.to) = Reply(d, c))
    BY <1>8, SaidDiffer DEF Heard
  <2>2. Outcome(d, c)'
    BY <1>1, <1>2, <1>3, <1>4, <1>6, <1>7, <1>8, <2>1 DEF Outcome
  <2>. QED
    BY <1>1, <1>2, <1>8, <2>2
<1>9. CASE byte = PS2_RESEND /\ ~ps2_error
  <2>1. Due(d.to) = <<>> /\ ~dev[d.to].param /\ ticks <= Allowed(d)
    BY <1>9, SaidDiffer DEF Heard
  <2>2. Still(d, c)'
    BY <1>a, <1>3, <1>6, <2>1 DEF Still, Ready
  <2>3. Writes(d, c, TimeOps(d, c, N))'
    BY <1>1, <1>9, <2>2 DEF Writes, TimeOps
  <2>. QED
    BY <1>1, <1>2, <1>3, <1>7, <2>1, <2>3 DEF Acknowledging
<1>10. CASE byte = PS2_RESEND /\ ps2_error
  <2>1. Due(d.to) = <<>> /\ ~dev[d.to].param /\ ~d.sound
    BY <1>a, <1>10, SaidDiffer DEF Heard
  <2>2. ~d.exact
    BY <2>1 DEF Fits
  <2>3. ret' = 1 /\ todo' = N
    BY <1>1, <1>10, SaidDiffer
  <2>4. Outcome(d, c)'
    BY <1>2, <1>4, <1>5, <1>6, <1>7, <2>1, <2>2, <2>3 DEF Outcome
  <2>. QED
    BY <1>1, <1>2, <2>3, <2>4
<1>11. CASE byte \notin {PS2_ACK, PS2_RESEND} /\ ps2_error
  <2>1. Lost(d, c)
    BY <1>11 DEF Heard
  <2>2. ret' = 1 /\ todo' = N
    BY <1>1, <1>11
  <2>3. Outcome(d, c)'
    BY <1>2, <1>4, <1>6, <1>7, <2>1, <2>2 DEF Outcome, Lost
  <2>. QED
    BY <1>1, <1>2, <2>2, <2>3
<1>12. CASE byte \notin {PS2_ACK, PS2_RESEND} /\ ~ps2_error
  <2>1. Lost(d, c)
    BY <1>12 DEF Heard
  <2>2. Lost(d, c)' /\ Pending(d, c)' /\ Pace(d, c, ticks)'
    BY <1>3, <2>1 DEF Pending, Pace
  <2>3. todo' = TimeOps(d, c, N)
    BY <1>1, <1>12
  <2>. QED
    BY <1>1, <1>2, <1>7, <2>2, <2>3 DEF Acknowledging
<1>. QED
  BY <1>8, <1>9, <1>10, <1>11, <1>12

\* It sends the byte again.
LEMMA ResendStep ==
  ASSUME Types, Types', NEW d \in Dialogue, Fits(d), Quiet(d), NEW c \in Orders,
         NEW N \in Seq(AllOps), Thread, Writes(d, c, TimeOps(d, c, N)), ticks <= Allowed(d), Clean(d)
  PROVE  /\ Speaks /\ response' = response /\ Quiet(d)' /\ Acknowledging(d, c, N)'
<1>a. d.port \in Ports /\ d.to \in Ports /\ c \in Bytes /\ c \in Said /\ c # Byte(1)
  BY DialogueIs, SaidAre DEF Orders
<1>c. TimeOps(d, c, N) \in Seq(AllOps)
  BY <1>a, OpsHave, BeforeHas DEF TimeOps
<1>1. /\ Speaks /\ UNCHANGED <<byte, start, ack_start, response, ps2_error>> /\ Quiet(d)'
      /\ \/ Writes(d, c, TimeOps(d, c, N))'
         \/ todo' = TimeOps(d, c, N) /\ Untaken(d, c)' /\ ret' = 0
         \/ ~Usable(d.port) /\ todo' = TimeOps(d, c, N) /\ ret' = 1 /\ Still(d, c)'
  BY <1>a, <1>c, WritesStep
<1>2. ticks' = ticks /\ Allowed(d)' = Allowed(d) /\ Clean(d)'
  BY <1>1 DEF Speaks, Allowed, Clean
<1>3. CASE Writes(d, c, TimeOps(d, c, N))'
  BY <1>1, <1>2, <1>3 DEF Acknowledging
<1>4. CASE todo' = TimeOps(d, c, N) /\ Untaken(d, c)'
  <2>1. Due(d.to)' # <<PS2_RESEND>>
    BY <1>4 DEF Untaken
  <2>2. Pace(d, c, ticks)' /\ Pending(d, c)'
    BY <1>2, <1>4, <2>1 DEF Pace, Pending
  <2>. QED
    BY <1>1, <1>2, <1>4, <2>2 DEF Acknowledging
<1>5. CASE ~Usable(d.port) /\ todo' = TimeOps(d, c, N) /\ Still(d, c)'
  <2>1. ~d.exact
    BY <1>5 DEF Fits
  <2>2. Lost(d, c)'
    BY <1>a, <1>5, <2>1 DEF Lost, Still, Ready, Rests
  <2>3. Pace(d, c, ticks)' /\ Pending(d, c)'
    BY <2>2 DEF Pace, Pending
  <2>. QED
    BY <1>1, <1>2, <1>5, <2>3 DEF Acknowledging
<1>. QED
  BY <1>1, <1>3, <1>4, <1>5

\* It looks at the time.
LEMMA TimeStep ==
  ASSUME Patient, Types, Types', NEW d \in Dialogue, Fits(d), Quiet(d), NEW c \in Orders,
         NEW N \in Seq(AllOps), Thread, todo = TimeOps(d, c, N), Pending(d, c),
         Pace(d, c, ticks), Clean(d)
  PROVE  /\ Speaks /\ response' = response /\ Quiet(d)'
         /\ Acknowledging(d, c, N)' \/ (todo' = N /\ Outcome(d, c)')
<1>a. d.port \in Ports /\ d.to \in Ports /\ c \in Bytes
  BY DialogueIs, SaidAre
<1>b. ThreadTypes /\ MachineTypes
  BY DEF Types
<1>1. /\ Speaks /\ UNCHANGED <<byte, ack_start, response, ps2_error, in, out>>
      /\ \/ /\ ticks \div TicksPerSecond >= ack_start + PS2_TIMEOUT_DURATION
            /\ ret' = 1 /\ todo' = N
         \/ /\ start' = ticks /\ ret' = ret
            /\ todo' = Before(<<"poll">>, TestOps(d, c, N))
  BY <1>a, TimeHas DEF TestOps, TimeOps
<1>2. Alike(d) /\ Quiet(d)' /\ ticks' = ticks /\ Clean(d)' /\ dev' = dev
  BY <1>1, SpeaksKeeps, QuietThreadKept DEF Speaks, Clean
<1>3. /\ (Lost(d, c)' <=> Lost(d, c)) /\ Pending(d, c)'
      /\ \A t : Pace(d, c, t)' <=> Pace(d, c, t)
  BY <1>1, <1>2, AlikeKeeps
<1>5. ack_start \in Nat /\ start \in Nat /\ ticks \in Nat /\ PS2_TIMEOUT_DURATION \in Nat \ {0}
      /\ dev[d.to].resends \in Nat /\ TicksPerSecond \in Nat \ {0} /\ MaxResends \in Nat
  BY <1>a, <1>b, Ps2Assumption DEF ThreadTypes, MachineTypes, Devices
<1>6. CASE ticks \div TicksPerSecond >= ack_start + PS2_TIMEOUT_DURATION /\ ret' = 1 /\ todo' = N
  <2>1. ~(ticks <= Allowed(d))
    <3>1. dev[d.to].resends <= MaxResends
      BY <1>a DEF Quiet
    <3>2. ASSUME ticks <= Allowed(d) PROVE FALSE
      <4>1. ticks <= ack_start + dev[d.to].resends * (PS2_TIMEOUT_DURATION - 1)
        BY <3>2 DEF Allowed
      <4>2. ticks \div TicksPerSecond < ack_start + PS2_TIMEOUT_DURATION
        BY <1>5, <3>1, <4>1, InTime
      <4>3. ticks \div TicksPerSecond \in Nat
        BY <1>5
      <4>. QED
        BY <1>5, <1>6, <4>2, <4>3
    <3>. QED
      BY <3>2
  <2>2. Lost(d, c)
    BY <2>1 DEF Pace
  <2>3. Outcome(d, c)'
    BY <1>2, <1>3, <1>6, <2>2 DEF Outcome, Lost
  <2>. QED
    BY <1>1, <1>2, <1>6, <2>3
<1>7. CASE start' = ticks /\ todo' = Before(<<"poll">>, TestOps(d, c, N))
  <2>1. Pace(d, c, start)'
    BY <1>2, <1>3, <1>7 DEF Pace, Allowed
  <2>2. Patience'
    BY <1>2, <1>5, <1>7 DEF Patience
  <2>. QED
    BY <1>1, <1>2, <1>3, <1>7, <2>1, <2>2 DEF Acknowledging
<1>. QED
  BY <1>1, <1>6, <1>7

LEMMA AcknowledgingStep ==
  ASSUME Patient, Types, Types', NEW d \in Dialogue, Fits(d), Quiet(d), NEW c \in Orders,
         NEW N \in Seq(AllOps), Thread, Acknowledging(d, c, N)
  PROVE  /\ Speaks /\ response' = response /\ Quiet(d)'
         /\ Acknowledging(d, c, N)' \/ (todo' = N /\ Outcome(d, c)')
BY AckStep, PollStep, TestStep, ResendStep, TimeStep DEF Acknowledging

\* A command, from its first byte to its end.
LEMMA CommandingStep ==
  ASSUME Patient, Types, Types', NEW d \in Dialogue, Fits(d), Quiet(d), NEW c \in Orders,
         NEW N \in Seq(AllOps), Thread, Commanding(d, c, N)
  PROVE  /\ Speaks /\ response' = response /\ Quiet(d)'
         /\ Commanding(d, c, N)' \/ (todo' = N /\ Outcome(d, c)')
<1>a. d.port \in Ports /\ d.to \in Ports /\ c \in Bytes /\ c \in Said /\ c # Byte(1)
  BY DialogueIs, SaidAre DEF Orders
<1>c. AckOps(d, c, N) \in Seq(AllOps)
  BY <1>a, OpsHave, BeforeHas DEF AckOps
<1>1. CASE Writes(d, c, AckOps(d, c, N)) /\ Clean(d)
  <2>1. /\ Speaks /\ UNCHANGED <<byte, start, ack_start, response, ps2_error>> /\ Quiet(d)'
        /\ \/ Writes(d, c, AckOps(d, c, N))'
           \/ todo' = AckOps(d, c, N) /\ Untaken(d, c)' /\ ret' = 0
           \/ ~Usable(d.port) /\ todo' = AckOps(d, c, N) /\ ret' = 1 /\ Still(d, c)'
    BY <1>1, <1>a, <1>c, WritesStep
  <2>2. Clean(d)'
    BY <1>1, <2>1 DEF Clean
  <2>3. CASE Writes(d, c, AckOps(d, c, N))'
    BY <2>1, <2>2, <2>3 DEF Commanding
  <2>4. CASE todo' = AckOps(d, c, N) /\ Untaken(d, c)'
    BY <2>1, <2>2, <2>4 DEF Commanding, Acknowledging, Pending
  <2>5. CASE ~Usable(d.port) /\ todo' = AckOps(d, c, N) /\ Still(d, c)'
    <3>1. ~d.exact
      BY <2>5 DEF Fits
    <3>2. Lost(d, c)'
      BY <1>a, <2>5, <3>1 DEF Lost, Still, Ready, Rests
    <3>. QED
      BY <2>1, <2>2, <2>5, <3>2 DEF Commanding, Acknowledging, Pending
  <2>. QED
    BY <2>1, <2>3, <2>4, <2>5
<1>2. CASE Acknowledging(d, c, N)
  BY <1>2, AcknowledgingStep DEF Commanding
<1>. QED
  BY <1>1, <1>2 DEF Commanding

-----------------------------------------------------------------------------
(* The thread in ps2_port_identify.                                        *)

\* What the thread knows of a dialogue wherever it is.
LEMMA TalkFacts ==
  ASSUME Types, NEW d \in Dialogue, Fits(d)
  PROVE  /\ d.port \in Ports /\ d.to \in Ports /\ d.sound \in BOOLEAN /\ d.exact \in BOOLEAN
         /\ ThreadTypes /\ MachineTypes /\ Plain(d.answer) /\ Len(d.answer) \in Nat
         /\ response \in Seq(Bytes) /\ Len(response) \in Nat /\ Len(response) <= 2
         /\ Due(d.to) \in Seq(Bytes) /\ Len(Due(d.to)) \in Nat
         /\ (Len(Due(d.to)) = 0 <=> Due(d.to) = <<>>)
<1>1. d.port \in Ports /\ d.to \in Ports /\ d.sound \in BOOLEAN /\ d.exact \in BOOLEAN
  BY DialogueIs
<1>2. ThreadTypes /\ MachineTypes
  BY DEF Types
<1>3. Plain(d.answer)
  BY <1>2, ReplyIs DEF Fits
<1>4. Len(d.answer) \in Nat
  BY <1>3, BytesJoin DEF Plain
<1>5. response \in Seq(Bytes) /\ Len(response) \in Nat /\ Len(response) <= 2
  BY <1>2, BytesJoin DEF ThreadTypes
<1>6. Due(d.to) \in Seq(Bytes)
  BY <1>1, <1>2, DueIs
<1>7. Len(Due(d.to)) \in Nat /\ (Len(Due(d.to)) = 0 <=> Due(d.to) = <<>>)
  <2>1. \A s \in Seq(Bytes) : Len(s) \in Nat /\ (Len(s) = 0 <=> s = <<>>)
    OBVIOUS
  <2>. QED
    BY <1>6, <2>1, Zenon
<1>. QED
  BY <1>1, <1>2, <1>3, <1>4, <1>5, <1>6, <1>7

\* A command of ps2_port_identify starts.
LEMMA CommandStarts ==
  ASSUME NEW d \in Dialogue, NEW c \in Orders, NEW N, Empty', Due(d.to)' = <<>>, ~dev'[d.to].param,
         Clean(d)', todo' = Before(<<"write", d.port, c>>, Before(<<"ack", d.port, c>>, N))
  PROVE  Commanding(d, c, N)'
<1>1. c # Byte(1)
  BY DEF Orders
<1>2. Still(d, c)'
  BY <1>1 DEF Still, Ready
<1>. QED
  BY <1>2 DEF Commanding, Writes, AckOps

LEMMA IdentifyStep ==
  ASSUME Types, Types', NEW d \in Dialogue, Fits(d), Quiet(d), NEW N \in Seq(AllOps), Thread,
         todo = Before(<<"identify", d.port>>, N), Still(d, PS2_DISABLE_SCANNING), Clean(d)
  PROVE  Speaks /\ Quiet(d)' /\ Talk(d, N)'
<1>1. /\ Speaks /\ UNCHANGED <<byte, ret, start, ack_start, ps2_error, in, out>>
      /\ response' = <<>>
      /\ todo' = Before(<<"write", d.port, PS2_DISABLE_SCANNING>>,
                   Before(<<"ack", d.port, PS2_DISABLE_SCANNING>>, DisabledOps(d, N)))
  BY DialogueIs, IdentifyHas DEF DisabledOps
<1>2. Alike(d) /\ Quiet(d)' /\ (Empty' <=> Empty)
  BY <1>1, SpeaksKeeps, QuietThreadKept DEF Speaks
<1>3. PS2_DISABLE_SCANNING \in Orders /\ PS2_DISABLE_SCANNING # Byte(1)
  BY SaidAre DEF Orders
<1>4. Empty' /\ Due(d.to)' = <<>> /\ ~dev'[d.to].param
  BY <1>2, <1>3 DEF Still, Ready, Alike
<1>5. Commanding(d, PS2_DISABLE_SCANNING, DisabledOps(d, N))'
  <2>1. Clean(d)'
    BY <1>1 DEF Clean
  <2>. QED
    BY <1>1, <1>3, <1>4, <2>1, CommandStarts
<1>. QED
  BY <1>1, <1>2, <1>5 DEF Talk

LEMMA DisableStep ==
  ASSUME Patient, Types, Types', NEW d \in Dialogue, Fits(d), Quiet(d), NEW N \in Seq(AllOps), Thread,
         Commanding(d, PS2_DISABLE_SCANNING, DisabledOps(d, N)), response = <<>>
  PROVE  Speaks /\ Quiet(d)' /\ Talk(d, N)'
<1>1. DisabledOps(d, N) \in Seq(AllOps)
  BY DialogueIs, OpsHave, SaidAre, BeforeHas DEF DisabledOps
<1>2. PS2_DISABLE_SCANNING \in Orders
  BY SaidAre
<1>3. /\ Speaks /\ response' = response /\ Quiet(d)'
      /\ \/ Commanding(d, PS2_DISABLE_SCANNING, DisabledOps(d, N))'
         \/ todo' = DisabledOps(d, N) /\ Outcome(d, PS2_DISABLE_SCANNING)'
  BY <1>1, <1>2, CommandingStep
<1>. QED
  BY <1>3 DEF Talk, DisabledOps

LEMMA DisabledStep ==
  ASSUME Types, Types', NEW d \in Dialogue, Fits(d), Quiet(d), NEW N \in Seq(AllOps), Thread,
         todo = DisabledOps(d, N), Outcome(d, PS2_DISABLE_SCANNING), response = <<>>
  PROVE  Speaks /\ Quiet(d)' /\ Talk(d, N)'
<1>a. /\ d.port \in Ports /\ d.to \in Ports /\ MachineTypes /\ Len(d.answer) \in Nat
  BY TalkFacts
<1>1. /\ Speaks /\ UNCHANGED <<byte, ret, start, ack_start, response, in, out>>
      /\ ps2_error' <=> ps2_error \/ ret = 1
      /\ ret = 1 => todo' = N
      /\ ret # 1 => todo' = Before(<<"write", d.port, PS2_IDENTIFY>>,
                              Before(<<"ack", d.port, PS2_IDENTIFY>>, LoopOps(d, N)))
  BY <1>a, DisabledHas DEF DisabledOps, LoopOps
<1>2. Alike(d) /\ Quiet(d)' /\ (Empty' <=> Empty)
  BY <1>1, SpeaksKeeps, QuietThreadKept DEF Speaks
<1>3. PS2_IDENTIFY \in Orders
  BY SaidAre
<1>4. Due(d.to) = <<>> /\ Empty /\ ~dev[d.to].param /\ (ret = 1 => ~d.exact) /\ Clean(d)
  <2>1. Reply(d, PS2_DISABLE_SCANNING) = <<>>
    BY DeviceCommandsDiffer DEF Reply
  <2>2. Due(d.to) = <<>>
    BY <2>1, NoRests DEF Outcome
  <2>3. ~dev[d.to].param /\ (ret = 1 => ~d.exact)
    BY DeviceCommandsDiffer DEF Outcome, Effect
  <2>. QED
    BY <2>2, <2>3 DEF Outcome
<1>5. Empty' /\ Due(d.to)' = <<>> /\ ~dev'[d.to].param
  BY <1>2, <1>4 DEF Alike
<1>6. CASE ret = 1
  <2>1. Len(response') = 0
    BY <1>1
  <2>2. Result(d)'
    BY <1>a, <1>4, <1>5, <1>6, <2>1 DEF Result
  <2>. QED
    BY <1>1, <1>2, <1>6, <2>2 DEF Talk
<1>7. CASE ret # 1
  <2>1. Clean(d)'
    BY <1>1, <1>4, <1>7 DEF Clean
  <2>2. Commanding(d, PS2_IDENTIFY, LoopOps(d, N))'
    BY <1>1, <1>3, <1>5, <1>7, <2>1, CommandStarts
  <2>. QED
    BY <1>1, <1>2, <2>2 DEF Talk
<1>. QED
  BY <1>6, <1>7

LEMMA AskStep ==
  ASSUME Patient, Types, Types', NEW d \in Dialogue, Fits(d), Quiet(d), NEW N \in Seq(AllOps), Thread,
         Commanding(d, PS2_IDENTIFY, LoopOps(d, N)), response = <<>>
  PROVE  Speaks /\ Quiet(d)' /\ Talk(d, N)'
<1>1. LoopOps(d, N) \in Seq(AllOps)
  BY DialogueIs, OpsHave, SaidAre, BeforeHas DEF LoopOps
<1>2. PS2_IDENTIFY \in Orders
  BY SaidAre
<1>3. /\ Speaks /\ response' = response /\ Quiet(d)'
      /\ \/ Commanding(d, PS2_IDENTIFY, LoopOps(d, N))'
         \/ todo' = LoopOps(d, N) /\ Outcome(d, PS2_IDENTIFY)'
  BY <1>1, <1>2, CommandingStep
<1>4. CASE Commanding(d, PS2_IDENTIFY, LoopOps(d, N))'
  BY <1>3, <1>4 DEF Talk
<1>5. CASE todo' = LoopOps(d, N) /\ Outcome(d, PS2_IDENTIFY)'
  <2>a. /\ Plain(d.answer) /\ Len(d.answer) \in Nat /\ d.to \in Ports
    BY TalkFacts
  <2>1. Reply(d, PS2_IDENTIFY)' = d.answer
    BY DEF Reply
  <2>2. /\ Empty' /\ Due(d.to)' \in Rests(d.answer) /\ Clean(d)' /\ ~dev'[d.to].param
        /\ d.exact => Due(d.to)' = d.answer
    BY <1>5, <2>1, DeviceCommandsDiffer DEF Outcome, Effect
  <2>3. Due(d.to)' \in Seq(Bytes) /\ Len(Due(d.to)') <= Len(d.answer)
    BY <2>a, <2>2, RestsIs
  <2>4. response' \o Due(d.to)' = Due(d.to)' /\ Len(response') = 0
    BY <1>3, <2>3, BytesJoin
  <2>5. Len(response') + Len(Due(d.to)') <= Len(d.answer)
    <3>1. \A n \in Nat : 0 + n = n
      OBVIOUS
    <3>2. Len(Due(d.to)') \in Nat
      BY <2>3, BytesJoin
    <3>. QED
      BY <2>3, <2>4, <3>1, <3>2, Zenon
  <2>6. Identifying(d)'
    BY <2>2, <2>4, <2>5 DEF Identifying
  <2>. QED
    BY <1>3, <1>5, <2>2, <2>6 DEF Talk
<1>. QED
  BY <1>3, <1>4, <1>5


LEMMA ListeningIs ==
  ASSUME Types, NEW d \in Dialogue, Fits(d), Identifying(d), Due(d.to) = <<>>
  PROVE  Len(response) <= Len(d.answer) /\ (d.exact => response = d.answer)
<1>1. response \in Seq(Bytes) /\ Len(response) \in Nat
  BY TalkFacts
<1>2. response \o <<>> = response
  BY <1>1, BytesJoin
<1>3. Len(<<>>) = 0 /\ \A n \in Nat : n + 0 = n
  OBVIOUS
<1>4. Len(response) + Len(Due(d.to)) = Len(response)
  BY <1>1, <1>3, Zenon
<1>. QED
  BY <1>2, <1>4, Zenon DEF Identifying

\* The end of the answer, where nothing is left of it.
LEMMA EndsStep ==
  ASSUME Types, NEW d \in Dialogue, Fits(d), NEW N \in Seq(AllOps),
         Identifying(d), Clean(d), Alike(d), in' = in, Speaks, UNCHANGED <<response, ps2_error>>,
         Due(d.to) = <<>>, todo' = EndsOps(d.port, N)
  PROVE  Talk(d, N)'
<1>1. Empty' <=> Empty
  BY SpeaksKeeps
<1>2. Empty' /\ Due(d.to)' = <<>> /\ ~dev'[d.to].param /\ Clean(d)'
  BY <1>1 DEF Alike, Identifying, Clean
<1>3. PS2_ENABLE_SCANNING \in Orders
  BY SaidAre
<1>4. Commanding(d, PS2_ENABLE_SCANNING, N)'
  BY <1>2, <1>3, CommandStarts DEF EndsOps
<1>5. Len(response') <= Len(d.answer) /\ (d.exact => response' = d.answer)
  BY ListeningIs
<1>. QED
  BY <1>4, <1>5 DEF Talk

LEMMA LoopStep ==
  ASSUME Types, Types', NEW d \in Dialogue, Fits(d), Quiet(d), NEW N \in Seq(AllOps), Thread,
         todo = LoopOps(d, N), Identifying(d), Clean(d)
  PROVE  Speaks /\ Quiet(d)' /\ Talk(d, N)'
<1>a. /\ d.port \in Ports /\ MachineTypes /\ Plain(d.answer) /\ Len(d.answer) \in Nat
      /\ Len(response) \in Nat /\ Len(response) <= 2
      /\ Len(Due(d.to)) \in Nat /\ (Len(Due(d.to)) = 0 => Due(d.to) = <<>>)
  BY TalkFacts
<1>1. /\ Speaks /\ UNCHANGED <<byte, ret, ack_start, response, ps2_error, in, out>>
      /\ start' = ticks
      /\ Len(response) = 2 => todo' = EndsOps(d.port, N)
      /\ Len(response) # 2 => todo' = WaitOps(d, N)
  BY <1>a, LoopHas DEF LoopOps, WaitOps
<1>2. Alike(d) /\ Quiet(d)' /\ (Empty' <=> Empty)
  BY <1>1, SpeaksKeeps, QuietThreadKept DEF Speaks
<1>3. CASE Len(response) = 2
  <2>1. Len(d.answer) <= 2 /\ Len(response) + Len(Due(d.to)) <= Len(d.answer)
    BY <1>a DEF Plain, Identifying
  <2>2. Len(Due(d.to)) = 0
    BY <1>a, <1>3, <2>1
  <2>. QED
    BY <1>a, <1>1, <1>2, <1>3, <2>2, EndsStep
<1>4. CASE Len(response) # 2
  <2>1. Identifying(d)' /\ Clean(d)'
    BY <1>1, <1>2 DEF Identifying, Clean, Alike
  <2>2. Patience'
    <3>1. ticks' = ticks /\ ticks \in Nat /\ PS2_TIMEOUT_DURATION \in Nat \ {0}
      BY <1>a, <1>1, Ps2Assumption DEF MachineTypes, Speaks
    <3>. QED
      BY <1>1, <3>1 DEF Patience
  <2>3. Len(response') < 2
    <3>1. response' = response
      BY <1>1
    <3>2. \A n \in Nat : n <= 2 /\ n # 2 => n < 2
      OBVIOUS
    <3>. QED
      BY <1>a, <1>4, <3>1, <3>2, Zenon
  <2>. QED
    BY <1>1, <1>2, <1>4, <2>1, <2>2, <2>3 DEF Talk
<1>. QED
  BY <1>3, <1>4

LEMMA WaitStep ==
  ASSUME Types, Types', NEW d \in Dialogue, Fits(d), Quiet(d), NEW N \in Seq(AllOps), Thread,
         todo = WaitOps(d, N), Identifying(d), Clean(d), Patience, Len(response) < 2
  PROVE  Speaks /\ Quiet(d)' /\ Talk(d, N)'
<1>a. d.port \in Ports /\ MachineTypes /\ ThreadTypes
  BY TalkFacts
<1>b. ticks \in Nat /\ start \in Nat /\ PS2_TIMEOUT_DURATION \in Nat \ {0}
  BY <1>a, Ps2Assumption DEF MachineTypes, ThreadTypes
<1>1. /\ Speaks /\ UNCHANGED <<byte, ret, ack_start, response, ps2_error, in, out>>
      /\ start' = ticks
      /\ \/ OutputFull /\ todo' = Before(<<"poll">>, ByteOps(d, N))
         \/ ~OutputFull /\ TimedOut /\ todo' = EndsOps(d.port, N)
  BY <1>a, WaitHas DEF WaitOps, ByteOps
<1>2. Alike(d) /\ Quiet(d)' /\ (Empty' <=> Empty)
  BY <1>1, SpeaksKeeps, QuietThreadKept DEF Speaks
<1>3. CASE OutputFull /\ todo' = Before(<<"poll">>, ByteOps(d, N))
  <2>1. Identifying(d)' /\ Clean(d)'
    BY <1>1, <1>2 DEF Identifying, Clean, Alike
  <2>2. Patience'
    <3>1. ticks' = ticks
      BY <1>1 DEF Speaks
    <3>. QED
      BY <1>1, <1>b, <3>1 DEF Patience
  <2>3. OutputFull'
    BY <1>1, <1>3 DEF OutputFull
  <2>. QED
    BY <1>1, <1>2, <1>3, <2>1, <2>2, <2>3 DEF Talk
<1>4. CASE ~OutputFull /\ TimedOut /\ todo' = EndsOps(d.port, N)
  <2>1. ~InFlight
    BY <1>b, <1>4 DEF Patience, TimedOut
  <2>2. Due(d.to) = <<>>
    BY <1>a, <2>1, FlightIs DEF FlightFact
  <2>. QED
    BY <1>1, <1>2, <1>4, <2>2, EndsStep
<1>. QED
  BY <1>1, <1>3, <1>4

\* The next byte, of those to be read, is stored.
LEMMA AppendRest ==
  ASSUME NEW s \in Seq(Bytes), NEW t \in Seq(Bytes), t # <<>>
  PROVE  Append(s, Head(t)) \o Tail(t) = s \o t
<1>1. Tail(t) \in Seq(Bytes) /\ Head(t) \in Bytes /\ <<Head(t)>> \o Tail(t) = t
  BY TailShorter
<1>. DEFINE h == <<Head(t)>>
            r == Tail(t)
<1>2. h \in Seq(Bytes) /\ r \in Seq(Bytes)
  <2>. HIDE DEF Bytes
  <2>. QED
    BY <1>1
<1>3. Append(s, Head(t)) = s \o h
  <2>. HIDE DEF Bytes
  <2>. QED
    BY <1>1 DEF h
<1>4. h \o r = t
  BY <1>1
<1>. HIDE DEF h, r
<1>5. (s \o h) \o r = s \o (h \o r)
  BY <1>2, ConcatAssociative
<1>. QED
  BY <1>3, <1>4, <1>5 DEF r

LEMMA GetStep ==
  ASSUME Types, Types', NEW d \in Dialogue, Fits(d), Quiet(d), NEW N \in Seq(AllOps), Thread,
         todo = Before(<<"poll">>, ByteOps(d, N)), Identifying(d), Clean(d), Patience,
         Len(response) < 2, d.exact => OutputFull
  PROVE  Speaks /\ Quiet(d)' /\ Talk(d, N)'
<1>a. /\ d.port \in Ports /\ MachineTypes /\ ThreadTypes /\ Plain(d.answer)
      /\ Len(d.answer) \in Nat /\ response \in Seq(Bytes) /\ Len(response) \in Nat
      /\ Due(d.to) \in Seq(Bytes) /\ Len(Due(d.to)) \in Nat
  BY TalkFacts
<1>b. ticks \in Nat /\ start \in Nat /\ PS2_TIMEOUT_DURATION \in Nat \ {0}
  BY <1>a, Ps2Assumption DEF MachineTypes, ThreadTypes
<1>c. ByteOps(d, N) \in Seq(AllOps)
  BY <1>a, OpsHave, SaidAre, BeforeHas DEF ByteOps
<1>d. Len(response) <= Len(d.answer)
  <2>1. Len(response) + Len(Due(d.to)) <= Len(d.answer)
    BY DEF Identifying
  <2>. QED
    BY <1>a, <2>1
<1>1. /\ Speaks /\ UNCHANGED <<ret, start, ack_start, response, in>> /\ todo' = ByteOps(d, N)
      /\ out' = out \/ out' = NoByte
      /\ \/ /\ OutputFull /\ UNCHANGED ps2_error
            /\ Due(d.to) # <<>> /\ byte' = Head(Due(d.to)) /\ Due(d.to)' = Tail(Due(d.to))
         \/ /\ ~OutputFull /\ TimedOut
            /\ ps2_error' /\ byte' = Byte(1) /\ out' = out
  BY <1>c, PollHas
<1>2. Quiet(d)' /\ (Empty' <=> Empty) /\ dev' = dev
  BY <1>1, SpeaksKeeps, QuietThreadKept DEF Speaks
<1>3. Empty' /\ ~dev'[d.to].param /\ Len(response') < 2 /\ Len(response') <= Len(d.answer)
  BY <1>1, <1>2, <1>d DEF Identifying
<1>4. CASE /\ OutputFull /\ UNCHANGED ps2_error
           /\ Due(d.to) # <<>> /\ byte' = Head(Due(d.to)) /\ Due(d.to)' = Tail(Due(d.to))
  <2>1. Due(d.to)' \in Rests(d.answer)
    BY <1>a, <1>4, RestsIs DEF Identifying
  <2>2. d.sound => ~ps2_error'
    BY <1>4 DEF Clean
  <2>3. Append(response', byte') \o Due(d.to)' = response \o Due(d.to)
    <3>1. Append(response, Head(Due(d.to))) \o Tail(Due(d.to)) = response \o Due(d.to)
      BY <1>a, <1>4, AppendRest
    <3>. QED
      BY <1>1, <1>4, <3>1, Zenon
  <2>4. d.exact => ~ps2_error' /\ Append(response', byte') \o Due(d.to)' = d.answer
    BY <2>2, <2>3 DEF Fits, Identifying
  <2>5. Len(response') + 1 + Len(Due(d.to)') <= Len(d.answer)
    <3>1. Len(Due(d.to)') = Len(Due(d.to)) - 1
      BY <1>a, <1>4, TailShorter
    <3>2. Len(response) + Len(Due(d.to)) <= Len(d.answer)
      BY DEF Identifying
    <3>3. response' = response
      BY <1>1
    <3>4. \A m, n \in Nat : m + 1 + (n - 1) = m + n
      OBVIOUS
    <3>. QED
      BY <1>a, <3>1, <3>2, <3>3, <3>4, Zenon
  <2>6. GotByte(d)'
    BY <1>3, <2>1, <2>2, <2>4, <2>5 DEF GotByte
  <2>. QED
    BY <1>1, <1>2, <2>6 DEF Talk
<1>5. CASE ~OutputFull /\ TimedOut /\ ps2_error' /\ byte' = Byte(1) /\ out' = out
  <2>1. ~InFlight
    BY <1>b, <1>5 DEF Patience, TimedOut
  <2>2. Due(d.to) = <<>>
    BY <1>a, <2>1, FlightIs DEF FlightFact
  <2>3. Due(d.to)' = <<>>
    BY <1>1, <1>5, <2>2, SpeaksKeeps DEF Alike
  <2>4. GotByte(d)'
    BY <1>3, <1>5, <2>3 DEF GotByte, Rests
  <2>. QED
    BY <1>1, <1>2, <2>4 DEF Talk
<1>. QED
  BY <1>1, <1>4, <1>5

LEMMA StoreStep ==
  ASSUME Types, Types', NEW d \in Dialogue, Fits(d), Quiet(d), NEW N \in Seq(AllOps), Thread,
         todo = ByteOps(d, N), GotByte(d)
  PROVE  Speaks /\ Quiet(d)' /\ Talk(d, N)'
<1>a. /\ d.port \in Ports /\ MachineTypes /\ ThreadTypes /\ byte \in Bytes
      /\ Len(d.answer) \in Nat /\ response \in Seq(Bytes) /\ Len(response) \in Nat
  BY TalkFacts DEF ThreadTypes
<1>1. /\ Speaks /\ UNCHANGED <<byte, ret, start, ack_start, in, out>> /\ ~ps2_error'
      /\ ps2_error => todo' = N /\ response' = response
      /\ ~ps2_error => todo' = LoopOps(d, N) /\ response' = Append(response, byte)
  BY <1>a, ByteHas DEF ByteOps, LoopOps
<1>2. Alike(d) /\ Quiet(d)' /\ (Empty' <=> Empty)
  BY <1>1, SpeaksKeeps, QuietThreadKept DEF Speaks
<1>3. /\ Empty' /\ ~dev'[d.to].param /\ Due(d.to)' = Due(d.to) /\ Due(d.to)' \in Rests(d.answer)
      /\ Clean(d)'
  BY <1>1, <1>2 DEF GotByte, Alike, Clean
<1>4. CASE ps2_error
  <2>0. response' = response
    BY <1>1, <1>4
  <2>1a. ~d.exact /\ (d.sound => Due(d.to) = <<>>) /\ Len(response) <= Len(d.answer) /\ Len(response) < 2
    BY <1>4 DEF GotByte
  <2>1b. \A n \in Nat : n < 2 => n # 2
    OBVIOUS
  <2>1. ~d.exact /\ (d.sound => Due(d.to)' = <<>>) /\ Len(response') <= Len(d.answer) /\ Len(response') # 2
    BY <1>a, <1>3, <2>0, <2>1a, <2>1b, Zenon
  <2>2. Result(d)'
    BY <1>3, <2>1 DEF Result
  <2>. QED
    BY <1>1, <1>2, <1>4, <2>2 DEF Talk
<1>5. CASE ~ps2_error
  <2>1. Len(response') = Len(response) + 1
    <3>. HIDE DEF Bytes
    <3>. QED
      BY <1>a, <1>1, <1>5
  <2>2. Len(response') + Len(Due(d.to)') <= Len(d.answer)
    BY <1>3, <1>5, <2>1 DEF GotByte
  <2>3. d.exact => response' \o Due(d.to)' = d.answer
    BY <1>1, <1>3, <1>5 DEF GotByte
  <2>4. Identifying(d)'
    BY <1>3, <2>2, <2>3 DEF Identifying
  <2>. QED
    BY <1>1, <1>2, <1>3, <1>5, <2>4 DEF Talk
<1>. QED
  BY <1>4, <1>5

LEMMA ResumeStep ==
  ASSUME Patient, Types, Types', NEW d \in Dialogue, Fits(d), Quiet(d), NEW N \in Seq(AllOps), Thread,
         Commanding(d, PS2_ENABLE_SCANNING, N),
         Len(response) <= Len(d.answer), d.exact => response = d.answer
  PROVE  Speaks /\ Quiet(d)' /\ Talk(d, N)'
<1>2. PS2_ENABLE_SCANNING \in Orders
  BY SaidAre
<1>3. /\ Speaks /\ response' = response /\ Quiet(d)'
      /\ \/ Commanding(d, PS2_ENABLE_SCANNING, N)'
         \/ todo' = N /\ Outcome(d, PS2_ENABLE_SCANNING)'
  BY <1>2, CommandingStep
<1>4. CASE Commanding(d, PS2_ENABLE_SCANNING, N)'
  BY <1>3, <1>4 DEF Talk
<1>5. CASE todo' = N /\ Outcome(d, PS2_ENABLE_SCANNING)'
  <2>1. Reply(d, PS2_ENABLE_SCANNING)' = <<>>
    BY DeviceCommandsDiffer DEF Reply
  <2>2. Due(d.to)' = <<>> /\ Empty' /\ Clean(d)'
    BY <1>5, <2>1, NoRests DEF Outcome
  <2>3. ~dev'[d.to].param /\ (d.exact => dev'[d.to].scanning)
    BY <1>5, DeviceCommandsDiffer DEF Outcome, Effect
  <2>4. d.exact => ~ps2_error'
    BY <2>2 DEF Clean, Fits
  <2>5. Result(d)'
    BY <1>3, <2>2, <2>3, <2>4 DEF Result
  <2>. QED
    BY <1>3, <1>5, <2>5 DEF Talk
<1>. QED
  BY <1>3, <1>4, <1>5

LEMMA TalkStep ==
  ASSUME Patient, Types, Types', NEW d \in Dialogue, Fits(d), Quiet(d), NEW N \in Seq(AllOps), Thread,
         Talk(d, N), ~(todo = N /\ Result(d))
  PROVE  Speaks /\ Quiet(d)' /\ Talk(d, N)'
BY IdentifyStep, DisableStep, DisabledStep, AskStep, LoopStep, WaitStep, GetStep, StoreStep, ResumeStep
   DEF Talk

-----------------------------------------------------------------------------
(* From one place to the next.                                             *)

\* With both ports silent any dialogue may be next.
LEMMA QuietBoth ==
  ASSUME NEW e \in Dialogue, \A r \in Ports : Due(r) = <<>> /\ ~dev[r].param /\ dev[r].resends <= MaxResends,
         out.src # Controller, handler = "none", ~InputFull, ~keyboard_enabled, ~shift_down
  PROVE  Quiet(e)
<1>1. e.to \in Ports /\ Other(e.to) \in Ports
  BY DialogueIs
<1>. QED
  BY <1>1 DEF Quiet, InputFull

\* Once a dialogue is over nothing is under way, but for what an answer that
\* nobody waited for has left.
LEMMA QuietBetween ==
  ASSUME NEW d \in Dialogue, NEW e \in Dialogue, Quiet(d), Empty, Due(d.to) = <<>>,
         ~dev[d.to].param, handler = "none"
  PROVE  Quiet(e) /\ \A r \in Ports : Due(r) = <<>> /\ ~dev[r].param
<1>1. \A r \in Ports : r = d.to \/ r = Other(d.to)
  BY DialogueIs
<1>2. \A r \in Ports : Due(r) = <<>> /\ ~dev[r].param /\ dev[r].resends <= MaxResends
  BY <1>1 DEF Quiet
<1>. QED
  BY <1>2, QuietBoth DEF Quiet, Empty

LEMMA Identified1Step ==
  ASSUME Types, Types', Configured, Thread, ~ps2_initialized, NEW d, d = DialogueWith(1), Quiet(d),
         todo = AtIdentified1, Result(d)
  PROVE  Identifying2'
<1>a. MachineTypes /\ ThreadTypes /\ DriverTypes /\ 1 \in Ports /\ 2 \in Ports /\ ThreadTypes'
  BY DEF Types, Ports
<1>b. /\ d \in Dialogue /\ Fits(d) /\ d.port = 1 /\ d.to = 1 /\ d.sound
      /\ d.exact <=> Identity(1) # <<>>
  BY <1>a, WithIs DEF Reached
<1>c. d.answer = Identity(1)
  BY <1>b DEF Fits
<1>d. AtIdentify2 \in Seq(AllOps)
  BY PlacesAre
<1>1. /\ todo' = AtIdentify2 /\ identity' = [identity EXCEPT ![1] = response]
      /\ UNCHANGED <<port1, port2, machine, config, expects, handler, dev, ps2_initialized, ps2_error,
                     in, out, keyboard_enabled, shift_down>>
      /\ response' = <<>>
  BY <1>a, <1>d, IdentifiedHas DEF AtIdentified1
<1>2. handler = "none"
  <2>1. <<"identified", 1>> \in AllOps
    BY <1>a, OpsHave, SaidAre
  <2>. QED
    BY <1>d, <2>1, StepHas DEF AtIdentified1
<1>3. response = Identity(1)
  <2>1. CASE d.exact
    BY <1>c, <2>1 DEF Result
  <2>2. CASE ~d.exact
    <3>1. Identity(1) = <<>> /\ Len(response) <= Len(d.answer)
      BY <1>b, <2>2 DEF Result
    <3>2. response \in Seq(Bytes) /\ Len(response) \in Nat /\ Len(response) <= 0
      <4>1. Len(<<>>) = 0
        OBVIOUS
      <4>. QED
        BY <1>b, <1>c, <3>1, <4>1, TalkFacts
    <3>3. \A s \in Seq(Bytes) : Len(s) <= 0 => s = <<>>
      OBVIOUS
    <3>. QED
      BY <3>1, <3>2, <3>3, Zenon
  <2>. QED
    BY <2>1, <2>2
<1>4. identity'[1] = response
  BY <1>1, <1>a DEF DriverTypes
<1>5. Known'
  BY <1>1, <1>3, <1>4, IdentitiesStay DEF Known
<1>6. Scans /\ Scans'
  <2>1. Scans
    BY <1>b DEF Scans, Result
  <2>. QED
    BY <1>1, <2>1, IdentitiesStay DEF Scans
<1>e. PICK e : e = DialogueWith(2)'
  OBVIOUS
<1>7. /\ e \in Dialogue /\ e.port = 2 /\ e.to = Reached(2)
      /\ e.sound => Identity(1) # <<>>
  <2>1. Reached(2) \in Ports /\ Reached(2)' = Reached(2)
    BY <1>1, IdentitiesStay DEF Reached, Ports
  <2>2. Identity(Reached(2))' = Identity(Reached(2)) /\ Identity(Reached(2)) \in Seq(Bytes)
    <3>1. Identity(Reached(2))' = Identity(Reached(2))
      BY <1>1 DEF Identity, Live, Reached
    <3>. QED
      BY <1>a, <2>1, <3>1, IdentityIs DEF Plain
  <2>3. /\ e.port = 2 /\ e.to = Reached(2)' /\ e.exact \in BOOLEAN /\ e.sound \in BOOLEAN
        /\ e.answer = Identity(Reached(2))' /\ (e.sound <=> identity'[1] # <<>>)
    <3>1. ASSUME NEW p, NEW f, f = DialogueWith(p)'
          PROVE  /\ f.port = p /\ f.to = Reached(p)' /\ f.exact \in BOOLEAN /\ f.sound \in BOOLEAN
                 /\ f.answer = Identity(Reached(p))'
                 /\ f.sound <=> p = 1 \/ identity'[1] # <<>>
      BY <3>1, Zenon DEF DialogueWith
    <3>. QED
      BY <1>e, <3>1
  <2>4. e \in Dialogue
    BY <1>e, <1>a, <2>1, <2>2 DEF Dialogue, DialogueWith
  <2>. QED
    BY <1>3, <1>4, <2>1, <2>3, <2>4
<1>8. Empty /\ Due(1) = <<>> /\ ~dev[1].param
  BY <1>b DEF Result
<1>9. Quiet(e) /\ \A r \in Ports : Due(r) = <<>> /\ ~dev[r].param
  BY <1>2, <1>7, <1>8, <1>b, QuietBetween
<1>10. Quiet(e)'
  BY <1>1, <1>7, <1>9, QuietThreadKept
<1>11. Clean(e)'
  <2>1. e.sound => ~ps2_error
    BY <1>7, <1>b DEF Result
  <2>. QED
    BY <1>1, <2>1 DEF Clean
<1>12. Still(e, PS2_DISABLE_SCANNING)'
  <2>1. e.to \in Ports /\ PS2_DISABLE_SCANNING # Byte(1)
    BY <1>7, SaidDiffer, DialogueIs
  <2>2. Empty'
    BY <1>1, <1>8 DEF Empty, InputFull
  <2>3. Due(e.to)' = <<>> /\ ~dev'[e.to].param
    BY <1>1, <1>9, <2>1 DEF Due, Live
  <2>. QED
    BY <2>1, <2>2, <2>3 DEF Still, Ready
<1>13. Talk(e, AtIdentified2)'
  <2>1. todo' = Before(<<"identify", e.port>>, AtIdentified2)
    BY <1>1, <1>7 DEF AtIdentify2
  <2>. QED
    BY <1>11, <1>12, <2>1 DEF Talk
<1>. QED
  BY <1>e, <1>1, <1>5, <1>6, <1>10, <1>13, Zenon DEF Identifying2

LEMMA Identifying1Thread ==
  ASSUME Patient, Types, Types', Configured, Thread, Identifying1
  PROVE  Identifying1' \/ Identifying2'
<1>1. PICK d \in {DialogueWith(1)} : Quiet(d) /\ Talk(d, AtIdentified1)
  BY DEF Identifying1
<1>2. d \in Dialogue /\ Fits(d)
  BY <1>1, WithIs DEF Ports
<1>3. CASE todo = AtIdentified1 /\ Result(d)
  BY <1>1, <1>3, Identified1Step DEF Identifying1
<1>4. CASE ~(todo = AtIdentified1 /\ Result(d))
  <2>1. Speaks /\ Quiet(d)' /\ Talk(d, AtIdentified1)'
    <3>1. AtIdentified1 \in Seq(AllOps)
      BY PlacesAre
    <3>2. \A N \in Seq(AllOps) : Talk(d, N) /\ ~(todo = N /\ Result(d)) => Speaks /\ Quiet(d)' /\ Talk(d, N)'
      BY <1>1, <1>2, TalkStep
    <3>. QED
      BY <1>1, <1>4, <3>1, <3>2
  <2>2. UNCHANGED <<machine, config, port1, port2, identity, ps2_initialized>>
    BY <2>1 DEF Speaks
  <2>3. d = DialogueWith(1)' /\ ~ps2_initialized'
    BY <1>1, <2>2, IdentitiesStay DEF Identifying1
  <2>. QED
    BY <2>1, <2>3 DEF Identifying1
<1>. QED
  BY <1>3, <1>4

LEMMA Identified2Step ==
  ASSUME Types, Types', Configured, Thread, Known, NEW d, d = DialogueWith(2), Quiet(d),
         todo = AtIdentified2, Result(d), d.to = 2 \/ ~Usable(2) => Scans
  PROVE  Concluding'
<1>a. MachineTypes /\ ThreadTypes /\ DriverTypes /\ 2 \in Ports
  BY DEF Types, Ports
<1>b. /\ d \in Dialogue /\ Fits(d) /\ d.port = 2 /\ d.to = Reached(2)
      /\ d.to = IF machine.channels = 1 THEN 1 ELSE 2
      /\ d.sound <=> Identity(1) # <<>>
      /\ d.exact <=> d.to = 1 /\ Usable(2) /\ Identity(1) # <<>>
  BY <1>a, WithIs
<1>c. d.answer = Identity(Reached(2))
  BY <1>b DEF Fits
<1>d. AtDone \in Seq(AllOps)
  BY PlacesAre
<1>1. /\ todo' = AtDone /\ identity' = [identity EXCEPT ![2] = response]
      /\ UNCHANGED <<port1, port2, machine, config, expects, handler, dev,
                     in, out, keyboard_enabled, shift_down>>
  BY <1>a, <1>d, IdentifiedHas DEF AtIdentified2
<1>2. identity'[1] = identity[1] /\ identity'[2] = response
  BY <1>1, <1>a DEF DriverTypes, Ports
<1>3. Known' /\ d = DialogueWith(2)'
      /\ Identity(Reached(2))' = Identity(Reached(2)) /\ Identity(1)' = Identity(1)
  <2>1. Identity(Reached(2))' = Identity(Reached(2))
    BY <1>1 DEF Identity, Live, Reached
  <2>. QED
    BY <1>1, <1>2, <2>1, IdentitiesStay DEF Known
<1>4. Scans'
  <2>1. Scans
    <3>1. CASE d.to = 2 \/ ~Usable(2)
      BY <3>1
    <3>2. CASE d.to # 2 /\ Usable(2) /\ Identity(1) # <<>>
      <4>1. d.exact /\ d.to = 1
        BY <1>b, <3>2
      <4>. QED
        BY <4>1 DEF Result, Scans
    <3>3. CASE Identity(1) = <<>>
      BY <3>3 DEF Scans
    <3>. QED
      BY <3>1, <3>2, <3>3
  <2>. QED
    BY <1>1, <1>3, <2>1 DEF Scans
<1>5. Quiet(d)'
  BY <1>1, <1>b, QuietThreadKept
<1>6. Empty' /\ ~dev'[d.to].param /\ Due(d.to)' = Due(d.to)
  BY <1>1 DEF Result, Empty, InputFull, Due, Live
<1>7. identity'[1] # <<>> \/ Len(identity'[2]) = 2 => Due(d.to)' = <<>>
  BY <1>2, <1>6, <1>b DEF Result, Known
<1>8. Len(identity'[2]) <= Len(Identity(Reached(2))')
  BY <1>2, <1>3, <1>c DEF Result
<1>. QED
  BY <1>1, <1>3, <1>4, <1>5, <1>6, <1>7, <1>8 DEF Concluding

LEMMA Identifying2Thread ==
  ASSUME Patient, Types, Types', Configured, Thread, Identifying2
  PROVE  Identifying2' \/ Concluding'
<1>1. PICK d \in {DialogueWith(2)} :
        Quiet(d) /\ Talk(d, AtIdentified2) /\ (d.to = 2 \/ ~Usable(2) => Scans)
  BY DEF Identifying2
<1>2. d \in Dialogue /\ Fits(d) /\ d.port = 2
  BY <1>1, WithIs DEF Ports, Identifying2
<1>3. CASE todo = AtIdentified2 /\ Result(d)
  BY <1>1, <1>3, Identified2Step DEF Identifying2
<1>4. CASE ~(todo = AtIdentified2 /\ Result(d))
  <2>1. Speaks /\ Quiet(d)' /\ Talk(d, AtIdentified2)'
    <3>1. AtIdentified2 \in Seq(AllOps)
      BY PlacesAre
    <3>2. \A N \in Seq(AllOps) : Talk(d, N) /\ ~(todo = N /\ Result(d)) => Speaks /\ Quiet(d)' /\ Talk(d, N)'
      BY <1>1, <1>2, TalkStep
    <3>. QED
      BY <1>1, <1>4, <3>1, <3>2
  <2>2. UNCHANGED <<machine, config, port1, port2, identity, ps2_initialized, dev>>
    BY <2>1 DEF Speaks
  <2>3. d = DialogueWith(2)' /\ ~ps2_initialized' /\ Known' /\ Identity(1)' = Identity(1)
    BY <1>1, <2>2, IdentitiesStay DEF Identifying2
  <2>4. (Usable(2)' <=> Usable(2)) /\ (Scans' <=> Scans)
    BY <2>2, <2>3 DEF Usable, Scans
  <2>. QED
    BY <1>1, <2>1, <2>3, <2>4 DEF Identifying2
<1>. QED
  BY <1>3, <1>4

\* The keyboard that keyboard_init corrects is one.
LEMMA KeyboardThere ==
  ASSUME Types, Known, Len(identity[2]) <= Len(Identity(Reached(2))), NEW p \in Ports,
         IsKeyboard(identity[p]), p = 2 => ~IsKeyboard(identity[1])
  PROVE  HasKeyboard(p) /\ p = PortUsed
<1>a. MachineTypes /\ machine.channels \in {1, 2} /\ 1 \in Ports /\ 2 \in Ports
  BY Ps2Assumption DEF Types, MachineTypes, MachineType, Ports
<1>b. p = 1 \/ p = 2
  BY DEF Ports
<1>1. CASE p = 1
  <2>1. Len(Identity(1)) = 2
    BY <1>1 DEF Known, IsKeyboard
  <2>2. Live(1) /\ machine.attached[1] = "keyboard"
    BY <1>a, <2>1, IdentityIs
  <2>3. Reached(p) = p /\ p <= machine.channels
    BY <1>a, <1>1 DEF Reached
  <2>. QED
    BY <1>1, <2>2, <2>3 DEF HasKeyboard, PortUsed
<1>2. CASE p = 2
  <2>1. Len(Identity(1)) # 2
    BY <1>2 DEF Known, IsKeyboard
  <2>2. Reached(2) \in Ports /\ (machine.channels # 1 => Reached(2) = 2) /\ (machine.channels = 1 => Reached(2) = 1)
    BY <1>a DEF Reached
  <2>3. Len(Identity(Reached(2))) \in Nat /\ Len(Identity(Reached(2))) <= 2
    BY <1>a, <2>2, IdentityIs DEF Plain
  <2>4. Len(identity[2]) = 2
    BY <1>2 DEF IsKeyboard
  <2>5. Len(Identity(Reached(2))) = 2
    <3>. DEFINE n == Len(Identity(Reached(2)))
    <3>1. n \in Nat /\ n <= 2 /\ 2 <= n
      BY <2>3, <2>4, Zenon
    <3>. HIDE DEF n
    <3>2. n = 2
      BY <3>1
    <3>. QED
      BY <3>2 DEF n
  <2>6. machine.channels = 2 /\ Reached(2) = 2
    BY <1>a, <2>1, <2>2, <2>5
  <2>7. Live(2) /\ machine.attached[2] = "keyboard"
    BY <1>a, <2>5, <2>6, IdentityIs
  <2>. QED
    BY <1>2, <2>1, <2>6, <2>7 DEF HasKeyboard, PortUsed
<1>. QED
  BY <1>b, <1>1, <1>2

LEMMA ConcludingThread ==
  ASSUME Types, Types', Configured, Thread, Concluding
  PROVE  Concluding' \/ Correction' \/ Over'
<1>a. MachineTypes /\ 1 \in Ports /\ 2 \in Ports
  BY DEF Types, Ports
<1>b. PICK d \in {DialogueWith(2)} :
        /\ Quiet(d) /\ Empty /\ ~dev[d.to].param
        /\ identity[1] # <<>> \/ Len(identity[2]) = 2 => Due(d.to) = <<>>
  BY DEF Concluding
<1>c. d \in Dialogue /\ Fits(d)
  BY <1>a, <1>b, WithIs DEF Concluding
<1>1. CASE todo = AtDone
  <2>1. AtKeyboardInit \in Seq(AllOps)
    BY PlacesAre
  <2>2. /\ todo' = AtKeyboardInit
        /\ UNCHANGED <<port1, port2, machine, config, expects, handler, dev, identity, ps2_error,
                       in, out, keyboard_enabled, shift_down>>
    BY <1>1, <2>1, InitializedHas DEF AtDone
  <2>3. Quiet(d)'
    BY <1>b, <1>c, <2>2, QuietThreadKept
  <2>4. d = DialogueWith(2)' /\ Known' /\ Identity(1)' = Identity(1)
        /\ Identity(Reached(2))' = Identity(Reached(2))
    <3>1. Identity(Reached(2))' = Identity(Reached(2))
      BY <2>2 DEF Identity, Live, Reached
    <3>. QED
      BY <1>b, <2>2, <3>1, IdentitiesStay DEF Concluding
  <2>5. Scans'
    BY <2>2, <2>4 DEF Scans, Concluding
  <2>6. Empty' /\ ~dev'[d.to].param /\ Due(d.to)' = Due(d.to)
    BY <1>b, <2>2 DEF Empty, InputFull, Due, Live
  <2>. QED
    BY <1>b, <2>2, <2>3, <2>4, <2>5, <2>6 DEF Concluding
<1>2. CASE todo = AtKeyboardInit
  <2>1. /\ Speaks /\ UNCHANGED <<in, out>>
        /\ \/ todo' \in {<<>>, <<<<"flush">>>>}
           \/ \E p \in Ports : \E e \in {Setting(p)} :
                /\ IsKeyboard(identity[p]) /\ (p = 2 => ~IsKeyboard(identity[1]))
                /\ todo' = Before(<<"write", p, PS2_KEYBOARD_SET_SCANCODE_SET>>,
                                  Before(<<"check">>, SetAckOps(e)))
    BY <1>2, <1>a, KeyboardInitHas
  <2>2. UNCHANGED <<machine, config, port1, port2, identity, dev, keyboard_enabled>>
    BY <2>1 DEF Speaks
  <2>3. Known' /\ Scans'
    BY <2>2, IdentitiesStay DEF Scans, Concluding
  <2>4. CASE todo' \in {<<>>, <<<<"flush">>>>}
    <3>1. ~keyboard_enabled' /\ ~InputFull'
      BY <1>b, <2>1, <2>2 DEF Quiet, Empty, InputFull
    <3>. QED
      BY <2>3, <2>4, <3>1 DEF Over
  <2>5. ASSUME NEW p \in Ports, NEW e \in {Setting(p)},
               IsKeyboard(identity[p]), p = 2 => ~IsKeyboard(identity[1]),
               todo' = Before(<<"write", p, PS2_KEYBOARD_SET_SCANCODE_SET>>,
                              Before(<<"check">>, SetAckOps(e)))
        PROVE  Correction'
    <3>1. HasKeyboard(p) /\ p = PortUsed
      BY <2>5, KeyboardThere DEF Concluding
    <3>2. e \in Dialogue /\ e.port = p /\ e.to = p
      BY <1>a, <2>5, <3>1, SettingIs
    <3>3. identity[1] # <<>> \/ Len(identity[2]) = 2
      <4>1. Len(<<>>) # 2
        OBVIOUS
      <4>2. p = 1 \/ p = 2
        BY DEF Ports
      <4>. QED
        BY <2>5, <4>1, <4>2 DEF IsKeyboard
    <3>4. handler = "none"
      BY ThreadAt
    <3>5. Quiet(e) /\ \A r \in Ports : Due(r) = <<>> /\ ~dev[r].param
      BY <1>b, <1>c, <3>2, <3>3, <3>4, QuietBetween
    <3>6. UNCHANGED <<config, expects, handler, dev, keyboard_enabled, shift_down, in, out>>
      BY <2>1 DEF Speaks
    <3>7. Quiet(e)'
      BY <3>2, <3>5, <3>6, QuietThreadKept
    <3>8. p = PortUsed' /\ HasKeyboard(p)' /\ e = Setting(p)'
      BY <2>2, <2>5, <3>1, IdentitiesStay
    <3>9. Still(e, PS2_KEYBOARD_SET_SCANCODE_SET)'
      <4>1. Empty' /\ Due(e.to)' = <<>> /\ ~dev'[e.to].param
        BY <1>b, <3>2, <3>5, <3>6 DEF Empty, InputFull, Due, Live
      <4>. QED
        BY <4>1, SaidDiffer DEF Still, Ready
    <3>10. Correcting(e)'
      BY <2>5, <3>2, <3>9 DEF Correcting, Writes
    <3>. QED
      BY <2>3, <3>7, <3>8, <3>10 DEF Correction
  <2>. QED
    BY <2>1, <2>4, <2>5
<1>. QED
  BY <1>1, <1>2 DEF Concluding

\* The steps of the correction keep what they say of a keyboard.
LEMMA SettingStays ==
  ASSUME Types, NEW p \in Ports, HasKeyboard(p), p = PortUsed, Known, Scans, Speaks
  PROVE  /\ p = PortUsed' /\ HasKeyboard(p)' /\ Setting(p)' = Setting(p) /\ Known' /\ Scans'
<1>1. UNCHANGED <<machine, config, port1, port2, identity, dev>>
  BY DEF Speaks
<1>2. /\ p = PortUsed' /\ HasKeyboard(p)' /\ Setting(p)' = Setting(p) /\ Known'
      /\ Identity(1)' = Identity(1)
  BY <1>1, IdentitiesStay
<1>. QED
  BY <1>1, <1>2 DEF Scans

LEMMA CorrectionAsks ==
  ASSUME Types, Types', Thread, NEW d \in Dialogue, Fits(d), Quiet(d), Usable(d.port), ~d.sound,
         Correcting(d),
         \/ Writes(d, PS2_KEYBOARD_SET_SCANCODE_SET, Before(<<"check">>, SetAckOps(d)))
         \/ todo = Before(<<"check">>, SetAckOps(d)) /\ Pending(d, PS2_KEYBOARD_SET_SCANCODE_SET) /\ ret = 0
  PROVE  Speaks /\ Quiet(d)' /\ Correcting(d)'
<1>. DEFINE c == PS2_KEYBOARD_SET_SCANCODE_SET
            M == Before(<<"check">>, SetAckOps(d))
<1>a. c \in Said /\ c \in Orders /\ M \in Seq(AllOps) /\ SetAckOps(d) \in Seq(AllOps)
  BY SaidAre, SettingSeqs
<1>1. CASE Writes(d, c, M)
  <2>. HIDE DEF M
  <2>1. /\ Speaks /\ Quiet(d)'
        /\ \/ Writes(d, c, M)'
           \/ todo' = M /\ Untaken(d, c)' /\ ret' = 0
           \/ ~Usable(d.port) /\ todo' = M /\ ret' = 1 /\ Still(d, c)'
    BY <1>a, <1>1, WritesStep
  <2>2. CASE Writes(d, c, M)'
    BY <2>1, <2>2 DEF Correcting, M
  <2>3. CASE todo' = M /\ Untaken(d, c)' /\ ret' = 0
    BY <2>1, <2>3 DEF Correcting, Pending, M
  <2>. QED
    BY <2>1, <2>2, <2>3
<1>2. CASE todo = M /\ Pending(d, c) /\ ret = 0
  <2>1. Speaks /\ UNCHANGED <<in, out>> /\ todo' = SetAckOps(d)
    BY <1>a, <1>2, CheckHas
  <2>2. Quiet(d)'
    BY <2>1, QuietThreadKept DEF Speaks
  <2>3. Pending(d, c)'
    BY <1>2, <2>1, SpeaksKeeps, AlikeKeeps
  <2>4. Acknowledging(d, c, SetOps(d))'
    BY <2>1, <2>3 DEF Acknowledging, SetAckOps, Clean
  <2>. QED
    BY <2>1, <2>2, <2>4 DEF Correcting
<1>. QED
  BY <1>1, <1>2

LEMMA CorrectionSets ==
  ASSUME Types, Types', Thread, NEW d \in Dialogue, Fits(d), Quiet(d), Usable(d.port), ~d.sound,
         \/ Writes(d, Byte(1), LastOps(d))
         \/ todo = LastOps(d) /\ Finished(d.to) /\ ret = 0
  PROVE  Speaks /\ Quiet(d)' /\ Correcting(d)'
<1>. DEFINE M == LastOps(d)
<1>a. Byte(1) \in Said /\ M \in Seq(AllOps) /\ EnableOps \in Seq(AllOps)
  BY SaidAre, SettingSeqs
<1>1. CASE Writes(d, Byte(1), M)
  <2>. HIDE DEF M
  <2>1. /\ Speaks /\ Quiet(d)'
        /\ \/ Writes(d, Byte(1), M)'
           \/ todo' = M /\ Untaken(d, Byte(1))' /\ ret' = 0
           \/ ~Usable(d.port) /\ todo' = M /\ ret' = 1 /\ Still(d, Byte(1))'
    BY <1>a, <1>1, WritesStep
  <2>2. CASE Writes(d, Byte(1), M)'
    BY <2>1, <2>2 DEF Correcting, M
  <2>3. CASE todo' = M /\ Untaken(d, Byte(1))' /\ ret' = 0
    <3>1. Finished(d.to)'
      BY <2>3 DEF Untaken, Finished, Ready
    <3>. QED
      BY <2>1, <2>3, <3>1 DEF Correcting, M
  <2>. QED
    BY <2>1, <2>2, <2>3
<1>2. CASE todo = M /\ Finished(d.to) /\ ret = 0
  <2>1. Speaks /\ UNCHANGED <<in, out>> /\ todo' = EnableOps
    BY <1>a, <1>2, CheckHas DEF LastOps
  <2>2. Quiet(d)'
    BY <2>1, QuietThreadKept DEF Speaks
  <2>3. Finished(d.to)'
    BY <1>2, <2>1 DEF Finished, Speaks, Due, Live, InputFull, Calls
  <2>. QED
    BY <2>1, <2>2, <2>3 DEF Correcting
<1>. QED
  BY <1>1, <1>2

\* Between the two the command is acknowledged, or the correction is given up.
LEMMA CorrectionHears ==
  ASSUME Patient, Types, Types', Thread, NEW d \in Dialogue, Fits(d), Quiet(d), ~d.sound,
         \/ Acknowledging(d, PS2_KEYBOARD_SET_SCANCODE_SET, SetOps(d))
         \/ todo = SetOps(d) /\ Outcome(d, PS2_KEYBOARD_SET_SCANCODE_SET)
  PROVE  Speaks /\ Quiet(d)' /\ (Correcting(d)' \/ (todo' = <<>> /\ ~InputFull'))
<1>. DEFINE c == PS2_KEYBOARD_SET_SCANCODE_SET
            N == SetOps(d)
            M == Before(<<"write", d.port, Byte(1)>>, LastOps(d))
<1>a. c \in Orders /\ N \in Seq(AllOps) /\ M \in Seq(AllOps) /\ c # PS2_IDENTIFY /\ MachineTypes
  BY SaidAre, SettingSeqs, DeviceCommandsDiffer DEF Types
<1>1. CASE Acknowledging(d, c, N)
  <2>. HIDE DEF N
  <2>1. Speaks /\ Quiet(d)' /\ (Acknowledging(d, c, N)' \/ (todo' = N /\ Outcome(d, c)'))
    BY <1>a, <1>1, AcknowledgingStep
  <2>. QED
    BY <2>1 DEF Correcting, N
<1>2. CASE todo = N /\ Outcome(d, c)
  <2>1. /\ Speaks /\ UNCHANGED <<in, out>>
        /\ ret = 1 => todo' = <<>>
        /\ ret # 1 => todo' = M
    BY <1>a, <1>2, CheckHas DEF SetOps
  <2>2. Quiet(d)'
    BY <2>1, QuietThreadKept DEF Speaks
  <2>3. Alike(d) /\ Empty' /\ ~InputFull'
    BY <1>2, <2>1, SpeaksKeeps DEF Outcome, Empty
  <2>4. CASE ret = 1
    BY <2>1, <2>2, <2>3, <2>4
  <2>5. CASE ret # 1
    <3>1. Due(d.to) = <<>> /\ dev[d.to].param
      BY <1>2, <1>a, <2>5, ReplyIs DEF Outcome, Effect, Fits
    <3>2. Due(d.to)' = <<>> /\ dev'[d.to].param
      BY <2>1, <3>1 DEF Speaks, Due, Live
    <3>3. Still(d, Byte(1))'
      BY <2>3, <3>2 DEF Still, Ready
    <3>4. Writes(d, Byte(1), LastOps(d))'
      BY <2>1, <2>5, <3>3 DEF Writes
    <3>. QED
      BY <2>1, <2>2, <3>4 DEF Correcting
  <2>. QED
    BY <2>4, <2>5
<1>. QED
  BY <1>1, <1>2

LEMMA EnablingStep ==
  ASSUME Types, Thread, NEW p \in Ports, HasKeyboard(p), p = PortUsed, Known, Scans,
         NEW d \in Dialogue, d.to = p, Quiet(d), todo = EnableOps, Finished(p)
  PROVE  Enabled'
<1>a. MachineTypes
  BY DEF Types
<1>0. <<<<"flush">>>> \in Seq(AllOps)
  <2>1. <<"flush">> \in AllOps
    BY OpsHave, SaidAre DEF Ports
  <2>. HIDE DEF AllOps
  <2>. QED
    BY <2>1
<1>0b. todo = Before(<<"enable">>, <<<<"flush">>>>)
  BY DEF EnableOps, Before
<1>1. /\ todo' = <<<<"flush">>>>
      /\ UNCHANGED <<port1, port2, machine, config, expects, handler, dev, identity, in, out, shift_down>>
  BY <1>0, <1>0b, EnableHas
<1>2. /\ p = PortUsed' /\ HasKeyboard(p)' /\ Known' /\ Identity(1)' = Identity(1)
  BY <1>1, IdentitiesStay
<1>3. Scans'
  BY <1>1, <1>2 DEF Scans
<1>4. Finished(p)'
  BY <1>1 DEF Finished, Due, Live, InputFull, Calls
<1>5. Finishing(p)'
  BY <1>4 DEF Finished, Finishing
<1>6. ASSUME Byte(1) \notin Resendable
      PROVE  Following(p)'
  <2>1. out'.src # Controller /\ ~shift_down' /\ Due(Other(p))' = <<>>
    BY <1>1 DEF Quiet, Due, Live
  <2>2. p = 1 => handler' = "none" /\ Other(p) = 2
    BY <1>1, DialogueIs DEF Quiet
  <2>3. p = 2 => Other(p) = 1
    BY DialogueIs
  <2>4. Due(p)' = Due(p) /\ Due(p) \in {<<>>, <<PS2_ACK>>}
    BY <1>1, <1>6 DEF Finished, Due, Live
  <2>5. ~Down(Due(p)', shift_down')
    <3>1. PS2_ACK \notin ShiftMakes
      BY SaidDiffer
    <3>2. ~Down(<<>>, FALSE) /\ ~Down(<<PS2_ACK>>, FALSE)
      BY <3>1 DEF Down
    <3>3. shift_down' = FALSE
      BY <2>1, <1>1, <1>a DEF Types, FlagTypes
    <3>. QED
      BY <2>4, <3>2, <3>3
  <2>. QED
    BY <1>4, <2>1, <2>2, <2>3, <2>5, <1>1 DEF Following
<1>. QED
  BY <1>1, <1>2, <1>3, <1>5, <1>6 DEF Enabled

LEMMA CorrectionThread ==
  ASSUME Patient, Types, Types', Configured, Thread, Correction
  PROVE  Correction' \/ Over' \/ Enabled'
<1>a. MachineTypes
  BY DEF Types
<1>1. PICK p \in {PortUsed} :
        HasKeyboard(p) /\ \E d \in {Setting(p)} : Quiet(d) /\ Correcting(d)
  BY DEF Correction
<1>2. PICK d \in {Setting(p)} : Quiet(d) /\ Correcting(d)
  BY <1>1
<1>3. p \in Ports
  BY <1>1 DEF PortUsed, Ports
<1>4. d \in Dialogue /\ Fits(d) /\ d.port = p /\ d.to = p /\ ~d.sound
  BY <1>a, <1>1, <1>2, <1>3, SettingIs
<1>5. Usable(d.port)
  <2>1. p = 1 \/ p = 2
    BY <1>3 DEF Ports
  <2>2. Live(p)
    BY <1>1 DEF HasKeyboard
  <2>. QED
    BY <1>a, <1>4, <2>1, <2>2, LivePorts
<1>6. Known /\ Scans
  BY DEF Correction
<1>7. CASE todo = EnableOps /\ Finished(d.to)
  BY <1>1, <1>2, <1>3, <1>4, <1>6, <1>7, EnablingStep
<1>8. CASE ~(todo = EnableOps /\ Finished(d.to))
  <2>1. Speaks /\ Quiet(d)' /\ (Correcting(d)' \/ (todo' = <<>> /\ ~InputFull'))
    BY <1>2, <1>4, <1>5, <1>8, CorrectionAsks, CorrectionHears, CorrectionSets DEF Correcting
  <2>2. p = PortUsed' /\ HasKeyboard(p)' /\ d = Setting(p)' /\ Known' /\ Scans'
    BY <1>1, <1>2, <1>3, <1>6, <2>1, SettingStays
  <2>3. CASE Correcting(d)'
    BY <2>1, <2>2, <2>3 DEF Correction
  <2>4. CASE todo' = <<>> /\ ~InputFull'
    BY <2>1, <2>2, <2>4 DEF Over, Quiet
  <2>. QED
    BY <2>1, <2>3, <2>4
<1>. QED
  BY <1>7, <1>8

-----------------------------------------------------------------------------
(* After the correction.                                                   *)

\* What the others do once ps2_init and the correction are over.
LEMMA LateOthers ==
  ASSUME Types, Configured, Others, in.port # "command", todo \in {<<>>, <<<<"flush">>>>}
  PROVE  /\ UNCHANGED <<todo, port1, port2, identity, machine, config, keyboard_enabled>>
         /\ \/ MouseHandler /\ UNCHANGED <<in, expects, dev, shift_down>>
            \/ KeyboardIrq /\ UNCHANGED <<in, expects, dev, handler>>
            \/ DeviceTakes /\ UNCHANGED <<out, handler, shift_down>>
            \/ \E q \in Ports : DeviceSends(q) /\ UNCHANGED <<in, expects, handler, shift_down>>
            \/ \E q \in TypedOn, key \in Keys :
                 Key(q, key) /\ UNCHANGED <<in, out, expects, handler, shift_down>>
            \/ UNCHANGED <<in, out, expects, dev, handler, shift_down>>
<1>1. ~Tick
  <2>1. ~At("poll") /\ ~At("id_wait")
    <3>1. CASE todo = <<>>
      BY <3>1 DEF At
    <3>2. CASE todo = <<<<"flush">>>>
      <4>1. todo[1][1] = "flush"
        BY <3>2
      <4>. QED
        BY <4>1 DEF At
    <3>. QED
      BY <3>1, <3>2
  <2>. QED
    BY <2>1 DEF Tick
<1>2. ~ControllerAnswers /\ ~ControllerObeys /\ ~TakesConfig
  BY DEF ControllerAnswers, ControllerObeys, TakesConfig, Configured
<1>3. MouseHandler \/ KeyboardIrq \/ Machinery \/ User \/ UNCHANGED vars
  BY DEF Others, Halt
<1>4. CASE MouseHandler
  BY <1>4, Zenon DEF MouseHandler, EnterMouseIrq, MouseIrq, thread, driver
<1>5. CASE KeyboardIrq
  BY <1>5, Zenon DEF KeyboardIrq, thread, driver
<1>6. CASE Machinery
  <2>1. UNCHANGED <<keyboard_enabled, shift_down>>
    BY <1>6 DEF Machinery
  <2>2. DeviceTakes \/ \E q \in Ports : DeviceSends(q)
    BY <1>1, <1>2, <1>6 DEF Machinery, Hardware
  <2>3. CASE DeviceTakes
    BY <2>1, <2>3, Zenon DEF DeviceTakes, Silent, thread, driver
  <2>4. ASSUME NEW q \in Ports, DeviceSends(q)
        PROVE  UNCHANGED <<todo, port1, port2, identity, machine, config, in, expects, handler>>
    BY <2>4, Zenon DEF DeviceSends, Silent, thread, driver
  <2>. QED
    BY <2>1, <2>2, <2>3, <2>4
<1>7. CASE User
  <2>1. PICK q \in TypedOn, key \in Keys : Key(q, key)
    BY <1>7 DEF User
  <2>2. UNCHANGED <<todo, port1, port2, identity, machine, config, keyboard_enabled>>
        /\ UNCHANGED <<in, out, expects, handler, shift_down>>
    BY <2>1, Zenon DEF Key, thread, driver, controller
  <2>. QED
    BY <2>1, <2>2
<1>8. CASE UNCHANGED vars
  BY <1>8, Zenon DEF vars, ps2vars, thread, driver, controller
<1>. QED
  BY <1>3, <1>4, <1>5, <1>6, <1>7, <1>8

\* The device that sends.
LEMMA SendsChanges ==
  ASSUME Types, NEW q \in Ports, DeviceSends(q)
  PROVE  /\ dev[q].queue # <<>> /\ Live(q) /\ ~OutputFull /\ out'.src = q
         /\ dev[q].queue \in Seq(Bytes)
         /\ out'.byte = Head(dev[q].queue)
         /\ dev'[q].queue = Tail(dev[q].queue) /\ dev'[q].held = dev[q].held
         /\ \A r \in Ports : Same(r) /\ (r # q => dev'[r] = dev[r])
<1>1. dev[q] \in Devices /\ dev \in [Ports -> Devices]
  BY DEF Types, MachineTypes
<1>2. /\ dev[q].queue # <<>> /\ Live(q) /\ ~OutputFull
      /\ out' = [byte |-> Head(dev[q].queue), src |-> q, irq |-> Irq(q) \in config]
      /\ dev' = [dev EXCEPT ![q].queue = Tail(@)]
  BY Zenon DEF DeviceSends, Live
<1>3. \A r \in Ports : r # q => dev'[r] = dev[r]
  BY <1>1, <1>2
<1>4. dev'[q] = [dev[q] EXCEPT !.queue = Tail(dev[q].queue)]
  BY <1>1, <1>2
<1>5. Same(q) /\ dev'[q].queue = Tail(dev[q].queue) /\ dev'[q].held = dev[q].held
      /\ dev[q].queue \in Seq(Bytes)
  BY <1>1, <1>4 DEF Same, Devices
<1>. QED
  BY <1>2, <1>3, <1>5 DEF Same

\* The keyboard at which a user types.
LEMMA KeyChanges ==
  ASSUME Types, NEW q \in Ports, NEW key, Key(q, key)
  PROVE  /\ todo = <<>> /\ machine.attached[q] = "keyboard"
         /\ \A r \in Ports : Same(r) /\ (r # q => dev'[r] = dev[r])
         /\ dev[q] \in Devices
         /\ key \notin dev[q].held =>
              /\ dev'[q].held = dev[q].held \cup {key}
              /\ dev[q].scanning => dev'[q].queue = dev[q].queue \o CodesOf(key, TRUE, dev[q].set)
         /\ key \in dev[q].held =>
              /\ dev'[q].held = dev[q].held \ {key}
              /\ dev[q].scanning => dev'[q].queue = dev[q].queue \o CodesOf(key, FALSE, dev[q].set)
<1>1. dev[q] \in Devices /\ dev \in [Ports -> Devices]
  BY DEF Types, MachineTypes
<1>. HIDE DEF CodesOf
<1>2. todo = <<>> /\ machine.attached[q] = "keyboard"
  BY DEF Key
<1>3. CASE key \notin dev[q].held
  <2>1. dev' = [dev EXCEPT
          ![q].held = @ \cup {key},
          ![q].queue = IF dev[q].scanning THEN @ \o CodesOf(key, TRUE, dev[q].set) ELSE @]
    BY <1>3 DEF Key
  <2>2. \A r \in Ports : r # q => dev'[r] = dev[r]
    BY <1>1, <2>1
  <2>3. dev'[q] = [dev[q] EXCEPT !.held = @ \cup {key},
          !.queue = IF dev[q].scanning THEN @ \o CodesOf(key, TRUE, dev[q].set) ELSE @]
    BY <1>1, <2>1 DEF Devices
  <2>4. Same(q) /\ dev'[q].held = dev[q].held \cup {key}
        /\ (dev[q].scanning => dev'[q].queue = dev[q].queue \o CodesOf(key, TRUE, dev[q].set))
    BY <1>1, <2>3 DEF Same, Devices
  <2>. QED
    BY <1>1, <1>2, <1>3, <2>2, <2>4 DEF Same
<1>4. CASE key \in dev[q].held
  <2>1. dev' = [dev EXCEPT
          ![q].held = @ \ {key},
          ![q].queue = IF dev[q].scanning THEN @ \o CodesOf(key, FALSE, dev[q].set) ELSE @]
    BY <1>4 DEF Key
  <2>2. \A r \in Ports : r # q => dev'[r] = dev[r]
    BY <1>1, <2>1
  <2>3. dev'[q] = [dev[q] EXCEPT !.held = @ \ {key},
          !.queue = IF dev[q].scanning THEN @ \o CodesOf(key, FALSE, dev[q].set) ELSE @]
    BY <1>1, <2>1 DEF Devices
  <2>4. Same(q) /\ dev'[q].held = dev[q].held \ {key}
        /\ (dev[q].scanning => dev'[q].queue = dev[q].queue \o CodesOf(key, FALSE, dev[q].set))
    BY <1>1, <2>3 DEF Same, Devices
  <2>. QED
    BY <1>1, <1>2, <1>4, <2>2, <2>4 DEF Same
<1>. QED
  BY <1>3, <1>4

\* The flush that follows what enables the keyboard, or stands for it.
LEMMA FlushAlone ==
  ASSUME Thread, todo \in {<<>>, <<<<"flush">>>>}
  PROVE  /\ Speaks /\ UNCHANGED in /\ todo = <<<<"flush">>>>
         /\ \/ todo' = todo /\ out' = NoByte
            \/ todo' = <<>> /\ ~OutputFull /\ out' = out
<1>0. <<"flush">> \in AllOps /\ <<>> \in Seq(AllOps)
  <2>1. <<"flush">> \in AllOps
    BY OpsHave, SaidAre DEF Ports
  <2>. HIDE DEF AllOps
  <2>. QED
    BY <2>1
<1>1. todo = <<<<"flush">>>>
  BY ThreadAt
<1>2. todo = Before(<<"flush">>, <<>>)
  BY <1>0, <1>1, ConsIs DEF Before
<1>. QED
  BY <1>0, <1>1, <1>2, FlushHas

LEMMA OverThread ==
  ASSUME Thread, Over
  PROVE  Over'
<1>1. Speaks /\ UNCHANGED in /\ todo' \in {<<>>, <<<<"flush">>>>}
  BY FlushAlone DEF Over
<1>2. UNCHANGED <<machine, config, port1, port2, identity, dev, keyboard_enabled, in>>
  BY <1>1 DEF Speaks
<1>3. Known' /\ Identity(1)' = Identity(1)
  BY <1>2, IdentitiesStay DEF Over
<1>4. Scans'
  BY <1>2, <1>3 DEF Scans, Over
<1>. QED
  BY <1>1, <1>2, <1>3, <1>4 DEF Over, InputFull

LEMMA OverOthers ==
  ASSUME Types, Configured, Others, Over
  PROVE  Over'
<1>a. Types /\ 1 \in Ports
  BY DEF Ports
<1>1. /\ UNCHANGED <<todo, port1, port2, identity, machine, config, keyboard_enabled>>
      /\ \/ UNCHANGED <<in, dev>>
         \/ DeviceTakes
         \/ \E q \in Ports : DeviceSends(q) /\ UNCHANGED in
         \/ \E q \in TypedOn, key \in Keys : Key(q, key) /\ UNCHANGED in
  <2>1. in.port # "command"
    BY DEF Over, InputFull
  <2>. QED
    BY <2>1, LateOthers DEF Over
<1>2. ~DeviceTakes
  BY DEF DeviceTakes, Over, InputFull
<1>3. in' = in /\ dev'[1].scanning = dev[1].scanning
  <2>1. CASE UNCHANGED <<in, dev>>
    BY <2>1
  <2>2. ASSUME NEW q \in Ports, DeviceSends(q), UNCHANGED in
        PROVE  in' = in /\ dev'[1].scanning = dev[1].scanning
    BY <1>a, <2>2, SendsChanges DEF Same
  <2>3. ASSUME NEW q \in TypedOn, NEW key \in Keys, Key(q, key), UNCHANGED in
        PROVE  in' = in /\ dev'[1].scanning = dev[1].scanning
    <3>1. q \in Ports
      BY KeyboardAssumption
    <3>. QED
      BY <1>a, <2>3, <3>1, KeyChanges DEF Same
  <2>. QED
    BY <1>1, <1>2, <2>1, <2>2, <2>3
<1>4. Known' /\ Identity(1)' = Identity(1)
  BY <1>1, IdentitiesStay DEF Over
<1>5. Scans'
  BY <1>3, <1>4 DEF Scans, Over
<1>. QED
  BY <1>1, <1>3, <1>4, <1>5 DEF Over, InputFull

-----------------------------------------------------------------------------
(* Once the keyboard is enabled.                                           *)

\* The keyboard takes its parameter, or asks for it again.
LEMMA ParameterTaken ==
  ASSUME Types, DeviceTakes, NEW p \in Ports, machine.attached[p] = "keyboard",
         in = [byte |-> Byte(1), port |-> "data"], Calls(p), dev[p].param
  PROVE  /\ in' = NoInput /\ expects' = "port 1"
         /\ \A r \in Ports : r # p => dev'[r] = dev[r]
         /\ dev'[p].scanning = dev[p].scanning /\ dev'[p].held = dev[p].held
         /\ Byte(1) \notin Resendable =>
              /\ ~dev'[p].param /\ dev'[p].set = 1
              /\ dev'[p].queue = Append(dev[p].queue, PS2_ACK)
<1>0. in.byte = Byte(1)
  OBVIOUS
<1>1. /\ in' = NoInput /\ expects' = "port 1"
      /\ \A r \in Ports : r # p => dev'[r] = dev[r]
      /\ \/ dev'[p] = Taken(dev[p], "keyboard", Byte(1))
         \/ /\ Byte(1) \in Resendable
            /\ dev'[p] = [dev[p] EXCEPT !.queue = Append(@, PS2_RESEND), !.resends = @ + 1]
  BY <1>0, TakesChanges
<1>. DEFINE x == dev[p]
            y == dev'[p]
<1>2. x \in Devices /\ x.param
  BY DEF Types, MachineTypes
<1>3. \/ y = Taken(x, "keyboard", Byte(1))
      \/ /\ Byte(1) \in Resendable
         /\ y = [x EXCEPT !.queue = Append(@, PS2_RESEND), !.resends = @ + 1]
  BY <1>1
<1>. HIDE DEF x, y
<1>4. Byte(1) \in Said /\ Byte(1) # PS2_IDENTIFY
      /\ Byte(1) \notin {PS2_DISABLE_SCANNING, PS2_ENABLE_SCANNING, PS2_KEYBOARD_SET_SCANCODE_SET}
  BY SaidAre, SaidDiffer
<1>5. CASE y = Taken(x, "keyboard", Byte(1))
  <2>1. y = [x EXCEPT !.param = FALSE, !.set = 1, !.queue = Append(x.queue, PS2_ACK)]
    BY <1>2, <1>5 DEF Taken
  <2>2. y.scanning = x.scanning /\ y.held = x.held /\ ~y.param /\ y.set = 1
        /\ y.queue = Append(x.queue, PS2_ACK)
    BY <1>2, <2>1 DEF Devices
  <2>. QED
    BY <1>1, <2>2 DEF x, y
<1>6. CASE /\ Byte(1) \in Resendable
           /\ y = [x EXCEPT !.queue = Append(@, PS2_RESEND), !.resends = @ + 1]
  <2>2. y.scanning = x.scanning /\ y.held = x.held
    BY <1>2, <1>6 DEF Devices
  <2>. QED
    BY <1>1, <1>6, <2>2 DEF x, y
<1>. QED
  BY <1>3, <1>5, <1>6

LEMMA FinishingOthers ==
  ASSUME Types, Configured, Others, todo \in {<<>>, <<<<"flush">>>>}, Scans,
         NEW p \in Ports, HasKeyboard(p), Finishing(p)
  PROVE  Finishing(p)' /\ Scans'
<1>a. 1 \in Ports
  BY DEF Ports
<1>1. in.port # "command"
  <2>1. CASE in = [byte |-> Byte(1), port |-> "data"]
    <3>1. in.port = "data"
      BY <2>1
    <3>. QED
      BY <3>1
  <2>. QED
    BY <2>1 DEF Finishing, InputFull
<1>2. /\ UNCHANGED <<todo, port1, port2, identity, machine, config, keyboard_enabled>>
      /\ \/ UNCHANGED <<in, expects, dev>>
         \/ DeviceTakes
         \/ \E q \in Ports : DeviceSends(q) /\ UNCHANGED <<in, expects>>
         \/ \E q \in TypedOn, key \in Keys : Key(q, key) /\ UNCHANGED <<in, expects>>
  BY <1>1, LateOthers
<1>3. CASE DeviceTakes
  <2>1. in = [byte |-> Byte(1), port |-> "data"] /\ Calls(p) /\ dev[p].param
    BY <1>3 DEF Finishing, DeviceTakes, InputFull
  <2>2. machine.attached[p] = "keyboard"
    BY DEF HasKeyboard
  <2>3. /\ in' = NoInput /\ expects' = "port 1"
        /\ \A r \in Ports : r # p => dev'[r] = dev[r]
        /\ dev'[p].scanning = dev[p].scanning
        /\ Byte(1) \notin Resendable => ~dev'[p].param /\ dev'[p].set = 1
    BY <1>3, <2>1, <2>2, ParameterTaken
  <2>4. Finishing(p)'
    BY <2>3 DEF Finishing, InputFull, NoInput
  <2>5. dev'[1].scanning = dev[1].scanning
    BY <1>a, <2>3
  <2>6. Identity(1)' = Identity(1)
    BY <1>2, IdentitiesStay
  <2>. QED
    BY <2>4, <2>5, <2>6 DEF Scans
<1>4. CASE UNCHANGED <<in, expects>> /\ \A r \in Ports : Same(r)
  <2>1. Finishing(p)'
    BY <1>4 DEF Finishing, Same, InputFull, Calls
  <2>2. Identity(1)' = Identity(1)
    BY <1>2, IdentitiesStay
  <2>. QED
    BY <1>a, <1>4, <2>1, <2>2 DEF Scans, Same
<1>5. ASSUME NEW q \in Ports, DeviceSends(q)
      PROVE  \A r \in Ports : Same(r)
  BY <1>5, SendsChanges
<1>6. ASSUME NEW q \in TypedOn, NEW key \in Keys, Key(q, key)
      PROVE  \A r \in Ports : Same(r)
  <2>1. q \in Ports
    BY KeyboardAssumption
  <2>. QED
    BY <1>6, <2>1, KeyChanges
<1>7. UNCHANGED dev => \A r \in Ports : Same(r)
  BY DEF Same
<1>. QED
  BY <1>2, <1>3, <1>4, <1>5, <1>6, <1>7

-----------------------------------------------------------------------------
(* The shift keys among the codes that are still to be handled.            *)

LEMMA NeutralIs ==
  /\ \A x : 5 \notin x \/ 6 \in x => x \notin ShiftMakes \cup ShiftBreaks
  /\ ShiftMakes \cap ShiftBreaks = {}
  /\ Byte(42) \cup {7} = Byte(170) /\ Byte(54) \cup {7} = Byte(182)
<1>1. /\ 5 \in Byte(42) /\ 5 \in Byte(54) /\ 5 \in Byte(170) /\ 5 \in Byte(182)
      /\ 6 \notin Byte(42) /\ 6 \notin Byte(54) /\ 6 \notin Byte(170) /\ 6 \notin Byte(182)
  BY BitOf
<1>2. 7 \notin Byte(42) /\ 7 \notin Byte(54) /\ 7 \in Byte(170) /\ 7 \in Byte(182)
  BY BitOf
<1>3. \A b \in 0 .. 6 : b \in Byte(42) <=> b \in Byte(170)
  BY BitOf
<1>4. \A b \in 0 .. 6 : b \in Byte(54) <=> b \in Byte(182)
  BY BitOf
<1>5. \A v : Byte(v) \subseteq 0 .. 7
  BY DEF Byte, Bits
<1>6. Byte(42) \cup {7} = Byte(170) /\ Byte(54) \cup {7} = Byte(182)
  <2>1. \A b \in 0 .. 7 : b = 7 \/ b \in 0 .. 6
    OBVIOUS
  <2>2. \A b : b \in Byte(42) \cup {7} <=> b \in Byte(170)
    BY <1>2, <1>3, <1>5, <2>1
  <2>3. \A b : b \in Byte(54) \cup {7} <=> b \in Byte(182)
    BY <1>2, <1>4, <1>5, <2>1
  <2>. QED
    BY <2>2, <2>3
<1>7. ShiftMakes \cap ShiftBreaks = {}
  BY <1>2 DEF ShiftMakes, ShiftBreaks
<1>8. \A x : 5 \notin x \/ 6 \in x => x \notin ShiftMakes \cup ShiftBreaks
  BY <1>1 DEF ShiftMakes, ShiftBreaks
<1>. QED
  BY <1>6, <1>7, <1>8

LEMMA DownNone ==
  ASSUME NEW down
  PROVE  Down(<<>>, down) <=> down
BY DEF Down

\* The handler of the first code.
LEMMA DownFirst ==
  ASSUME NEW b \in Bytes, NEW t \in Seq(Bytes), NEW down \in BOOLEAN, Down(t, NextShift(b, down))
  PROVE  Down(<<b>> \o t, down)
<1>. DEFINE u == <<b>> \o t
            n == NextShift(b, down)
<1>1. Len(u) = Len(t) + 1 /\ u[1] = b /\ Len(t) \in Nat
      /\ \A i \in 1 .. Len(t) : u[i + 1] = t[i]
  OBVIOUS
<1>2. /\ b \in ShiftMakes => n = TRUE
      /\ b \notin ShiftMakes /\ b \in ShiftBreaks => n = FALSE
      /\ b \notin ShiftMakes /\ b \notin ShiftBreaks => n = down
  <2>. HIDE DEF ShiftBreaks
  <2>1. CASE b \in ShiftMakes
    <3>1. b \in {Byte(42), Byte(54)} /\ b \notin ShiftBreaks
      BY <2>1, NeutralIs DEF ShiftMakes
    <3>. QED
      BY <2>1, <3>1 DEF NextShift
  <2>2. CASE b \notin ShiftMakes /\ b \in ShiftBreaks
    <3>1. b \notin {Byte(42), Byte(54)}
      BY <2>2 DEF ShiftMakes
    <3>. QED
      BY <2>2, <3>1 DEF NextShift
  <2>3. CASE b \notin ShiftMakes /\ b \notin ShiftBreaks
    <3>1. b \notin {Byte(42), Byte(54)}
      BY <2>3 DEF ShiftMakes
    <3>2. n = down
      BY <2>3, <3>1 DEF NextShift
    <3>. QED
      BY <2>3, <3>2
  <2>. QED
    BY <2>1, <2>2, <2>3
<1>3. Down(t, n)
  OBVIOUS
<1>. HIDE DEF n, u
<1>4. CASE \E i \in 1 .. Len(t) : t[i] \in ShiftMakes /\ \A j \in i + 1 .. Len(t) : t[j] \notin ShiftBreaks
  <2>1. PICK i \in 1 .. Len(t) : t[i] \in ShiftMakes /\ \A j \in i + 1 .. Len(t) : t[j] \notin ShiftBreaks
    BY <1>4
  <2>2. i + 1 \in 1 .. Len(u) /\ u[i + 1] \in ShiftMakes
    BY <1>1, <2>1
  <2>3. \A j \in (i + 1) + 1 .. Len(u) : u[j] \notin ShiftBreaks
    <3>. SUFFICES ASSUME NEW j \in (i + 1) + 1 .. Len(u) PROVE u[j] \notin ShiftBreaks
      OBVIOUS
    <3>1. j - 1 \in i + 1 .. Len(t) /\ j - 1 \in 1 .. Len(t) /\ (j - 1) + 1 = j
      BY <1>1, <2>1
    <3>2. u[(j - 1) + 1] = t[j - 1]
      BY <1>1, <3>1
    <3>. QED
      BY <2>1, <3>1, <3>2
  <2>. QED
    BY <2>2, <2>3 DEF Down, u
<1>5. CASE n /\ \A j \in 1 .. Len(t) : t[j] \notin ShiftBreaks
  <2>1. \A j \in 2 .. Len(u) : u[j] \notin ShiftBreaks
    <3>. SUFFICES ASSUME NEW j \in 2 .. Len(u) PROVE u[j] \notin ShiftBreaks
      OBVIOUS
    <3>1. j - 1 \in 1 .. Len(t) /\ (j - 1) + 1 = j
      BY <1>1
    <3>2. u[(j - 1) + 1] = t[j - 1]
      BY <1>1, <3>1
    <3>. QED
      BY <1>5, <3>1, <3>2
  <2>2. 1 \in 1 .. Len(u) /\ u[1] = b /\ 1 + 1 = 2
    BY <1>1
  <2>3. CASE b \in ShiftMakes
    BY <2>1, <2>2, <2>3 DEF Down, u
  <2>4. CASE b \notin ShiftMakes
    <3>1. down /\ b \notin ShiftBreaks
      BY <1>2, <1>5, <2>4
    <3>2. \A j \in 1 .. Len(u) : j = 1 \/ j \in 2 .. Len(u)
      BY <1>1
    <3>. QED
      BY <2>1, <2>2, <3>1, <3>2 DEF Down, u
  <2>. QED
    BY <2>3, <2>4
<1>. QED
  BY <1>3, <1>4, <1>5 DEF Down

\* What the handler makes of an acknowledgement.
LEMMA AckNeutral ==
  ASSUME NEW down \in BOOLEAN
  PROVE  NextShift(PS2_ACK, down) = down
<1>1. PS2_ACK \notin {Byte(42), Byte(54)} /\ PS2_ACK \notin ShiftBreaks
  BY SaidDiffer DEF ShiftMakes
<1>. HIDE DEF PS2_ACK, ShiftBreaks
<1>. QED
  BY <1>1, Zenon DEF NextShift

\* One more code at the end.
LEMMA DownLast ==
  ASSUME NEW s \in Seq(Bytes), NEW x \in Bytes, NEW down \in BOOLEAN,
         x \notin ShiftMakes, Down(s \o <<x>>, down)
  PROVE  Down(s, down) /\ x \notin ShiftBreaks
<1>. DEFINE u == s \o <<x>>
<1>1. Len(u) = Len(s) + 1 /\ u[Len(s) + 1] = x /\ Len(s) \in Nat
      /\ \A i \in 1 .. Len(s) : u[i] = s[i]
  OBVIOUS
<1>2. CASE \E i \in 1 .. Len(u) : u[i] \in ShiftMakes /\ \A j \in i + 1 .. Len(u) : u[j] \notin ShiftBreaks
  <2>1. PICK i \in 1 .. Len(u) : u[i] \in ShiftMakes /\ \A j \in i + 1 .. Len(u) : u[j] \notin ShiftBreaks
    BY <1>2
  <2>2. i # Len(s) + 1
    BY <1>1, <2>1
  <2>3. i \in 1 .. Len(s) /\ Len(s) + 1 \in i + 1 .. Len(u)
    BY <1>1, <2>2
  <2>4. \A j \in i + 1 .. Len(s) : j \in i + 1 .. Len(u) /\ u[j] = s[j]
    BY <1>1, <2>3
  <2>. HIDE DEF u
  <2>. QED
    BY <1>1, <2>1, <2>3, <2>4 DEF Down
<1>3. CASE down /\ \A j \in 1 .. Len(u) : u[j] \notin ShiftBreaks
  <2>1. Len(s) + 1 \in 1 .. Len(u) /\ \A j \in 1 .. Len(s) : j \in 1 .. Len(u) /\ u[j] = s[j]
    BY <1>1
  <2>. HIDE DEF u
  <2>. QED
    BY <1>1, <1>3, <2>1 DEF Down
<1>. QED
  BY <1>2, <1>3 DEF Down

\* The codes of the keys: only those of the shift keys in scan code set 1 count.
LEMMA MakesAre ==
  /\ \A v \in {30, 14, 28, 18, 89, 102, 240} :
       Byte(v) \notin ShiftMakes \cup ShiftBreaks /\ Byte(v) \in Bytes
  /\ \A v \in {30, 14} : Byte(v) \cup {7} \notin ShiftMakes \cup ShiftBreaks /\ Byte(v) \cup {7} \in Bytes
  /\ Byte(170) \in Bytes /\ Byte(182) \in Bytes
  /\ PS2_ACK \notin ShiftMakes \cup ShiftBreaks
<1>1. \A v : Byte(v) \in Bytes /\ Byte(v) \cup {7} \in Bytes
  BY DEF Byte, Bytes, Bits
<1>2. 5 \notin Byte(30) /\ 5 \notin Byte(14) /\ 5 \notin Byte(28) /\ 5 \notin Byte(18) /\ 5 \notin Byte(89)
  BY BitOf
<1>3. 6 \in Byte(102) /\ 6 \in Byte(240) /\ 6 \in Byte(250)
  BY BitOf
<1>4. \A v \in {30, 14, 28, 18, 89, 102, 240} : Byte(v) \notin ShiftMakes \cup ShiftBreaks
  <2>1. \A v \in {30, 14, 28, 18, 89, 102, 240} : 5 \notin Byte(v) \/ 6 \in Byte(v)
    BY <1>2, <1>3
  <2>. HIDE DEF ShiftMakes, ShiftBreaks, Byte
  <2>. QED
    BY <2>1, NeutralIs
<1>5. \A v \in {30, 14} : Byte(v) \cup {7} \notin ShiftMakes \cup ShiftBreaks
  <2>1. \A v \in {30, 14} : 5 \notin Byte(v) \cup {7}
    BY <1>2
  <2>. DEFINE S == ShiftMakes \cup ShiftBreaks
  <2>2. \A x : 5 \notin x => x \notin S
    BY NeutralIs
  <2>. HIDE DEF S
  <2>3. \A v \in {30, 14} : Byte(v) \cup {7} \notin S
    BY <2>1, <2>2
  <2>. QED
    BY <2>3 DEF S
<1>6. PS2_ACK \notin ShiftMakes \cup ShiftBreaks
  <2>. HIDE DEF ShiftMakes, ShiftBreaks
  <2>. QED
    BY <1>3, NeutralIs DEF PS2_ACK
<1>. HIDE DEF ShiftMakes, ShiftBreaks, Byte, Bytes
<1>7. Byte(170) \in Bytes /\ Byte(182) \in Bytes
  BY <1>1
<1>8. \A v \in {30, 14, 28, 18, 89, 102, 240} : Byte(v) \in Bytes
  BY <1>1
<1>9. \A v \in {30, 14} : Byte(v) \cup {7} \in Bytes
  BY <1>1
<1>. QED
  BY <1>4, <1>5, <1>6, <1>7, <1>8, <1>9

LEMMA KeyCodes ==
  ASSUME NEW key \in DOMAIN Makes, NEW s \in Seq(Bytes), NEW down \in BOOLEAN,
         NEW pressed \in BOOLEAN, NEW set \in {1, 2}
  PROVE  /\ CodesOf(key, pressed, set) \in Seq(Bytes)
         /\ set = 2 \/ key \notin Shifts =>
              (Down(s \o CodesOf(key, pressed, set), down) => Down(s, down))
         /\ set = 1 /\ key \in Shifts /\ ~pressed => ~Down(s \o CodesOf(key, pressed, set), down)
<1>. DEFINE codes == CodesOf(key, pressed, set)
            code == Byte(Makes[key][set])
            y == Byte(240)
<1>a. key \in {"a", "leftShift", "rightShift", "backspace"}
  BY DEF Makes
<1>b. \A x \in Bytes : x \notin ShiftMakes \cup ShiftBreaks => (Down(s \o <<x>>, down) => Down(s, down))
  BY DownLast
<1>c. \A x \in Bytes : x \in ShiftBreaks /\ x \notin ShiftMakes => ~Down(s \o <<x>>, down)
  BY DownLast
<1>d. 1 # 2
  OBVIOUS
<1>e. /\ set = 1 => (codes = <<code>> /\ pressed) \/ (codes = <<code \cup {7}>> /\ ~pressed)
      /\ set = 2 => codes = <<code>> \/ codes = <<y, code>>
  <2>1. /\ set = 1 => codes = <<IF pressed THEN code ELSE code \cup {7}>>
        /\ set = 2 => codes = IF pressed THEN <<code>> ELSE <<y, code>>
    BY <1>d, Zenon DEF CodesOf
  <2>. HIDE DEF codes, code, y
  <2>. QED
    BY <2>1
<1>f. code \in Bytes /\ code \cup {7} \in Bytes /\ y \in Bytes /\ y \notin ShiftMakes \cup ShiftBreaks
  <2>1. \A v : Byte(v) \in Bytes /\ Byte(v) \cup {7} \in Bytes
    BY DEF Byte, Bytes, Bits
  <2>. QED
    BY <2>1, MakesAre
<1>g. /\ set = 2 => code \notin ShiftMakes \cup ShiftBreaks
      /\ set = 1 /\ key \notin Shifts => code \notin ShiftMakes \cup ShiftBreaks
                                       /\ code \cup {7} \notin ShiftMakes \cup ShiftBreaks
      /\ set = 1 /\ key \in Shifts => code \cup {7} \in ShiftBreaks /\ code \cup {7} \notin ShiftMakes
  <2>1. set = 2 => \E v \in {28, 18, 89, 102} : Makes[key][set] = v
    BY <1>a DEF Makes
  <2>2. set = 1 /\ key \notin Shifts => \E v \in {30, 14} : Makes[key][set] = v
    BY <1>a DEF Makes, Shifts
  <2>3. set = 1 /\ key \in Shifts => \E v \in {42, 54} : Makes[key][set] = v
    BY DEF Makes, Shifts
  <2>4. \A v \in {42, 54} : Byte(v) \cup {7} \in ShiftBreaks /\ Byte(v) \cup {7} \notin ShiftMakes
    <3>1. \A v \in {42, 54} : Byte(v) \cup {7} \in {Byte(170), Byte(182)}
      BY NeutralIs
    <3>2. \A v \in {42, 54} : Byte(v) \cup {7} \in ShiftBreaks
      BY <3>1, Zenon DEF ShiftBreaks
    <3>3. \A x : x \in ShiftBreaks => x \notin ShiftMakes
      BY NeutralIs, Zenon
    <3>. QED
      BY <3>2, <3>3, Zenon
  <2>5. /\ \A v \in {28, 18, 89, 102, 30, 14} : Byte(v) \notin ShiftMakes \cup ShiftBreaks
        /\ \A v \in {30, 14} : Byte(v) \cup {7} \notin ShiftMakes \cup ShiftBreaks
    BY MakesAre
  <2>6. ASSUME set = 2 PROVE code \notin ShiftMakes \cup ShiftBreaks
    <3>1. PICK v \in {28, 18, 89, 102} : Makes[key][set] = v
      BY <2>1, <2>6, Zenon
    <3>2. code = Byte(v)
      BY <3>1
    <3>3. v \in {28, 18, 89, 102, 30, 14}
      BY <3>1
    <3>. QED
      BY <2>5, <3>2, <3>3, Zenon
  <2>7. set = 1 /\ key \notin Shifts => code \notin ShiftMakes \cup ShiftBreaks
                                       /\ code \cup {7} \notin ShiftMakes \cup ShiftBreaks
    BY <2>2, <2>5, Zenon
  <2>8. set = 1 /\ key \in Shifts => code \cup {7} \in ShiftBreaks /\ code \cup {7} \notin ShiftMakes
    BY <2>3, <2>4, Zenon
  <2>. QED
    BY <2>6, <2>7, <2>8, Zenon
<1>. HIDE DEF codes, code, y, Shifts, ShiftMakes, ShiftBreaks, Bytes, Makes
<1>1. codes \in Seq(Bytes)
  <2>1. \A x, z \in Bytes : <<x>> \in Seq(Bytes) /\ <<x, z>> \in Seq(Bytes)
    OBVIOUS
  <2>. QED
    BY <1>e, <1>f, <2>1, Zenon
<1>2. ASSUME set = 2
      PROVE  Down(s \o codes, down) => Down(s, down)
  <2>1. s \o <<y, code>> = (s \o <<y>>) \o <<code>> /\ s \o <<y>> \in Seq(Bytes)
    BY <1>f
  <2>2. Down((s \o <<y>>) \o <<code>>, down) => Down(s \o <<y>>, down)
    <3>. DEFINE u == s \o <<y>>
    <3>1. u \in Seq(Bytes) /\ code \in Bytes /\ code \notin ShiftMakes
      BY <1>f, <1>g, <1>2, <2>1
    <3>. HIDE DEF u, Down
    <3>2. Down(u \o <<code>>, down) => Down(u, down)
      BY <3>1, DownLast
    <3>. QED
      BY <3>2 DEF u
  <2>. HIDE DEF Down
  <2>. QED
    BY <1>b, <1>e, <1>f, <1>g, <1>2, <2>1, <2>2
<1>. HIDE DEF Down
<1>3. ASSUME set = 1, key \notin Shifts
      PROVE  Down(s \o codes, down) => Down(s, down)
  BY <1>b, <1>e, <1>f, <1>g, <1>3
<1>4. ASSUME set = 1, key \in Shifts, ~pressed
      PROVE  ~Down(s \o codes, down)
  BY <1>c, <1>e, <1>f, <1>g, <1>4
<1>. QED
  BY <1>1, <1>2, <1>3, <1>4 DEF codes

LEMMA DueAppend ==
  ASSUME MachineTypes, NEW q \in Ports, NEW s \in Seq(Bytes), Live(q), UNCHANGED <<out, config>>,
         dev'[q].queue = dev[q].queue \o s
  PROVE  Due(q)' = Due(q) \o s
<1>1. Live(q)' /\ dev[q].queue \in Seq(Bytes) /\ out.byte \in Bytes
  BY DEF Live, MachineTypes, Devices
<1>2. CASE out.src = q
  <2>1. Due(q) = <<out.byte>> \o dev[q].queue /\ Due(q)' = <<out.byte>> \o (dev[q].queue \o s)
    BY <1>1, <1>2 DEF Due
  <2>. DEFINE a == <<out.byte>>
              b == dev[q].queue
  <2>2. a \in Seq(Bytes) /\ b \in Seq(Bytes)
    BY <1>1
  <2>3. Due(q) = a \o b /\ Due(q)' = a \o (b \o s)
    BY <2>1
  <2>. HIDE DEF a, b
  <2>a. \A x, y, z \in Seq(Bytes) : (x \o y) \o z = x \o (y \o z)
    BY ConcatAssociative
  <2>4. (a \o b) \o s = a \o (b \o s)
    BY <2>2, <2>a, Zenon
  <2>. QED
    BY <2>3, <2>4, Zenon
<1>3. CASE out.src # q
  <2>1. Due(q) = <<>> \o dev[q].queue /\ Due(q)' = <<>> \o (dev[q].queue \o s)
    BY <1>1, <1>3 DEF Due
  <2>. QED
    BY <1>1, <2>1
<1>. QED
  BY <1>2, <1>3

\* A byte that moves into the output buffer is still to be handled.
LEMMA DueSent ==
  ASSUME Types, Types', NEW q \in Ports, DeviceSends(q), UNCHANGED config
  PROVE  \A r \in Ports : Due(r)' = Due(r)
<1>a. MachineTypes /\ MachineTypes'
  BY DEF Types
<1>1. /\ dev[q].queue # <<>> /\ Live(q) /\ ~OutputFull /\ out'.src = q
      /\ dev[q].queue \in Seq(Bytes)
      /\ out'.byte = Head(dev[q].queue)
      /\ dev'[q].queue = Tail(dev[q].queue)
      /\ \A r \in Ports : r # q => dev'[r] = dev[r]
  BY SendsChanges
<1>2. \A r \in Ports : out.src # r
  BY <1>1 DEF OutputFull, Nobody, Ports
<1>3. Due(q)' = Due(q)
  <2>1. Due(q) = dev[q].queue
    BY <1>1, <1>2, <1>a, DueIs
  <2>2. Due(q)' = <<Head(dev[q].queue)>> \o Tail(dev[q].queue)
    BY <1>1, <1>a, DueAfter
  <2>. QED
    BY <1>1, <2>1, <2>2, TailShorter
<1>4. ASSUME NEW r \in Ports, r # q
      PROVE  Due(r)' = Due(r)
  <2>1. Due(r) = IF Live(r) THEN dev[r].queue ELSE <<>>
    BY <1>2, <1>4, <1>a, DueIs
  <2>2. Due(r)' = IF Live(r) THEN dev[r].queue ELSE <<>>
    BY <1>1, <1>4, <1>a, DueAfter
  <2>. QED
    BY <2>1, <2>2
<1>. QED
  BY <1>3, <1>4

\* What the keyboard at port 1 has still to say is as before.
LEMMA FollowingKept ==
  ASSUME Following(1), \A r \in Ports : Due(r)' = Due(r), Same(1), dev'[1].held = dev[1].held,
         UNCHANGED <<todo, in, expects, handler, shift_down>>, out'.src # Controller
  PROVE  Following(1)'
<1>1. Due(1)' = Due(1) /\ Due(2)' = Due(2)
  BY DEF Ports
<1>2. todo # <<>> => Finished(1)'
  <2>. SUFFICES ASSUME todo # <<>> PROVE Finished(1)'
    OBVIOUS
  <2>1. Finished(1)
    BY DEF Following
  <2>2. dev'[1].param = dev[1].param /\ dev'[1].set = dev[1].set
    BY DEF Same
  <2>3. (Calls(1)' <=> Calls(1)) /\ (InputFull' <=> InputFull)
    BY Zenon DEF Calls, InputFull
  <2>. QED
    BY <1>1, <2>1, <2>2, <2>3 DEF Finished
<1>3. Down(Due(1)', shift_down') => dev'[1].held \cap Shifts # {} /\ dev'[1].set = 1
  <2>. HIDE DEF Down, Due
  <2>. QED
    BY <1>1 DEF Following, Same
<1>4. Due(2)' = <<>> /\ handler' = "none" /\ (todo' # <<>> => ~shift_down')
  BY <1>1 DEF Following
<1>. QED
  BY <1>2, <1>3, <1>4 DEF Following

\* A byte that nobody handles before the flush is over is an acknowledgement.
LEMMA FinishedDown ==
  ASSUME Byte(1) \notin Resendable, Finished(1), shift_down = FALSE
  PROVE  Due(1) \in {<<>>, <<PS2_ACK>>} /\ ~Down(Due(1), shift_down)
<1>1. Due(1) \in {<<>>, <<PS2_ACK>>}
  BY DEF Finished
<1>2. PS2_ACK \notin ShiftMakes
  BY SaidDiffer
<1>3. ~Down(<<>>, FALSE) /\ ~Down(<<PS2_ACK>>, FALSE)
  BY <1>2 DEF Down
<1>. QED
  BY <1>1, <1>3

LEMMA FollowingIrq ==
  ASSUME Types, Types', Byte(1) \notin Resendable, KeyboardIrq, Following(1),
         UNCHANGED <<todo, in, expects, handler, dev, config, machine>>
  PROVE  Following(1)'
<1>a. MachineTypes /\ MachineTypes' /\ 1 \in Ports /\ 2 \in Ports
  BY DEF Types, Ports
<1>b. /\ out.src # Controller /\ Due(2) = <<>> /\ handler = "none"
      /\ todo # <<>> => ~shift_down /\ Finished(1)
      /\ Down(Due(1), shift_down) => dev[1].held \cap Shifts # {} /\ dev[1].set = 1
  BY DEF Following
<1>1. out.src = 1
  BY <1>b DEF KeyboardIrq
<1>2. CASE ~keyboard_enabled
  <2>1. out' = [out EXCEPT !.irq = FALSE] /\ UNCHANGED shift_down
    BY <1>2 DEF KeyboardIrq
  <2>2. out'.src = out.src /\ out'.byte = out.byte
    BY <2>1, <1>a DEF MachineTypes
  <2>3. \A r \in Ports : Due(r)' = Due(r)
    BY <2>2 DEF Due, Live
  <2>. QED
    BY <1>b, <2>1, <2>2, <2>3, FollowingKept DEF Same
<1>3. CASE keyboard_enabled
  <2>1. out' = NoByte /\ shift_down' = NextShift(out.byte, shift_down)
    BY <1>3 DEF KeyboardIrq
  <2>2. out'.src = Nobody
    BY <2>1 DEF NoByte
  <2>3. Nobody # 1 /\ Nobody # 2 /\ Nobody # Controller
    BY DEF Nobody, Controller
  <2>4. Due(1)' = IF Live(1) THEN dev[1].queue ELSE <<>>
    BY <1>a, <2>2, <2>3, DueAfter
  <2>5. Due(1) = <<out.byte>> \o Due(1)' /\ Head(Due(1)) = out.byte /\ Tail(Due(1)) = Due(1)'
    <3>1. Due(1) = <<out.byte>> \o (IF Live(1) THEN dev[1].queue ELSE <<>>)
      BY <1>1 DEF Due
    <3>2. Head(Due(1)) = out.byte /\ Tail(Due(1)) = IF Live(1) THEN dev[1].queue ELSE <<>>
      BY <1>a, <1>1, DueIs
    <3>. QED
      BY <2>4, <3>1, <3>2
  <2>6. Due(2)' = <<>>
    <3>1. Due(2)' = IF Live(2) THEN dev[2].queue ELSE <<>>
      BY <1>a, <2>2, <2>3, DueAfter
    <3>2. Live(2) => dev[2].queue = <<>>
      BY <1>a, <1>b, DueIs
    <3>. QED
      BY <3>1, <3>2
  <2>7. Down(Due(1)', shift_down') => dev'[1].held \cap Shifts # {} /\ dev'[1].set = 1
    <3>1. Due(1)' \in Seq(Bytes) /\ out.byte \in Bytes /\ shift_down \in BOOLEAN
      <4>1. Due(1)' \in Seq(Bytes)
        <5>1. dev[1].queue \in Seq(Bytes) /\ <<>> \in Seq(Bytes)
          BY <1>a, BytesJoin DEF MachineTypes, Devices
        <5>. QED
          BY <2>4, <5>1, Zenon
      <4>. QED
        BY <4>1 DEF Types, MachineTypes, FlagTypes
    <3>. DEFINE t == Due(1)'
                b == out.byte
    <3>2. Down(t, NextShift(b, shift_down)) => Down(<<b>> \o t, shift_down)
      <4>. HIDE DEF t, b
      <4>1. t \in Seq(Bytes) /\ b \in Bytes /\ shift_down \in BOOLEAN
        BY <3>1 DEF t, b
      <4>. QED
        BY <4>1, DownFirst
    <3>. HIDE DEF Down, Due
    <3>. QED
      BY <1>b, <2>1, <2>5, <3>2
  <2>8. ASSUME todo' # <<>>
        PROVE  ~shift_down' /\ Finished(1)'
    <3>1. ~shift_down /\ Finished(1) /\ shift_down = FALSE
      BY <1>b, <2>8 DEF Types, FlagTypes
    <3>2. Due(1) \in {<<>>, <<PS2_ACK>>}
      BY <3>1, FinishedDown
    <3>3. Due(1) = <<PS2_ACK>>
      BY <3>2, <1>1, <1>a, DueIs
    <3>4. out.byte = PS2_ACK /\ Due(1)' = <<>>
      BY <2>5, <3>3
    <3>5. ~shift_down'
      BY <2>1, <3>1, <3>4, AckNeutral
    <3>6. ~InputFull /\ ~dev[1].param /\ dev[1].set = 1
      BY <3>1, <3>3 DEF Finished
    <3>. QED
      BY <3>4, <3>5, <3>6 DEF Finished, InputFull
  <2>. QED
    BY <1>b, <2>2, <2>3, <2>6, <2>7, <2>8 DEF Following
<1>. QED
  BY <1>2, <1>3

LEMMA FollowingTakes ==
  ASSUME Types, Types', Byte(1) \notin Resendable, DeviceTakes, HasKeyboard(1), Finishing(1),
         Following(1), UNCHANGED <<todo, out, handler, shift_down, config, machine>>
  PROVE  Following(1)'
<1>a. MachineTypes /\ MachineTypes' /\ 1 \in Ports /\ 2 \in Ports /\ shift_down \in BOOLEAN
  BY DEF Types, FlagTypes, Ports
<1>b. /\ out.src # Controller /\ Due(2) = <<>> /\ handler = "none"
      /\ todo # <<>> => ~shift_down /\ Finished(1)
      /\ Down(Due(1), shift_down) => dev[1].held \cap Shifts # {} /\ dev[1].set = 1
  BY DEF Following
<1>1. in = [byte |-> Byte(1), port |-> "data"] /\ Calls(1) /\ dev[1].param /\ InputFull
  BY DEF Finishing, DeviceTakes, InputFull
<1>2. machine.attached[1] = "keyboard" /\ Live(1)
  BY DEF HasKeyboard
<1>3. /\ in' = NoInput /\ expects' = "port 1"
      /\ \A r \in Ports : r # 1 => dev'[r] = dev[r]
      /\ dev'[1].held = dev[1].held
      /\ ~dev'[1].param /\ dev'[1].set = 1
      /\ dev'[1].queue = Append(dev[1].queue, PS2_ACK)
  BY <1>1, <1>2, <1>a, ParameterTaken
<1>4. Due(2)' = <<>>
  <2>0. 2 # 1
    OBVIOUS
  <2>1. dev'[2] = dev[2]
    BY <1>a, <1>3, <2>0, Zenon
  <2>2. Due(2)' = Due(2)
    BY <2>1, DueKept
  <2>. QED
    BY <1>b, <2>2
<1>5. Due(1)' = Due(1) \o <<PS2_ACK>> /\ Due(1) \in Seq(Bytes) /\ PS2_ACK \in Bytes
  <2>1. PS2_ACK \in Bytes /\ dev[1].queue \in Seq(Bytes)
    BY <1>a, SaidAre DEF MachineTypes, Devices
  <2>2. dev'[1].queue = dev[1].queue \o <<PS2_ACK>> /\ <<PS2_ACK>> \in Seq(Bytes)
    <3>. DEFINE x == PS2_ACK
    <3>1. x \in Bytes /\ dev'[1].queue = Append(dev[1].queue, x)
      BY <1>3, <2>1
    <3>. HIDE DEF x
    <3>2. <<x>> \in Seq(Bytes) /\ Append(dev[1].queue, x) = dev[1].queue \o <<x>>
      BY <2>1, <3>1
    <3>. QED
      BY <3>1, <3>2 DEF x
  <2>3. Due(1)' = Due(1) \o <<PS2_ACK>>
    <3>. DEFINE s == <<PS2_ACK>>
    <3>1. s \in Seq(Bytes) /\ dev'[1].queue = dev[1].queue \o s
      BY <2>2
    <3>. HIDE DEF s
    <3>2. Due(1)' = Due(1) \o s
      BY <1>a, <1>2, <3>1, DueAppend
    <3>. QED
      BY <3>2 DEF s
  <2>. QED
    BY <1>a, <2>1, <2>3, DueIs
<1>6. Down(Due(1)', shift_down') => dev'[1].held \cap Shifts # {} /\ dev'[1].set = 1
  <2>. DEFINE s == Due(1)
  <2>1. Down(s \o <<PS2_ACK>>, shift_down) => Down(s, shift_down)
    <3>1. PS2_ACK \notin ShiftMakes
      BY SaidDiffer
    <3>2. s \in Seq(Bytes)
      BY <1>5
    <3>. HIDE DEF s
    <3>. QED
      BY <1>a, <1>5, <3>1, <3>2, DownLast
  <2>. HIDE DEF Down, Due
  <2>. QED
    BY <1>b, <1>3, <1>5, <2>1
<1>7. ASSUME todo' # <<>>
      PROVE  ~shift_down' /\ Finished(1)'
  <2>1. ~shift_down /\ Finished(1)
    BY <1>b, <1>7
  <2>2. Due(1) = <<>>
    BY <1>1, <2>1 DEF Finished
  <2>3. Due(1)' = <<PS2_ACK>>
    <3>1. <<>> \o <<PS2_ACK>> = <<PS2_ACK>>
      OBVIOUS
    <3>. QED
      BY <1>5, <2>2, <3>1
  <2>. QED
    BY <1>3, <2>1, <2>3 DEF Finished, InputFull, NoInput
<1>. QED
  BY <1>b, <1>4, <1>6, <1>7 DEF Following

LEMMA FollowingKey ==
  ASSUME Types, Types', NEW key \in Keys, Key(1, key), HasKeyboard(1), Following(1), dev[1].scanning,
         UNCHANGED <<todo, in, out, expects, handler, shift_down, config, machine>>
  PROVE  Following(1)'
<1>a. MachineTypes /\ MachineTypes' /\ 1 \in Ports /\ 2 \in Ports /\ shift_down \in BOOLEAN
  BY DEF Types, FlagTypes, Ports
<1>b. /\ out.src # Controller /\ Due(2) = <<>> /\ handler = "none"
      /\ Down(Due(1), shift_down) => dev[1].held \cap Shifts # {} /\ dev[1].set = 1
  BY DEF Following
<1>c. key \in DOMAIN Makes
  BY KeyboardAssumption
<1>1. /\ todo = <<>>
      /\ \A r \in Ports : Same(r) /\ (r # 1 => dev'[r] = dev[r])
      /\ dev[1] \in Devices
      /\ key \notin dev[1].held =>
           /\ dev'[1].held = dev[1].held \cup {key}
           /\ dev'[1].queue = dev[1].queue \o CodesOf(key, TRUE, dev[1].set)
      /\ key \in dev[1].held =>
           /\ dev'[1].held = dev[1].held \ {key}
           /\ dev'[1].queue = dev[1].queue \o CodesOf(key, FALSE, dev[1].set)
  BY <1>a, KeyChanges
<1>2. Due(2)' = <<>>
  BY <1>a, <1>b, <1>1 DEF Due, Live
<1>. DEFINE pressed == key \notin dev[1].held
            codes == CodesOf(key, pressed, dev[1].set)
            s == Due(1)
<1>3. /\ pressed \in BOOLEAN
      /\ dev'[1].queue = dev[1].queue \o codes
      /\ pressed => dev'[1].held = dev[1].held \cup {key}
      /\ ~pressed => dev'[1].held = dev[1].held \ {key}
  <2>. HIDE DEF CodesOf
  <2>1. CASE pressed
    <3>1. pressed = TRUE
      BY <2>1
    <3>. QED
      BY <1>1, <2>1, <3>1
  <2>2. CASE ~pressed
    <3>1. pressed = FALSE
      BY <2>2
    <3>. QED
      BY <1>1, <2>2, <3>1
  <2>. QED
    BY <2>1, <2>2
<1>4. dev[1].set \in {1, 2} /\ dev'[1].set = dev[1].set /\ Live(1)
  BY <1>a, <1>1 DEF Devices, Same, HasKeyboard
<1>5. /\ s \in Seq(Bytes) /\ codes \in Seq(Bytes)
      /\ dev[1].set = 2 \/ key \notin Shifts => (Down(s \o codes, shift_down) => Down(s, shift_down))
      /\ dev[1].set = 1 /\ key \in Shifts /\ ~pressed => ~Down(s \o codes, shift_down)
  <2>. DEFINE set == dev[1].set
  <2>1. s \in Seq(Bytes) /\ set \in {1, 2}
    BY <1>a, <1>4, DueIs
  <2>. HIDE DEF s, pressed, set, CodesOf, Down, Shifts
  <2>2. /\ CodesOf(key, pressed, set) \in Seq(Bytes)
        /\ set = 2 \/ key \notin Shifts =>
             (Down(s \o CodesOf(key, pressed, set), shift_down) => Down(s, shift_down))
        /\ set = 1 /\ key \in Shifts /\ ~pressed => ~Down(s \o CodesOf(key, pressed, set), shift_down)
    BY <1>a, <1>c, <1>3, <2>1, KeyCodes
  <2>. QED
    BY <2>1, <2>2 DEF set
<1>6. Due(1)' = s \o codes
  <2>. HIDE DEF codes
  <2>. QED
    BY <1>a, <1>3, <1>4, <1>5, DueAppend
<1>7. Down(s \o codes, shift_down) => dev'[1].held \cap Shifts # {} /\ dev'[1].set = 1
  <2>. HIDE DEF pressed, codes, s, Down
  <2>1. CASE dev[1].set = 2
    BY <1>b, <1>5, <2>1 DEF s
  <2>2. CASE dev[1].set = 1 /\ key \notin Shifts
    <3>2. dev[1].held \cap Shifts # {} => dev'[1].held \cap Shifts # {}
      BY <1>3, <2>2
    <3>. QED
      BY <1>b, <1>4, <1>5, <2>2, <3>2 DEF s
  <2>3. CASE dev[1].set = 1 /\ key \in Shifts /\ pressed
    BY <1>3, <1>4, <2>3
  <2>4. CASE dev[1].set = 1 /\ key \in Shifts /\ ~pressed
    BY <1>5, <2>4
  <2>. QED
    BY <1>4, <2>1, <2>2, <2>3, <2>4
<1>. QED
  <2>1. Down(Due(1)', shift_down') => dev'[1].held \cap Shifts # {} /\ dev'[1].set = 1
    <3>. HIDE DEF Down, s, codes
    <3>. QED
      BY <1>6, <1>7
  <2>. QED
    BY <1>b, <1>1, <1>2, <2>1 DEF Following

\* The keyboard at port 1 is followed through what the others do.
LEMMA FollowingFirst ==
  ASSUME Types, Types', Configured, Others, todo \in {<<>>, <<<<"flush">>>>}, Scans,
         TypedOn \subseteq {1}, Byte(1) \notin Resendable,
         HasKeyboard(1), Finishing(1), Following(1), in.port # "command"
  PROVE  Following(1)'
<1>a. MachineTypes /\ MachineTypes' /\ 1 \in Ports /\ 2 \in Ports /\ 1 # 2
  BY DEF Types, Ports
<1>b. out.src # Controller /\ Due(2) = <<>> /\ handler = "none"
  BY DEF Following
<1>c. out.src # 2 /\ (Live(2) => dev[2].queue = <<>>)
  BY <1>a, <1>b, DueIs
<1>1. /\ UNCHANGED <<todo, port1, port2, identity, machine, config, keyboard_enabled>>
      /\ \/ MouseHandler /\ UNCHANGED <<in, expects, dev, shift_down>>
         \/ KeyboardIrq /\ UNCHANGED <<in, expects, dev, handler>>
         \/ DeviceTakes /\ UNCHANGED <<out, handler, shift_down>>
         \/ \E q \in Ports : DeviceSends(q) /\ UNCHANGED <<in, expects, handler, shift_down>>
         \/ \E q \in TypedOn, key \in Keys :
              Key(q, key) /\ UNCHANGED <<in, out, expects, handler, shift_down>>
         \/ UNCHANGED <<in, out, expects, dev, handler, shift_down>>
  BY LateOthers
<1>2. CASE MouseHandler
  BY <1>b, <1>c, <1>2 DEF MouseHandler, EnterMouseIrq, MouseIrq
<1>3. CASE KeyboardIrq /\ UNCHANGED <<in, expects, dev, handler>>
  BY <1>1, <1>3, FollowingIrq
<1>4. CASE DeviceTakes /\ UNCHANGED <<out, handler, shift_down>>
  BY <1>1, <1>4, FollowingTakes
<1>5. ASSUME NEW q \in Ports, DeviceSends(q), UNCHANGED <<in, expects, handler, shift_down>>
      PROVE  Following(1)'
  <2>1. q = 1
    <3>1. q # 2
      BY <1>c, <1>5, SendsChanges
    <3>. QED
      BY <3>1 DEF Ports
  <2>2. Same(1) /\ dev'[1].held = dev[1].held /\ out'.src = 1
    BY <1>a, <1>5, <2>1, SendsChanges
  <2>3. out'.src # Controller
    BY <2>2 DEF Controller
  <2>4. \A r \in Ports : Due(r)' = Due(r)
    BY <1>1, <1>5, DueSent
  <2>. QED
    BY <1>1, <1>5, <2>2, <2>3, <2>4, FollowingKept
<1>6. ASSUME NEW q \in TypedOn, NEW key \in Keys, Key(q, key),
             UNCHANGED <<in, out, expects, handler, shift_down>>
      PROVE  Following(1)'
  <2>1. q = 1
    OBVIOUS
  <2>2. dev[1].scanning
    <3>1. Identity(1) # <<>>
      <4>1. Live(1) /\ machine.attached[1] # "none"
        BY DEF HasKeyboard
      <4>. QED
        BY <1>a, <4>1, IdentityIs
    <3>. QED
      BY <3>1 DEF Scans
  <2>3. Key(1, key)
    BY <1>6, <2>1
  <2>. QED
    BY <1>1, <1>6, <2>2, <2>3, FollowingKey
<1>7. CASE UNCHANGED <<in, out, expects, dev, handler, shift_down>>
  <2>1. \A r \in Ports : Due(r)' = Due(r)
    BY <1>1, <1>7, DueKept
  <2>2. Same(1) /\ dev'[1].held = dev[1].held
    BY <1>7 DEF Same
  <2>. QED
    BY <1>1, <1>7, <1>b, <2>1, <2>2, FollowingKept
<1>. QED
  BY <1>1, <1>2, <1>3, <1>4, <1>5, <1>6, <1>7

\* What may happen at port 1 when the keyboard is at port 2: nothing.
LEMMA FollowingSecond ==
  ASSUME Types, Types', Configured, Others, todo \in {<<>>, <<<<"flush">>>>},
         TypedOn \subseteq {1}, HasKeyboard(2), Finishing(2), Following(2), in.port # "command"
  PROVE  Following(2)'
<1>a. MachineTypes /\ MachineTypes' /\ 1 \in Ports /\ 2 \in Ports /\ 1 # 2
  BY DEF Types, Ports
<1>b. out.src # Controller /\ Due(1) = <<>> /\ ~shift_down
  BY <1>a DEF Following
<1>c. out.src # 1 /\ (Live(1) => dev[1].queue = <<>>)
  BY <1>a, <1>b, DueIs
<1>1. /\ UNCHANGED <<todo, port1, port2, identity, machine, config, keyboard_enabled>>
      /\ \/ MouseHandler /\ UNCHANGED <<in, expects, dev, shift_down>>
         \/ KeyboardIrq /\ UNCHANGED <<in, expects, dev, handler>>
         \/ DeviceTakes /\ UNCHANGED <<out, handler, shift_down>>
         \/ \E q \in Ports : DeviceSends(q) /\ UNCHANGED <<in, expects, handler, shift_down>>
         \/ \E q \in TypedOn, key \in Keys :
              Key(q, key) /\ UNCHANGED <<in, out, expects, handler, shift_down>>
         \/ UNCHANGED <<in, out, expects, dev, handler, shift_down>>
  BY LateOthers
<1>2. SUFFICES out'.src # Controller /\ Due(1)' = <<>> /\ ~shift_down'
  BY <1>a DEF Following
<1>3. ~KeyboardIrq
  BY <1>b, <1>c DEF KeyboardIrq
<1>4. CASE MouseHandler /\ UNCHANGED <<in, expects, dev, shift_down>>
  <2>1. out'.src \in {out.src, Nobody}
    <3>0. out \in [byte : Bytes, src : {Nobody, 1, 2, Controller}, irq : BOOLEAN]
      BY <1>a DEF MachineTypes
    <3>1. out' = [out EXCEPT !.irq = FALSE] \/ out' = NoByte \/ out' = out
      BY <1>4 DEF MouseHandler, EnterMouseIrq, MouseIrq, Discarded
    <3>2. NoByte.src = Nobody
      BY DEF NoByte
    <3>3. out' = [out EXCEPT !.irq = FALSE] => out'.src = out.src
      BY <3>0
    <3>. QED
      BY <3>1, <3>2, <3>3
  <2>2. out'.src # 1 /\ out'.src # Controller
    BY <1>b, <1>c, <2>1 DEF Nobody, Controller
  <2>3. Due(1)' = IF Live(1) THEN dev'[1].queue ELSE <<>>
    BY <1>1, <1>a, <2>2, DueAfter
  <2>. QED
    BY <1>b, <1>c, <1>4, <2>2, <2>3
<1>5. CASE DeviceTakes /\ UNCHANGED <<out, handler, shift_down>>
  <2>1. in = [byte |-> Byte(1), port |-> "data"] /\ Calls(2) /\ dev[2].param
    BY <1>5 DEF Finishing, DeviceTakes, InputFull
  <2>2. machine.attached[2] = "keyboard"
    BY DEF HasKeyboard
  <2>3. dev'[1] = dev[1]
    <3>1. \A r \in Ports : r # 2 => dev'[r] = dev[r]
      BY <1>a, <1>5, <2>1, <2>2, ParameterTaken
    <3>. QED
      BY <1>a, <3>1, Zenon
  <2>4. Due(1)' = Due(1)
    BY <1>1, <1>5, <2>3, DueKept
  <2>. QED
    BY <1>b, <1>5, <2>4
<1>6. ASSUME NEW q \in Ports, DeviceSends(q), UNCHANGED shift_down
      PROVE  out'.src # Controller /\ Due(1)' = <<>> /\ ~shift_down'
  <2>1. out'.src = q /\ \A r \in Ports : Due(r)' = Due(r)
    BY <1>1, <1>6, DueSent, SendsChanges
  <2>2. q # Controller
    BY DEF Ports, Controller
  <2>. QED
    BY <1>a, <1>b, <1>6, <2>1, <2>2
<1>7. ASSUME NEW q \in TypedOn, NEW key \in Keys, Key(q, key), UNCHANGED <<out, shift_down>>
      PROVE  out'.src # Controller /\ Due(1)' = <<>> /\ ~shift_down'
  <2>1. q = 1 /\ machine.attached[1] = "keyboard"
    <3>1. q = 1
      OBVIOUS
    <3>. QED
      BY <1>a, <1>7, <3>1, KeyChanges
  <2>2. ~Live(1)
    <3>1. Len(Identity(1)) # 2
      BY DEF HasKeyboard
    <3>. QED
      BY <1>a, <2>1, <3>1, IdentityIs
  <2>3. Due(1)' = IF Live(1) THEN dev'[1].queue ELSE <<>>
    BY <1>1, <1>7, <1>a, <1>c, DueAfter
  <2>. QED
    BY <1>b, <1>7, <2>2, <2>3
<1>8. CASE UNCHANGED <<in, out, expects, dev, handler, shift_down>>
  <2>1. Due(1)' = Due(1)
    BY <1>1, <1>8, DueKept
  <2>. QED
    BY <1>b, <1>8, <2>1
<1>. QED
  BY <1>1, <1>3, <1>4, <1>5, <1>6, <1>7, <1>8

LEMMA EnabledOthers ==
  ASSUME Types, Types', Configured, Others, Enabled
  PROVE  Enabled'
<1>0. PICK p \in Ports : p = PortUsed
  BY DEF PortUsed, Ports
<1>1. p \in Ports /\ HasKeyboard(p) /\ Finishing(p)
      /\ (TypedOn \subseteq {1} /\ Byte(1) \notin Resendable => Following(p))
  BY <1>0 DEF Enabled
<1>2. in.port # "command"
  <2>1. CASE in = [byte |-> Byte(1), port |-> "data"]
    <3>1. in.port = "data"
      BY <2>1
    <3>. QED
      BY <3>1
  <2>. QED
    BY <1>1, <2>1 DEF Finishing, InputFull
<1>3. Known /\ Scans /\ todo \in {<<>>, <<<<"flush">>>>}
  BY DEF Enabled
<1>4. UNCHANGED <<todo, port1, port2, identity, machine, config>>
  BY <1>2, <1>3, LateOthers
<1>5. Finishing(p)' /\ Scans'
  BY <1>1, <1>3, FinishingOthers
<1>6. Known' /\ HasKeyboard(p)' /\ PortUsed' = p
  <2>1. (Known' <=> Known) /\ (HasKeyboard(p)' <=> HasKeyboard(p)) /\ PortUsed' = PortUsed
    BY <1>4, IdentitiesStay
  <2>. QED
    BY <1>0, <1>1, <1>3, <2>1
<1>7. ASSUME TypedOn \subseteq {1}, Byte(1) \notin Resendable
      PROVE  Following(p)'
  <2>1. Following(p)
    BY <1>1, <1>7
  <2>2. p = 1 \/ p = 2
    BY <1>1 DEF Ports
  <2>3. CASE p = 1
    <3>1. HasKeyboard(1) /\ Finishing(1) /\ Following(1)
      BY <1>1, <2>1, <2>3
    <3>2. Following(1)'
      BY <1>2, <1>3, <1>7, <3>1, FollowingFirst
    <3>. QED
      BY <2>3, <3>2
  <2>4. CASE p = 2
    <3>1. HasKeyboard(2) /\ Finishing(2) /\ Following(2)
      BY <1>1, <2>1, <2>4
    <3>2. Following(2)'
      BY <1>2, <1>3, <1>7, <3>1, FollowingSecond
    <3>. QED
      BY <2>4, <3>2
  <2>. QED
    BY <2>2, <2>3, <2>4
<1>. QED
  BY <1>3, <1>4, <1>5, <1>6, <1>7 DEF Enabled

\* The flush: what it discards is no code of a key.
LEMMA EnabledThread ==
  ASSUME Types, Types', Configured, Thread, Enabled
  PROVE  Enabled'
<1>a. MachineTypes /\ MachineTypes' /\ 1 \in Ports /\ 2 \in Ports /\ 1 # 2
  BY DEF Types, Ports
<1>0. PICK p \in Ports : p = PortUsed
  BY DEF PortUsed, Ports
<1>1. p \in Ports /\ HasKeyboard(p) /\ Finishing(p)
      /\ (TypedOn \subseteq {1} /\ Byte(1) \notin Resendable => Following(p))
  BY <1>0 DEF Enabled
<1>2. Known /\ Scans /\ todo \in {<<>>, <<<<"flush">>>>}
  BY DEF Enabled
<1>3. /\ Speaks /\ UNCHANGED in /\ todo = <<<<"flush">>>>
      /\ \/ todo' = todo /\ out' = NoByte
         \/ todo' = <<>> /\ ~OutputFull /\ out' = out
  BY <1>2, FlushAlone
<1>4. UNCHANGED <<machine, config, port1, port2, identity, dev, shift_down, expects, handler, in>>
  BY <1>3 DEF Speaks
<1>5. todo' \in {<<>>, <<<<"flush">>>>} /\ todo # <<>>
  BY <1>3
<1>6. Known' /\ HasKeyboard(p)' /\ PortUsed' = p /\ Identity(1)' = Identity(1)
  <2>1. (Known' <=> Known) /\ (HasKeyboard(p)' <=> HasKeyboard(p)) /\ PortUsed' = PortUsed
        /\ Identity(1)' = Identity(1)
    BY <1>4, IdentitiesStay
  <2>. QED
    BY <1>0, <1>1, <1>2, <2>1
<1>7. Scans'
  BY <1>2, <1>4, <1>6 DEF Scans
<1>8. Finishing(p)'
  BY <1>1, <1>4 DEF Finishing, Calls, InputFull
<1>10. out'.src \in {Nobody}
  BY <1>3 DEF NoByte, OutputFull
<1>11. \A r \in Ports : Due(r)' = IF Live(r) THEN dev[r].queue ELSE <<>>
  <2>1. \A r \in Ports : out'.src # r
    BY <1>10 DEF Ports, Nobody
  <2>. QED
    BY <1>a, <1>4, <2>1, DueAfter
<1>12. \A r \in Ports : Due(r) = <<>> => Due(r)' = <<>>
  BY <1>a, <1>11, DueIs
<1>13. out'.src # Controller
  BY <1>10 DEF Nobody, Controller
<1>14. ASSUME TypedOn \subseteq {1}, Byte(1) \notin Resendable
       PROVE  Following(p)'
  <2>1. Following(p)
    BY <1>1, <1>14
  <2>2. p = 1 \/ p = 2
    BY <1>1 DEF Ports
  <2>3. CASE p = 1
    <3>1. Due(2) = <<>> /\ handler = "none" /\ shift_down = FALSE /\ Finished(1)
      BY <1>5, <2>1, <2>3 DEF Following, Types, FlagTypes
    <3>2. Due(2)' = <<>> /\ handler' = "none" /\ shift_down' = FALSE
      BY <1>a, <1>4, <1>12, <3>1
    <3>3. Finished(1)'
      <4>1. Due(1)' \in {<<>>, Due(1)} \cup {<<>>}
        <5>1. Due(1) \in {<<>>, <<PS2_ACK>>}
          BY <1>14, <3>1 DEF Finished
        <5>2. CASE Due(1) = <<>>
          BY <1>a, <1>12, <5>2
        <5>3. CASE Due(1) = <<PS2_ACK>>
          <6>1. CASE out.src = 1
            <7>1. Due(1)' = Tail(Due(1))
              BY <1>a, <1>11, <6>1, DueIs
            <7>2. Tail(<<PS2_ACK>>) = <<>>
              OBVIOUS
            <7>. QED
              BY <5>3, <7>1, <7>2
          <6>2. CASE out.src # 1
            BY <1>a, <1>11, <6>2, DueIs
          <6>. QED
            BY <6>1, <6>2
        <5>. QED
          BY <5>1, <5>2, <5>3
      <4>2. (Calls(1)' <=> Calls(1)) /\ (InputFull' <=> InputFull)
        BY <1>4, Zenon DEF Calls, InputFull
      <4>3. Due(1) = <<>> => Due(1)' = <<>>
        BY <4>1
      <4>4. Due(1) \in {<<>>, <<PS2_ACK>>} => Due(1)' \in {<<>>, <<PS2_ACK>>}
        BY <4>1
      <4>. QED
        BY <1>4, <3>1, <4>2, <4>3, <4>4 DEF Finished
    <3>4. ~Down(Due(1)', shift_down')
      <4>1. Due(1)' \in {<<>>, <<PS2_ACK>>}
        BY <1>14, <3>3 DEF Finished
      <4>2. ~Down(<<>>, FALSE) /\ ~Down(<<PS2_ACK>>, FALSE)
        <5>1. PS2_ACK \notin ShiftMakes
          BY SaidDiffer
        <5>. QED
          BY <5>1 DEF Down
      <4>. HIDE DEF Down, Due
      <4>. QED
        BY <3>2, <4>1, <4>2
    <3>5. Following(1)'
      BY <1>13, <3>2, <3>3, <3>4, <1>a DEF Following
    <3>. QED
      BY <2>3, <3>5
  <2>4. CASE p = 2
    <3>1. Due(1) = <<>> /\ ~shift_down
      BY <1>a, <2>1, <2>4 DEF Following
    <3>2. Due(1)' = <<>> /\ ~shift_down'
      BY <1>a, <1>4, <1>12, <3>1
    <3>3. Following(2)'
      BY <1>13, <3>2, <1>a DEF Following
    <3>. QED
      BY <2>4, <3>3
  <2>. QED
    BY <2>2, <2>3, <2>4
<1>. QED
  BY <1>1, <1>5, <1>6, <1>7, <1>8, <1>14 DEF Enabled

-----------------------------------------------------------------------------
(* The first dialogue begins.                                              *)

\* Before it no device is touched, no error is noted, and no key is handled.
LEMMA FreshThread ==
  ASSUME Places, Fresh, Thread
  PROVE  Fresh'
<1>1. Working(todo)
  BY PlacesBusy
<1>2. ~PollTimedOut /\ ~AckTest /\ ~ScanningDisabled /\ ~IdByte
  <2>1. todo[1][1] \notin {"poll", "ack_test", "disabled", "id_byte"}
    BY <1>1 DEF Working, SetupOps
  <2>. QED
    BY <2>1, Heads, Zenon DEF At
<1>3. UNCHANGED <<ps2_error, dev, shift_down>>
  <2>1. CASE LoudThread /\ Untouched
    BY <2>1, Zenon DEF LoudThread, ReadData, CheckPs2, FirstCheck, SelfTest, SecondTest, SecondCheck,
       Port1Test, Port2Test, PortTest, TestPort2, EnablePorts, EnableInterrupts, Local, controller, driver,
       Untouched
  <2>2. CASE QuietThread /\ Untouched
    BY <1>2, <2>2, Zenon DEF QuietThread, Out, Flush, WritePort, WaitForAck, PollReceived,
       AckTime, Identify, IdLoop, IdWait, Identified, Initialized,
       KeyboardInit, Check, Enable, Local, controller, driver, Untouched
  <2>3. CASE Enable
    BY <2>3, Zenon DEF Enable, Local, controller, driver
  <2>. QED
    BY <2>1, <2>2, <2>3, ThreadIsOne
<1>. QED
  BY <1>3 DEF Fresh

LEMMA FreshOthers ==
  ASSUME Early, Places, Fresh, Others
  PROVE  Fresh'
<1>1. todo # <<>>
  BY PlacesBusy DEF Working
<1>2. ~DeviceTakes /\ \A p \in Ports : ~DeviceSends(p)
  BY DEF Early, DeviceTakes, DeviceSends
<1>3. ~User
  BY <1>1 DEF User, Key
<1>4. UNCHANGED <<ps2_error, dev, shift_down>>
  <2>1. CASE MouseHandler
    BY <2>1, Zenon DEF MouseHandler, EnterMouseIrq, MouseIrq, driver
  <2>2. CASE KeyboardIrq
    <3>1. ~keyboard_enabled
      BY DEF Early
    <3>. QED
      BY <2>2, <3>1, Zenon DEF KeyboardIrq, driver
  <2>3. CASE Machinery
    BY <1>2, <2>3, Zenon DEF Machinery, Hardware, ControllerAnswers, ControllerObeys, TakesConfig,
       Tick, Silent, driver
  <2>4. CASE Halt \/ UNCHANGED vars
    BY <2>4, Zenon DEF Halt, vars, ps2vars, driver
  <2>. QED
    BY <1>3, <2>1, <2>2, <2>3, <2>4 DEF Others
<1>. QED
  BY <1>4 DEF Fresh

Begins == Types /\ Begun /\ Fresh => Identifying1

LEMMA FirstBegins == Begins
<1>. SUFFICES ASSUME Types, Begun, Fresh PROVE Identifying1
  BY DEF Begins
<1>a. MachineTypes /\ 1 \in Ports /\ 2 \in Ports
  BY DEF Types, Ports
<1>1. /\ handler = "none" /\ ~keyboard_enabled /\ ~ps2_initialized /\ ~InputFull /\ ~OutputFull
      /\ todo = AtIdentify /\ expects = "port 1"
  BY DEF Begun, Early, Idle
<1>2. /\ ~ps2_error /\ ~shift_down
      /\ \A r \in Ports : dev[r].queue = <<>> /\ ~dev[r].param /\ dev[r].resends = 0
  BY DEF Fresh
<1>3. out.src = Nobody
  BY <1>1 DEF OutputFull
<1>4. \A r \in Ports : Due(r) = <<>>
  <2>1. \A r \in Ports : out.src # r
    BY <1>3 DEF Ports, Nobody
  <2>. QED
    BY <1>2, <1>a, <2>1, DueIs
<1>5. PICK d : d = DialogueWith(1)
  OBVIOUS
<1>6. d.port = 1 /\ d.to = 1
  BY <1>5 DEF DialogueWith, Reached
<1>7. Quiet(d)
  <2>1. Due(Other(d.to)) = <<>> /\ ~dev[Other(d.to)].param
    <3>1. Other(d.to) = 2
      BY <1>6 DEF Other
    <3>. QED
      BY <1>a, <1>2, <1>4, <3>1
  <2>2. out.src # Controller
    BY <1>3 DEF Controller, Nobody
  <2>3. in.port # "data"
    BY <1>1 DEF InputFull
  <2>4. \A r \in Ports : dev[r].resends <= MaxResends
    <3>1. MaxResends \in Nat
      BY Ps2Assumption
    <3>. QED
      BY <1>2, <3>1
  <2>. QED
    BY <1>1, <1>2, <2>1, <2>2, <2>3, <2>4 DEF Quiet
<1>8. Talk(d, AtIdentified1)
  <2>1. todo = Before(<<"identify", d.port>>, AtIdentified1)
    BY <1>1, <1>6 DEF AtIdentify, AtIdentified1, AtIdentify2, AtIdentified2, AtDone
  <2>2. PS2_DISABLE_SCANNING # Byte(1)
    BY SaidDiffer
  <2>3. Still(d, PS2_DISABLE_SCANNING)
    BY <1>1, <1>2, <1>4, <1>6, <1>a, <2>2 DEF Still, Empty, Ready
  <2>. QED
    BY <1>2, <2>1, <2>3 DEF Talk, Clean
<1>. QED
  BY <1>1, <1>5, <1>7, <1>8 DEF Identifying1

-----------------------------------------------------------------------------
(* No key is pressed before the driver is done.                            *)

LEMMA WritesBusy ==
  ASSUME NEW d \in Dialogue, NEW c \in Bytes, NEW M \in Seq(AllOps), Writes(d, c, M)
  PROVE  todo # <<>>
<1>1. d.port \in Ports
  BY DEF Dialogue
<1>2. /\ <<"write", d.port, c>> \in AllOps /\ ps2_write_data(c) \in AllOps
      /\ ps2_send_cmd(PS2_WRITE_BYTE_INPUT_PORT_2) \in AllOps
  BY <1>1, OpsHave
<1>3. Before(ps2_write_data(c), M) \in Seq(AllOps)
  BY <1>2, BeforeHas
<1>4. /\ Before(<<"write", d.port, c>>, M) # <<>> /\ Before(ps2_write_data(c), M) # <<>>
      /\ Before(ps2_send_cmd(PS2_WRITE_BYTE_INPUT_PORT_2), Before(ps2_write_data(c), M)) # <<>>
  BY <1>2, <1>3, BeforeHas
<1>. QED
  BY <1>4 DEF Writes

LEMMA CommandBusy ==
  ASSUME NEW d \in Dialogue, NEW c \in Bytes, NEW N \in Seq(AllOps)
  PROVE  /\ AckOps(d, c, N) \in Seq(AllOps)
         /\ Commanding(d, c, N) \/ Acknowledging(d, c, N) => todo # <<>>
<1>1. d.port \in Ports
  BY DEF Dialogue
<1>2. /\ <<"ack", d.port, c>> \in AllOps /\ <<"ack_test", d.port, c>> \in AllOps
      /\ <<"ack_time", d.port, c>> \in AllOps /\ <<"poll">> \in AllOps
  BY <1>1, OpsHave
<1>3. /\ AckOps(d, c, N) \in Seq(AllOps) /\ AckOps(d, c, N) # <<>>
      /\ TestOps(d, c, N) \in Seq(AllOps) /\ TestOps(d, c, N) # <<>>
      /\ TimeOps(d, c, N) \in Seq(AllOps) /\ TimeOps(d, c, N) # <<>>
  BY <1>2, BeforeHas DEF AckOps, TestOps, TimeOps
<1>4. Before(<<"poll">>, TestOps(d, c, N)) # <<>>
  BY <1>2, <1>3, BeforeHas
<1>5. Writes(d, c, AckOps(d, c, N)) \/ Writes(d, c, TimeOps(d, c, N)) => todo # <<>>
  BY <1>3, WritesBusy
<1>. HIDE DEF Writes, AckOps, TestOps, TimeOps
<1>. QED
  BY <1>3, <1>4, <1>5 DEF Commanding, Acknowledging

LEMMA TalkBusy ==
  ASSUME NEW d \in Dialogue, NEW N \in Seq(AllOps), N # <<>>, Talk(d, N)
  PROVE  todo # <<>>
<1>1. d.port \in Ports
  BY DEF Dialogue
<1>2. /\ <<"identify", d.port>> \in AllOps /\ <<"disabled", d.port>> \in AllOps
      /\ <<"id_loop", d.port>> \in AllOps /\ <<"id_wait", d.port>> \in AllOps
      /\ <<"id_byte", d.port>> \in AllOps /\ <<"poll">> \in AllOps
  BY <1>1, SaidAre, OpsHave
<1>3. /\ Before(<<"identify", d.port>>, N) # <<>>
      /\ DisabledOps(d, N) \in Seq(AllOps) /\ DisabledOps(d, N) # <<>>
      /\ LoopOps(d, N) \in Seq(AllOps) /\ LoopOps(d, N) # <<>>
      /\ WaitOps(d, N) # <<>>
      /\ ByteOps(d, N) \in Seq(AllOps) /\ ByteOps(d, N) # <<>>
  BY <1>2, BeforeHas DEF DisabledOps, LoopOps, WaitOps, ByteOps
<1>4. Before(<<"poll">>, ByteOps(d, N)) # <<>>
  BY <1>2, <1>3, BeforeHas
<1>5. PS2_DISABLE_SCANNING \in Bytes /\ PS2_IDENTIFY \in Bytes /\ PS2_ENABLE_SCANNING \in Bytes
  BY SaidAre
<1>6. /\ Commanding(d, PS2_DISABLE_SCANNING, DisabledOps(d, N)) => todo # <<>>
      /\ Commanding(d, PS2_IDENTIFY, LoopOps(d, N)) => todo # <<>>
      /\ Commanding(d, PS2_ENABLE_SCANNING, N) => todo # <<>>
  BY <1>3, <1>5, CommandBusy
<1>. HIDE DEF Commanding, DisabledOps, LoopOps, WaitOps, ByteOps
<1>. QED
  BY <1>3, <1>4, <1>6 DEF Talk

LEMMA CorrectingBusy ==
  ASSUME NEW d \in Dialogue, Correcting(d)
  PROVE  todo # <<>>
<1>. DEFINE c == PS2_KEYBOARD_SET_SCANCODE_SET
<1>1. d.port \in Ports /\ c \in Bytes /\ Byte(1) \in Bytes
  BY SaidAre DEF Dialogue
<1>2. /\ <<"check">> \in AllOps /\ <<"write", d.port, Byte(1)>> \in AllOps
      /\ <<"enable">> \in AllOps /\ <<"flush">> \in AllOps
  BY <1>1, OpsHave
<1>. HIDE DEF c
<1>3. EnableOps \in Seq(AllOps) /\ EnableOps # <<>>
  <2>. HIDE DEF AllOps
  <2>. QED
    BY <1>2 DEF EnableOps
<1>4. LastOps(d) \in Seq(AllOps) /\ LastOps(d) # <<>>
  BY <1>2, <1>3, BeforeHas DEF LastOps
<1>5. Before(<<"write", d.port, Byte(1)>>, LastOps(d)) \in Seq(AllOps)
  BY <1>2, <1>4, BeforeHas
<1>6. SetOps(d) \in Seq(AllOps) /\ SetOps(d) # <<>>
  BY <1>2, <1>5, BeforeHas DEF SetOps
<1>7. SetAckOps(d) \in Seq(AllOps)
  BY <1>1, <1>6, CommandBusy DEF SetAckOps, c
<1>8. Before(<<"check">>, SetAckOps(d)) \in Seq(AllOps) /\ Before(<<"check">>, SetAckOps(d)) # <<>>
  BY <1>2, <1>7, BeforeHas
<1>9. /\ Writes(d, c, Before(<<"check">>, SetAckOps(d))) => todo # <<>>
      /\ Writes(d, Byte(1), LastOps(d)) => todo # <<>>
      /\ Acknowledging(d, c, SetOps(d)) => todo # <<>>
  BY <1>1, <1>4, <1>6, <1>8, WritesBusy, CommandBusy
<1>. HIDE DEF Writes, Acknowledging
<1>. QED
  BY <1>3, <1>4, <1>6, <1>8, <1>9 DEF Correcting, c

-----------------------------------------------------------------------------
(* The whole of it.                                                        *)

LEMMA TalksOthers ==
  ASSUME Types, Types', Settled, Others, Talks
  PROVE  Talks'
<1>a. Configured /\ MachineTypes /\ 1 \in Ports /\ 2 \in Ports
  BY DEF Settled, Types, Ports
<1>b. /\ AtIdentified1 \in Seq(AllOps) /\ AtIdentified1 # <<>>
      /\ AtIdentified2 \in Seq(AllOps) /\ AtIdentified2 # <<>>
      /\ AtDone # <<>> /\ AtKeyboardInit # <<>>
  <2>1. /\ AtKeyboardInit \in Seq(AllOps) /\ AtDone \in Seq(AllOps) /\ AtIdentified2 \in Seq(AllOps)
        /\ AtIdentify2 \in Seq(AllOps) /\ AtIdentified1 \in Seq(AllOps)
    BY PlacesAre
  <2>2. <<"identified", 1>> \in AllOps /\ <<"identified", 2>> \in AllOps /\ <<"initialized">> \in AllOps
    BY <1>a, SaidAre, OpsHave
  <2>3. AtIdentified1 # <<>>
    BY <2>1, <2>2, BeforeHas DEF AtIdentified1
  <2>4. AtIdentified2 # <<>>
    BY <2>1, <2>2, BeforeHas DEF AtIdentified2
  <2>5. AtDone # <<>>
    BY <2>1, <2>2, BeforeHas DEF AtDone
  <2>6. AtKeyboardInit # <<>>
    BY DEF AtKeyboardInit
  <2>. QED
    BY <2>1, <2>3, <2>4, <2>5, <2>6
<1>1. CASE Identifying1
  <2>1. PICK d \in {DialogueWith(1)} : Quiet(d) /\ Talk(d, AtIdentified1)
    BY <1>1 DEF Identifying1
  <2>2. d \in Dialogue
    BY <1>a, <2>1, WithIs
  <2>3. todo # <<>>
    BY <1>b, <2>1, <2>2, TalkBusy
  <2>. QED
    BY <1>1, <1>a, <2>3, Identifying1Others DEF Talks
<1>2. CASE Identifying2
  <2>1. PICK d \in {DialogueWith(2)} : Quiet(d) /\ Talk(d, AtIdentified2)
    BY <1>2 DEF Identifying2
  <2>2. d \in Dialogue
    <3>1. Known
      BY <1>2 DEF Identifying2
    <3>. QED
      BY <1>a, <2>1, <3>1, WithIs
  <2>3. todo # <<>>
    BY <1>b, <2>1, <2>2, TalkBusy
  <2>. QED
    BY <1>2, <1>a, <2>3, Identifying2Others DEF Talks
<1>3. CASE Concluding
  <2>1. todo # <<>>
    BY <1>b, <1>3 DEF Concluding
  <2>. QED
    BY <1>3, <1>a, <2>1, ConcludingOthers DEF Talks
<1>4. CASE Correction
  <2>1. PICK p \in {PortUsed} : HasKeyboard(p) /\ \E d \in {Setting(p)} : Quiet(d) /\ Correcting(d)
    BY <1>4 DEF Correction
  <2>2. p \in Ports
    BY <2>1 DEF PortUsed, Ports
  <2>3. PICK d \in {Setting(p)} : Correcting(d)
    BY <2>1
  <2>4. d \in Dialogue
    BY <1>a, <2>1, <2>2, <2>3, SettingIs
  <2>5. todo # <<>>
    BY <2>3, <2>4, CorrectingBusy
  <2>. QED
    BY <1>4, <1>a, <2>5, CorrectionOthers DEF Talks
<1>5. CASE Over
  BY <1>5, <1>a, OverOthers DEF Talks
<1>6. CASE Enabled
  BY <1>6, <1>a, EnabledOthers DEF Talks
<1>. QED
  BY <1>1, <1>2, <1>3, <1>4, <1>5, <1>6 DEF Talks

LEMMA TalksThread ==
  ASSUME Patient, Types, Types', Settled, Thread, Talks
  PROVE  Talks'
<1>1. Configured
  BY DEF Settled
<1>2. CASE Identifying1
  BY <1>1, <1>2, Identifying1Thread DEF Talks
<1>3. CASE Identifying2
  BY <1>1, <1>3, Identifying2Thread DEF Talks
<1>4. CASE Concluding
  BY <1>1, <1>4, ConcludingThread DEF Talks
<1>5. CASE Correction
  BY <1>1, <1>5, CorrectionThread DEF Talks
<1>6. CASE Over
  BY <1>6, OverThread DEF Talks
<1>7. CASE Enabled
  BY <1>1, <1>7, EnabledThread DEF Talks
<1>. QED
  BY <1>2, <1>3, <1>4, <1>5, <1>6, <1>7 DEF Talks

LEMMA InitStory == Init => Types /\ Story
<1>. SUFFICES ASSUME Init PROVE Types /\ Story
  OBVIOUS
<1>1. Types /\ Early /\ Places
  BY InitPlaces
<1>2. ~ps2_error /\ ~shift_down
  BY DEF Init, Ps2Init
<1>3. dev = [p \in Ports |-> [scanning |-> TRUE, set |-> 2, param |-> FALSE,
                              queue |-> <<>>, resends |-> 0, held |-> {}]]
  BY Zenon DEF Init, Ps2Init
<1>4. Fresh
  BY <1>2, <1>3 DEF Fresh
<1>. QED
  BY <1>1, <1>4 DEF Story

LEMMA StoryStep ==
  ASSUME Patient, Types, Story, [Next]_vars
  PROVE  Types' /\ Story'
<1>1. Types'
  BY TypesStep
<1>2. Thread \/ Others
  BY DEF Next, Others
<1>3. CASE Early /\ Places /\ Fresh
  <2>1. CASE Thread
    <3>1. Fresh'
      BY <1>3, <2>1, FreshThread
    <3>2. (Early' /\ Places') \/ Unused' \/ (Settled' /\ Begun')
      BY <1>3, <2>1, PlacesStep DEF Advances
    <3>3. Begun' => Identifying1'
      <4>1. Begins'
        BY FirstBegins, PTL
      <4>. QED
        BY <1>1, <3>1, <4>1 DEF Begins
    <3>. QED
      BY <1>1, <3>1, <3>2, <3>3 DEF Story, Talks
  <2>2. CASE Others
    <3>1. Early' /\ Places'
      BY <1>3, <2>2, PlacesRemain
    <3>2. Fresh'
      BY <1>3, <2>2, FreshOthers
    <3>. QED
      BY <1>1, <3>1, <3>2 DEF Story
  <2>. QED
    BY <1>2, <2>1, <2>2
<1>4. CASE Unused
  BY <1>1, <1>4, UnusedStep DEF Story
<1>5. CASE Settled /\ Talks
  <2>1. Settled'
    BY <1>2, <1>5, SettledThread, SettledOthers
  <2>2. Talks'
    BY <1>1, <1>2, <1>5, TalksThread, TalksOthers
  <2>. QED
    BY <1>1, <2>1, <2>2 DEF Story
<1>. QED
  BY <1>3, <1>4, <1>5 DEF Story

-----------------------------------------------------------------------------
(* What follows from it.                                                   *)

\* Once the driver is initialized.
LEMMA InitializedMeans ==
  ASSUME Story, ps2_initialized
  PROVE  Settled /\ Known /\ Scans
BY DEF Story, Early, Unused, Talks, Identifying1, Identifying2, Concluding, Correction, Over, Enabled

\* Once the keyboard is enabled.
LEMMA EnabledMeans ==
  ASSUME Story, keyboard_enabled
  PROVE  Enabled
BY DEF Story, Early, Unused, Talks, Identifying1, Identifying2, Concluding, Correction, Over, Quiet

LEMMA StoryIdentifies == Types /\ Story => Port1Identified
<1>. SUFFICES ASSUME Types, Story, ps2_initialized, port1 = 1
              PROVE  LET kind == machine.attached[1] IN
                     /\ identity[1] = IF kind = "none" THEN <<>> ELSE IdOf(kind)
                     /\ kind # "none" /\ (todo = <<>> \/ At("keyboard_init")) => dev[1].scanning
  BY DEF Port1Identified
<1>1. Configured /\ Known /\ Scans /\ MachineTypes /\ 1 \in Ports
  BY InitializedMeans DEF Settled, Types, Ports
<1>2. Live(1)
  BY <1>1, LivePorts DEF Usable
<1>3. Identity(1) = IF machine.attached[1] = "none" THEN <<>> ELSE IdOf(machine.attached[1])
  BY <1>2 DEF Identity
<1>4. machine.attached[1] # "none" => Identity(1) # <<>>
  BY <1>1, <1>2, IdentityIs
<1>. QED
  BY <1>1, <1>3, <1>4 DEF Known, Scans

LEMMA StoryEnables == Types /\ Story /\ Byte(1) \notin Resendable => EnabledIsKeyboard
<1>. SUFFICES ASSUME Types, Story, Byte(1) \notin Resendable, keyboard_enabled
              PROVE  LET p == IF machine.channels = 1 THEN 1 ELSE PortUsed IN
                     /\ machine.attached[p] = "keyboard"
                     /\ todo = <<>> /\ ~InFlight => dev[p].set = 1 /\ ~dev[p].param
  BY DEF EnabledIsKeyboard
<1>1. PICK p \in {1, 2} : p = PortUsed
  BY DEF PortUsed
<1>2. HasKeyboard(p) /\ Finishing(p)
  BY <1>1, EnabledMeans DEF Enabled
<1>3. machine.channels = 1 => p = 1
  BY <1>1, <1>2 DEF HasKeyboard
<1>4. machine.attached[p] = "keyboard"
  BY <1>2 DEF HasKeyboard
<1>5. ~InFlight => dev[p].set = 1 /\ ~dev[p].param
  BY <1>2 DEF Finishing, InFlight, InputFull
<1>. QED
  BY <1>1, <1>3, <1>4, <1>5

LEMMA StoryReleases ==
  Types /\ Story /\ Byte(1) \notin Resendable /\ TypedOn \subseteq {1} => ShiftNeverStuck
<1>. SUFFICES ASSUME Types, Story, Byte(1) \notin Resendable, TypedOn \subseteq {1},
                     keyboard_enabled, todo = <<>>, ~InFlight,
                     \A p \in Ports : dev[p].held \cap Shifts = {}
              PROVE  ~shift_down
  BY DEF ShiftNeverStuck
<1>a. MachineTypes /\ 1 \in Ports
  BY DEF Types, Ports
<1>1. PICK p \in {1, 2} : p = PortUsed
  BY DEF PortUsed
<1>2. Following(p)
  BY <1>1, EnabledMeans DEF Enabled
<1>3. CASE p = 1
  <2>1. Due(1) = <<>>
    <3>1. out.src # 1 /\ (Live(1) => dev[1].queue = <<>>)
      BY <1>a DEF InFlight, OutputFull, Nobody, Live
    <3>. QED
      BY <1>a, <3>1, DueIs
  <2>2. Down(Due(1), shift_down) => dev[1].held \cap Shifts # {}
    BY <1>2, <1>3 DEF Following
  <2>3. Down(<<>>, shift_down) <=> shift_down
    BY DownNone
  <2>. HIDE DEF Down, Due
  <2>. QED
    BY <1>a, <2>1, <2>2, <2>3
<1>4. CASE p = 2
  BY <1>2, <1>4 DEF Following
<1>. QED
  BY <1>3, <1>4

\* Port1Identified: what ps2_port_identify(1) stores is what the device of port 1
\* answers, and the device scans again (ps2.c:298-337), if it does not ask for its
\* bytes again so often that the driver gives up.
THEOREM IdentifiedCorrectly ==
  ASSUME Patient
  PROVE  Spec => []Port1Identified
<1>1. Types /\ Story /\ [Next]_vars => (Types /\ Story)'
  BY StoryStep
<1>2. Spec => [](Types /\ Story)
  BY <1>1, InitStory, PTL DEF Spec
<1>. QED
  BY <1>2, StoryIdentifies, PTL

\* EnabledIsKeyboard: keyboard_enabled is only set for a port that holds a keyboard,
\* which then sends scan code set 1 (keyboard.c:23-58), if it never asks for the
\* parameter again, whose acknowledgement the driver does not wait for.
THEOREM EnabledCorrectly ==
  ASSUME Patient, Byte(1) \notin Resendable
  PROVE  Spec => []EnabledIsKeyboard
<1>1. Types /\ Story /\ [Next]_vars => (Types /\ Story)'
  BY StoryStep
<1>2. Spec => [](Types /\ Story)
  BY <1>1, InitStory, PTL DEF Spec
<1>3. Types /\ Story => EnabledIsKeyboard
  BY StoryEnables
<1>. QED
  BY <1>2, <1>3, PTL

\* ShiftNeverStuck: no order in which shift keys are pressed and released, before or
\* after the bytes of others are handled, leaves shift_down set once all of them are
\* up (keyboard.c:73-110), if the user types at port 1 only, so that the handler of
\* IRQ 12 has nothing to flush.
THEOREM ShiftReleased ==
  ASSUME Patient, Byte(1) \notin Resendable, TypedOn \subseteq {1}
  PROVE  Spec => []ShiftNeverStuck
<1>1. Types /\ Story /\ [Next]_vars => (Types /\ Story)'
  BY StoryStep
<1>2. Spec => [](Types /\ Story)
  BY <1>1, InitStory, PTL DEF Spec
<1>3. Types /\ Story => ShiftNeverStuck
  BY StoryReleases
<1>. QED
  BY <1>2, <1>3, PTL

=============================================================================
