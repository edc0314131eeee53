--------------------------- MODULE KeyboardProofs ---------------------------
(***************************************************************************)
(* The types of the PS/2 driver, its controller and the devices, the       *)
(* configuration that ps2_init leaves, and that no byte blocks an enabled  *)
(* keyboard, for every machine, pair of devices, time-out and user.        *)
(***************************************************************************)
EXTENDS Keyboard, SequenceTheorems, TLAPS

-----------------------------------------------------------------------------
(* Bytes. *)

LEMMA WeightIs ==
  /\ Weight[1] = 1 /\ Weight[2] = 2 /\ Weight[3] = 4 /\ Weight[4] = 8
  /\ Weight[5] = 16 /\ Weight[6] = 32 /\ Weight[7] = 64 /\ Weight[8] = 128
BY DEF Weight

LEMMA BitOf ==
  ASSUME NEW v \in Nat
  PROVE  /\ 0 \in Byte(v) <=> v % 2 = 1
         /\ 1 \in Byte(v) <=> (v \div 2) % 2 = 1
         /\ 2 \in Byte(v) <=> (v \div 4) % 2 = 1
         /\ 3 \in Byte(v) <=> (v \div 8) % 2 = 1
         /\ 4 \in Byte(v) <=> (v \div 16) % 2 = 1
         /\ 5 \in Byte(v) <=> (v \div 32) % 2 = 1
         /\ 6 \in Byte(v) <=> (v \div 64) % 2 = 1
         /\ 7 \in Byte(v) <=> (v \div 128) % 2 = 1
         /\ Byte(v) \in Bytes
<1>. USE WeightIs DEF Byte, Bits
<1>1. Byte(v) \in Bytes
  BY DEF Bytes
<1>2. v \div 1 = v
  OBVIOUS
<1>. QED
  BY <1>1, <1>2

\* The commands that the controller answers, and those that it obeys.
Loud == {PS2_READ_CONFIG_BYTE, PS2_CONTROLLER_TEST, PS2_TEST_PORT}

Obeyed == {PS2_DISABLE_PORT, PS2_DISABLE_PORT_2, PS2_ENABLE_PORT, PS2_ENABLE_PORT_2}

LEMMA CommandBits ==
  /\ 0 \notin PS2_READ_CONFIG_BYTE /\ 1 \notin PS2_READ_CONFIG_BYTE /\ 2 \notin PS2_READ_CONFIG_BYTE
  /\ 6 \notin PS2_READ_CONFIG_BYTE /\ 7 \notin PS2_READ_CONFIG_BYTE
  /\ 0 \notin PS2_WRITE_CONFIG_BYTE /\ 1 \notin PS2_WRITE_CONFIG_BYTE /\ 2 \notin PS2_WRITE_CONFIG_BYTE
  /\ 6 \in PS2_WRITE_CONFIG_BYTE /\ 7 \notin PS2_WRITE_CONFIG_BYTE
  /\ 0 \notin PS2_CONTROLLER_TEST /\ 1 \in PS2_CONTROLLER_TEST /\ 2 \notin PS2_CONTROLLER_TEST
  /\ 6 \notin PS2_CONTROLLER_TEST /\ 7 \in PS2_CONTROLLER_TEST
  /\ 0 \in PS2_DISABLE_PORT /\ 1 \notin PS2_DISABLE_PORT /\ 2 \in PS2_DISABLE_PORT
  /\ 6 \notin PS2_DISABLE_PORT /\ 7 \in PS2_DISABLE_PORT
  /\ 0 \in PS2_DISABLE_PORT_2 /\ 1 \in PS2_DISABLE_PORT_2 /\ 2 \in PS2_DISABLE_PORT_2
  /\ 6 \notin PS2_DISABLE_PORT_2 /\ 7 \in PS2_DISABLE_PORT_2
  /\ 0 \notin PS2_ENABLE_PORT /\ 1 \in PS2_ENABLE_PORT /\ 2 \in PS2_ENABLE_PORT
  /\ 6 \notin PS2_ENABLE_PORT /\ 7 \in PS2_ENABLE_PORT
  /\ 0 \notin PS2_ENABLE_PORT_2 /\ 1 \notin PS2_ENABLE_PORT_2 /\ 2 \notin PS2_ENABLE_PORT_2
  /\ 6 \notin PS2_ENABLE_PORT_2 /\ 7 \in PS2_ENABLE_PORT_2
  /\ 0 \in PS2_TEST_PORT /\ 1 \in PS2_TEST_PORT /\ 2 \notin PS2_TEST_PORT
  /\ 6 \notin PS2_TEST_PORT /\ 7 \in PS2_TEST_PORT
  /\ 0 \notin PS2_WRITE_BYTE_INPUT_PORT_2 /\ 1 \notin PS2_WRITE_BYTE_INPUT_PORT_2 /\ 2 \in PS2_WRITE_BYTE_INPUT_PORT_2
  /\ 6 \in PS2_WRITE_BYTE_INPUT_PORT_2 /\ 7 \in PS2_WRITE_BYTE_INPUT_PORT_2
<1>1. /\ 0 \notin PS2_READ_CONFIG_BYTE /\ 1 \notin PS2_READ_CONFIG_BYTE /\ 2 \notin PS2_READ_CONFIG_BYTE
      /\ 6 \notin PS2_READ_CONFIG_BYTE /\ 7 \notin PS2_READ_CONFIG_BYTE
  BY BitOf DEF PS2_READ_CONFIG_BYTE
<1>2. /\ 0 \notin PS2_WRITE_CONFIG_BYTE /\ 1 \notin PS2_WRITE_CONFIG_BYTE /\ 2 \notin PS2_WRITE_CONFIG_BYTE
      /\ 6 \in PS2_WRITE_CONFIG_BYTE /\ 7 \notin PS2_WRITE_CONFIG_BYTE
  BY BitOf DEF PS2_WRITE_CONFIG_BYTE
<1>3. /\ 0 \notin PS2_CONTROLLER_TEST /\ 1 \in PS2_CONTROLLER_TEST /\ 2 \notin PS2_CONTROLLER_TEST
      /\ 6 \notin PS2_CONTROLLER_TEST /\ 7 \in PS2_CONTROLLER_TEST
  BY BitOf DEF PS2_CONTROLLER_TEST
<1>4. /\ 0 \in PS2_DISABLE_PORT /\ 1 \notin PS2_DISABLE_PORT /\ 2 \in PS2_DISABLE_PORT
      /\ 6 \notin PS2_DISABLE_PORT /\ 7 \in PS2_DISABLE_PORT
  BY BitOf DEF PS2_DISABLE_PORT
<1>5. /\ 0 \in PS2_DISABLE_PORT_2 /\ 1 \in PS2_DISABLE_PORT_2 /\ 2 \in PS2_DISABLE_PORT_2
      /\ 6 \notin PS2_DISABLE_PORT_2 /\ 7 \in PS2_DISABLE_PORT_2
  BY BitOf DEF PS2_DISABLE_PORT_2
<1>6. /\ 0 \notin PS2_ENABLE_PORT /\ 1 \in PS2_ENABLE_PORT /\ 2 \in PS2_ENABLE_PORT
      /\ 6 \notin PS2_ENABLE_PORT /\ 7 \in PS2_ENABLE_PORT
  BY BitOf DEF PS2_ENABLE_PORT
<1>7. /\ 0 \notin PS2_ENABLE_PORT_2 /\ 1 \notin PS2_ENABLE_PORT_2 /\ 2 \notin PS2_ENABLE_PORT_2
      /\ 6 \notin PS2_ENABLE_PORT_2 /\ 7 \in PS2_ENABLE_PORT_2
  BY BitOf DEF PS2_ENABLE_PORT_2
<1>8. /\ 0 \in PS2_TEST_PORT /\ 1 \in PS2_TEST_PORT /\ 2 \notin PS2_TEST_PORT
      /\ 6 \notin PS2_TEST_PORT /\ 7 \in PS2_TEST_PORT
  BY BitOf DEF PS2_TEST_PORT
<1>9. /\ 0 \notin PS2_WRITE_BYTE_INPUT_PORT_2 /\ 1 \notin PS2_WRITE_BYTE_INPUT_PORT_2 /\ 2 \in PS2_WRITE_BYTE_INPUT_PORT_2
      /\ 6 \in PS2_WRITE_BYTE_INPUT_PORT_2 /\ 7 \in PS2_WRITE_BYTE_INPUT_PORT_2
  BY BitOf DEF PS2_WRITE_BYTE_INPUT_PORT_2
<1>. QED
  BY <1>1, <1>2, <1>3, <1>4, <1>5, <1>6, <1>7, <1>8, <1>9, Zenon

\* No two of the commands are the same byte.
LEMMA CommandsDiffer ==
  /\ PS2_READ_CONFIG_BYTE # PS2_CONTROLLER_TEST /\ PS2_READ_CONFIG_BYTE # PS2_TEST_PORT
  /\ PS2_CONTROLLER_TEST # PS2_TEST_PORT
  /\ \A c \in Obeyed \cup {PS2_WRITE_CONFIG_BYTE, PS2_WRITE_BYTE_INPUT_PORT_2} : c \notin Loud
  /\ PS2_WRITE_CONFIG_BYTE \notin Obeyed /\ PS2_WRITE_BYTE_INPUT_PORT_2 \notin Obeyed
  /\ PS2_WRITE_CONFIG_BYTE # PS2_WRITE_BYTE_INPUT_PORT_2
  /\ PS2_DISABLE_PORT # PS2_DISABLE_PORT_2 /\ PS2_DISABLE_PORT # PS2_ENABLE_PORT
  /\ PS2_DISABLE_PORT # PS2_ENABLE_PORT_2 /\ PS2_DISABLE_PORT_2 # PS2_ENABLE_PORT
  /\ PS2_DISABLE_PORT_2 # PS2_ENABLE_PORT_2 /\ PS2_ENABLE_PORT # PS2_ENABLE_PORT_2
BY CommandBits DEF Loud, Obeyed

-----------------------------------------------------------------------------
(* The operations of the thread. *)

\* Those of ps2_port_identify and the dialogues with a device,
PlainOps ==
  {<<name>> : name \in {"flush", "initialized", "poll", "check"}}
  \cup ({"identify", "identified", "disabled", "id_loop"} \X Ports)
  \cup ({"write", "ack", "ack_test", "ack_time"} \X Ports \X Bytes)
  \cup {<<"outb", "command", PS2_WRITE_BYTE_INPUT_PORT_2>>}
  \cup ({"outb"} \X {"data"} \X Bytes)

\* all that are executed once the configuration is written,
QuietOps == PlainOps \cup {<<"keyboard_init">>, <<"enable">>}

\* and before.
InitOps ==
  {<<name>> : name \in {"check_ps2", "read_data", "first_check", "self_test", "second_test",
                        "second_check", "port_1_test", "test_port_2", "port_2_test",
                        "enable_ports", "enable_interrupts"}}
  \cup ({"outb"} \X {"command"} \X Bytes)

Usual == QuietOps \cup InitOps

\* The two that wait for a byte of an identity and store it.
IdOps == {"id_wait", "id_byte"} \X Ports

\* The thread waits for, or has, a byte of the identity, for which there is room;
\* everything else that it has to execute is in S.
TodoIn(S) ==
  \/ todo \in Seq(S)
  \/ /\ Len(response) < 2
     /\ \E op \in IdOps, rest \in Seq(S) : todo = <<op>> \o rest
  \/ /\ Len(response) < 2
     /\ \E p \in Ports, rest \in Seq(S) : todo = <<<<"poll">>, <<"id_byte", p>>>> \o rest

LEMMA OpArgs ==
  ASSUME NEW op \in Usual \cup IdOps
  PROVE  /\ op[1] \in {"identify", "identified", "disabled", "id_loop", "id_wait", "id_byte"}
              => op[2] \in Ports
         /\ op[1] \in {"write", "ack", "ack_test", "ack_time"} => op[2] \in Ports /\ op[3] \in Bytes
         /\ op[1] = "outb" => op[2] \in {"command", "data"} /\ op[3] \in Bytes
         /\ op[1] \in {"id_wait", "id_byte"} <=> op \in IdOps
<1>1. {PS2_WRITE_BYTE_INPUT_PORT_2} \subseteq Bytes
  BY BitOf DEF PS2_WRITE_BYTE_INPUT_PORT_2
<1>. QED
  BY <1>1 DEF Usual, QuietOps, PlainOps, InitOps, IdOps

\* A sequence and an element in front of it.
LEMMA ConsIs ==
  ASSUME NEW S, NEW op \in S, NEW rest \in Seq(S)
  PROVE  /\ <<op>> \o rest \in Seq(S) /\ <<op>> \o rest # <<>>
         /\ (<<op>> \o rest)[1] = op /\ Tail(<<op>> \o rest) = rest
OBVIOUS

LEMMA TwoAre ==
  ASSUME NEW S, NEW op1 \in S, NEW op2 \in S, NEW rest \in Seq(S)
  PROVE  <<op1, op2>> \o rest = <<op1>> \o (<<op2>> \o rest)
<1>. DEFINE s == <<op1, op2>> \o rest
            one == <<op2>> \o rest
            t == <<op1>> \o one
<1>1. /\ s \in Seq(S) /\ Len(s) = Len(rest) + 2 /\ s[1] = op1 /\ s[2] = op2
      /\ \A k \in 3 .. Len(s) : s[k] = rest[k - 2]
  OBVIOUS
<1>2. /\ one \in Seq(S) /\ Len(one) = Len(rest) + 1 /\ one[1] = op2
      /\ \A k \in 2 .. Len(one) : one[k] = rest[k - 1]
  OBVIOUS
<1>. HIDE DEF one
<1>3. /\ t \in Seq(S) /\ Len(t) = Len(one) + 1 /\ t[1] = op1
      /\ \A k \in 2 .. Len(t) : t[k] = one[k - 1]
  BY <1>2
<1>4. Len(rest) \in Nat
  OBVIOUS
<1>. HIDE DEF s, t
<1>5. \A k \in 1 .. Len(s) : s[k] = t[k]
  <2>. SUFFICES ASSUME NEW k \in 1 .. Len(s) PROVE s[k] = t[k]
    OBVIOUS
  <2>1. CASE k = 1
    BY <1>1, <1>3, <2>1
  <2>2. CASE k = 2
    <3>1. t[2] = one[1]
      BY <1>2, <1>3, <1>4
    <3>. QED
      BY <1>1, <1>2, <2>2, <3>1
  <2>3. CASE k # 1 /\ k # 2
    <3>1. k \in 3 .. Len(s) /\ k \in 2 .. Len(t) /\ k - 1 \in 2 .. Len(one)
          /\ (k - 1) - 1 = k - 2
      BY <1>1, <1>2, <1>3, <1>4, <2>3
    <3>. QED
      BY <1>1, <1>2, <1>3, <3>1
  <2>. QED
    BY <2>1, <2>2, <2>3
<1>6. s = t
  BY <1>1, <1>2, <1>3, <1>4, <1>5, SeqEqual
<1>. QED
  BY <1>6 DEF s, t, one

LEMMA ThenIn ==
  ASSUME NEW S, todo \in Seq(S), todo # <<>>, NEW ops \in Seq(S), Then(ops)
  PROVE  todo' \in Seq(S)
BY DEF Then

\* The operations of the thread once the configuration is written.
QuietThread ==
  \/ Out \/ Flush \/ WritePort \/ WaitForAck \/ PollReceived \/ PollTimedOut \/ AckTest \/ AckTime
  \/ Identify \/ ScanningDisabled \/ IdLoop \/ IdWait \/ IdByte \/ Identified \/ Initialized
  \/ KeyboardInit \/ Check \/ Enable

LEMMA UsualHead ==
  ASSUME NEW S \in SUBSET Usual, TodoIn(S), todo # <<>>,
         todo[1][1] \notin {"id_wait", "id_byte", "poll"}
  PROVE  todo \in Seq(S) /\ todo[1] \in S /\ todo[1] \in Usual
<1>1. \A op \in IdOps, rest \in Seq(S) : todo # <<op>> \o rest
  <2>. SUFFICES ASSUME NEW op \in IdOps, NEW rest \in Seq(S), todo = <<op>> \o rest
                PROVE  FALSE
    OBVIOUS
  <2>1. todo[1] = op
    OBVIOUS
  <2>. QED
    BY <2>1 DEF IdOps
<1>2. \A p \in Ports, rest \in Seq(S) : todo # <<<<"poll">>, <<"id_byte", p>>>> \o rest
  <2>. SUFFICES ASSUME NEW p \in Ports, NEW rest \in Seq(S),
                       todo = <<<<"poll">>, <<"id_byte", p>>>> \o rest
                PROVE  FALSE
    OBVIOUS
  <2>1. todo[1] = <<"poll">>
    OBVIOUS
  <2>. QED
    BY <2>1
<1>3. todo \in Seq(S)
  BY <1>1, <1>2, Zenon DEF TodoIn
<1>. QED
  BY <1>3

\* A step whose operation is a usual one and puts usual ones in front.
LEMMA UsualStep ==
  ASSUME NEW S \in SUBSET Usual, TodoIn(S), todo # <<>>,
         todo[1][1] \notin {"id_wait", "id_byte", "poll"},
         NEW ops \in Seq(S), Then(ops)
  PROVE  TodoIn(S)'
<1>1. todo' \in Seq(S)
  BY UsualHead, ThenIn
<1>. QED
  BY <1>1 DEF TodoIn

\* Sequences of quiet operations that the thread puts in front of the others.
LEMMA QuietSeqs ==
  ASSUME NEW p \in Ports, NEW b \in Bytes
  PROVE  /\ Command(p, b) \in Seq(PlainOps)
         /\ ps2_port_write_data(p, b) \in Seq(PlainOps)
         /\ ps2_wait_for_ack(p, b) \in Seq(PlainOps)
         /\ <<ps2_write_data(b)>> \in Seq(PlainOps)
         /\ <<ps2_send_cmd(PS2_WRITE_BYTE_INPUT_PORT_2)>> \in Seq(PlainOps)
         /\ <<>> \in Seq(PlainOps)
         /\ <<<<"ack_time", p, b>>>> \in Seq(PlainOps)
         /\ <<<<"poll">>, <<"ack_test", p, b>>>> \in Seq(PlainOps)
         /\ <<<<"disabled", p>>>> \in Seq(PlainOps)
         /\ <<<<"id_loop", p>>>> \in Seq(PlainOps)
         /\ <<<<"check">>>> \in Seq(PlainOps)
         /\ <<<<"flush">>>> \in Seq(PlainOps)
         /\ <<<<"enable">>, <<"flush">>>> \in Seq(QuietOps)
<1>1. /\ <<"write", p, b>> \in PlainOps /\ <<"ack", p, b>> \in PlainOps
      /\ <<"ack_test", p, b>> \in PlainOps /\ <<"ack_time", p, b>> \in PlainOps
  BY DEF PlainOps
<1>2. /\ <<"disabled", p>> \in PlainOps /\ <<"id_loop", p>> \in PlainOps
      /\ <<"poll">> \in PlainOps /\ <<"check">> \in PlainOps /\ <<"flush">> \in PlainOps
  BY DEF PlainOps
<1>3. /\ ps2_write_data(b) \in PlainOps
      /\ ps2_send_cmd(PS2_WRITE_BYTE_INPUT_PORT_2) \in PlainOps
  BY DEF PlainOps, ps2_write_data, ps2_send_cmd
<1>6. <<"flush">> \in QuietOps /\ <<"enable">> \in QuietOps
  BY <1>2 DEF QuietOps
<1>. HIDE DEF QuietOps, PlainOps
<1>4. ps2_port_write_data(p, b) \in Seq(PlainOps) /\ ps2_wait_for_ack(p, b) \in Seq(PlainOps)
  BY <1>1 DEF ps2_port_write_data, ps2_wait_for_ack
<1>5. Command(p, b) \in Seq(PlainOps)
  BY <1>4 DEF Command
<1>. QED
  BY <1>1, <1>2, <1>3, <1>4, <1>5, <1>6

LEMMA CommandBytes ==
  /\ {PS2_DISABLE_SCANNING, PS2_ENABLE_SCANNING, PS2_IDENTIFY, PS2_KEYBOARD_SET_SCANCODE_SET,
      PS2_ACK, PS2_RESEND, PS2_CONTROLLER_TEST_PASS, PS2_CONTROLLER_TEST_FAIL,
      PS2_PORT_TEST_PASS, FirstMask, Byte(1)} \subseteq Bytes
  /\ {PS2_READ_CONFIG_BYTE, PS2_WRITE_CONFIG_BYTE, PS2_CONTROLLER_TEST, PS2_DISABLE_PORT,
      PS2_DISABLE_PORT_2, PS2_ENABLE_PORT, PS2_ENABLE_PORT_2, PS2_TEST_PORT,
      PS2_WRITE_BYTE_INPUT_PORT_2} \subseteq Bytes
<1>1. \A v \in Nat : Byte(v) \in Bytes
  BY BitOf
<1>. QED
  BY <1>1 DEF PS2_DISABLE_SCANNING, PS2_ENABLE_SCANNING, PS2_IDENTIFY, PS2_ACK, PS2_RESEND,
       PS2_KEYBOARD_SET_SCANCODE_SET, PS2_CONTROLLER_TEST_PASS, PS2_CONTROLLER_TEST_FAIL,
       PS2_PORT_TEST_PASS, FirstMask, PS2_READ_CONFIG_BYTE, PS2_WRITE_CONFIG_BYTE,
       PS2_CONTROLLER_TEST, PS2_DISABLE_PORT, PS2_DISABLE_PORT_2, PS2_ENABLE_PORT,
       PS2_ENABLE_PORT_2, PS2_TEST_PORT, PS2_WRITE_BYTE_INPUT_PORT_2

\* What the operations of the dialogues put in front of the others.
LEMMA QuietJoins ==
  ASSUME NEW p \in Ports, NEW b \in Bytes
  PROVE  /\ Command(p, b) \o <<<<"disabled", p>>>> \in Seq(PlainOps)
         /\ Command(p, b) \o <<<<"id_loop", p>>>> \in Seq(PlainOps)
         /\ \A c \in BOOLEAN :
              OpsIf(c, ps2_port_write_data(p, b)) \o <<<<"ack_time", p, b>>>> \in Seq(PlainOps)
         /\ \A c \in BOOLEAN :
              OpsIf(c, <<ps2_send_cmd(PS2_WRITE_BYTE_INPUT_PORT_2)>>) \o <<ps2_write_data(b)>>
                \in Seq(PlainOps)
         /\ ps2_scancode_correction(p) \in Seq(PlainOps)
         /\ ps2_scancode_correction(p) \o enable_and_flush \in Seq(QuietOps)
<1>1. \A s, t \in Seq(PlainOps) : s \o t \in Seq(PlainOps)
  BY ConcatProperties
<1>2. PS2_KEYBOARD_SET_SCANCODE_SET \in Bytes /\ Byte(1) \in Bytes
  BY CommandBytes
<1>. DEFINE F0 == PS2_KEYBOARD_SET_SCANCODE_SET
<1>. HIDE DEF F0
<1>3. /\ ps2_scancode_correction(p) \in Seq(PlainOps)
      /\ ps2_scancode_correction(p) \o enable_and_flush \in Seq(QuietOps)
  <2>1. /\ ps2_port_write_data(p, F0) \in Seq(PlainOps)
        /\ ps2_wait_for_ack(p, F0) \in Seq(PlainOps)
        /\ ps2_port_write_data(p, Byte(1)) \in Seq(PlainOps)
    BY <1>2, QuietSeqs DEF F0
  <2>2. <<<<"check">>>> \in Seq(PlainOps) /\ enable_and_flush \in Seq(QuietOps)
    BY <1>2, QuietSeqs DEF enable_and_flush
  <2>3. ps2_port_write_data(p, F0) \o <<<<"check">>>> \in Seq(PlainOps)
    BY <1>1, <2>1, <2>2
  <2>4. ps2_port_write_data(p, F0) \o <<<<"check">>>> \o ps2_wait_for_ack(p, F0)
          \in Seq(PlainOps)
    BY <1>1, <2>1, <2>3
  <2>5. ps2_port_write_data(p, F0) \o <<<<"check">>>> \o ps2_wait_for_ack(p, F0)
          \o <<<<"check">>>> \in Seq(PlainOps)
    BY <1>1, <2>2, <2>4
  <2>6. ps2_port_write_data(p, F0) \o <<<<"check">>>> \o ps2_wait_for_ack(p, F0)
          \o <<<<"check">>>> \o ps2_port_write_data(p, Byte(1)) \in Seq(PlainOps)
    BY <1>1, <2>1, <2>5
  <2>7. ps2_scancode_correction(p) \in Seq(PlainOps)
    BY <1>1, <2>2, <2>6 DEF ps2_scancode_correction, F0
  <2>8. ps2_scancode_correction(p) \in Seq(QuietOps)
    BY <2>7, SeqMonotonic DEF QuietOps
  <2>9. \A s, t \in Seq(QuietOps) : s \o t \in Seq(QuietOps)
    BY ConcatProperties
  <2>. QED
    BY <2>2, <2>7, <2>8, <2>9
<1>4. \A c \in BOOLEAN : /\ OpsIf(c, ps2_port_write_data(p, b)) \in Seq(PlainOps)
                         /\ OpsIf(c, <<ps2_send_cmd(PS2_WRITE_BYTE_INPUT_PORT_2)>>)
                              \in Seq(PlainOps)
  BY QuietSeqs DEF OpsIf
<1>5. /\ Command(p, b) \in Seq(PlainOps) /\ <<<<"disabled", p>>>> \in Seq(PlainOps)
      /\ <<<<"id_loop", p>>>> \in Seq(PlainOps) /\ <<<<"ack_time", p, b>>>> \in Seq(PlainOps)
      /\ <<ps2_write_data(b)>> \in Seq(PlainOps)
  BY QuietSeqs
<1>. QED
  BY <1>1, <1>3, <1>4, <1>5

\* What keyboard_init leads to.
LEMMA KeyboardInitThen ==
  ASSUME KeyboardInit
  PROVE  \/ Then(<<>>) \/ Then(<<<<"flush">>>>)
         \/ \E q \in Ports : Then(ps2_scancode_correction(q) \o enable_and_flush)
<1>. DEFINE With(q) == ps2_scancode_correction(q) \o enable_and_flush
<1>. HIDE DEF With
<1>1. Then(CASE ~ps2_initialized -> <<>>
             [] ps2_initialized /\ IsKeyboard(identity[1]) -> With(1)
             [] ps2_initialized /\ ~IsKeyboard(identity[1]) /\ IsKeyboard(identity[2]) -> With(2)
             [] OTHER -> <<<<"flush">>>>)
  BY DEF KeyboardInit, With
<1>2. Then(<<>>) \/ Then(With(1)) \/ Then(With(2)) \/ Then(<<<<"flush">>>>)
  BY <1>1 DEF Then
<1>. QED
  BY <1>2 DEF With, Ports

\* A step that puts plain operations in front of those that follow the first,
\* or ends the thread, or repeats the operation.
Proceeds ==
  \/ todo' \in {todo, <<>>}
  \/ \E ops \in Seq(PlainOps \cup IdOps) : Then(ops)

\* The quiet operations put only quiet ones in front of what is to be executed.
LEMMA QuietTodo ==
  ASSUME NEW S \in SUBSET Usual, QuietOps \subseteq S, TodoIn(S),
         response \in Seq(Bytes), Len(response) <= 2, QuietThread
  PROVE  TodoIn(S)' /\ Len(response') <= 2 /\ (~KeyboardInit => Proceeds)
<1>0. /\ \A ops \in Seq(QuietOps) : ops \in Seq(S)
      /\ \A ops \in Seq(PlainOps) : ops \in Seq(QuietOps) /\ ops \in Seq(PlainOps \cup IdOps)
  <2>1. \A ops \in Seq(QuietOps) : ops \in Seq(S)
    BY SeqMonotonic
  <2>2. \A ops \in Seq(PlainOps) : ops \in Seq(PlainOps \cup IdOps)
    BY SeqMonotonic
  <2>3. \A ops \in Seq(PlainOps) : ops \in Seq(QuietOps)
    BY SeqMonotonic DEF QuietOps
  <2>. QED
    BY <2>1, <2>2, <2>3
<1>e. \A ops \in Seq(PlainOps \cup IdOps) : Then(ops) => Proceeds
  BY DEF Proceeds
<1>. DEFINE p == todo[1][2]
            b == todo[1][3]
            Name(n) == todo # <<>> /\ todo[1][1] = n
            Puts(ops) == ops \in Seq(PlainOps) /\ Then(ops)
<1>a. ASSUME NEW n \in {"outb", "flush", "write", "ack", "ack_test", "ack_time", "identify",
                        "disabled", "id_loop", "identified", "initialized", "check", "enable"},
             Name(n), NEW ops, Puts(ops)
      PROVE  TodoIn(S)' /\ Proceeds
  <2>1. todo[1][1] \notin {"id_wait", "id_byte", "poll"}
    BY <1>a
  <2>2. ops \in Seq(S) /\ Then(ops) /\ todo # <<>>
    BY <1>0, <1>a
  <2>3. TodoIn(S)'
    BY <2>1, <2>2, UsualStep
  <2>4. Proceeds
    BY <1>0, <1>a, <1>e
  <2>. QED
    BY <2>3, <2>4
<1>b. ASSUME NEW n \in {"write", "ack", "ack_test", "ack_time", "identify", "disabled", "id_loop"},
             Name(n)
      PROVE  /\ p \in Ports
             /\ n \in {"write", "ack", "ack_test", "ack_time"} => b \in Bytes
  <2>1. todo[1] \in Usual
    BY <1>b, UsualHead
  <2>. QED
    BY <1>b, <2>1, OpArgs
<1>c. Puts(<<>>) <=> Then(<<>>)
  BY QuietSeqs DEF Ports, Bytes
<1>d. (response' = response => Len(response') <= 2) /\ Len(response) \in Nat
  OBVIOUS
<1>. HIDE DEF Puts, Name
<1>1. CASE Out
  <2>1. Name("outb") /\ Puts(<<>>) /\ response' = response
    BY <1>1, <1>c DEF Out, At, ReturnFrom, Name
  <2>. QED
    BY <1>a, <1>d, <2>1
<1>2. CASE Flush
  <2>1. Name("flush") /\ response' = response
    BY <1>2 DEF Flush, At, Name
  <2>2. CASE OutputFull
    <3>1. todo' = todo
      BY <1>2, <2>2 DEF Flush
    <3>. QED
      BY <1>d, <2>1, <3>1 DEF TodoIn, Proceeds
  <2>3. CASE ~OutputFull
    <3>1. Puts(<<>>)
      BY <1>2, <1>c, <2>3 DEF Flush, ReturnFrom
    <3>. QED
      BY <1>a, <1>d, <2>1, <3>1
  <2>. QED
    BY <2>2, <2>3
<1>3. CASE WritePort
  <2>1. Name("write") /\ response' = response
    BY <1>3 DEF WritePort, At, Name, thread
  <2>2. p \in Ports /\ b \in Bytes
    BY <1>b, <2>1
  <2>. DEFINE ops == IF ~Usable(p) THEN <<>>
                     ELSE OpsIf(p = 2, <<ps2_send_cmd(PS2_WRITE_BYTE_INPUT_PORT_2)>>)
                          \o <<ps2_write_data(b)>>
  <2>3. ops \in Seq(PlainOps)
    <3>1. <<>> \in Seq(PlainOps)
      OBVIOUS
    <3>. QED
      BY <2>2, <3>1, QuietJoins
  <2>4. Then(ops)
    BY <1>3 DEF WritePort, Arg
  <2>. HIDE DEF ops
  <2>5. Puts(ops)
    BY <2>3, <2>4 DEF Puts
  <2>. QED
    BY <1>a, <1>d, <2>1, <2>5
<1>4. CASE WaitForAck
  <2>1. Name("ack") /\ response' = response
    BY <1>4 DEF WaitForAck, At, Name
  <2>2. p \in Ports /\ b \in Bytes
    BY <1>b, <2>1
  <2>3. Puts(<<<<"poll">>, <<"ack_test", p, b>>>>)
    BY <1>4, <2>2, QuietSeqs DEF WaitForAck, Arg, Puts
  <2>. QED
    BY <1>a, <1>d, <2>1, <2>3
<1>5. CASE PollReceived \/ PollTimedOut
  <2>1. Name("poll") /\ response' = response /\ Then(<<>>)
    BY <1>5 DEF PollReceived, PollTimedOut, At, Name, ReturnFrom
  <2>5. Proceeds
    <3>1. <<>> \in Seq(PlainOps \cup IdOps)
      OBVIOUS
    <3>. QED
      BY <1>e, <2>1, <3>1
  <2>2. CASE todo \in Seq(S)
    <3>1. <<>> \in Seq(S)
      OBVIOUS
    <3>2. todo' \in Seq(S)
      BY <2>1, <2>2, <3>1, ThenIn DEF Name
    <3>. QED
      BY <1>d, <2>1, <2>5, <3>2 DEF TodoIn
  <2>3. CASE \E op \in IdOps, rest \in Seq(S) : todo = <<op>> \o rest
    <3>1. PICK op \in IdOps, rest \in Seq(S) : todo = <<op>> \o rest
      BY <2>3
    <3>2. todo[1] = op
      BY <3>1
    <3>. QED
      BY <2>1, <3>2 DEF Name, IdOps
  <2>4. CASE /\ Len(response) < 2
             /\ \E q \in Ports, rest \in Seq(S) :
                  todo = <<<<"poll">>, <<"id_byte", q>>>> \o rest
    <3>1. PICK q \in Ports, rest \in Seq(S) : todo = <<<<"poll">>, <<"id_byte", q>>>> \o rest
      BY <2>4
    <3>. DEFINE op == <<"id_byte", q>>
    <3>2. op \in IdOps
      BY DEF IdOps
    <3>. HIDE DEF op
    <3>3. todo = <<<<"poll">>, op>> \o rest
      BY <3>1 DEF op
    <3>4. todo = <<<<"poll">>>> \o (<<op>> \o rest)
      <4>. DEFINE All == Usual \cup IdOps
      <4>1. rest \in Seq(All) /\ op \in All
        BY <3>2
      <4>2. <<"poll">> \in All
        BY DEF Usual, QuietOps, PlainOps
      <4>. DEFINE poll == <<"poll">>
      <4>3. poll \in All
        BY <4>2
      <4>. HIDE DEF All, poll
      <4>5. \A x, y \in All, r \in Seq(All) : <<x, y>> \o r = <<x>> \o (<<y>> \o r)
        BY TwoAre, SMTT(20)
      <4>4. <<poll, op>> \o rest = <<poll>> \o (<<op>> \o rest)
        BY <4>1, <4>3, <4>5, Zenon
      <4>. QED
        BY <3>3, <4>4 DEF poll
    <3>5. Tail(todo) = <<op>> \o rest
      BY <3>2, <3>4
    <3>6. todo' = <<op>> \o rest
      BY <2>1, <3>2, <3>5 DEF Then
    <3>. QED
      BY <1>d, <2>1, <2>4, <2>5, <3>2, <3>6 DEF TodoIn
  <2>. QED
    BY <2>2, <2>3, <2>4 DEF TodoIn
<1>6. CASE AckTest
  <2>1. Name("ack_test") /\ response' = response
    BY <1>6 DEF AckTest, At, Name
  <2>2. p \in Ports /\ b \in Bytes
    BY <1>b, <2>1
  <2>. DEFINE done == byte = PS2_ACK \/ ps2_error
              ops == IF done THEN <<>>
                     ELSE OpsIf(byte = PS2_RESEND, ps2_port_write_data(p, b))
                          \o <<<<"ack_time", p, b>>>>
  <2>3. ops \in Seq(PlainOps)
    <3>1. <<>> \in Seq(PlainOps) /\ (byte = PS2_RESEND) \in BOOLEAN
      OBVIOUS
    <3>. HIDE DEF done
    <3>. QED
      BY <2>2, <3>1, QuietJoins
  <2>4. Then(ops)
    BY <1>6 DEF AckTest, Arg
  <2>. HIDE DEF ops
  <2>5. Puts(ops)
    BY <2>3, <2>4 DEF Puts
  <2>. QED
    BY <1>a, <1>d, <2>1, <2>5
<1>7. CASE AckTime
  <2>1. Name("ack_time") /\ response' = response
    BY <1>7 DEF AckTime, At, Name
  <2>2. p \in Ports /\ b \in Bytes
    BY <1>b, <2>1
  <2>3. Puts(<<>>) \/ Puts(<<<<"poll">>, <<"ack_test", p, b>>>>)
    BY <1>7, <1>c, <2>2, QuietSeqs DEF AckTime, Arg, Puts, ReturnFrom
  <2>. QED
    BY <1>a, <1>d, <2>1, <2>3
<1>8. CASE Identify
  <2>1. Name("identify") /\ response' = <<>>
    BY <1>8 DEF Identify, At, Name
  <2>2. p \in Ports
    BY <1>b, <2>1
  <2>. DEFINE ops == Command(p, PS2_DISABLE_SCANNING) \o <<<<"disabled", p>>>>
  <2>3. ops \in Seq(PlainOps)
    <3>1. PS2_DISABLE_SCANNING \in Bytes
      BY CommandBytes
    <3>. QED
      BY <2>2, <3>1, QuietJoins
  <2>4. Then(ops)
    BY <1>8 DEF Identify, Arg
  <2>. HIDE DEF ops
  <2>5. Puts(ops)
    BY <2>3, <2>4 DEF Puts
  <2>. QED
    BY <1>a, <2>1, <2>5
<1>9. CASE ScanningDisabled
  <2>1. Name("disabled") /\ response' = response
    BY <1>9 DEF ScanningDisabled, At, Name
  <2>2. p \in Ports
    BY <1>b, <2>1
  <2>. DEFINE ops == IF ret = 1 THEN <<>>
                     ELSE Command(p, PS2_IDENTIFY) \o <<<<"id_loop", p>>>>
  <2>3. ops \in Seq(PlainOps)
    <3>1. PS2_IDENTIFY \in Bytes /\ <<>> \in Seq(PlainOps)
      BY CommandBytes
    <3>. QED
      BY <2>2, <3>1, QuietJoins
  <2>4. Then(ops)
    BY <1>9 DEF ScanningDisabled, Arg
  <2>. HIDE DEF ops
  <2>5. Puts(ops)
    BY <2>3, <2>4 DEF Puts
  <2>. QED
    BY <1>a, <1>d, <2>1, <2>5
<1>10. CASE IdLoop
  <2>1. Name("id_loop") /\ response' = response
    BY <1>10 DEF IdLoop, At, Name
  <2>2. p \in Ports
    BY <1>b, <2>1
  <2>3. CASE Len(response) = 2
    <3>1. Puts(Command(p, PS2_ENABLE_SCANNING))
      BY <1>10, <2>2, <2>3, QuietSeqs, CommandBytes DEF IdLoop, Arg, Puts
    <3>. QED
      BY <1>a, <1>d, <2>1, <3>1
  <2>4. CASE Len(response) # 2
    <3>1. todo \in Seq(S) /\ todo # <<>>
      BY <2>1, UsualHead DEF Name
    <3>2. todo' = <<<<"id_wait", p>>>> \o Tail(todo) /\ Tail(todo) \in Seq(S)
      BY <1>10, <2>4, <3>1 DEF IdLoop, Arg, Then
    <3>3. Len(response') < 2
      <4>1. Len(response) < 2
        <5>. DEFINE l == Len(response)
        <5>1. l \in Nat /\ l <= 2 /\ l # 2
          BY <1>d, <2>4
        <5>. HIDE DEF l
        <5>2. l < 2
          BY <5>1
        <5>. QED
          BY <5>2 DEF l
      <4>. QED
        BY <2>1, <4>1
    <3>4. <<"id_wait", p>> \in IdOps
      BY <2>2 DEF IdOps
    <3>5. Len(response') <= 2
      BY <1>d, <2>1
    <3>. DEFINE op == <<"id_wait", p>>
                rest == Tail(todo)
    <3>6. op \in IdOps /\ rest \in Seq(S) /\ todo' = <<op>> \o rest
      BY <3>2, <3>4
    <3>. HIDE DEF rest
    <3>7. Proceeds
      <4>1. <<op>> \in Seq(PlainOps \cup IdOps)
        BY <3>6
      <4>2. Then(<<op>>)
        BY <3>6 DEF Then, rest
      <4>. QED
        BY <1>e, <4>1, <4>2
    <3>. HIDE DEF op
    <3>. QED
      BY <3>3, <3>5, <3>6, <3>7 DEF TodoIn
  <2>. QED
    BY <2>3, <2>4
<1>11. CASE IdWait \/ IdByte
  <2>1. Name("id_wait") \/ Name("id_byte")
    BY <1>11 DEF IdWait, IdByte, At, Name
  <2>2. PICK op \in IdOps, rest \in Seq(S) : todo = <<op>> \o rest /\ Len(response) < 2
    <3>1. ASSUME todo \in Seq(S) PROVE FALSE
      <4>1. todo[1] \in S
        BY <2>1, <3>1 DEF Name
      <4>2. todo[1] \in Usual
        BY <4>1
      <4>. QED
        BY <2>1, <4>2 DEF Name, Usual, QuietOps, PlainOps, InitOps
    <3>2. ASSUME NEW q \in Ports, NEW rest \in Seq(S),
                 todo = <<<<"poll">>, <<"id_byte", q>>>> \o rest
          PROVE  FALSE
      <4>1. todo[1] = <<"poll">>
        BY <3>2
      <4>. QED
        BY <2>1, <4>1 DEF Name
    <3>. QED
      BY <3>1, <3>2 DEF TodoIn
  <2>3. todo[1] = op /\ Tail(todo) = rest
    BY <2>2
  <2>4. p \in Ports
    BY <2>3 DEF IdOps
  <2>5. CASE IdWait
    <3>1. response' = response
      BY <2>5 DEF IdWait
    <3>2. CASE OutputFull
      <4>1. todo' = <<<<"poll">>, <<"id_byte", p>>>> \o rest
        BY <2>3, <2>5, <3>2 DEF IdWait, Then, Arg
      <4>2. Proceeds
        <5>1. <<"poll">> \in PlainOps \cup IdOps /\ <<"id_byte", p>> \in PlainOps \cup IdOps
          BY <2>4 DEF PlainOps, IdOps
        <5>2. <<<<"poll">>, <<"id_byte", p>>>> \in Seq(PlainOps \cup IdOps)
          BY <5>1
        <5>3. Then(<<<<"poll">>, <<"id_byte", p>>>>)
          BY <2>5, <3>2 DEF IdWait, Arg
        <5>. QED
          BY <1>e, <5>2, <5>3
      <4>. QED
        BY <1>d, <2>2, <2>4, <3>1, <4>1, <4>2 DEF TodoIn
    <3>3. CASE ~OutputFull
      <4>1. todo' = Command(p, PS2_ENABLE_SCANNING) \o rest
        BY <2>3, <2>5, <3>3 DEF IdWait, Then, Arg, AnswerEnds
      <4>2. Command(p, PS2_ENABLE_SCANNING) \in Seq(PlainOps)
        BY <2>4, QuietSeqs, CommandBytes
      <4>3. Command(p, PS2_ENABLE_SCANNING) \in Seq(S)
        BY <1>0, <4>2
      <4>4. Proceeds
        <5>1. Then(Command(p, PS2_ENABLE_SCANNING))
          BY <2>5, <3>3 DEF IdWait, Arg, AnswerEnds
        <5>. QED
          BY <1>0, <1>e, <4>2, <5>1
      <4>. QED
        BY <1>d, <2>2, <3>1, <4>1, <4>3, <4>4 DEF TodoIn
    <3>. QED
      BY <3>2, <3>3
  <2>6. CASE IdByte
    <3>1. CASE ps2_error
      <4>1. todo' = <<>> \o rest /\ response' = response
        BY <2>3, <2>6, <3>1 DEF IdByte, ReturnFrom, Then
      <4>2. todo' \in Seq(S)
        BY <4>1
      <4>3. Proceeds
        <5>1. <<>> \in Seq(PlainOps \cup IdOps) /\ Then(<<>>)
          BY <2>6, <3>1 DEF IdByte, ReturnFrom
        <5>. QED
          BY <1>e, <5>1
      <4>. QED
        BY <1>d, <4>1, <4>2, <4>3 DEF TodoIn
    <3>2. CASE ~ps2_error
      <4>1. todo' = <<<<"id_loop", p>>>> \o rest /\ response' = Append(response, byte)
        BY <2>3, <2>6, <3>2 DEF IdByte, Then, Arg
      <4>5. <<<<"id_loop", p>>>> \in Seq(PlainOps)
        BY <2>4, QuietSeqs DEF Bytes
      <4>2. <<<<"id_loop", p>>>> \in Seq(S)
        BY <1>0, <4>5
      <4>6. Proceeds
        <5>1. Then(<<<<"id_loop", p>>>>)
          BY <2>6, <3>2 DEF IdByte, Arg
        <5>. QED
          BY <1>0, <1>e, <4>5, <5>1
      <4>3. todo' \in Seq(S)
        BY <4>1, <4>2
      <4>4. Len(response') = Len(response) + 1 /\ Len(response) \in Nat
        BY <4>1
      <4>. QED
        BY <2>2, <4>3, <4>4, <4>6 DEF TodoIn
    <3>. QED
      BY <3>1, <3>2
  <2>. QED
    BY <1>11, <2>5, <2>6
<1>12. CASE Identified
  <2>1. Name("identified") /\ Puts(<<>>) /\ response' = <<>>
    BY <1>12, <1>c DEF Identified, At, ReturnFrom, Name, Gone
  <2>. QED
    BY <1>a, <2>1
<1>13. CASE Initialized
  <2>1. Name("initialized") /\ Puts(<<>>) /\ response' = response
    BY <1>13, <1>c DEF Initialized, At, ReturnFrom, Name
  <2>. QED
    BY <1>a, <1>d, <2>1
<1>14. CASE KeyboardInit
  <2>1. Name("keyboard_init") /\ response' = response
    BY <1>14 DEF KeyboardInit, At, Name
  <2>2. ASSUME NEW q \in Ports
        PROVE  ps2_scancode_correction(q) \o enable_and_flush \in Seq(QuietOps)
    <3>1. {} \in Bytes
      BY DEF Bytes
    <3>. QED
      BY <3>1, QuietJoins
  <2>3. \E ops \in Seq(QuietOps) : Then(ops)
    <3>1. \/ Then(<<>>) \/ Then(<<<<"flush">>>>)
          \/ \E q \in Ports : Then(ps2_scancode_correction(q) \o enable_and_flush)
      BY <1>14, KeyboardInitThen
    <3>2. 1 \in Ports /\ 2 \in Ports /\ {} \in Bytes
      BY DEF Ports, Bytes
    <3>. QED
      BY <1>0, <2>2, <3>1, <3>2, QuietSeqs
  <2>4. PICK ops \in Seq(S) : Then(ops)
    BY <1>0, <2>3
  <2>5. todo # <<>> /\ todo[1][1] \notin {"id_wait", "id_byte", "poll"}
    BY <2>1 DEF Name
  <2>6. TodoIn(S)'
    BY <2>4, <2>5, UsualStep
  <2>. QED
    BY <1>14, <1>d, <2>1, <2>6
<1>15. CASE Check
  <2>1. Name("check") /\ response' = <<>>
    BY <1>15 DEF Check, At, Name, Gone
  <2>2. CASE ret = 1
    <3>1. todo' = <<>>
      BY <1>15, <2>2 DEF Check
    <3>. QED
      BY <2>1, <3>1 DEF TodoIn, Proceeds
  <2>3. CASE ret # 1
    <3>1. Puts(<<>>)
      BY <1>15, <1>c, <2>3 DEF Check, ReturnFrom
    <3>. QED
      BY <1>a, <2>1, <3>1
  <2>. QED
    BY <2>2, <2>3
<1>16. CASE Enable
  <2>1. Name("enable") /\ Puts(<<>>) /\ response' = response
    BY <1>16, <1>c DEF Enable, At, ReturnFrom, Name
  <2>. QED
    BY <1>a, <1>d, <2>1
<1>. QED
  BY <1>1, <1>2, <1>3, <1>4, <1>5, <1>6, <1>7, <1>8, <1>9, <1>10, <1>11, <1>12, <1>13,
     <1>14, <1>15, <1>16 DEF QuietThread

LEMMA TodoSeq ==
  ASSUME NEW S \in SUBSET Usual, TodoIn(S)
  PROVE  todo \in Seq(Usual \cup IdOps)
<1>. DEFINE All == Usual \cup IdOps
<1>1. \A s \in Seq(S) : s \in Seq(All)
  BY SeqMonotonic
<1>2. <<"poll">> \in All
  BY DEF Usual, QuietOps, PlainOps
<1>3. \A op \in IdOps : op \in All
  OBVIOUS
<1>4. \A p \in Ports : <<"id_byte", p>> \in All
  BY DEF IdOps
<1>. HIDE DEF All
<1>5. \A op \in All, s \in Seq(All) : <<op>> \o s \in Seq(All)
  OBVIOUS
<1>6. \A op, q \in All, s \in Seq(All) : <<op, q>> \o s \in Seq(All)
  OBVIOUS
<1>7. CASE todo \in Seq(S)
  BY <1>1, <1>7 DEF All
<1>8. CASE \E op \in IdOps, rest \in Seq(S) : todo = <<op>> \o rest
  <2>1. PICK op \in IdOps, rest \in Seq(S) : todo = <<op>> \o rest
    BY <1>8
  <2>2. todo \in Seq(All)
    BY <1>1, <1>3, <1>5, <2>1, Zenon
  <2>. QED
    BY <2>2 DEF All
<1>9. CASE \E p \in Ports, rest \in Seq(S) : todo = <<<<"poll">>, <<"id_byte", p>>>> \o rest
  <2>1. PICK p \in Ports, rest \in Seq(S) : todo = <<<<"poll">>, <<"id_byte", p>>>> \o rest
    BY <1>9
  <2>2. todo \in Seq(All)
    BY <1>1, <1>2, <1>4, <1>6, <2>1, Zenon
  <2>. QED
    BY <2>2 DEF All
<1>. QED
  BY <1>7, <1>8, <1>9 DEF TodoIn

\* The operations before.
LoudThread ==
  \/ ReadData \/ CheckPs2 \/ FirstCheck \/ SelfTest \/ SecondTest \/ SecondCheck
  \/ Port1Test \/ Port2Test \/ TestPort2 \/ EnablePorts \/ EnableInterrupts

LEMMA UsualSeqs ==
  /\ \A c \in Bytes : <<ps2_send_cmd(c)>> \in Seq(Usual)
  /\ \A b \in Bytes : write_ps2_controller_config(b) \in Seq(Usual)
  /\ read_ps2_controller_config \in Seq(Usual) /\ ps2_init \in Seq(Usual)
  /\ <<<<"read_data">>>> \in Seq(Usual) /\ <<<<"second_check">>>> \in Seq(Usual)
  /\ <<ps2_send_cmd(PS2_TEST_PORT), <<"read_data">>, <<"port_2_test">>>> \in Seq(Usual)
  /\ <<<<"keyboard_init">>>> \in Seq(Usual) /\ <<>> \in Seq(Usual)
<1>1. \A c \in Bytes : ps2_send_cmd(c) \in Usual /\ ps2_write_data(c) \in Usual
  BY DEF Usual, QuietOps, PlainOps, InitOps, ps2_send_cmd, ps2_write_data
<1>2. \A name \in {"keyboard_init", "flush", "initialized", "read_data", "first_check",
                   "self_test", "second_test", "second_check", "port_1_test", "test_port_2",
                   "port_2_test", "enable_ports", "enable_interrupts"} : <<name>> \in Usual
  BY DEF Usual, QuietOps, PlainOps, InitOps
<1>3. /\ <<"identify", 1>> \in Usual /\ <<"identify", 2>> \in Usual
      /\ <<"identified", 1>> \in Usual /\ <<"identified", 2>> \in Usual
  BY DEF Usual, QuietOps, PlainOps, Ports
<1>. HIDE DEF Usual
<1>4. \A b \in Bytes : write_ps2_controller_config(b) \in Seq(Usual)
  BY <1>1, CommandBytes DEF write_ps2_controller_config
<1>5. read_ps2_controller_config \in Seq(Usual)
  BY <1>1, <1>2, CommandBytes DEF read_ps2_controller_config
<1>6. ps2_init \in Seq(Usual)
  <2>1. <<ps2_send_cmd(PS2_DISABLE_PORT), ps2_send_cmd(PS2_DISABLE_PORT_2), <<"flush">>>>
          \in Seq(Usual)
    BY <1>1, <1>2, CommandBytes
  <2>2. <<<<"first_check">>,
          ps2_send_cmd(PS2_CONTROLLER_TEST), <<"read_data">>, <<"self_test">>,
          <<"second_test">>,
          ps2_send_cmd(PS2_TEST_PORT), <<"read_data">>, <<"port_1_test">>,
          <<"test_port_2">>,
          <<"enable_ports">>>> \in Seq(Usual)
    BY <1>1, <1>2, CommandBytes
  <2>3. <<<<"enable_interrupts">>,
          <<"identify", 1>>, <<"identified", 1>>,
          <<"identify", 2>>, <<"identified", 2>>,
          <<"initialized">>>> \in Seq(Usual)
    BY <1>2, <1>3
  <2>. QED
    BY <1>5, <2>1, <2>2, <2>3, ConcatProperties DEF ps2_init
<1>7. <<ps2_send_cmd(PS2_TEST_PORT), <<"read_data">>, <<"port_2_test">>>> \in Seq(Usual)
  BY <1>1, <1>2, CommandBytes
<1>. QED
  BY <1>1, <1>2, <1>4, <1>5, <1>6, <1>7

LEMMA LoudTodo ==
  ASSUME TodoIn(Usual), byte \in Bytes, LoudThread
  PROVE  TodoIn(Usual)' /\ response' = response
<1>0. \A s, t \in Seq(Usual) : s \o t \in Seq(Usual)
  BY ConcatProperties
<1>. DEFINE Puts(ops) == ops \in Seq(Usual) /\ Then(ops)
            Name(n) == todo # <<>> /\ todo[1][1] = n
            Names == {"read_data", "check_ps2", "first_check", "self_test", "second_test",
                      "second_check", "port_1_test", "port_2_test", "test_port_2",
                      "enable_ports", "enable_interrupts"}
<1>a. ASSUME NEW n \in Names, Name(n)
      PROVE  todo \in Seq(Usual) /\ todo # <<>> /\ todo[1][1] \notin {"id_wait", "id_byte", "poll"}
  <2>1. todo[1][1] \notin {"id_wait", "id_byte", "poll"} /\ todo # <<>>
    BY <1>a
  <2>. QED
    BY <2>1, UsualHead
<1>b. ASSUME NEW n \in Names, Name(n), NEW ops, Puts(ops)
      PROVE  TodoIn(Usual)'
  BY <1>a, <1>b, UsualStep
<1>c. ASSUME NEW n \in Names, Name(n), todo' = <<<<"read_data">>>> \o todo
      PROVE  TodoIn(Usual)'
  <2>1. todo' \in Seq(Usual)
    BY <1>0, <1>a, <1>c, UsualSeqs
  <2>. QED
    BY <2>1 DEF TodoIn
<1>d. ASSUME Fail PROVE TodoIn(Usual)'
  BY <1>d, UsualSeqs DEF Fail, TodoIn
<1>e. Then(<<>>) <=> Puts(<<>>)
  BY UsualSeqs
<1>. HIDE DEF Name, Names
<1>1. CASE ReadData
  <2>1. Name("read_data") /\ Puts(<<>>) /\ response' = response
    BY <1>1, <1>e DEF ReadData, At, ReturnFrom, Name
  <2>. QED
    BY <1>b, <2>1 DEF Names
<1>2. CASE CheckPs2
  <2>1. Name("check_ps2") /\ response' = response
    BY <1>2 DEF CheckPs2, At, Name
  <2>2. Puts(ps2_init) \/ Puts(<<>>)
    BY <1>2, <1>e, UsualSeqs DEF CheckPs2
  <2>. QED
    BY <1>b, <2>1, <2>2 DEF Names
<1>3. CASE FirstCheck
  <2>1. Name("first_check") /\ response' = response
    BY <1>3 DEF FirstCheck, At, Name
  <2>2. byte \cap FirstMask \in Bytes
    BY DEF Bytes
  <2>3. write_ps2_controller_config(byte \cap FirstMask) \o read_ps2_controller_config
          \in Seq(Usual)
    BY <1>0, <2>2, UsualSeqs
  <2>4. Puts(write_ps2_controller_config(byte \cap FirstMask) \o read_ps2_controller_config)
    BY <1>3, <2>3 DEF FirstCheck
  <2>. QED
    BY <1>b, <2>1, <2>4 DEF Names
<1>4. CASE SelfTest
  <2>1. Name("self_test") /\ response' = response
    BY <1>4 DEF SelfTest, At, Name
  <2>2. Puts(<<>>) \/ Fail \/ todo' = <<<<"read_data">>>> \o todo
    BY <1>4, <1>e DEF SelfTest, ReturnFrom
  <2>. QED
    BY <1>b, <1>c, <1>d, <2>1, <2>2 DEF Names
<1>5. CASE SecondTest
  <2>1. Name("second_test") /\ response' = response
    BY <1>5 DEF SecondTest, At, Name
  <2>. DEFINE ops == <<ps2_send_cmd(PS2_ENABLE_PORT_2)>> \o read_ps2_controller_config
                     \o <<<<"second_check">>>>
  <2>2. <<ps2_send_cmd(PS2_ENABLE_PORT_2)>> \in Seq(Usual)
    BY UsualSeqs, CommandBytes
  <2>3. ops \in Seq(Usual)
    BY <1>0, <2>2, UsualSeqs
  <2>4. Then(IF dual_channel THEN <<>> ELSE ops)
    BY <1>5 DEF SecondTest
  <2>. HIDE DEF ops
  <2>5. Puts(<<>>) \/ Puts(ops)
    BY <1>e, <2>3, <2>4
  <2>. QED
    BY <1>b, <2>1, <2>5 DEF Names
<1>6. CASE SecondCheck
  <2>1. Name("second_check") /\ response' = response
    BY <1>6 DEF SecondCheck, At, Name
  <2>2. <<ps2_send_cmd(PS2_DISABLE_PORT_2)>> \in Seq(Usual)
    BY UsualSeqs, CommandBytes
  <2>3. Puts(<<>>) \/ Puts(<<ps2_send_cmd(PS2_DISABLE_PORT_2)>>)
    BY <1>6, <1>e, <2>2 DEF SecondCheck
  <2>. QED
    BY <1>b, <2>1, <2>3 DEF Names
<1>7. CASE Port1Test \/ Port2Test
  <2>1. (Name("port_1_test") \/ Name("port_2_test")) /\ response' = response
    BY <1>7 DEF Port1Test, Port2Test, PortTest, At, Name
  <2>2. Puts(<<>>) \/ todo' = <<<<"read_data">>>> \o todo
    BY <1>7, <1>e DEF Port1Test, Port2Test, PortTest, ReturnFrom
  <2>. QED
    BY <1>b, <1>c, <2>1, <2>2 DEF Names
<1>8. CASE TestPort2
  <2>1. Name("test_port_2") /\ response' = response
    BY <1>8 DEF TestPort2, At, Name
  <2>2. Puts(<<>>) \/ Puts(<<ps2_send_cmd(PS2_TEST_PORT), <<"read_data">>, <<"port_2_test">>>>)
    BY <1>8, <1>e, UsualSeqs DEF TestPort2
  <2>. QED
    BY <1>b, <2>1, <2>2 DEF Names
<1>9. CASE EnablePorts
  <2>1. Name("enable_ports") /\ response' = response
    BY <1>9 DEF EnablePorts, At, Name
  <2>. DEFINE ops == OpsIf(Usable(1), <<ps2_send_cmd(PS2_ENABLE_PORT)>>)
                     \o OpsIf(Usable(2), <<ps2_send_cmd(PS2_ENABLE_PORT_2)>>)
  <2>2. /\ <<ps2_send_cmd(PS2_ENABLE_PORT)>> \in Seq(Usual)
        /\ <<ps2_send_cmd(PS2_ENABLE_PORT_2)>> \in Seq(Usual)
    BY UsualSeqs, CommandBytes
  <2>3. /\ OpsIf(Usable(1), <<ps2_send_cmd(PS2_ENABLE_PORT)>>) \in Seq(Usual)
        /\ OpsIf(Usable(2), <<ps2_send_cmd(PS2_ENABLE_PORT_2)>>) \in Seq(Usual)
    BY <2>2, UsualSeqs DEF OpsIf
  <2>4. ops \in Seq(Usual)
    BY <1>0, <2>3
  <2>5. Fail \/ Then(ops)
    BY <1>9 DEF EnablePorts
  <2>. HIDE DEF ops
  <2>6. Fail \/ Puts(ops)
    BY <2>4, <2>5
  <2>. QED
    BY <1>b, <1>d, <2>1, <2>6 DEF Names
<1>10. CASE EnableInterrupts
  <2>1. Name("enable_interrupts") /\ response' = response
    BY <1>10 DEF EnableInterrupts, At, Name
  <2>. DEFINE written == byte \cup {Irq(p) : p \in {q \in Ports : Usable(q)}}
              ops == write_ps2_controller_config(written) \o read_ps2_controller_config
  <2>2. written \in Bytes
    <3>1. byte \subseteq Bits
      BY DEF Bytes
    <3>2. \A p \in Ports : Irq(p) \in Bits
      BY DEF Bits, Irq
    <3>3. written \subseteq Bits
      BY <3>1, <3>2
    <3>. QED
      BY <3>3 DEF Bytes
  <2>. HIDE DEF written
  <2>3. ops \in Seq(Usual)
    BY <1>0, <2>2, UsualSeqs
  <2>4. Puts(ops)
    BY <1>10, <2>3 DEF EnableInterrupts, written
  <2>. QED
    BY <1>b, <2>1, <2>4 DEF Names
<1>. QED
  BY <1>1, <1>2, <1>3, <1>4, <1>5, <1>6, <1>7, <1>8, <1>9, <1>10 DEF LoudThread

-----------------------------------------------------------------------------
(* Types. *)

Devices ==
  [scanning : BOOLEAN, set : {1, 2}, param : BOOLEAN, queue : Seq(Bytes), resends : Nat,
   held : SUBSET DOMAIN Makes]

ThreadTypes ==
  /\ byte \in Bytes /\ ret \in {0, 1} /\ start \in Nat /\ ack_start \in Nat
  /\ response \in Seq(Bytes) /\ Len(response) <= 2

DriverTypes ==
  /\ port1 \in {-1, 0, 1} /\ port2 \in {-1, 0, 1}
  /\ identity \in [Ports -> Seq(Bytes)]

MachineTypes ==
  /\ ticks \in Nat
  /\ handler \in {"none", "flush"}
  /\ machine \in Machines
  /\ config \in Bytes
  /\ in \in [byte : Bytes, port : {"none", "command", "data"}]
  /\ out \in [byte : Bytes, src : {Nobody, 1, 2, Controller}, irq : BOOLEAN]
  /\ expects \in {"config", "port 1", "port 2"}
  /\ dev \in [Ports -> Devices]
  /\ typed \in {"nothing", "NUL", "backspace", "a", "A", "other", "outside"}

FlagTypes ==
  /\ dual_channel \in BOOLEAN /\ ps2_error \in BOOLEAN /\ ps2_initialized \in BOOLEAN
  /\ keyboard_enabled \in BOOLEAN /\ shift_down \in BOOLEAN

Types == ThreadTypes /\ DriverTypes /\ MachineTypes /\ FlagTypes /\ TodoIn(Usual)

LEMMA InitTypes == Init => Types
<1>. SUFFICES ASSUME Init PROVE Types
  OBVIOUS
<1>1. todo = <<<<"check_ps2">>, <<"keyboard_init">>>>
  BY DEF Init
<1>2. <<"check_ps2">> \in Usual /\ <<"keyboard_init">> \in Usual
  BY DEF Usual, QuietOps, PlainOps, InitOps
<1>3. TodoIn(Usual)
  <2>1. todo \in Seq(Usual)
    BY <1>1, <1>2
  <2>. QED
    BY <2>1 DEF TodoIn
<1>4. machine.config \in Bytes
  BY Ps2Assumption DEF Init, Ps2Init, MachineType
<1>5. Byte(30) \in Bytes /\ {} \in Bytes
  BY BitOf DEF Bytes
<1>6. dev \in [Ports -> Devices]
  <2>. DEFINE d == [scanning |-> TRUE, set |-> 2, param |-> FALSE, queue |-> <<>>,
                    resends |-> 0, held |-> {}]
  <2>1. d \in Devices
    <3>1. <<>> \in Seq(Bytes) /\ {} \in SUBSET DOMAIN Makes
      BY EmptySeq
    <3>. HIDE DEF Makes
    <3>. QED
      BY <3>1 DEF Devices
  <2>2. dev = [p \in Ports |-> d]
    BY DEF Init, Ps2Init
  <2>. QED
    BY <2>1, <2>2
<1>7. out \in [byte : Bytes, src : {Nobody, 1, 2, Controller}, irq : BOOLEAN]
  BY <1>5 DEF Init, Ps2Init, NoByte
<1>8. in \in [byte : Bytes, port : {"none", "command", "data"}]
  BY <1>5 DEF Init, Ps2Init, NoInput
<1>9. response \in Seq(Bytes) /\ Len(response) <= 2 /\ identity \in [Ports -> Seq(Bytes)]
  <2>1. <<>> \in Seq(Bytes) /\ Len(<<>>) = 0
    BY EmptySeq
  <2>2. response = <<>> /\ identity = [p \in Ports |-> <<>>]
    BY DEF Init, Ps2Init
  <2>. QED
    BY <2>1, <2>2
<1>10. /\ byte \in Bytes /\ ret \in {0, 1} /\ start \in Nat /\ ack_start \in Nat /\ ticks \in Nat
       /\ port1 \in {-1, 0, 1} /\ port2 \in {-1, 0, 1}
  BY <1>5 DEF Init, Ps2Init
<1>11. /\ handler \in {"none", "flush"} /\ machine \in Machines /\ config \in Bytes
       /\ expects \in {"config", "port 1", "port 2"} /\ typed = "nothing"
  BY <1>4 DEF Init, Ps2Init
<1>12. ThreadTypes /\ DriverTypes /\ MachineTypes
  BY <1>6, <1>7, <1>8, <1>9, <1>10, <1>11 DEF ThreadTypes, DriverTypes, MachineTypes
<1>13. FlagTypes
  BY DEF Init, Ps2Init, FlagTypes
<1>. QED
  BY <1>3, <1>12, <1>13 DEF Types

LEMMA TypesMean == Types => TypeOK
<1>. SUFFICES ASSUME Types PROVE TypeOK
  OBVIOUS
<1>1. /\ {start, ack_start, ticks} \subseteq Nat /\ {port1, port2} \subseteq {-1, 0, 1}
      /\ DOMAIN dev = Ports
  BY DEF Types, ThreadTypes, DriverTypes, MachineTypes
<1>2. Ps2TypeOK
  BY <1>1, Zenon DEF Types, ThreadTypes, DriverTypes, MachineTypes, FlagTypes, Ps2TypeOK
<1>. QED
  BY <1>2, Zenon DEF Types, ThreadTypes, DriverTypes, MachineTypes, FlagTypes, TypeOK

\* What a step leaves alone keeps its type.
LEMMA Kept ==
  /\ ThreadTypes /\ UNCHANGED <<byte, ret, start, ack_start, response>> => ThreadTypes'
  /\ DriverTypes /\ UNCHANGED <<port1, port2, identity>> => DriverTypes'
  /\ MachineTypes /\ UNCHANGED <<ticks, handler, machine, config, in, out, expects, dev, typed>>
       => MachineTypes'
  /\ FlagTypes
       /\ UNCHANGED <<dual_channel, ps2_error, ps2_initialized, keyboard_enabled, shift_down>>
       => FlagTypes'
<1>1. ThreadTypes /\ UNCHANGED <<byte, ret, start, ack_start, response>> => ThreadTypes'
  BY DEF ThreadTypes
<1>2. DriverTypes /\ UNCHANGED <<port1, port2, identity>> => DriverTypes'
  BY DEF DriverTypes
<1>3. MachineTypes /\ UNCHANGED <<ticks, handler, machine, config, in, out, expects, dev, typed>>
       => MachineTypes'
  BY DEF MachineTypes
<1>4. FlagTypes
       /\ UNCHANGED <<dual_channel, ps2_error, ps2_initialized, keyboard_enabled, shift_down>>
       => FlagTypes'
  BY Zenon DEF FlagTypes
<1>. QED
  BY <1>1, <1>2, <1>3, <1>4, Zenon

LEMMA UnchangedTypes ==
  ASSUME Types, UNCHANGED vars
  PROVE  Types'
<1>1. /\ UNCHANGED <<byte, ret, start, ack_start, response>>
      /\ UNCHANGED <<port1, port2, identity>>
      /\ UNCHANGED <<ticks, handler, machine, config, in, out, expects, dev, typed>>
      /\ UNCHANGED <<dual_channel, ps2_error, ps2_initialized, keyboard_enabled, shift_down>>
      /\ todo' = todo
  BY DEF vars, ps2vars, thread, driver, controller
<1>2. TodoIn(Usual)'
  BY <1>1 DEF Types, TodoIn
<1>. QED
  BY <1>1, <1>2, Kept DEF Types

\* What the keyboard driver keeps is Enable's and the handler's to change.
Untouched == UNCHANGED <<keyboard_enabled, shift_down, typed>>

LEMMA ThreadIsOne ==
  ASSUME Thread
  PROVE  Enable \/ (Untouched /\ (QuietThread \/ LoudThread))
BY Zenon DEF Thread, Ps2Thread, QuietThread, LoudThread, Untouched

LEMMA Blanks ==
  /\ {} \in Bytes /\ <<>> \in Seq(Bytes) /\ Len(<<>>) = 0
  /\ NoByte \in [byte : Bytes, src : {Nobody, 1, 2, Controller}, irq : BOOLEAN]
  /\ NoInput \in [byte : Bytes, port : {"none", "command", "data"}]
<1>1. {} \in Bytes
  BY DEF Bytes
<1>. QED
  BY <1>1 DEF NoByte, NoInput

LEMMA ThreadTypesStep ==
  ASSUME Types, Thread
  PROVE  Types'
<1>a. ThreadTypes /\ DriverTypes /\ MachineTypes /\ FlagTypes /\ TodoIn(Usual)
  BY DEF Types
<1>b. TodoIn(Usual)' /\ Len(response') <= 2
  <2>1. CASE QuietThread
    <3>1. QuietOps \subseteq Usual /\ Usual \in SUBSET Usual
      BY DEF Usual
    <3>2. response \in Seq(Bytes) /\ Len(response) <= 2
      BY <1>a DEF ThreadTypes
    <3>. QED
      BY <1>a, <2>1, <3>1, <3>2, QuietTodo
  <2>2. CASE LoudThread
    BY <1>a, <2>2, LoudTodo DEF ThreadTypes
  <2>. QED
    BY <2>1, <2>2, ThreadIsOne DEF QuietThread
<1>1. CASE Out /\ Untouched
  <2>1. ThreadTypes'
    <3>1. UNCHANGED <<byte, ret, start, ack_start, response>>
      BY <1>1, Zenon DEF Out, Untouched, thread, driver, controller
    <3>. QED
      BY <1>a, <3>1, Kept
  <2>2. DriverTypes'
    <3>1. UNCHANGED <<port1, port2, identity>>
      BY <1>1, Zenon DEF Out, Untouched, thread, driver, controller
    <3>. QED
      BY <1>a, <3>1, Kept
  <2>3. FlagTypes'
    <3>1. UNCHANGED <<dual_channel, ps2_error, ps2_initialized, keyboard_enabled, shift_down>>
      BY <1>1, Zenon DEF Out, Untouched, thread, driver, controller
    <3>. QED
      BY <1>a, <3>1, Kept
  <2>4. MachineTypes'
    <3>1. todo[1] \in Usual /\ todo[1][1] = "outb"
      BY <1>a, <1>1, UsualHead DEF Out, At
    <3>2. Arg(2) \in {"command", "data"} /\ Arg(3) \in Bytes
      BY <3>1, OpArgs DEF Arg
    <3>3. in' \in [byte : Bytes, port : {"none", "command", "data"}]
      BY <1>1, <3>2 DEF Out
    <3>4. UNCHANGED <<ticks, handler, machine, config, out, expects, dev, typed>>
      BY <1>1, Zenon DEF Out, Untouched
    <3>. QED
      BY <1>a, <3>3, <3>4, Zenon DEF MachineTypes
  <2>. QED
    BY <1>b, <2>1, <2>2, <2>3, <2>4 DEF Types
<1>2. CASE Flush /\ Untouched
  <2>1. ThreadTypes'
    <3>1. UNCHANGED <<byte, ret, start, ack_start, response>>
      BY <1>2, Zenon DEF Flush, Discarded, NoByte, Untouched, thread, driver, controller
    <3>. QED
      BY <1>a, <3>1, Kept
  <2>2. DriverTypes'
    <3>1. UNCHANGED <<port1, port2, identity>>
      BY <1>2, Zenon DEF Flush, Discarded, NoByte, Untouched, thread, driver, controller
    <3>. QED
      BY <1>a, <3>1, Kept
  <2>3. FlagTypes'
    <3>1. UNCHANGED <<dual_channel, ps2_error, ps2_initialized, keyboard_enabled, shift_down>>
      BY <1>2, Zenon DEF Flush, Discarded, NoByte, Untouched, thread, driver, controller
    <3>. QED
      BY <1>a, <3>1, Kept
  <2>4. MachineTypes'
    <3>1. out' = out \/ out' = NoByte
      BY <1>2 DEF Flush, Discarded
    <3>2. out' \in [byte : Bytes, src : {Nobody, 1, 2, Controller}, irq : BOOLEAN]
      BY <1>a, <3>1, Blanks, Zenon DEF MachineTypes
    <3>3. UNCHANGED <<ticks, handler, machine, config, in, expects, dev, typed>>
      BY <1>2, Zenon DEF Flush, Untouched
    <3>. QED
      BY <1>a, <3>2, <3>3, Zenon DEF MachineTypes
  <2>. QED
    BY <1>b, <2>1, <2>2, <2>3, <2>4 DEF Types
<1>3. CASE ReadData /\ Untouched
  <2>1. DriverTypes'
    <3>1. UNCHANGED <<port1, port2, identity>>
      BY <1>3, Zenon DEF ReadData, NoByte, Untouched, thread, driver, controller
    <3>. QED
      BY <1>a, <3>1, Kept
  <2>2. FlagTypes'
    <3>1. UNCHANGED <<dual_channel, ps2_error, ps2_initialized, keyboard_enabled, shift_down>>
      BY <1>3, Zenon DEF ReadData, NoByte, Untouched, thread, driver, controller
    <3>. QED
      BY <1>a, <3>1, Kept
  <2>3. ThreadTypes'
    BY <1>a, <1>3, <1>b, CommandBytes, Blanks DEF ReadData, NoByte, Untouched, ThreadTypes,
       MachineTypes, thread, driver, controller
  <2>4. MachineTypes'
    <3>1. out' = out \/ out' = NoByte
      BY <1>3 DEF ReadData
    <3>2. out' \in [byte : Bytes, src : {Nobody, 1, 2, Controller}, irq : BOOLEAN]
      BY <1>a, <3>1, Blanks, Zenon DEF MachineTypes
    <3>3. UNCHANGED <<ticks, handler, machine, config, in, expects, dev, typed>>
      BY <1>3, Zenon DEF ReadData, Untouched
    <3>. QED
      BY <1>a, <3>2, <3>3, Zenon DEF MachineTypes
  <2>. QED
    BY <1>b, <2>1, <2>2, <2>3, <2>4 DEF Types
<1>4. CASE PollReceived /\ Untouched
  <2>1. DriverTypes'
    <3>1. UNCHANGED <<port1, port2, identity>>
      BY <1>4, Zenon DEF PollReceived, NoByte, Untouched, thread, driver, controller
    <3>. QED
      BY <1>a, <3>1, Kept
  <2>2. FlagTypes'
    <3>1. UNCHANGED <<dual_channel, ps2_error, ps2_initialized, keyboard_enabled, shift_down>>
      BY <1>4, Zenon DEF PollReceived, NoByte, Untouched, thread, driver, controller
    <3>. QED
      BY <1>a, <3>1, Kept
  <2>3. ThreadTypes'
    BY <1>a, <1>4, <1>b, CommandBytes, Blanks DEF PollReceived, NoByte, Untouched, ThreadTypes,
       MachineTypes, thread, driver, controller
  <2>4. MachineTypes'
    <3>1. out' = out \/ out' = NoByte
      BY <1>4 DEF PollReceived
    <3>2. out' \in [byte : Bytes, src : {Nobody, 1, 2, Controller}, irq : BOOLEAN]
      BY <1>a, <3>1, Blanks, Zenon DEF MachineTypes
    <3>3. UNCHANGED <<ticks, handler, machine, config, in, expects, dev, typed>>
      BY <1>4, Zenon DEF PollReceived, Untouched
    <3>. QED
      BY <1>a, <3>2, <3>3, Zenon DEF MachineTypes
  <2>. QED
    BY <1>b, <2>1, <2>2, <2>3, <2>4 DEF Types
<1>5. CASE PollTimedOut /\ Untouched
  <2>1. DriverTypes'
    <3>1. UNCHANGED <<port1, port2, identity>>
      BY <1>5, Zenon DEF PollTimedOut, Untouched, Local, thread, driver, controller
    <3>. QED
      BY <1>a, <3>1, Kept
  <2>2. MachineTypes'
    <3>1. UNCHANGED <<ticks, handler, machine, config, in, out, expects, dev, typed>>
      BY <1>5, Zenon DEF PollTimedOut, Untouched, Local, thread, driver, controller
    <3>. QED
      BY <1>a, <3>1, Kept
  <2>3. ThreadTypes'
    BY <1>a, <1>5, <1>b, CommandBytes, Blanks DEF PollTimedOut, Untouched, ThreadTypes,
       MachineTypes, Local, thread, driver, controller
  <2>4. FlagTypes'
    BY <1>a, <1>5, Zenon DEF PollTimedOut, Untouched, FlagTypes, Local, driver
  <2>. QED
    BY <1>b, <2>1, <2>2, <2>3, <2>4 DEF Types
<1>6. CASE WritePort /\ Untouched
  <2>1. DriverTypes'
    <3>1. UNCHANGED <<port1, port2, identity>>
      BY <1>6, Zenon DEF WritePort, WriteError, Untouched, Local, thread, driver, controller
    <3>. QED
      BY <1>a, <3>1, Kept
  <2>2. MachineTypes'
    <3>1. UNCHANGED <<ticks, handler, machine, config, in, out, expects, dev, typed>>
      BY <1>6, Zenon DEF WritePort, WriteError, Untouched, Local, thread, driver, controller
    <3>. QED
      BY <1>a, <3>1, Kept
  <2>3. FlagTypes'
    <3>1. UNCHANGED <<dual_channel, ps2_error, ps2_initialized, keyboard_enabled, shift_down>>
      BY <1>6, Zenon DEF WritePort, WriteError, Untouched, Local, thread, driver, controller
    <3>. QED
      BY <1>a, <3>1, Kept
  <2>4. ThreadTypes'
    BY <1>a, <1>6, <1>b, CommandBytes, Blanks DEF WritePort, WriteError, Untouched, ThreadTypes,
       MachineTypes, Local, thread, driver, controller
  <2>. QED
    BY <1>b, <2>1, <2>2, <2>3, <2>4 DEF Types
<1>7. CASE WaitForAck /\ Untouched
  <2>1. DriverTypes'
    <3>1. UNCHANGED <<port1, port2, identity>>
      BY <1>7, Zenon DEF WaitForAck, Untouched, Local, thread, driver, controller
    <3>. QED
      BY <1>a, <3>1, Kept
  <2>2. MachineTypes'
    <3>1. UNCHANGED <<ticks, handler, machine, config, in, out, expects, dev, typed>>
      BY <1>7, Zenon DEF WaitForAck, Untouched, Local, thread, driver, controller
    <3>. QED
      BY <1>a, <3>1, Kept
  <2>3. FlagTypes'
    <3>1. UNCHANGED <<dual_channel, ps2_error, ps2_initialized, keyboard_enabled, shift_down>>
      BY <1>7, Zenon DEF WaitForAck, Untouched, Local, thread, driver, controller
    <3>. QED
      BY <1>a, <3>1, Kept
  <2>4. ThreadTypes'
    BY <1>a, <1>7, <1>b, CommandBytes, Blanks DEF WaitForAck, Untouched, ThreadTypes,
       MachineTypes, Local, thread, driver, controller
  <2>. QED
    BY <1>b, <2>1, <2>2, <2>3, <2>4 DEF Types
<1>8. CASE AckTest /\ Untouched
  <2>1. DriverTypes'
    <3>1. UNCHANGED <<port1, port2, identity>>
      BY <1>8, Zenon DEF AckTest, Untouched, Local, thread, driver, controller
    <3>. QED
      BY <1>a, <3>1, Kept
  <2>2. MachineTypes'
    <3>1. UNCHANGED <<ticks, handler, machine, config, in, out, expects, dev, typed>>
      BY <1>8, Zenon DEF AckTest, Untouched, Local, thread, driver, controller
    <3>. QED
      BY <1>a, <3>1, Kept
  <2>3. ThreadTypes'
    BY <1>a, <1>8, <1>b, CommandBytes, Blanks DEF AckTest, Untouched, ThreadTypes, MachineTypes,
       Local, thread, driver, controller
  <2>4. FlagTypes'
    BY <1>a, <1>8, Zenon DEF AckTest, Untouched, FlagTypes, Local, driver
  <2>. QED
    BY <1>b, <2>1, <2>2, <2>3, <2>4 DEF Types
<1>9. CASE AckTime /\ Untouched
  <2>1. DriverTypes'
    <3>1. UNCHANGED <<port1, port2, identity>>
      BY <1>9, Zenon DEF AckTime, Untouched, Local, thread, driver, controller
    <3>. QED
      BY <1>a, <3>1, Kept
  <2>2. MachineTypes'
    <3>1. UNCHANGED <<ticks, handler, machine, config, in, out, expects, dev, typed>>
      BY <1>9, Zenon DEF AckTime, Untouched, Local, thread, driver, controller
    <3>. QED
      BY <1>a, <3>1, Kept
  <2>3. FlagTypes'
    <3>1. UNCHANGED <<dual_channel, ps2_error, ps2_initialized, keyboard_enabled, shift_down>>
      BY <1>9, Zenon DEF AckTime, Untouched, Local, thread, driver, controller
    <3>. QED
      BY <1>a, <3>1, Kept
  <2>4. ThreadTypes'
    BY <1>a, <1>9, <1>b, CommandBytes, Blanks DEF AckTime, Untouched, ThreadTypes, MachineTypes,
       Local, thread, driver, controller
  <2>. QED
    BY <1>b, <2>1, <2>2, <2>3, <2>4 DEF Types
<1>10. CASE Identify /\ Untouched
  <2>1. DriverTypes'
    <3>1. UNCHANGED <<port1, port2, identity>>
      BY <1>10, Zenon DEF Identify, Untouched, Local, thread, driver, controller
    <3>. QED
      BY <1>a, <3>1, Kept
  <2>2. MachineTypes'
    <3>1. UNCHANGED <<ticks, handler, machine, config, in, out, expects, dev, typed>>
      BY <1>10, Zenon DEF Identify, Untouched, Local, thread, driver, controller
    <3>. QED
      BY <1>a, <3>1, Kept
  <2>3. FlagTypes'
    <3>1. UNCHANGED <<dual_channel, ps2_error, ps2_initialized, keyboard_enabled, shift_down>>
      BY <1>10, Zenon DEF Identify, Untouched, Local, thread, driver, controller
    <3>. QED
      BY <1>a, <3>1, Kept
  <2>4. ThreadTypes'
    BY <1>a, <1>10, <1>b, CommandBytes, Blanks DEF Identify, Untouched, ThreadTypes,
       MachineTypes, Local, thread, driver, controller
  <2>. QED
    BY <1>b, <2>1, <2>2, <2>3, <2>4 DEF Types
<1>11. CASE ScanningDisabled /\ Untouched
  <2>1. ThreadTypes'
    <3>1. UNCHANGED <<byte, ret, start, ack_start, response>>
      BY <1>11, Zenon DEF ScanningDisabled, Untouched, Local, thread, driver, controller
    <3>. QED
      BY <1>a, <3>1, Kept
  <2>2. DriverTypes'
    <3>1. UNCHANGED <<port1, port2, identity>>
      BY <1>11, Zenon DEF ScanningDisabled, Untouched, Local, thread, driver, controller
    <3>. QED
      BY <1>a, <3>1, Kept
  <2>3. MachineTypes'
    <3>1. UNCHANGED <<ticks, handler, machine, config, in, out, expects, dev, typed>>
      BY <1>11, Zenon DEF ScanningDisabled, Untouched, Local, thread, driver, controller
    <3>. QED
      BY <1>a, <3>1, Kept
  <2>4. FlagTypes'
    BY <1>a, <1>11, Zenon DEF ScanningDisabled, Untouched, FlagTypes, Local, driver
  <2>. QED
    BY <1>b, <2>1, <2>2, <2>3, <2>4 DEF Types
<1>12. CASE IdLoop /\ Untouched
  <2>1. DriverTypes'
    <3>1. UNCHANGED <<port1, port2, identity>>
      BY <1>12, Zenon DEF IdLoop, Untouched, Local, thread, driver, controller
    <3>. QED
      BY <1>a, <3>1, Kept
  <2>2. MachineTypes'
    <3>1. UNCHANGED <<ticks, handler, machine, config, in, out, expects, dev, typed>>
      BY <1>12, Zenon DEF IdLoop, Untouched, Local, thread, driver, controller
    <3>. QED
      BY <1>a, <3>1, Kept
  <2>3. FlagTypes'
    <3>1. UNCHANGED <<dual_channel, ps2_error, ps2_initialized, keyboard_enabled, shift_down>>
      BY <1>12, Zenon DEF IdLoop, Untouched, Local, thread, driver, controller
    <3>. QED
      BY <1>a, <3>1, Kept
  <2>4. ThreadTypes'
    BY <1>a, <1>12, <1>b, CommandBytes, Blanks DEF IdLoop, Untouched, ThreadTypes, MachineTypes,
       Local, thread, driver, controller
  <2>. QED
    BY <1>b, <2>1, <2>2, <2>3, <2>4 DEF Types
<1>13. CASE IdWait /\ Untouched
  <2>1. DriverTypes'
    <3>1. UNCHANGED <<port1, port2, identity>>
      BY <1>13, Zenon DEF IdWait, Untouched, Local, thread, driver, controller
    <3>. QED
      BY <1>a, <3>1, Kept
  <2>2. MachineTypes'
    <3>1. UNCHANGED <<ticks, handler, machine, config, in, out, expects, dev, typed>>
      BY <1>13, Zenon DEF IdWait, Untouched, Local, thread, driver, controller
    <3>. QED
      BY <1>a, <3>1, Kept
  <2>3. FlagTypes'
    <3>1. UNCHANGED <<dual_channel, ps2_error, ps2_initialized, keyboard_enabled, shift_down>>
      BY <1>13, Zenon DEF IdWait, Untouched, Local, thread, driver, controller
    <3>. QED
      BY <1>a, <3>1, Kept
  <2>4. ThreadTypes'
    BY <1>a, <1>13, <1>b, CommandBytes, Blanks DEF IdWait, Untouched, ThreadTypes, MachineTypes,
       Local, thread, driver, controller
  <2>. QED
    BY <1>b, <2>1, <2>2, <2>3, <2>4 DEF Types
<1>14. CASE IdByte /\ Untouched
  <2>1. DriverTypes'
    <3>1. UNCHANGED <<port1, port2, identity>>
      BY <1>14, Zenon DEF IdByte, Untouched, Local, thread, driver, controller
    <3>. QED
      BY <1>a, <3>1, Kept
  <2>2. MachineTypes'
    <3>1. UNCHANGED <<ticks, handler, machine, config, in, out, expects, dev, typed>>
      BY <1>14, Zenon DEF IdByte, Untouched, Local, thread, driver, controller
    <3>. QED
      BY <1>a, <3>1, Kept
  <2>3. ThreadTypes'
    <3>1. response' = response \/ response' = Append(response, byte)
      BY <1>14, Zenon DEF IdByte
    <3>2. response \in Seq(Bytes) /\ byte \in Bytes
      BY <1>a DEF ThreadTypes
    <3>3. response' \in Seq(Bytes)
      BY <3>1, <3>2, AppendProperties
    <3>4. byte' = byte /\ ret' = ret /\ start' = start /\ ack_start' = ack_start
      BY <1>14, Zenon DEF IdByte
    <3>. QED
      BY <1>a, <1>b, <3>3, <3>4, Zenon DEF ThreadTypes
  <2>4. FlagTypes'
    BY <1>a, <1>14, Zenon DEF IdByte, Untouched, FlagTypes, Local, driver
  <2>. QED
    BY <1>b, <2>1, <2>2, <2>3, <2>4 DEF Types
<1>15. CASE Identified /\ Untouched
  <2>1. MachineTypes'
    <3>1. UNCHANGED <<ticks, handler, machine, config, in, out, expects, dev, typed>>
      BY <1>15, Zenon DEF Identified, Gone, Untouched, Local, thread, driver, controller
    <3>. QED
      BY <1>a, <3>1, Kept
  <2>2. FlagTypes'
    <3>1. UNCHANGED <<dual_channel, ps2_error, ps2_initialized, keyboard_enabled, shift_down>>
      BY <1>15, Zenon DEF Identified, Gone, Untouched, Local, thread, driver, controller
    <3>. QED
      BY <1>a, <3>1, Kept
  <2>3. ThreadTypes'
    BY <1>a, <1>15, <1>b, CommandBytes, Blanks DEF Identified, Gone, Untouched, ThreadTypes,
       MachineTypes, Local, thread, driver, controller
  <2>4. DriverTypes'
    <3>1. response \in Seq(Bytes) /\ identity \in [Ports -> Seq(Bytes)]
      BY <1>a DEF ThreadTypes, DriverTypes
    <3>2. identity' = [identity EXCEPT ![Arg(2)] = response] /\ UNCHANGED <<port1, port2>>
      BY <1>15, Zenon DEF Identified
    <3>3. identity' \in [Ports -> Seq(Bytes)]
      BY <3>1, <3>2
    <3>. QED
      BY <1>a, <3>2, <3>3 DEF DriverTypes
  <2>. QED
    BY <1>b, <2>1, <2>2, <2>3, <2>4 DEF Types
<1>16. CASE Initialized /\ Untouched
  <2>1. ThreadTypes'
    <3>1. UNCHANGED <<byte, ret, start, ack_start, response>>
      BY <1>16, Zenon DEF Initialized, Untouched, Local, thread, driver, controller
    <3>. QED
      BY <1>a, <3>1, Kept
  <2>2. DriverTypes'
    <3>1. UNCHANGED <<port1, port2, identity>>
      BY <1>16, Zenon DEF Initialized, Untouched, Local, thread, driver, controller
    <3>. QED
      BY <1>a, <3>1, Kept
  <2>3. MachineTypes'
    <3>1. UNCHANGED <<ticks, handler, machine, config, in, out, expects, dev, typed>>
      BY <1>16, Zenon DEF Initialized, Untouched, Local, thread, driver, controller
    <3>. QED
      BY <1>a, <3>1, Kept
  <2>4. FlagTypes'
    BY <1>a, <1>16, Zenon DEF Initialized, Untouched, FlagTypes, Local, driver
  <2>. QED
    BY <1>b, <2>1, <2>2, <2>3, <2>4 DEF Types
<1>17. CASE KeyboardInit /\ Untouched
  <2>1. ThreadTypes'
    <3>1. UNCHANGED <<byte, ret, start, ack_start, response>>
      BY <1>17, Zenon DEF KeyboardInit, Untouched, Local, thread, driver, controller
    <3>. QED
      BY <1>a, <3>1, Kept
  <2>2. DriverTypes'
    <3>1. UNCHANGED <<port1, port2, identity>>
      BY <1>17, Zenon DEF KeyboardInit, Untouched, Local, thread, driver, controller
    <3>. QED
      BY <1>a, <3>1, Kept
  <2>3. MachineTypes'
    <3>1. UNCHANGED <<ticks, handler, machine, config, in, out, expects, dev, typed>>
      BY <1>17, Zenon DEF KeyboardInit, Untouched, Local, thread, driver, controller
    <3>. QED
      BY <1>a, <3>1, Kept
  <2>4. FlagTypes'
    <3>1. UNCHANGED <<dual_channel, ps2_error, ps2_initialized, keyboard_enabled, shift_down>>
      BY <1>17, Zenon DEF KeyboardInit, Untouched, Local, thread, driver, controller
    <3>. QED
      BY <1>a, <3>1, Kept
  <2>. QED
    BY <1>b, <2>1, <2>2, <2>3, <2>4 DEF Types
<1>18. CASE Check /\ Untouched
  <2>1. DriverTypes'
    <3>1. UNCHANGED <<port1, port2, identity>>
      BY <1>18, Zenon DEF Check, Gone, Untouched, Local, thread, driver, controller
    <3>. QED
      BY <1>a, <3>1, Kept
  <2>2. MachineTypes'
    <3>1. UNCHANGED <<ticks, handler, machine, config, in, out, expects, dev, typed>>
      BY <1>18, Zenon DEF Check, Gone, Untouched, Local, thread, driver, controller
    <3>. QED
      BY <1>a, <3>1, Kept
  <2>3. FlagTypes'
    <3>1. UNCHANGED <<dual_channel, ps2_error, ps2_initialized, keyboard_enabled, shift_down>>
      BY <1>18, Zenon DEF Check, Gone, Untouched, Local, thread, driver, controller
    <3>. QED
      BY <1>a, <3>1, Kept
  <2>4. ThreadTypes'
    BY <1>a, <1>18, <1>b, CommandBytes, Blanks DEF Check, Gone, Untouched, ThreadTypes,
       MachineTypes, Local, thread, driver, controller
  <2>. QED
    BY <1>b, <2>1, <2>2, <2>3, <2>4 DEF Types
<1>19. CASE Enable
  <2>1. ThreadTypes'
    <3>1. UNCHANGED <<byte, ret, start, ack_start, response>>
      BY <1>19, Zenon DEF Enable, Local, thread, driver, controller
    <3>. QED
      BY <1>a, <3>1, Kept
  <2>2. DriverTypes'
    <3>1. UNCHANGED <<port1, port2, identity>>
      BY <1>19, Zenon DEF Enable, Local, thread, driver, controller
    <3>. QED
      BY <1>a, <3>1, Kept
  <2>3. MachineTypes'
    <3>1. UNCHANGED <<ticks, handler, machine, config, in, out, expects, dev, typed>>
      BY <1>19, Zenon DEF Enable, Local, thread, driver, controller
    <3>. QED
      BY <1>a, <3>1, Kept
  <2>4. FlagTypes'
    BY <1>a, <1>19, Zenon DEF Enable, FlagTypes, Local, driver
  <2>. QED
    BY <1>b, <2>1, <2>2, <2>3, <2>4 DEF Types
<1>20. CASE CheckPs2 /\ Untouched
  <2>1. ThreadTypes'
    <3>1. UNCHANGED <<byte, ret, start, ack_start, response>>
      BY <1>20, Zenon DEF CheckPs2, Untouched, Local, thread, driver, controller
    <3>. QED
      BY <1>a, <3>1, Kept
  <2>2. DriverTypes'
    <3>1. UNCHANGED <<port1, port2, identity>>
      BY <1>20, Zenon DEF CheckPs2, Untouched, Local, thread, driver, controller
    <3>. QED
      BY <1>a, <3>1, Kept
  <2>3. MachineTypes'
    <3>1. UNCHANGED <<ticks, handler, machine, config, in, out, expects, dev, typed>>
      BY <1>20, Zenon DEF CheckPs2, Untouched, Local, thread, driver, controller
    <3>. QED
      BY <1>a, <3>1, Kept
  <2>4. FlagTypes'
    <3>1. UNCHANGED <<dual_channel, ps2_error, ps2_initialized, keyboard_enabled, shift_down>>
      BY <1>20, Zenon DEF CheckPs2, Untouched, Local, thread, driver, controller
    <3>. QED
      BY <1>a, <3>1, Kept
  <2>. QED
    BY <1>b, <2>1, <2>2, <2>3, <2>4 DEF Types
<1>21. CASE FirstCheck /\ Untouched
  <2>1. ThreadTypes'
    <3>1. UNCHANGED <<byte, ret, start, ack_start, response>>
      BY <1>21, Zenon DEF FirstCheck, Untouched, Local, thread, driver, controller
    <3>. QED
      BY <1>a, <3>1, Kept
  <2>2. DriverTypes'
    <3>1. UNCHANGED <<port1, port2, identity>>
      BY <1>21, Zenon DEF FirstCheck, Untouched, Local, thread, driver, controller
    <3>. QED
      BY <1>a, <3>1, Kept
  <2>3. MachineTypes'
    <3>1. UNCHANGED <<ticks, handler, machine, config, in, out, expects, dev, typed>>
      BY <1>21, Zenon DEF FirstCheck, Untouched, Local, thread, driver, controller
    <3>. QED
      BY <1>a, <3>1, Kept
  <2>4. FlagTypes'
    BY <1>a, <1>21, Zenon DEF FirstCheck, Untouched, FlagTypes, Local, driver
  <2>. QED
    BY <1>b, <2>1, <2>2, <2>3, <2>4 DEF Types
<1>22. CASE SelfTest /\ Untouched
  <2>1. ThreadTypes'
    <3>1. UNCHANGED <<byte, ret, start, ack_start, response>>
      BY <1>22, Zenon DEF SelfTest, Untouched, Local, thread, driver, controller
    <3>. QED
      BY <1>a, <3>1, Kept
  <2>2. DriverTypes'
    <3>1. UNCHANGED <<port1, port2, identity>>
      BY <1>22, Zenon DEF SelfTest, Untouched, Local, thread, driver, controller
    <3>. QED
      BY <1>a, <3>1, Kept
  <2>3. MachineTypes'
    <3>1. UNCHANGED <<ticks, handler, machine, config, in, out, expects, dev, typed>>
      BY <1>22, Zenon DEF SelfTest, Untouched, Local, thread, driver, controller
    <3>. QED
      BY <1>a, <3>1, Kept
  <2>4. FlagTypes'
    <3>1. UNCHANGED <<dual_channel, ps2_error, ps2_initialized, keyboard_enabled, shift_down>>
      BY <1>22, Zenon DEF SelfTest, Untouched, Local, thread, driver, controller
    <3>. QED
      BY <1>a, <3>1, Kept
  <2>. QED
    BY <1>b, <2>1, <2>2, <2>3, <2>4 DEF Types
<1>23. CASE SecondTest /\ Untouched
  <2>1. ThreadTypes'
    <3>1. UNCHANGED <<byte, ret, start, ack_start, response>>
      BY <1>23, Zenon DEF SecondTest, Untouched, Local, thread, driver, controller
    <3>. QED
      BY <1>a, <3>1, Kept
  <2>2. DriverTypes'
    <3>1. UNCHANGED <<port1, port2, identity>>
      BY <1>23, Zenon DEF SecondTest, Untouched, Local, thread, driver, controller
    <3>. QED
      BY <1>a, <3>1, Kept
  <2>3. MachineTypes'
    <3>1. UNCHANGED <<ticks, handler, machine, config, in, out, expects, dev, typed>>
      BY <1>23, Zenon DEF SecondTest, Untouched, Local, thread, driver, controller
    <3>. QED
      BY <1>a, <3>1, Kept
  <2>4. FlagTypes'
    <3>1. UNCHANGED <<dual_channel, ps2_error, ps2_initialized, keyboard_enabled, shift_down>>
      BY <1>23, Zenon DEF SecondTest, Untouched, Local, thread, driver, controller
    <3>. QED
      BY <1>a, <3>1, Kept
  <2>. QED
    BY <1>b, <2>1, <2>2, <2>3, <2>4 DEF Types
<1>24. CASE SecondCheck /\ Untouched
  <2>1. ThreadTypes'
    <3>1. UNCHANGED <<byte, ret, start, ack_start, response>>
      BY <1>24, Zenon DEF SecondCheck, Untouched, Local, thread, driver, controller
    <3>. QED
      BY <1>a, <3>1, Kept
  <2>2. DriverTypes'
    <3>1. UNCHANGED <<port1, port2, identity>>
      BY <1>24, Zenon DEF SecondCheck, Untouched, Local, thread, driver, controller
    <3>. QED
      BY <1>a, <3>1, Kept
  <2>3. MachineTypes'
    <3>1. UNCHANGED <<ticks, handler, machine, config, in, out, expects, dev, typed>>
      BY <1>24, Zenon DEF SecondCheck, Untouched, Local, thread, driver, controller
    <3>. QED
      BY <1>a, <3>1, Kept
  <2>4. FlagTypes'
    BY <1>a, <1>24, Zenon DEF SecondCheck, Untouched, FlagTypes, Local, driver
  <2>. QED
    BY <1>b, <2>1, <2>2, <2>3, <2>4 DEF Types
<1>25. CASE Port1Test /\ Untouched
  <2>1. ThreadTypes'
    <3>1. UNCHANGED <<byte, ret, start, ack_start, response>>
      BY <1>25, Zenon DEF Port1Test, PortTest, Untouched, Local, thread, driver, controller
    <3>. QED
      BY <1>a, <3>1, Kept
  <2>2. MachineTypes'
    <3>1. UNCHANGED <<ticks, handler, machine, config, in, out, expects, dev, typed>>
      BY <1>25, Zenon DEF Port1Test, PortTest, Untouched, Local, thread, driver, controller
    <3>. QED
      BY <1>a, <3>1, Kept
  <2>3. FlagTypes'
    <3>1. UNCHANGED <<dual_channel, ps2_error, ps2_initialized, keyboard_enabled, shift_down>>
      BY <1>25, Zenon DEF Port1Test, PortTest, Untouched, Local, thread, driver, controller
    <3>. QED
      BY <1>a, <3>1, Kept
  <2>4. DriverTypes'
    BY <1>a, <1>25 DEF Port1Test, PortTest, Untouched, DriverTypes, Local, thread, driver,
       controller
  <2>. QED
    BY <1>b, <2>1, <2>2, <2>3, <2>4 DEF Types
<1>26. CASE Port2Test /\ Untouched
  <2>1. ThreadTypes'
    <3>1. UNCHANGED <<byte, ret, start, ack_start, response>>
      BY <1>26, Zenon DEF Port2Test, PortTest, Untouched, Local, thread, driver, controller
    <3>. QED
      BY <1>a, <3>1, Kept
  <2>2. MachineTypes'
    <3>1. UNCHANGED <<ticks, handler, machine, config, in, out, expects, dev, typed>>
      BY <1>26, Zenon DEF Port2Test, PortTest, Untouched, Local, thread, driver, controller
    <3>. QED
      BY <1>a, <3>1, Kept
  <2>3. FlagTypes'
    <3>1. UNCHANGED <<dual_channel, ps2_error, ps2_initialized, keyboard_enabled, shift_down>>
      BY <1>26, Zenon DEF Port2Test, PortTest, Untouched, Local, thread, driver, controller
    <3>. QED
      BY <1>a, <3>1, Kept
  <2>4. DriverTypes'
    BY <1>a, <1>26 DEF Port2Test, PortTest, Untouched, DriverTypes, Local, thread, driver,
       controller
  <2>. QED
    BY <1>b, <2>1, <2>2, <2>3, <2>4 DEF Types
<1>27. CASE TestPort2 /\ Untouched
  <2>1. ThreadTypes'
    <3>1. UNCHANGED <<byte, ret, start, ack_start, response>>
      BY <1>27, Zenon DEF TestPort2, Untouched, Local, thread, driver, controller
    <3>. QED
      BY <1>a, <3>1, Kept
  <2>2. DriverTypes'
    <3>1. UNCHANGED <<port1, port2, identity>>
      BY <1>27, Zenon DEF TestPort2, Untouched, Local, thread, driver, controller
    <3>. QED
      BY <1>a, <3>1, Kept
  <2>3. MachineTypes'
    <3>1. UNCHANGED <<ticks, handler, machine, config, in, out, expects, dev, typed>>
      BY <1>27, Zenon DEF TestPort2, Untouched, Local, thread, driver, controller
    <3>. QED
      BY <1>a, <3>1, Kept
  <2>4. FlagTypes'
    <3>1. UNCHANGED <<dual_channel, ps2_error, ps2_initialized, keyboard_enabled, shift_down>>
      BY <1>27, Zenon DEF TestPort2, Untouched, Local, thread, driver, controller
    <3>. QED
      BY <1>a, <3>1, Kept
  <2>. QED
    BY <1>b, <2>1, <2>2, <2>3, <2>4 DEF Types
<1>28. CASE EnablePorts /\ Untouched
  <2>1. ThreadTypes'
    <3>1. UNCHANGED <<byte, ret, start, ack_start, response>>
      BY <1>28, Zenon DEF EnablePorts, Untouched, Local, thread, driver, controller
    <3>. QED
      BY <1>a, <3>1, Kept
  <2>2. DriverTypes'
    <3>1. UNCHANGED <<port1, port2, identity>>
      BY <1>28, Zenon DEF EnablePorts, Untouched, Local, thread, driver, controller
    <3>. QED
      BY <1>a, <3>1, Kept
  <2>3. MachineTypes'
    <3>1. UNCHANGED <<ticks, handler, machine, config, in, out, expects, dev, typed>>
      BY <1>28, Zenon DEF EnablePorts, Untouched, Local, thread, driver, controller
    <3>. QED
      BY <1>a, <3>1, Kept
  <2>4. FlagTypes'
    <3>1. UNCHANGED <<dual_channel, ps2_error, ps2_initialized, keyboard_enabled, shift_down>>
      BY <1>28, Zenon DEF EnablePorts, Untouched, Local, thread, driver, controller
    <3>. QED
      BY <1>a, <3>1, Kept
  <2>. QED
    BY <1>b, <2>1, <2>2, <2>3, <2>4 DEF Types
<1>29. CASE EnableInterrupts /\ Untouched
  <2>1. ThreadTypes'
    <3>1. UNCHANGED <<byte, ret, start, ack_start, response>>
      BY <1>29, Zenon DEF EnableInterrupts, Untouched, Local, thread, driver, controller
    <3>. QED
      BY <1>a, <3>1, Kept
  <2>2. DriverTypes'
    <3>1. UNCHANGED <<port1, port2, identity>>
      BY <1>29, Zenon DEF EnableInterrupts, Untouched, Local, thread, driver, controller
    <3>. QED
      BY <1>a, <3>1, Kept
  <2>3. MachineTypes'
    <3>1. UNCHANGED <<ticks, handler, machine, config, in, out, expects, dev, typed>>
      BY <1>29, Zenon DEF EnableInterrupts, Untouched, Local, thread, driver, controller
    <3>. QED
      BY <1>a, <3>1, Kept
  <2>4. FlagTypes'
    <3>1. UNCHANGED <<dual_channel, ps2_error, ps2_initialized, keyboard_enabled, shift_down>>
      BY <1>29, Zenon DEF EnableInterrupts, Untouched, Local, thread, driver, controller
    <3>. QED
      BY <1>a, <3>1, Kept
  <2>. QED
    BY <1>b, <2>1, <2>2, <2>3, <2>4 DEF Types
<1>. QED
  BY ThreadIsOne, <1>1, <1>2, <1>3, <1>4, <1>5, <1>6, <1>7, <1>8, <1>9, <1>10, <1>11, <1>12,
     <1>13, <1>14, <1>15, <1>16, <1>17, <1>18, <1>19, <1>20, <1>21, <1>22, <1>23, <1>24, <1>25,
     <1>26, <1>27, <1>28, <1>29 DEF QuietThread, LoudThread

LEMMA HandlerTypesStep ==
  ASSUME Types, MouseHandler \/ KeyboardIrq
  PROVE  Types'
<1>a. ThreadTypes /\ DriverTypes /\ MachineTypes /\ FlagTypes /\ TodoIn(Usual)
  BY DEF Types
<1>1. /\ UNCHANGED <<todo, byte, ret, start, ack_start, response>>
      /\ UNCHANGED <<port1, port2, identity>>
      /\ UNCHANGED <<ticks, machine, config, in, expects, dev, keyboard_enabled>>
      /\ UNCHANGED <<dual_channel, ps2_error, ps2_initialized>>
  <2>1. CASE MouseHandler
    BY <2>1, Zenon DEF MouseHandler, EnterMouseIrq, MouseIrq, thread, driver
  <2>2. CASE KeyboardIrq
    BY <2>2, Zenon DEF KeyboardIrq, thread, driver
  <2>. QED
    BY <2>1, <2>2
<1>2. ThreadTypes' /\ DriverTypes' /\ TodoIn(Usual)'
  BY <1>a, <1>1, Kept DEF TodoIn
<1>3. out' \in [byte : Bytes, src : {Nobody, 1, 2, Controller}, irq : BOOLEAN]
  <2>1. out' = out \/ out' = NoByte \/ out' = [out EXCEPT !.irq = FALSE]
    BY Zenon DEF MouseHandler, EnterMouseIrq, MouseIrq, KeyboardIrq, Discarded
  <2>2. out \in [byte : Bytes, src : {Nobody, 1, 2, Controller}, irq : BOOLEAN]
    BY <1>a DEF MachineTypes
  <2>3. [out EXCEPT !.irq = FALSE]
          \in [byte : Bytes, src : {Nobody, 1, 2, Controller}, irq : BOOLEAN]
    BY <2>2
  <2>. QED
    BY <2>1, <2>2, <2>3, Blanks, Zenon
<1>4. handler' \in {"none", "flush"}
  BY <1>a DEF MouseHandler, EnterMouseIrq, MouseIrq, KeyboardIrq, MachineTypes
<1>5. /\ shift_down' \in BOOLEAN
      /\ typed' \in {"nothing", "NUL", "backspace", "a", "A", "other", "outside"}
  <2>1. CASE UNCHANGED <<shift_down, typed>>
    BY <1>a, <2>1, Zenon DEF FlagTypes, MachineTypes
  <2>2. CASE /\ shift_down' = NextShift(out.byte, shift_down)
             /\ typed' = keycode_char(out.byte, shift_down)
    <3>1. NextShift(out.byte, shift_down) \in {TRUE, FALSE, shift_down}
      BY DEF NextShift
    <3>2. shift_down' \in BOOLEAN
      BY <1>a, <2>2, <3>1, Zenon DEF FlagTypes
    <3>3. typed' \in {"NUL", "backspace", "a", "A", "other", "outside"}
      BY <2>2 DEF keycode_char
    <3>. QED
      BY <3>2, <3>3
  <2>. QED
    BY <2>1, <2>2, Zenon DEF MouseHandler, KeyboardIrq
<1>6. MachineTypes'
  BY <1>a, <1>1, <1>3, <1>4, <1>5, Zenon DEF MachineTypes
<1>7. FlagTypes'
  BY <1>a, <1>1, <1>5, Zenon DEF FlagTypes
<1>. QED
  BY <1>2, <1>6, <1>7 DEF Types

LEMMA DeviceCommandsDiffer ==
  /\ PS2_DISABLE_SCANNING # PS2_ENABLE_SCANNING /\ PS2_DISABLE_SCANNING # PS2_IDENTIFY
  /\ PS2_DISABLE_SCANNING # PS2_KEYBOARD_SET_SCANCODE_SET
  /\ PS2_ENABLE_SCANNING # PS2_IDENTIFY /\ PS2_ENABLE_SCANNING # PS2_KEYBOARD_SET_SCANCODE_SET
  /\ PS2_IDENTIFY # PS2_KEYBOARD_SET_SCANCODE_SET
<1>1. 0 \in PS2_DISABLE_SCANNING /\ 2 \in PS2_DISABLE_SCANNING
  BY BitOf DEF PS2_DISABLE_SCANNING
<1>2. 0 \notin PS2_ENABLE_SCANNING /\ 2 \in PS2_ENABLE_SCANNING
  BY BitOf DEF PS2_ENABLE_SCANNING
<1>3. 0 \notin PS2_IDENTIFY /\ 1 \in PS2_IDENTIFY /\ 2 \notin PS2_IDENTIFY
  BY BitOf DEF PS2_IDENTIFY
<1>4. 0 \notin PS2_KEYBOARD_SET_SCANCODE_SET /\ 1 \notin PS2_KEYBOARD_SET_SCANCODE_SET
      /\ 2 \notin PS2_KEYBOARD_SET_SCANCODE_SET
  BY BitOf DEF PS2_KEYBOARD_SET_SCANCODE_SET
<1>. QED
  BY <1>1, <1>2, <1>3, <1>4

\* What a device that takes a byte becomes is a device.
LEMMA TakenIsDevice ==
  ASSUME NEW d \in Devices, NEW kind \in {"keyboard", "mouse"}, NEW b \in Bytes
  PROVE  Taken(d, kind, b) \in Devices
<1>1. \A q \in Seq(Bytes) : /\ [d EXCEPT !.queue = q] \in Devices
                            /\ [d EXCEPT !.scanning = FALSE, !.queue = q] \in Devices
                            /\ [d EXCEPT !.scanning = TRUE, !.queue = q] \in Devices
                            /\ [d EXCEPT !.param = TRUE, !.queue = q] \in Devices
  BY DEF Devices
<1>2. \A q \in Seq(Bytes), s \in {1, 2} :
        [d EXCEPT !.param = FALSE, !.set = s, !.queue = q] \in Devices
  BY DEF Devices
<1>3. d.queue \in Seq(Bytes) /\ d.set \in {1, 2} /\ d.param \in BOOLEAN
  BY DEF Devices
<1>4. PS2_ACK \in Bytes /\ PS2_RESEND \in Bytes
  BY CommandBytes
<1>5. Append(d.queue, PS2_ACK) \in Seq(Bytes) /\ Append(d.queue, PS2_RESEND) \in Seq(Bytes)
  BY <1>3, <1>4
<1>6. d.queue \o <<PS2_ACK>> \o IdOf(kind) \in Seq(Bytes)
  <2>1. Byte(171) \in Bytes /\ Byte(131) \in Bytes /\ Byte(0) \in Bytes
    BY BitOf
  <2>2. <<PS2_ACK>> \in Seq(Bytes) /\ IdOf(kind) \in Seq(Bytes)
    BY <1>4, <2>1 DEF IdOf
  <2>. QED
    BY <1>3, <2>2, ConcatProperties
<1>. HIDE DEF Devices
<1>7. CASE d.param
  <2>. DEFINE s == IF b = Byte(1) THEN 1 ELSE d.set
  <2>1. s \in {1, 2}
    BY <1>3
  <2>2. Taken(d, kind, b)
          = [d EXCEPT !.param = FALSE, !.set = s, !.queue = Append(d.queue, PS2_ACK)]
    BY <1>7 DEF Taken
  <2>. HIDE DEF s
  <2>3. [d EXCEPT !.param = FALSE, !.set = s, !.queue = Append(d.queue, PS2_ACK)] \in Devices
    BY <1>2, <1>5, <2>1
  <2>. QED
    BY <2>2, <2>3
<1>8. CASE ~d.param
  <2>1. CASE b = PS2_DISABLE_SCANNING
    <3>1. Taken(d, kind, b) = [d EXCEPT !.scanning = FALSE, !.queue = Append(d.queue, PS2_ACK)]
      BY DeviceCommandsDiffer, <1>8, <2>1 DEF Taken
    <3>. QED
      BY <1>1, <1>5, <3>1
  <2>2. CASE b # PS2_DISABLE_SCANNING /\ b = PS2_ENABLE_SCANNING
    <3>1. Taken(d, kind, b) = [d EXCEPT !.scanning = TRUE, !.queue = Append(d.queue, PS2_ACK)]
      BY DeviceCommandsDiffer, <1>8, <2>2 DEF Taken
    <3>. QED
      BY <1>1, <1>5, <3>1
  <2>3. CASE b \notin {PS2_DISABLE_SCANNING, PS2_ENABLE_SCANNING} /\ b = PS2_IDENTIFY
    <3>1. Taken(d, kind, b) = [d EXCEPT !.queue = d.queue \o <<PS2_ACK>> \o IdOf(kind)]
      BY DeviceCommandsDiffer, <1>8, <2>3 DEF Taken
    <3>. QED
      BY <1>1, <1>6, <3>1
  <2>4. CASE /\ b \notin {PS2_DISABLE_SCANNING, PS2_ENABLE_SCANNING, PS2_IDENTIFY}
             /\ b = PS2_KEYBOARD_SET_SCANCODE_SET
    <3>1. Taken(d, kind, b) = [d EXCEPT !.param = TRUE, !.queue = Append(d.queue, PS2_ACK)]
      BY DeviceCommandsDiffer, <1>8, <2>4 DEF Taken
    <3>. QED
      BY <1>1, <1>5, <3>1
  <2>5. CASE b \notin {PS2_DISABLE_SCANNING, PS2_ENABLE_SCANNING, PS2_IDENTIFY,
                       PS2_KEYBOARD_SET_SCANCODE_SET}
    <3>1. Taken(d, kind, b) = [d EXCEPT !.queue = Append(d.queue, PS2_RESEND)]
      BY DeviceCommandsDiffer, <1>8, <2>5 DEF Taken
    <3>. QED
      BY <1>1, <1>5, <3>1
  <2>. QED
    BY <2>1, <2>2, <2>3, <2>4, <2>5
<1>. QED
  BY <1>7, <1>8

\* The machine and its controller are of their types.
LEMMA MachineIs ==
  ASSUME MachineTypes
  PROVE  /\ \A p \in Ports : machine.attached[p] \in Kinds
         /\ machine.channels \in {1, 2} /\ machine.config \in Bytes
         /\ in.byte \in Bytes /\ in.port \in {"none", "command", "data"}
         /\ out.byte \in Bytes /\ out.src \in {Nobody, 1, 2, Controller}
<1>1. machine \in MachineType
  BY Ps2Assumption DEF MachineTypes
<1>2. in \in [byte : Bytes, port : {"none", "command", "data"}]
      /\ out \in [byte : Bytes, src : {Nobody, 1, 2, Controller}, irq : BOOLEAN]
  BY DEF MachineTypes
<1>. QED
  BY <1>1, <1>2 DEF MachineType

LEMMA HardwareTypesStep ==
  ASSUME Types, Machinery
  PROVE  Types'
<1>a. ThreadTypes /\ DriverTypes /\ MachineTypes /\ FlagTypes /\ TodoIn(Usual)
  BY DEF Types
<1>b. UNCHANGED <<keyboard_enabled, shift_down, typed>> /\ Hardware
  BY DEF Machinery
<1>1. /\ UNCHANGED <<todo, byte, ret, start, ack_start, response>>
      /\ UNCHANGED <<port1, port2, identity>>
      /\ UNCHANGED <<handler, machine>>
      /\ UNCHANGED <<dual_channel, ps2_error, ps2_initialized>>
  BY <1>b, Zenon DEF Hardware, ControllerAnswers, ControllerObeys, TakesConfig, DeviceTakes,
       DeviceSends, Tick, Silent, thread, driver
<1>2. ThreadTypes' /\ DriverTypes' /\ TodoIn(Usual)'
  BY <1>a, <1>1, Kept DEF TodoIn
<1>3. FlagTypes'
  BY <1>a, <1>b, <1>1, Kept, Zenon DEF FlagTypes
<1>c. ASSUME /\ ticks' \in Nat /\ config' \in Bytes
             /\ in' \in [byte : Bytes, port : {"none", "command", "data"}]
             /\ out' \in [byte : Bytes, src : {Nobody, 1, 2, Controller}, irq : BOOLEAN]
             /\ expects' \in {"config", "port 1", "port 2"}
             /\ dev' \in [Ports -> Devices]
      PROVE  Types'
  <2>1. MachineTypes'
    BY <1>a, <1>b, <1>1, <1>c, Zenon DEF MachineTypes
  <2>. QED
    BY <1>2, <1>3, <2>1 DEF Types
<1>d. /\ ticks \in Nat /\ config \in Bytes
      /\ in \in [byte : Bytes, port : {"none", "command", "data"}]
      /\ out \in [byte : Bytes, src : {Nobody, 1, 2, Controller}, irq : BOOLEAN]
      /\ expects \in {"config", "port 1", "port 2"}
      /\ dev \in [Ports -> Devices]
  BY <1>a DEF MachineTypes
<1>e. in.byte \in Bytes /\ machine.channels \in {1, 2} /\ \A p \in Ports : machine.attached[p] \in Kinds
  BY <1>a, MachineIs
<1>4. CASE ControllerAnswers
  <2>1. AnswerTo(in.byte) \in Bytes
    <3>1. Byte(1) \in Bytes
      BY BitOf
    <3>. QED
      BY <1>4, <1>d, <3>1, CommandBytes DEF ControllerAnswers, AnswerTo
  <2>2. out' = [byte |-> AnswerTo(in.byte), src |-> Controller, irq |-> Irq(1) \in config]
    BY <1>4 DEF ControllerAnswers
  <2>3. out' \in [byte : Bytes, src : {Nobody, 1, 2, Controller}, irq : BOOLEAN]
    <3>1. (Irq(1) \in config) \in BOOLEAN
      OBVIOUS
    <3>. HIDE DEF Bytes
    <3>. QED
      BY <2>1, <2>2, <3>1
  <2>4. in' = NoInput /\ expects' = "port 1" /\ UNCHANGED <<config, dev, ticks>>
    BY <1>4, Zenon DEF ControllerAnswers, Silent
  <2>. QED
    BY <1>c, <1>d, <2>3, <2>4, Blanks, Zenon
<1>5. CASE ControllerObeys
  <2>1. config' \in Bytes
    <3>1. \A p \in Ports : ClockOff(p) \in Bits
      BY DEF ClockOff, Bits
    <3>. DEFINE off == {ClockOff(p) : p \in {q \in Ports :
                          in.byte = <<PS2_DISABLE_PORT, PS2_DISABLE_PORT_2>>[q]}}
                on == {ClockOff(p) : p \in {q \in 1 .. machine.channels :
                         in.byte = <<PS2_ENABLE_PORT, PS2_ENABLE_PORT_2>>[q]}}
    <3>2. off \subseteq Bits
      BY <3>1
    <3>3. config' = (config \cup off) \ on
      BY <1>5 DEF ControllerObeys
    <3>. HIDE DEF off, on
    <3>. QED
      BY <1>d, <3>2, <3>3 DEF Bytes
  <2>2. expects' \in {"config", "port 1", "port 2"}
    BY <1>5 DEF ControllerObeys
  <2>3. in' = NoInput /\ UNCHANGED <<out, dev, ticks>>
    BY <1>5, Zenon DEF ControllerObeys, Silent
  <2>. QED
    BY <1>c, <1>d, <2>1, <2>2, <2>3, Blanks, Zenon
<1>6. CASE TakesConfig
  <2>1. config' \in Bytes
    <3>1. {5} \in Bytes /\ {} \in Bytes
      BY DEF Bytes, Bits
    <3>. QED
      BY <1>6, <1>e, <3>1 DEF TakesConfig, Bytes
  <2>2. in' = NoInput /\ expects' = "port 1" /\ UNCHANGED <<out, dev, ticks>>
    BY <1>6, Zenon DEF TakesConfig, Silent
  <2>. QED
    BY <1>c, <1>d, <2>1, <2>2, Blanks, Zenon
<1>7. CASE DeviceTakes
  <2>1. PICK p \in Ports :
          \/ UNCHANGED dev
          \/ machine.attached[p] # "none"
             /\ dev' = [dev EXCEPT ![p] = Taken(@, machine.attached[p], in.byte)]
          \/ dev' = [dev EXCEPT ![p].queue = Append(@, PS2_RESEND), ![p].resends = @ + 1]
    <3>1. (IF expects = "port 2" THEN 2 ELSE 1) \in Ports
      BY DEF Ports
    <3>. QED
      BY <1>7, <3>1, Zenon DEF DeviceTakes
  <2>2. dev[p] \in Devices
    BY <1>d
  <2>3. dev' \in [Ports -> Devices]
    <3>1. CASE UNCHANGED dev
      BY <1>d, <3>1
    <3>2. CASE machine.attached[p] # "none"
               /\ dev' = [dev EXCEPT ![p] = Taken(@, machine.attached[p], in.byte)]
      <4>1. machine.attached[p] \in {"keyboard", "mouse"}
        BY <1>e, <3>2 DEF Kinds
      <4>2. Taken(dev[p], machine.attached[p], in.byte) \in Devices
        BY <1>e, <2>2, <4>1, TakenIsDevice
      <4>. QED
        BY <1>d, <3>2, <4>2
    <3>3. CASE dev' = [dev EXCEPT ![p].queue = Append(@, PS2_RESEND), ![p].resends = @ + 1]
      <4>. DEFINE d == [dev[p] EXCEPT !.queue = Append(@, PS2_RESEND), !.resends = @ + 1]
      <4>1. d \in Devices
        <5>1. dev[p].queue \in Seq(Bytes) /\ dev[p].resends \in Nat /\ PS2_RESEND \in Bytes
          BY <2>2, CommandBytes DEF Devices
        <5>2. Append(dev[p].queue, PS2_RESEND) \in Seq(Bytes) /\ dev[p].resends + 1 \in Nat
          BY <5>1
        <5>. QED
          BY <2>2, <5>2 DEF Devices
      <4>2. dev' = [dev EXCEPT ![p] = d]
        BY <1>d, <2>2, <3>3 DEF Devices
      <4>. HIDE DEF d
      <4>. QED
        BY <1>d, <4>1, <4>2
    <3>. QED
      BY <2>1, <3>1, <3>2, <3>3
  <2>4. in' = NoInput /\ expects' = "port 1" /\ UNCHANGED <<out, config, ticks>>
    BY <1>7, Zenon DEF DeviceTakes, Silent
  <2>. QED
    BY <1>c, <1>d, <2>3, <2>4, Blanks, Zenon
<1>8. ASSUME NEW p \in Ports, DeviceSends(p) PROVE Types'
  <2>1. dev[p] \in Devices /\ dev[p].queue \in Seq(Bytes) /\ dev[p].queue # <<>>
    BY <1>8, <1>d DEF DeviceSends, Devices
  <2>2. Head(dev[p].queue) \in Bytes /\ Tail(dev[p].queue) \in Seq(Bytes)
    BY <2>1
  <2>3. out' \in [byte : Bytes, src : {Nobody, 1, 2, Controller}, irq : BOOLEAN]
    <3>1. out' = [byte |-> Head(dev[p].queue), src |-> p, irq |-> Irq(p) \in config]
      BY <1>8 DEF DeviceSends
    <3>2. p \in {Nobody, 1, 2, Controller} /\ (Irq(p) \in config) \in BOOLEAN
      BY DEF Ports
    <3>. QED
      BY <2>2, <3>1, <3>2
  <2>4. dev' \in [Ports -> Devices]
    <3>. DEFINE d == [dev[p] EXCEPT !.queue = Tail(@)]
    <3>1. d \in Devices
      BY <2>1, <2>2 DEF Devices
    <3>2. dev' = [dev EXCEPT ![p] = d]
      BY <1>8, <1>d DEF DeviceSends
    <3>. HIDE DEF d
    <3>. QED
      BY <1>d, <3>1, <3>2
  <2>5. UNCHANGED <<config, in, expects, ticks>>
    BY <1>8, Zenon DEF DeviceSends, Silent
  <2>. QED
    BY <1>c, <1>d, <2>3, <2>4, <2>5, Zenon
<1>9. CASE Tick
  <2>1. ticks' = ticks + 1
    BY <1>9, Zenon DEF Tick
  <2>2. UNCHANGED <<config, in, out, expects, dev>>
    BY <1>9, Zenon DEF Tick, controller
  <2>3. ticks \in Nat
    BY <1>d, Zenon
  <2>4. ticks' \in Nat
    BY <2>1, <2>3
  <2>. QED
    BY <1>c, <1>d, <2>2, <2>4, Zenon
<1>. QED
  BY <1>b, <1>4, <1>5, <1>6, <1>7, <1>8, <1>9 DEF Hardware

LEMMA UserTypesStep ==
  ASSUME Types, User
  PROVE  Types'
<1>a. ThreadTypes /\ DriverTypes /\ MachineTypes /\ FlagTypes /\ TodoIn(Usual)
  BY DEF Types
<1>1. PICK p \in TypedOn, key \in Keys : Key(p, key)
  BY DEF User
<1>2. p \in Ports /\ key \in DOMAIN Makes
  BY KeyboardAssumption
<1>3. /\ UNCHANGED <<todo, byte, ret, start, ack_start, response>>
      /\ UNCHANGED <<port1, port2, identity>>
      /\ UNCHANGED <<ticks, handler, machine, config, in, out, expects, typed>>
      /\ UNCHANGED <<dual_channel, ps2_error, ps2_initialized, keyboard_enabled, shift_down>>
  BY <1>1, Zenon DEF Key, thread, driver, controller
<1>4. ThreadTypes' /\ DriverTypes' /\ FlagTypes' /\ TodoIn(Usual)'
  BY <1>a, <1>3, Kept DEF TodoIn
<1>5. dev \in [Ports -> Devices] /\ dev[p] \in Devices
  BY <1>a, <1>2 DEF MachineTypes
<1>. DEFINE down == key \notin dev[p].held
            held == IF down THEN dev[p].held \cup {key} ELSE dev[p].held \ {key}
            codes == CodesOf(key, down, dev[p].set)
            queue == IF dev[p].scanning THEN dev[p].queue \o codes ELSE dev[p].queue
            d == [dev[p] EXCEPT !.held = held, !.queue = queue]
<1>6. codes \in Seq(Bytes)
  <2>1. \A k \in DOMAIN Makes, s \in {1, 2} : Makes[k][s] \in Nat
    BY DEF Makes
  <2>2. dev[p].set \in {1, 2}
    BY <1>5 DEF Devices
  <2>. DEFINE code == Byte(Makes[key][dev[p].set])
  <2>3. code \in Bytes /\ Byte(240) \in Bytes
    BY <1>2, <2>1, <2>2, BitOf
  <2>4. code \cup {7} \in Bytes
    BY <2>3 DEF Bytes, Bits
  <2>. HIDE DEF code
  <2>5. codes = (IF dev[p].set = 1 THEN <<IF down THEN code ELSE code \cup {7}>>
                 ELSE IF down THEN <<code>> ELSE <<Byte(240), code>>)
    BY <2>2 DEF CodesOf, code
  <2>6. codes \in {<<code>>, <<code \cup {7}>>, <<Byte(240), code>>}
    BY <2>5
  <2>7. /\ <<code>> \in Seq(Bytes) /\ <<code \cup {7}>> \in Seq(Bytes)
        /\ <<Byte(240), code>> \in Seq(Bytes)
    <3>. HIDE DEF codes
    <3>. QED
      BY <2>3, <2>4
  <2>. HIDE DEF codes
  <2>. QED
    BY <2>6, <2>7, Zenon
<1>7. held \in SUBSET DOMAIN Makes
  BY <1>2, <1>5 DEF Devices
<1>8. queue \in Seq(Bytes)
  <2>. HIDE DEF codes
  <2>. QED
    BY <1>5, <1>6 DEF Devices
<1>9. dev' = [dev EXCEPT ![p] = d]
  BY <1>1, <1>5 DEF Key, Devices
<1>. HIDE DEF held, queue, down, codes
<1>10. d \in Devices
  BY <1>5, <1>7, <1>8 DEF Devices
<1>. HIDE DEF d
<1>11. dev' \in [Ports -> Devices]
  BY <1>5, <1>9, <1>10
<1>12. MachineTypes'
  BY <1>a, <1>3, <1>11, Zenon DEF MachineTypes
<1>. QED
  BY <1>4, <1>12 DEF Types

LEMMA TypesStep ==
  ASSUME Types, [Next]_vars
  PROVE  Types'
BY ThreadTypesStep, HandlerTypesStep, HardwareTypesStep, UserTypesStep, UnchangedTypes
   DEF Next, Halt

\* Every variable keeps its type (ps2.c, keyboard.c); an identity has two bytes at most.
THEOREM TypeCorrect == Spec => []TypeOK
<1>1. Spec => []Types
  BY InitTypes, TypesStep, PTL DEF Spec
<1>. QED
  BY <1>1, TypesMean, PTL


-----------------------------------------------------------------------------
(* Where the thread is in ps2_init, and what it then knows.                *)

\* An operation and those that follow it.
Before(op, rest) == <<op>> \o rest

\* The sequence of ps2_init from its parts on.
AskOps(c, rest) == Before(ps2_send_cmd(c), Before(<<"read_data">>, rest))
ReadOps(rest) == Before(<<"flush">>, AskOps(PS2_READ_CONFIG_BYTE, rest))
WriteOps(b, rest) == Before(ps2_send_cmd(PS2_WRITE_CONFIG_BYTE), Before(ps2_write_data(b), rest))

AtKeyboardInit == <<<<"keyboard_init">>>>
AtIdentify ==
  Before(<<"identify", 1>>, Before(<<"identified", 1>>,
    Before(<<"identify", 2>>, Before(<<"identified", 2>>, Before(<<"initialized">>, AtKeyboardInit)))))
AtInterrupts == Before(<<"enable_interrupts">>, AtIdentify)
AtEnable == Before(<<"enable_ports">>, ReadOps(AtInterrupts))
AtTest2 == Before(<<"port_2_test">>, AtEnable)
AtTestPort2 == Before(<<"test_port_2">>, AtEnable)
AtTest1 == Before(<<"port_1_test">>, AtTestPort2)
AtPort1 == AskOps(PS2_TEST_PORT, AtTest1)
AtSecondCheck == Before(<<"second_check">>, AtPort1)
AtSecondTest == Before(<<"second_test">>, AtPort1)
AtSelfTest == Before(<<"self_test">>, AtSecondTest)
AtController == AskOps(PS2_CONTROLLER_TEST, AtSelfTest)
AtFirstCheck == Before(<<"first_check">>, AtController)
AtFlush == Before(<<"flush">>, ReadOps(AtFirstCheck))
AtDisable2 == Before(ps2_send_cmd(PS2_DISABLE_PORT_2), AtFlush)
AtDisable1 == Before(ps2_send_cmd(PS2_DISABLE_PORT), AtDisable2)

\* What the controller makes of a configuration by a command, or by a byte for it.
AfterCommand(v, c) ==
  (v \cup {ClockOff(p) : p \in {q \in Ports :
             c = <<PS2_DISABLE_PORT, PS2_DISABLE_PORT_2>>[q]}})
  \ {ClockOff(p) : p \in {q \in 1 .. machine.channels :
       c = <<PS2_ENABLE_PORT, PS2_ENABLE_PORT_2>>[q]}}
AfterByte(b) == b \cup (IF machine.channels = 1 THEN {5} ELSE {})

\* The configuration once the controller has taken what is in its input buffer.
Coming ==
  IF in.port = "command" THEN AfterCommand(config, in.byte)
  ELSE IF in.port = "data" /\ expects = "config" THEN AfterByte(in.byte)
  ELSE config

\* A configuration with the firmware's bits 2, 3 and 7, those of on and none of off.
Holds(v, on, off) ==
  (\A b \in {2, 3, 7} : b \in v <=> b \in machine.config) /\ on \subseteq v /\ off \cap v = {}

\* The controller will not answer; the buffers are empty; the thread gets the
\* configuration; it gets an answer, if any; the controller waits for a configuration.
Calm == in.port = "command" => in.byte \notin Loud
Idle == ~InputFull /\ ~OutputFull
Configuration ==
  \/ in = [byte |-> PS2_READ_CONFIG_BYTE, port |-> "command"] /\ ~OutputFull
  \/ ~InputFull /\ out.src = Controller /\ out.byte = config /\ expects = "port 1"
Answer == InputFull => in.port = "command" /\ in.byte \in Loud /\ ~OutputFull
Addressed ==
  \/ in = [byte |-> PS2_WRITE_CONFIG_BYTE, port |-> "command"]
  \/ ~InputFull /\ expects = "config"

Sending(c, rest, on, off) ==
  todo = Before(ps2_send_cmd(c), rest) /\ Holds(Coming, on, off) /\ Calm /\ ~OutputFull
\* The thread asks for an answer and waits for it; it fetches the configuration, and
\* has got it; it writes one.
Waiting(c, rest) ==
  \/ todo = AskOps(c, rest) /\ Calm /\ ~OutputFull
  \/ todo = Before(<<"read_data">>, rest) /\ Answer
Fetching(rest) ==
  \/ todo = ReadOps(rest) /\ Calm
  \/ todo = AskOps(PS2_READ_CONFIG_BYTE, rest) /\ Calm /\ ~OutputFull
  \/ todo = Before(<<"read_data">>, rest) /\ Configuration
Got(rest) == todo = rest /\ Idle /\ byte = config /\ expects = "port 1"
Storing(b, rest) ==
  \/ todo = WriteOps(b, rest) /\ Calm
  \/ todo = Before(ps2_write_data(b), rest) /\ Addressed

Asking(c, rest, on, off) == Holds(Coming, on, off) /\ Waiting(c, rest)
Asked(rest, on, off) == Holds(Coming, on, off) /\ todo = rest /\ Idle
Reading(rest, on, off) == Holds(Coming, on, off) /\ Fetching(rest)
Read(rest, on, off) == Holds(Coming, on, off) /\ Got(rest)
Writing(rest, on, off) == \E b \in Bytes : Holds(b, on, off) /\ Storing(b, rest)

\* No interrupt, no clock but those of the ports in use, and with interrupts.
NoIrqs == {Irq(1), Irq(2), Translation}
NoClocks == {ClockOff(1), ClockOff(2)}
Off(p) == p <= machine.channels /\ ~Usable(p)
On(p) == p <= machine.channels /\ Usable(p)
ClocksOff == {ClockOff(p) : p \in {q \in Ports : Off(q)}}
ClocksOn == {ClockOff(p) : p \in {q \in Ports : On(q)}}
IrqsOn == {Irq(p) : p \in {q \in Ports : Usable(q)}}
IrqsOff == {Irq(p) : p \in {q \in Ports : ~Usable(q)}}
OneClock == {ClockOff(p) : p \in {q \in {1} : ~Usable(q)}}
NoOneClock == {ClockOff(p) : p \in {q \in {1} : Usable(q)}}

Starting ==
  \/ todo = Before(<<"check_ps2">>, AtKeyboardInit) /\ Holds(Coming, {}, {}) /\ Calm
  \/ todo = AtDisable1 /\ Holds(Coming, {}, {}) /\ Calm
  \/ todo = AtDisable2 /\ Holds(Coming, {ClockOff(1)}, {}) /\ Calm
  \/ todo = AtFlush /\ Holds(Coming, NoClocks, {}) /\ Calm
  \/ Reading(AtFirstCheck, NoClocks, {})
  \/ Read(AtFirstCheck, NoClocks, {})
  \/ Writing(ReadOps(AtController), NoClocks, NoIrqs)
  \/ Reading(AtController, NoClocks, NoIrqs)

Testing ==
  \/ Asking(PS2_CONTROLLER_TEST, AtSelfTest, NoClocks, NoIrqs)
  \/ Asked(AtSelfTest, NoClocks, NoIrqs)
  \/ Asked(AtSecondTest, NoClocks, NoIrqs)
  \/ Sending(PS2_ENABLE_PORT_2, ReadOps(AtSecondCheck), NoClocks, NoIrqs)
  \/ Reading(AtSecondCheck, {ClockOff(1)}, NoIrqs)
  \/ Read(AtSecondCheck, {ClockOff(1)}, NoIrqs)
  \/ Sending(PS2_DISABLE_PORT_2, AtPort1, {ClockOff(1)}, NoIrqs)
  \/ Asking(PS2_TEST_PORT, AtTest1, NoClocks, NoIrqs)
  \/ Asked(AtTest1, NoClocks, NoIrqs)
  \/ Asked(AtTestPort2, NoClocks, NoIrqs)
  \/ Asking(PS2_TEST_PORT, AtTest2, NoClocks, NoIrqs)
  \/ Asked(AtTest2, NoClocks, NoIrqs)

Enabling ==
  \/ Asked(AtEnable, NoClocks, NoIrqs)
  \/ /\ Usable(1)
     /\ Sending(PS2_ENABLE_PORT,
                IF Usable(2) THEN Before(ps2_send_cmd(PS2_ENABLE_PORT_2), ReadOps(AtInterrupts))
                ELSE ReadOps(AtInterrupts),
                NoClocks, NoIrqs)
  \/ /\ Usable(2)
     /\ Sending(PS2_ENABLE_PORT_2, ReadOps(AtInterrupts), {ClockOff(2)} \cup OneClock,
                NoIrqs \cup NoOneClock)
  \/ Reading(AtInterrupts, ClocksOff, NoIrqs \cup ClocksOn)
  \/ Read(AtInterrupts, ClocksOff, NoIrqs \cup ClocksOn)
  \/ Writing(ReadOps(AtIdentify), ClocksOff \cup IrqsOn, {Translation} \cup ClocksOn \cup IrqsOff)
  \/ /\ Reading(AtIdentify, ClocksOff \cup IrqsOn, {Translation} \cup ClocksOn \cup IrqsOff)
     /\ machine.channels = 1 => 5 \in Coming

\* No device has sent or been sent anything.
Early ==
  /\ handler = "none" /\ ~keyboard_enabled /\ ~ps2_initialized
  /\ \A p \in Ports : dev[p].queue = <<>>
  /\ out.src # 2
  /\ in.port = "data" => expects = "config"

\* ps2_init was not called, or has failed.
Unused == todo \in {AtKeyboardInit, <<>>} /\ ~ps2_initialized /\ ~keyboard_enabled

-----------------------------------------------------------------------------
(* Sequences of operations. *)

LEMMA BeforeIs ==
  ASSUME NEW op \in Usual, NEW rest \in Seq(Usual)
  PROVE  /\ Before(op, rest) \in Seq(Usual) /\ Before(op, rest) # <<>>
         /\ Before(op, rest)[1] = op /\ Tail(Before(op, rest)) = rest
<1>. HIDE DEF Usual
<1>. QED
  BY DEF Before

LEMMA PeelIs ==
  ASSUME NEW s \in Seq(Usual), s # <<>>, NEW t \in Seq(Usual)
  PROVE  s \o t = Before(s[1], Tail(s) \o t)
<1>. HIDE DEF Usual
<1>. DEFINE one == <<s[1]>>
            r == Tail(s)
<1>1. one \in Seq(Usual) /\ Len(one) = 1 /\ one[1] = s[1]
  OBVIOUS
<1>2. r \in Seq(Usual) /\ Len(r) = Len(s) - 1 /\ \A i \in 1 .. Len(r) : r[i] = s[i + 1]
  BY HeadTailProperties
<1>3. Len(s) \in Nat \ {0}
  OBVIOUS
<1>. HIDE DEF one, r
<1>4. s = one \o r
  <2>1. /\ one \o r \in Seq(Usual) /\ Len(one \o r) = Len(one) + Len(r)
        /\ \A i \in 1 .. Len(one) + Len(r) :
             (one \o r)[i] = IF i <= Len(one) THEN one[i] ELSE r[i - Len(one)]
    <3>1. \A x, y \in Seq(Usual) :
            /\ x \o y \in Seq(Usual) /\ Len(x \o y) = Len(x) + Len(y)
            /\ \A i \in 1 .. Len(x) + Len(y) :
                 (x \o y)[i] = IF i <= Len(x) THEN x[i] ELSE y[i - Len(x)]
      BY ConcatProperties
    <3>. QED
      BY <1>1, <1>2, <3>1, Zenon
  <2>. DEFINE u == one \o r
  <2>. HIDE DEF u
  <2>2. u \in Seq(Usual) /\ Len(u) = Len(s)
        /\ \A i \in 1 .. Len(s) : u[i] = IF i <= 1 THEN one[i] ELSE r[i - 1]
    BY <1>1, <1>2, <1>3, <2>1 DEF u
  <2>3. \A i \in 1 .. Len(s) : s[i] = u[i]
    <3>. SUFFICES ASSUME NEW i \in 1 .. Len(s) PROVE s[i] = u[i]
      OBVIOUS
    <3>1. CASE i = 1
      BY <1>1, <1>3, <2>2, <3>1
    <3>2. CASE i # 1
      <4>1. i - 1 \in 1 .. Len(r) /\ (i - 1) + 1 = i /\ ~(i <= 1)
        BY <1>2, <1>3, <3>2
      <4>. QED
        BY <1>2, <2>2, <4>1
    <3>. QED
      BY <3>1, <3>2
  <2>. QED
    BY <2>2, <2>3, SeqEqual DEF u
<1>5. s \o t = one \o (r \o t)
  BY <1>1, <1>2, <1>4, ConcatAssociative
<1>. QED
  BY <1>5 DEF Before, one, r

\* Sequences that are written out, in front of others.
LEMMA ListsAre ==
  \A a, b, c \in Usual, rest \in Seq(Usual) :
    /\ <<>> \o rest = rest
    /\ <<a>> \o rest = Before(a, rest)
    /\ <<a, b>> \o rest = Before(a, Before(b, rest))
    /\ <<a, b, c>> \o rest = Before(a, Before(b, Before(c, rest)))
<1>. TAKE a, b, c \in Usual, rest \in Seq(Usual)
<1>. HIDE DEF Usual
<1>1. <<>> \o rest = rest
  BY ConcatEmptySeq
<1>2. <<a>> \o rest = Before(a, rest)
  BY DEF Before
<1>3. \A x, y \in Usual : <<x, y>> \o rest = Before(x, Before(y, rest))
  BY TwoAre DEF Before
<1>4. <<a, b, c>> \o rest = Before(a, Before(b, Before(c, rest)))
  <2>. DEFINE s == <<a, b, c>>
  <2>1. s \in Seq(Usual) /\ s # <<>> /\ s[1] = a /\ Tail(s) = <<b, c>>
    OBVIOUS
  <2>. HIDE DEF s
  <2>2. s \o rest = Before(s[1], Tail(s) \o rest)
    BY <2>1, PeelIs
  <2>. QED
    BY <1>3, <2>1, <2>2 DEF s
<1>. QED
  BY <1>1, <1>2, <1>3, <1>4

LEMMA OpsAre ==
  /\ \A c \in Bytes : ps2_send_cmd(c) \in Usual /\ ps2_write_data(c) \in Usual
  /\ \A p \in Ports : <<"identify", p>> \in Usual /\ <<"identified", p>> \in Usual
  /\ \A name \in {"keyboard_init", "flush", "initialized", "check_ps2", "read_data", "first_check",
                  "self_test", "second_test", "second_check", "port_1_test", "test_port_2",
                  "port_2_test", "enable_ports", "enable_interrupts"} : <<name>> \in Usual
<1>1. \A c \in Bytes : ps2_send_cmd(c) \in Usual /\ ps2_write_data(c) \in Usual
  BY DEF Usual, QuietOps, PlainOps, InitOps, ps2_send_cmd, ps2_write_data
<1>2. \A p \in Ports : <<"identify", p>> \in Usual /\ <<"identified", p>> \in Usual
  BY DEF Usual, QuietOps, PlainOps
<1>3. \A name \in {"keyboard_init", "flush", "initialized", "check_ps2", "read_data", "first_check",
                  "self_test", "second_test", "second_check", "port_1_test", "test_port_2",
                  "port_2_test", "enable_ports", "enable_interrupts"} : <<name>> \in Usual
  BY DEF Usual, QuietOps, PlainOps, InitOps
<1>. QED
  BY <1>1, <1>2, <1>3

\* The parts of the sequence are made of its operations.
LEMMA PartsAre ==
  ASSUME NEW rest \in Seq(Usual)
  PROVE  /\ ReadOps(rest) \in Seq(Usual)
         /\ \A c \in Bytes : AskOps(c, rest) \in Seq(Usual) /\ WriteOps(c, rest) \in Seq(Usual)
<1>1. \A op \in Usual, r \in Seq(Usual) : Before(op, r) \in Seq(Usual)
  BY BeforeIs
<1>2. <<"read_data">> \in Usual /\ <<"flush">> \in Usual
  BY OpsAre
<1>3. PS2_READ_CONFIG_BYTE \in Bytes /\ PS2_WRITE_CONFIG_BYTE \in Bytes
  BY CommandBytes
<1>4. \A c \in Bytes : ps2_send_cmd(c) \in Usual /\ ps2_write_data(c) \in Usual
  BY OpsAre
<1>5. \A c \in Bytes : AskOps(c, rest) \in Seq(Usual)
  BY <1>1, <1>2, <1>4, Zenon DEF AskOps
<1>6. ReadOps(rest) \in Seq(Usual)
  BY <1>1, <1>2, <1>3, <1>5, Zenon DEF ReadOps
<1>7. \A c \in Bytes : WriteOps(c, rest) \in Seq(Usual)
  BY <1>1, <1>3, <1>4, Zenon DEF WriteOps
<1>. QED
  BY <1>5, <1>6, <1>7

LEMMA RestsAre ==
  /\ AtKeyboardInit \in Seq(Usual) /\ AtIdentify \in Seq(Usual) /\ AtInterrupts \in Seq(Usual)
  /\ AtEnable \in Seq(Usual) /\ AtTest2 \in Seq(Usual) /\ AtTestPort2 \in Seq(Usual)
  /\ AtTest1 \in Seq(Usual) /\ AtPort1 \in Seq(Usual) /\ AtSecondCheck \in Seq(Usual)
  /\ AtSecondTest \in Seq(Usual) /\ AtSelfTest \in Seq(Usual) /\ AtController \in Seq(Usual)
  /\ AtFirstCheck \in Seq(Usual) /\ AtFlush \in Seq(Usual) /\ AtDisable2 \in Seq(Usual)
  /\ AtDisable1 \in Seq(Usual)
<1>. DEFINE B(name) == <<name>>
<1>1. \A op \in Usual, r \in Seq(Usual) : Before(op, r) \in Seq(Usual)
  BY BeforeIs
<1>2. \A r \in Seq(Usual) : /\ ReadOps(r) \in Seq(Usual)
                            /\ AskOps(PS2_TEST_PORT, r) \in Seq(Usual)
                            /\ AskOps(PS2_CONTROLLER_TEST, r) \in Seq(Usual)
  BY PartsAre, CommandBytes
<1>3. /\ ps2_send_cmd(PS2_DISABLE_PORT) \in Usual /\ ps2_send_cmd(PS2_DISABLE_PORT_2) \in Usual
  BY OpsAre, CommandBytes
<1>4. /\ <<"keyboard_init">> \in Usual /\ <<"flush">> \in Usual /\ <<"initialized">> \in Usual
      /\ <<"first_check">> \in Usual /\ <<"self_test">> \in Usual /\ <<"second_test">> \in Usual
      /\ <<"second_check">> \in Usual /\ <<"port_1_test">> \in Usual
      /\ <<"test_port_2">> \in Usual /\ <<"port_2_test">> \in Usual
      /\ <<"enable_ports">> \in Usual /\ <<"enable_interrupts">> \in Usual
  BY OpsAre
<1>5. /\ <<"identify", 1>> \in Usual /\ <<"identified", 1>> \in Usual
      /\ <<"identify", 2>> \in Usual /\ <<"identified", 2>> \in Usual
  BY OpsAre DEF Ports
<1>6. AtKeyboardInit \in Seq(Usual)
  <2>. HIDE DEF Usual
  <2>. QED
    BY <1>4 DEF AtKeyboardInit
<1>7. AtIdentify \in Seq(Usual)
  BY <1>1, <1>4, <1>5, <1>6, Zenon DEF AtIdentify
<1>8. AtInterrupts \in Seq(Usual)
  BY <1>1, <1>4, <1>7, Zenon DEF AtInterrupts
<1>9. AtEnable \in Seq(Usual)
  BY <1>1, <1>2, <1>4, <1>8, Zenon DEF AtEnable
<1>10. AtTest2 \in Seq(Usual) /\ AtTestPort2 \in Seq(Usual)
  BY <1>1, <1>4, <1>9, Zenon DEF AtTest2, AtTestPort2
<1>11. AtTest1 \in Seq(Usual)
  BY <1>1, <1>4, <1>10, Zenon DEF AtTest1
<1>12. AtPort1 \in Seq(Usual)
  BY <1>2, <1>11, Zenon DEF AtPort1
<1>13. AtSecondCheck \in Seq(Usual) /\ AtSecondTest \in Seq(Usual)
  BY <1>1, <1>4, <1>12, Zenon DEF AtSecondCheck, AtSecondTest
<1>14. AtSelfTest \in Seq(Usual)
  BY <1>1, <1>4, <1>13, Zenon DEF AtSelfTest
<1>15. AtController \in Seq(Usual)
  BY <1>2, <1>14, Zenon DEF AtController
<1>16. AtFirstCheck \in Seq(Usual)
  BY <1>1, <1>4, <1>15, Zenon DEF AtFirstCheck
<1>17. AtFlush \in Seq(Usual)
  BY <1>1, <1>2, <1>4, <1>16, Zenon DEF AtFlush
<1>18. AtDisable2 \in Seq(Usual)
  BY <1>1, <1>3, <1>17, Zenon DEF AtDisable2
<1>19. AtDisable1 \in Seq(Usual)
  BY <1>1, <1>3, <1>18, Zenon DEF AtDisable1
<1>. QED
  BY <1>6, <1>7, <1>8, <1>9, <1>10, <1>11, <1>12, <1>13, <1>14, <1>15, <1>16, <1>17, <1>18, <1>19

\* What the subroutines put in front of the others.
LEMMA SubroutinesAre ==
  ASSUME NEW rest \in Seq(Usual)
  PROVE  /\ read_ps2_controller_config \o rest = ReadOps(rest)
         /\ \A b \in Bytes : write_ps2_controller_config(b) \o read_ps2_controller_config \o rest
                               = WriteOps(b, ReadOps(rest))
<1>1. /\ <<"flush">> \in Usual /\ <<"read_data">> \in Usual
      /\ ps2_send_cmd(PS2_READ_CONFIG_BYTE) \in Usual /\ ps2_send_cmd(PS2_WRITE_CONFIG_BYTE) \in Usual
  BY OpsAre, CommandBytes
<1>2. read_ps2_controller_config \o rest = ReadOps(rest)
  <2>1. \A a, b, c \in Usual : <<a, b, c>> \o rest = Before(a, Before(b, Before(c, rest)))
    BY ListsAre, Zenon
  <2>. QED
    BY <1>1, <2>1, Zenon DEF read_ps2_controller_config, ReadOps, AskOps
<1>3. ASSUME NEW b \in Bytes
      PROVE  write_ps2_controller_config(b) \o read_ps2_controller_config \o rest
               = WriteOps(b, ReadOps(rest))
  <2>1. ps2_write_data(b) \in Usual
    BY OpsAre
  <2>2. write_ps2_controller_config(b) \in Seq(Usual) /\ read_ps2_controller_config \in Seq(Usual)
    <3>. HIDE DEF Usual
    <3>. QED
      BY <1>1, <2>1 DEF write_ps2_controller_config, read_ps2_controller_config
  <2>3. (write_ps2_controller_config(b) \o read_ps2_controller_config) \o rest
          = write_ps2_controller_config(b) \o (read_ps2_controller_config \o rest)
    BY <2>2, ConcatAssociative
  <2>4. write_ps2_controller_config(b) \o ReadOps(rest) = WriteOps(b, ReadOps(rest))
    <3>1. ReadOps(rest) \in Seq(Usual)
      BY PartsAre
    <3>2. \A x, y \in Usual, r \in Seq(Usual) : <<x, y>> \o r = Before(x, Before(y, r))
      BY ListsAre, Zenon
    <3>. QED
      BY <1>1, <2>1, <3>1, <3>2, Zenon DEF write_ps2_controller_config, WriteOps
  <2>. QED
    BY <1>2, <2>3, <2>4, Zenon
<1>. QED
  BY <1>2, <1>3

LEMMA InitOpsAre ==
  /\ ps2_send_cmd(PS2_DISABLE_PORT) \in Usual /\ ps2_send_cmd(PS2_DISABLE_PORT_2) \in Usual
  /\ ps2_send_cmd(PS2_ENABLE_PORT) \in Usual /\ ps2_send_cmd(PS2_ENABLE_PORT_2) \in Usual
  /\ ps2_send_cmd(PS2_CONTROLLER_TEST) \in Usual /\ ps2_send_cmd(PS2_TEST_PORT) \in Usual
  /\ ps2_send_cmd(PS2_READ_CONFIG_BYTE) \in Usual /\ ps2_send_cmd(PS2_WRITE_CONFIG_BYTE) \in Usual
  /\ <<"flush">> \in Usual /\ <<"initialized">> \in Usual /\ <<"read_data">> \in Usual
  /\ <<"first_check">> \in Usual /\ <<"self_test">> \in Usual /\ <<"second_test">> \in Usual
  /\ <<"second_check">> \in Usual
  /\ <<"port_1_test">> \in Usual /\ <<"test_port_2">> \in Usual /\ <<"port_2_test">> \in Usual
  /\ <<"enable_ports">> \in Usual /\ <<"enable_interrupts">> \in Usual
  /\ <<"check_ps2">> \in Usual /\ <<"keyboard_init">> \in Usual
  /\ <<"identify", 1>> \in Usual /\ <<"identified", 1>> \in Usual
  /\ <<"identify", 2>> \in Usual /\ <<"identified", 2>> \in Usual
BY OpsAre, CommandBytes DEF Ports

LEMMA FirstOpsAre ==
  <<ps2_send_cmd(PS2_DISABLE_PORT), ps2_send_cmd(PS2_DISABLE_PORT_2), <<"flush">>>>
    \o ReadOps(AtFirstCheck) = AtDisable1
<1>. DEFINE a == ps2_send_cmd(PS2_DISABLE_PORT)
            b == ps2_send_cmd(PS2_DISABLE_PORT_2)
            c == <<"flush">>
            rest == ReadOps(AtFirstCheck)
<1>0. a \in Usual /\ b \in Usual /\ c \in Usual
  BY InitOpsAre
<1>a. rest \in Seq(Usual)
  BY RestsAre, PartsAre
<1>. HIDE DEF Usual, rest, a, b, c
<1>. DEFINE s1 == <<a, b, c>>
            s2 == <<b, c>>
            s3 == <<c>>
<1>1. s1 \in Seq(Usual) /\ s1 # <<>> /\ s1[1] = a /\ Tail(s1) = s2
  BY <1>0
<1>2. s2 \in Seq(Usual) /\ s2 # <<>> /\ s2[1] = b /\ Tail(s2) = s3
  BY <1>0
<1>3. s3 \o rest = Before(c, rest)
  BY DEF Before
<1>. HIDE DEF s1, s2, s3
<1>4. s1 \o rest = Before(a, s2 \o rest)
  BY <1>1, <1>a, PeelIs
<1>5. s2 \o rest = Before(b, s3 \o rest)
  BY <1>2, <1>a, PeelIs
<1>6. s1 \o rest = Before(a, Before(b, Before(c, rest)))
  BY <1>3, <1>4, <1>5
<1>. QED
  BY <1>6 DEF s1, rest, a, b, c, AtDisable1, AtDisable2, AtFlush

LEMMA MiddleOpsAre ==
  <<<<"first_check">>,
    ps2_send_cmd(PS2_CONTROLLER_TEST), <<"read_data">>, <<"self_test">>,
    <<"second_test">>,
    ps2_send_cmd(PS2_TEST_PORT), <<"read_data">>, <<"port_1_test">>,
    <<"test_port_2">>,
    <<"enable_ports">>>> \o ReadOps(AtInterrupts) = AtFirstCheck
<1>. DEFINE a == <<"first_check">>
            b == ps2_send_cmd(PS2_CONTROLLER_TEST)
            c == <<"read_data">>
            d == <<"self_test">>
            e == <<"second_test">>
            f == ps2_send_cmd(PS2_TEST_PORT)
            g == <<"read_data">>
            h == <<"port_1_test">>
            i == <<"test_port_2">>
            j == <<"enable_ports">>
            rest == ReadOps(AtInterrupts)
<1>0. a \in Usual /\ b \in Usual /\ c \in Usual /\ d \in Usual /\ e \in Usual
      /\ f \in Usual /\ g \in Usual /\ h \in Usual /\ i \in Usual /\ j \in Usual
  BY InitOpsAre
<1>a. rest \in Seq(Usual)
  BY RestsAre, PartsAre
<1>. HIDE DEF Usual, rest, a, b, c, d, e, f, g, h, i, j
<1>. DEFINE s1 == <<a, b, c, d, e, f, g, h, i, j>>
            s2 == <<b, c, d, e, f, g, h, i, j>>
            s3 == <<c, d, e, f, g, h, i, j>>
            s4 == <<d, e, f, g, h, i, j>>
            s5 == <<e, f, g, h, i, j>>
            s6 == <<f, g, h, i, j>>
            s7 == <<g, h, i, j>>
            s8 == <<h, i, j>>
            s9 == <<i, j>>
            s10 == <<j>>
<1>1. s1 \in Seq(Usual) /\ s1 # <<>> /\ s1[1] = a /\ Tail(s1) = s2
  BY <1>0
<1>2. s2 \in Seq(Usual) /\ s2 # <<>> /\ s2[1] = b /\ Tail(s2) = s3
  BY <1>0
<1>3. s3 \in Seq(Usual) /\ s3 # <<>> /\ s3[1] = c /\ Tail(s3) = s4
  BY <1>0
<1>4. s4 \in Seq(Usual) /\ s4 # <<>> /\ s4[1] = d /\ Tail(s4) = s5
  BY <1>0
<1>5. s5 \in Seq(Usual) /\ s5 # <<>> /\ s5[1] = e /\ Tail(s5) = s6
  BY <1>0
<1>6. s6 \in Seq(Usual) /\ s6 # <<>> /\ s6[1] = f /\ Tail(s6) = s7
  BY <1>0
<1>7. s7 \in Seq(Usual) /\ s7 # <<>> /\ s7[1] = g /\ Tail(s7) = s8
  BY <1>0
<1>8. s8 \in Seq(Usual) /\ s8 # <<>> /\ s8[1] = h /\ Tail(s8) = s9
  BY <1>0
<1>9. s9 \in Seq(Usual) /\ s9 # <<>> /\ s9[1] = i /\ Tail(s9) = s10
  BY <1>0
<1>10. s10 \o rest = Before(j, rest)
  BY DEF Before
<1>. HIDE DEF s1, s2, s3, s4, s5, s6, s7, s8, s9, s10
<1>11. s1 \o rest = Before(a, s2 \o rest)
  BY <1>1, <1>a, PeelIs
<1>12. s2 \o rest = Before(b, s3 \o rest)
  BY <1>2, <1>a, PeelIs
<1>13. s3 \o rest = Before(c, s4 \o rest)
  BY <1>3, <1>a, PeelIs
<1>14. s4 \o rest = Before(d, s5 \o rest)
  BY <1>4, <1>a, PeelIs
<1>15. s5 \o rest = Before(e, s6 \o rest)
  BY <1>5, <1>a, PeelIs
<1>16. s6 \o rest = Before(f, s7 \o rest)
  BY <1>6, <1>a, PeelIs
<1>17. s7 \o rest = Before(g, s8 \o rest)
  BY <1>7, <1>a, PeelIs
<1>18. s8 \o rest = Before(h, s9 \o rest)
  BY <1>8, <1>a, PeelIs
<1>19. s9 \o rest = Before(i, s10 \o rest)
  BY <1>9, <1>a, PeelIs
<1>20. s1 \o rest = Before(a, Before(b, Before(c, Before(d, 
                Before(e, Before(f, Before(g, Before(h, 
                Before(i, Before(j, rest))))))))))
  BY <1>10, <1>11, <1>12, <1>13, <1>14, <1>15, <1>16, <1>17, <1>18, <1>19
<1>. QED
  BY <1>20 DEF s1, rest, a, b, c, d, e, f, g, h, i, j, AtFirstCheck, AtController, AskOps,
       AtSelfTest, AtSecondTest, AtPort1, AtTest1, AtTestPort2, AtEnable

LEMMA LastOpsAre ==
  <<<<"enable_interrupts">>,
    <<"identify", 1>>, <<"identified", 1>>,
    <<"identify", 2>>, <<"identified", 2>>,
    <<"initialized">>>> \o AtKeyboardInit = AtInterrupts
<1>. DEFINE a == <<"enable_interrupts">>
            b == <<"identify", 1>>
            c == <<"identified", 1>>
            d == <<"identify", 2>>
            e == <<"identified", 2>>
            f == <<"initialized">>
            rest == AtKeyboardInit
<1>0. a \in Usual /\ b \in Usual /\ c \in Usual /\ d \in Usual /\ e \in Usual
      /\ f \in Usual
  BY InitOpsAre
<1>a. rest \in Seq(Usual)
  BY RestsAre
<1>. HIDE DEF Usual, rest, a, b, c, d, e, f
<1>. DEFINE s1 == <<a, b, c, d, e, f>>
            s2 == <<b, c, d, e, f>>
            s3 == <<c, d, e, f>>
            s4 == <<d, e, f>>
            s5 == <<e, f>>
            s6 == <<f>>
<1>1. s1 \in Seq(Usual) /\ s1 # <<>> /\ s1[1] = a /\ Tail(s1) = s2
  BY <1>0
<1>2. s2 \in Seq(Usual) /\ s2 # <<>> /\ s2[1] = b /\ Tail(s2) = s3
  BY <1>0
<1>3. s3 \in Seq(Usual) /\ s3 # <<>> /\ s3[1] = c /\ Tail(s3) = s4
  BY <1>0
<1>4. s4 \in Seq(Usual) /\ s4 # <<>> /\ s4[1] = d /\ Tail(s4) = s5
  BY <1>0
<1>5. s5 \in Seq(Usual) /\ s5 # <<>> /\ s5[1] = e /\ Tail(s5) = s6
  BY <1>0
<1>6. s6 \o rest = Before(f, rest)
  BY DEF Before
<1>. HIDE DEF s1, s2, s3, s4, s5, s6
<1>7. s1 \o rest = Before(a, s2 \o rest)
  BY <1>1, <1>a, PeelIs
<1>8. s2 \o rest = Before(b, s3 \o rest)
  BY <1>2, <1>a, PeelIs
<1>9. s3 \o rest = Before(c, s4 \o rest)
  BY <1>3, <1>a, PeelIs
<1>10. s4 \o rest = Before(d, s5 \o rest)
  BY <1>4, <1>a, PeelIs
<1>11. s5 \o rest = Before(e, s6 \o rest)
  BY <1>5, <1>a, PeelIs
<1>12. s1 \o rest = Before(a, Before(b, Before(c, Before(d, Before(e, Before(f, rest))))))
  BY <1>6, <1>7, <1>8, <1>9, <1>10, <1>11
<1>. QED
  BY <1>12 DEF s1, rest, a, b, c, d, e, f, AtInterrupts, AtIdentify

LEMMA ProgramIs == ps2_init \o AtKeyboardInit = AtDisable1
<1>. DEFINE A == <<ps2_send_cmd(PS2_DISABLE_PORT), ps2_send_cmd(PS2_DISABLE_PORT_2), <<"flush">>>>
            R == read_ps2_controller_config
            B == <<<<"first_check">>,
                   ps2_send_cmd(PS2_CONTROLLER_TEST), <<"read_data">>, <<"self_test">>,
                   <<"second_test">>,
                   ps2_send_cmd(PS2_TEST_PORT), <<"read_data">>, <<"port_1_test">>,
                   <<"test_port_2">>,
                   <<"enable_ports">>>>
            C == <<<<"enable_interrupts">>,
                   <<"identify", 1>>, <<"identified", 1>>,
                   <<"identify", 2>>, <<"identified", 2>>,
                   <<"initialized">>>>
            T == AtKeyboardInit
<1>1. A \in Seq(Usual) /\ R \in Seq(Usual) /\ B \in Seq(Usual) /\ C \in Seq(Usual) /\ T \in Seq(Usual)
  <2>1. T \in Seq(Usual)
    BY RestsAre
  <2>. HIDE DEF Usual
  <2>2. A \in Seq(Usual) /\ R \in Seq(Usual)
    BY InitOpsAre DEF read_ps2_controller_config
  <2>3. B \in Seq(Usual)
    BY InitOpsAre
  <2>4. C \in Seq(Usual)
    BY InitOpsAre
  <2>. QED
    BY <2>1, <2>2, <2>3, <2>4
<1>2. C \o T = AtInterrupts
  BY LastOpsAre
<1>3. R \o AtInterrupts = ReadOps(AtInterrupts) /\ R \o AtFirstCheck = ReadOps(AtFirstCheck)
  BY RestsAre, SubroutinesAre
<1>4. B \o ReadOps(AtInterrupts) = AtFirstCheck
  BY MiddleOpsAre
<1>5. A \o ReadOps(AtFirstCheck) = AtDisable1
  BY FirstOpsAre
<1>6. ps2_init = A \o R \o B \o R \o C
  BY DEF ps2_init
<1>. HIDE DEF A, R, B, C, T
<1>7. A \o R \o B \o R \o C \o T = A \o (R \o (B \o (R \o (C \o T))))
  <2>. HIDE DEF Usual
  <2>. DEFINE AR == A \o R
              ARB == AR \o B
              ARBR == ARB \o R
              CT == C \o T
              RCT == R \o CT
              BRCT == B \o RCT
  <2>A. A \in Seq(Usual)
    BY <1>1
  <2>R. R \in Seq(Usual)
    BY <1>1
  <2>B. B \in Seq(Usual)
    BY <1>1
  <2>C. C \in Seq(Usual)
    BY <1>1
  <2>T. T \in Seq(Usual)
    BY <1>1
  <2>1. AR \in Seq(Usual) /\ AR = A \o R
    BY <2>A, <2>R
  <2>2. CT \in Seq(Usual) /\ CT = C \o T
    BY <2>C, <2>T
  <2>. HIDE DEF AR, CT
  <2>3. ARB \in Seq(Usual) /\ ARB = AR \o B
    BY <2>1, <2>B
  <2>4. RCT \in Seq(Usual) /\ RCT = R \o CT
    BY <2>2, <2>R
  <2>. HIDE DEF ARB, RCT
  <2>5. ARBR = ARB \o R
    OBVIOUS
  <2>6. ARBR \in Seq(Usual)
    BY <2>3, <2>R
  <2>7. BRCT \in Seq(Usual) /\ BRCT = B \o RCT
    BY <2>4, <2>B
  <2>. HIDE DEF ARBR, BRCT
  <2>a. ARB \in Seq(Usual) /\ AR \in Seq(Usual) /\ RCT \in Seq(Usual) /\ CT \in Seq(Usual)
    BY <2>1, <2>2, <2>3, <2>4
  <2>8. (ARBR \o C) \o T = ARBR \o CT
    BY <2>2, <2>6, <2>C, <2>T, ConcatAssociative
  <2>9. ARBR \o CT = ARB \o RCT
    <3>1. ARB \in Seq(Usual)
      BY <2>3
    <3>2. CT \in Seq(Usual)
      BY <2>2
    <3>3. RCT = R \o CT
      BY <2>4
    <3>. QED
      BY <2>5, <2>R, <3>1, <3>2, <3>3, ConcatAssociative
  <2>10. ARB \o RCT = AR \o BRCT
    <3>1. AR \in Seq(Usual)
      BY <2>1
    <3>2. RCT \in Seq(Usual)
      BY <2>4
    <3>3. BRCT = B \o RCT
      BY <2>7
    <3>4. ARB = AR \o B
      BY <2>3
    <3>. QED
      BY <2>B, <3>1, <3>2, <3>3, <3>4, ConcatAssociative, SMTT(20)
  <2>11. AR \o BRCT = A \o (R \o BRCT)
    <3>1. BRCT \in Seq(Usual)
      BY <2>7
    <3>2. AR = A \o R
      BY <2>1
    <3>. QED
      BY <2>A, <2>R, <3>1, <3>2, ConcatAssociative
  <2>12. (ARBR \o C) \o T = A \o (R \o BRCT)
    BY <2>8, <2>9, <2>10, <2>11, Zenon
  <2>. QED
    BY <2>12 DEF ARBR, ARB, AR, BRCT, RCT, CT
<1>8. ps2_init \o T = AtDisable1
  BY <1>2, <1>3, <1>4, <1>5, <1>6, <1>7, Zenon
<1>. QED
  BY <1>8 DEF T
-----------------------------------------------------------------------------
(* A step of the thread is that of its first operation. *)

LEMMA Heads ==
  /\ Out => At("outb")
  /\ Flush => At("flush")
  /\ ReadData => At("read_data")
  /\ FirstCheck => At("first_check")
  /\ SelfTest => At("self_test")
  /\ SecondTest => At("second_test")
  /\ SecondCheck => At("second_check")
  /\ Port1Test => At("port_1_test")
  /\ Port2Test => At("port_2_test")
  /\ TestPort2 => At("test_port_2")
  /\ EnablePorts => At("enable_ports")
  /\ EnableInterrupts => At("enable_interrupts")
  /\ Initialized => At("initialized")
  /\ WritePort => At("write")
  /\ WaitForAck => At("ack")
  /\ PollReceived \/ PollTimedOut => At("poll")
  /\ AckTest => At("ack_test")
  /\ AckTime => At("ack_time")
  /\ Identify => At("identify")
  /\ ScanningDisabled => At("disabled")
  /\ IdLoop => At("id_loop")
  /\ IdWait => At("id_wait")
  /\ IdByte => At("id_byte")
  /\ Identified => At("identified")
  /\ CheckPs2 => At("check_ps2")
  /\ KeyboardInit => At("keyboard_init")
  /\ Check => At("check")
  /\ Enable => At("enable")
BY Zenon DEF Out, Flush, ReadData, FirstCheck, SelfTest, SecondTest, SecondCheck, Port1Test,
     Port2Test, PortTest, TestPort2, EnablePorts, EnableInterrupts, Initialized, WritePort,
     WaitForAck, PollReceived, PollTimedOut, AckTest, AckTime, Identify, ScanningDisabled, IdLoop,
     IdWait, IdByte, Identified, CheckPs2, KeyboardInit, Check, Enable

LEMMA ThreadAt ==
  ASSUME Thread
  PROVE  /\ handler = "none" /\ todo # <<>>
         /\ todo[1][1] # "enable" => Untouched
         /\ todo[1][1] = "outb" => Out
         /\ todo[1][1] = "flush" => Flush
         /\ todo[1][1] = "read_data" => ReadData
         /\ todo[1][1] = "first_check" => FirstCheck
         /\ todo[1][1] = "self_test" => SelfTest
         /\ todo[1][1] = "second_test" => SecondTest
         /\ todo[1][1] = "second_check" => SecondCheck
         /\ todo[1][1] = "port_1_test" => Port1Test
         /\ todo[1][1] = "port_2_test" => Port2Test
         /\ todo[1][1] = "test_port_2" => TestPort2
         /\ todo[1][1] = "enable_ports" => EnablePorts
         /\ todo[1][1] = "enable_interrupts" => EnableInterrupts
         /\ todo[1][1] = "initialized" => Initialized
         /\ todo[1][1] = "check_ps2" => CheckPs2
         /\ todo[1][1] = "keyboard_init" => KeyboardInit
         /\ todo[1][1] = "check" => Check
         /\ todo[1][1] = "enable" => Enable
         /\ todo[1][1] \in {"poll", "write", "ack", "ack_test", "ack_time", "identify", "disabled",
                            "id_loop", "id_wait", "id_byte", "identified"} => QuietThread
BY ThreadIsOne, Heads DEF At, QuietThread, LoudThread

\* What no step of ps2_init changes but the tests of the ports.
Steady == UNCHANGED <<port1, port2, machine, handler, dev, keyboard_enabled, ps2_initialized>>

LEMMA NextOp ==
  ASSUME NEW op \in Usual, NEW rest \in Seq(Usual), todo = Before(op, rest), Thread,
         NEW ops, op[1] # "enable"
  PROVE  /\ todo[1] = op /\ (Then(ops) => todo' = ops \o rest)
         /\ (ReturnFrom => todo' = rest)
         /\ UNCHANGED keyboard_enabled
<1>1. todo[1] = op /\ Tail(todo) = rest
  BY BeforeIs
<1>2. UNCHANGED keyboard_enabled
  BY <1>1, ThreadAt, Zenon DEF Untouched
<1>3. <<>> \o rest = rest
  BY ListsAre, Zenon
<1>. QED
  BY <1>1, <1>2, <1>3, Zenon DEF Then, ReturnFrom

LEMMA OutDoes ==
  ASSUME NEW port \in {"command", "data"}, NEW c \in Bytes, NEW rest \in Seq(Usual),
         todo = Before(<<"outb", port, c>>, rest), Thread
  PROVE  /\ todo' = rest /\ Steady
         /\ ~InputFull /\ in' = [byte |-> c, port |-> port]
         /\ UNCHANGED <<byte, config, out, expects>>
<1>1. <<"outb", port, c>> \in Usual
  BY DEF Usual, QuietOps, PlainOps, InitOps
<1>2. todo[1] = <<"outb", port, c>> /\ (ReturnFrom => todo' = rest) /\ UNCHANGED keyboard_enabled
  BY <1>1, NextOp
<1>3. Out
  BY <1>2, ThreadAt
<1>4. /\ ReturnFrom /\ ~InputFull /\ in' = [byte |-> Arg(3), port |-> Arg(2)]
      /\ UNCHANGED <<byte, driver, config, out, expects, handler, machine, dev>>
  BY <1>3, Zenon DEF Out
<1>5. Arg(3) = c /\ Arg(2) = port
  BY <1>2 DEF Arg
<1>6. Steady
  BY <1>2, <1>4, Zenon DEF Steady, driver
<1>. QED
  BY <1>2, <1>4, <1>5, <1>6, Zenon

LEMMA FlushDoes ==
  ASSUME NEW rest \in Seq(Usual), todo = Before(<<"flush">>, rest), Thread
  PROVE  /\ Steady /\ UNCHANGED <<byte, config, in, expects>>
         /\ \/ todo' = todo /\ out' = NoByte
            \/ todo' = rest /\ ~OutputFull /\ UNCHANGED out
<1>1. <<"flush">> \in Usual
  BY OpsAre
<1>2. todo[1] = <<"flush">> /\ (ReturnFrom => todo' = rest) /\ UNCHANGED keyboard_enabled
  BY <1>1, NextOp
<1>3. Flush
  BY <1>2, ThreadAt
<1>4. /\ UNCHANGED <<byte, driver, config, in, expects, handler, machine, dev>>
      /\ \/ todo' = todo /\ out' = NoByte
         \/ ReturnFrom /\ ~OutputFull /\ UNCHANGED out
  BY <1>3, Zenon DEF Flush, Discarded
<1>5. Steady
  BY <1>2, <1>4, Zenon DEF Steady, driver
<1>. QED
  BY <1>2, <1>4, <1>5, Zenon

LEMMA ReadDoes ==
  ASSUME NEW rest \in Seq(Usual), todo = Before(<<"read_data">>, rest), Thread
  PROVE  /\ Steady /\ UNCHANGED <<config, in, expects>>
         /\ todo' = rest /\ OutputFull /\ byte' = out.byte /\ out' = NoByte
<1>1. <<"read_data">> \in Usual
  BY OpsAre
<1>2. todo[1] = <<"read_data">> /\ (ReturnFrom => todo' = rest) /\ UNCHANGED keyboard_enabled
  BY <1>1, NextOp
<1>3. ReadData
  BY <1>2, ThreadAt
<1>4. /\ UNCHANGED <<driver, config, in, expects, handler, machine, dev>>
      /\ ReturnFrom /\ OutputFull /\ byte' = out.byte /\ out' = NoByte
  BY <1>3, Zenon DEF ReadData
<1>5. Steady
  BY <1>2, <1>4, Zenon DEF Steady, driver
<1>. QED
  BY <1>2, <1>4, <1>5, Zenon

\* The commands, and a byte for the configuration.
LEMMA AfterIs ==
  ASSUME MachineTypes, NEW v \in Bytes
  PROVE  /\ AfterCommand(v, PS2_DISABLE_PORT) = v \cup {4}
         /\ AfterCommand(v, PS2_DISABLE_PORT_2) = v \cup {5}
         /\ AfterCommand(v, PS2_ENABLE_PORT) = v \ {4}
         /\ AfterCommand(v, PS2_ENABLE_PORT_2) = IF machine.channels = 2 THEN v \ {5} ELSE v
         /\ \A c : c \notin Obeyed => AfterCommand(v, c) = v
<1>1. machine.channels \in {1, 2}
  BY MachineIs
<1>. DEFINE D1 == PS2_DISABLE_PORT
            D2 == PS2_DISABLE_PORT_2
            E1 == PS2_ENABLE_PORT
            E2 == PS2_ENABLE_PORT_2
            Set(c) == {ClockOff(p) : p \in {q \in Ports : c = <<D1, D2>>[q]}}
            Cleared(c) == {ClockOff(p) : p \in {q \in 1 .. machine.channels : c = <<E1, E2>>[q]}}
<1>2. \A c : AfterCommand(v, c) = (v \cup Set(c)) \ Cleared(c)
  BY DEF AfterCommand
<1>3. /\ D1 # D2 /\ D1 # E1 /\ D1 # E2 /\ D2 # E1 /\ D2 # E2 /\ E1 # E2
      /\ Obeyed = {D1, D2, E1, E2}
  BY CommandsDiffer DEF Obeyed
<1>. HIDE DEF D1, D2, E1, E2
<1>4. ASSUME NEW c
      PROVE  /\ Set(c) = IF c = D1 THEN (IF c = D2 THEN {4, 5} ELSE {4}) ELSE IF c = D2 THEN {5} ELSE {}
             /\ Cleared(c) = IF c = E1 THEN (IF c = E2 /\ machine.channels = 2 THEN {4, 5} ELSE {4})
                         ELSE IF c = E2 /\ machine.channels = 2 THEN {5} ELSE {}
  <2>1. \A q \in Ports : c = <<D1, D2>>[q] <=> (q = 1 /\ c = D1) \/ (q = 2 /\ c = D2)
    BY DEF Ports
  <2>2. \A q \in 1 .. machine.channels :
          c = <<E1, E2>>[q] <=> (q = 1 /\ c = E1) \/ (q = 2 /\ c = E2)
    BY <1>1
  <2>3. Set(c) = IF c = D1 THEN (IF c = D2 THEN {4, 5} ELSE {4}) ELSE IF c = D2 THEN {5} ELSE {}
    BY <2>1 DEF Ports, ClockOff
  <2>4. Cleared(c) = IF c = E1 THEN (IF c = E2 /\ machine.channels = 2 THEN {4, 5} ELSE {4})
                 ELSE IF c = E2 /\ machine.channels = 2 THEN {5} ELSE {}
    BY <1>1, <2>2 DEF ClockOff
  <2>. QED
    BY <2>3, <2>4
<1>. HIDE DEF Set, Cleared
<1>5. AfterCommand(v, D1) = v \cup {4}
  BY <1>2, <1>3, <1>4
<1>6. AfterCommand(v, D2) = v \cup {5}
  BY <1>2, <1>3, <1>4
<1>7. AfterCommand(v, E1) = v \ {4}
  BY <1>2, <1>3, <1>4
<1>8. AfterCommand(v, E2) = IF machine.channels = 2 THEN v \ {5} ELSE v
  BY <1>1, <1>2, <1>3, <1>4
<1>9. ASSUME NEW c, c \notin Obeyed PROVE AfterCommand(v, c) = v
  <2>1. c # D1 /\ c # D2 /\ c # E1 /\ c # E2
    BY <1>3, <1>9
  <2>2. Set(c) = {} /\ Cleared(c) = {}
    BY <1>4, <2>1
  <2>. QED
    BY <1>2, <2>2
<1>. QED
  BY <1>5, <1>6, <1>7, <1>8, <1>9 DEF D1, D2, E1, E2

-----------------------------------------------------------------------------
(* The handlers and the controller, while ps2_init sets the controller up. *)

\* Everything but the thread.
Others == MouseHandler \/ KeyboardIrq \/ Machinery \/ User \/ Halt \/ UNCHANGED vars

\* What the predicates of the places say remains true.
Remains ==
  /\ Early' /\ Coming' = Coming
  /\ Calm => Calm' /\ (~OutputFull => ~OutputFull')
  /\ Answer => Answer'
  /\ Idle => Idle' /\ config' = config /\ expects' = expects
  /\ Configuration => Configuration'
  /\ Addressed => Addressed'

LEMMA ControllerRemains ==
  ASSUME Types, Early, Hardware, todo # <<>>
  PROVE  UNCHANGED <<todo, byte, port1, port2, machine>>
         /\ (UNCHANGED <<keyboard_enabled, ps2_initialized>> => Remains)
<1>a. MachineTypes
  BY DEF Types
<1>b. in.byte \in Bytes /\ in.port \in {"none", "command", "data"} /\ config \in Bytes
      /\ machine.channels \in {1, 2}
  BY <1>a, MachineIs DEF MachineTypes
<1>1. UNCHANGED <<todo, byte, port1, port2, machine>>
  BY Zenon DEF Hardware, ControllerAnswers, ControllerObeys, TakesConfig, DeviceTakes,
     DeviceSends,
       Tick, Silent, thread, driver
<1>2. UNCHANGED handler
  BY Zenon DEF Hardware, ControllerAnswers, ControllerObeys, TakesConfig, DeviceTakes,
     DeviceSends,
       Tick, Silent
<1>3. SUFFICES ASSUME UNCHANGED <<keyboard_enabled, ps2_initialized>> PROVE Remains
  BY <1>1
<1>4. ASSUME UNCHANGED dev, out'.src # 2, in'.port # "data" \/ UNCHANGED <<in, expects>>
      PROVE  Early'
  BY <1>2, <1>3, <1>4 DEF Early
<1>5. NoInput.port = "none" /\ NoByte.src = Nobody /\ Controller # Nobody /\ Controller # 2
  BY DEF NoInput, NoByte, Nobody, Controller
<1>6. Loud \cap Obeyed = {} /\ PS2_WRITE_CONFIG_BYTE \notin Loud /\ PS2_READ_CONFIG_BYTE \in Loud
  BY CommandsDiffer DEF Loud
<1>7. in'.port = "none" => Coming' = config'
  BY DEF Coming
<1>8. CASE ControllerAnswers
  <2>1. /\ in.port = "command" /\ in.byte \in Loud /\ ~OutputFull
        /\ out' = [byte |-> AnswerTo(in.byte), src |-> Controller, irq |-> Irq(1) \in config]
        /\ in' = NoInput /\ expects' = "port 1" /\ UNCHANGED <<config, dev>>
    BY <1>8, Zenon DEF ControllerAnswers, Loud
  <2>2. out'.byte = AnswerTo(in.byte) /\ out'.src = Controller
    BY <2>1
  <2>3. Coming = config
    BY <1>a, <1>b, <1>6, <2>1, AfterIs DEF Coming
  <2>4. Coming' = Coming
    BY <1>5, <1>7, <2>1, <2>3
  <2>5. Early'
    BY <1>4, <1>5, <2>1, <2>2
  <2>6. in.byte = PS2_READ_CONFIG_BYTE => out'.byte = config
    BY <2>2, CommandsDiffer DEF AnswerTo
  <2>7. ~Calm /\ ~Idle /\ ~Addressed /\ (Configuration => in.byte = PS2_READ_CONFIG_BYTE)
    <3>1. InputFull
      BY <2>1 DEF InputFull
    <3>2. ~Addressed
      <4>1. [byte |-> PS2_WRITE_CONFIG_BYTE, port |-> "command"].byte = PS2_WRITE_CONFIG_BYTE
        OBVIOUS
      <4>2. in # [byte |-> PS2_WRITE_CONFIG_BYTE, port |-> "command"]
        BY <1>6, <2>1, <4>1
      <4>. QED
        BY <3>1, <4>2 DEF Addressed
    <3>3. Configuration => in.byte = PS2_READ_CONFIG_BYTE
      BY <3>1 DEF Configuration
    <3>. QED
      BY <2>1, <3>1, <3>2, <3>3 DEF Calm, Idle
  <2>8. Answer' /\ (in.byte = PS2_READ_CONFIG_BYTE => Configuration')
    BY <1>5, <2>1, <2>2, <2>6 DEF Answer, Configuration, InputFull
  <2>. QED
    BY <2>4, <2>5, <2>7, <2>8 DEF Remains
<1>9. CASE ControllerObeys
  <2>1. /\ in.port = "command" /\ in.byte \notin Loud
        /\ in' = NoInput /\ UNCHANGED <<out, dev>>
        /\ in.byte = PS2_WRITE_CONFIG_BYTE => expects' = "config"
    <3>1. /\ in.port = "command" /\ in.byte \notin Loud
          /\ in' = NoInput /\ UNCHANGED <<out, dev>>
      BY <1>9, Zenon DEF ControllerObeys, Loud
    <3>2. in.byte = PS2_WRITE_CONFIG_BYTE => expects' = "config"
      BY <1>9, CommandsDiffer DEF ControllerObeys
    <3>. QED
      BY <3>1, <3>2
  <2>2. config' = AfterCommand(config, in.byte)
    BY <1>9, Zenon DEF ControllerObeys, AfterCommand
  <2>3. Coming' = Coming
    BY <1>5, <1>7, <2>1, <2>2 DEF Coming
  <2>4. Early'
    BY <1>4, <1>5, <2>1 DEF Early
  <2>5. ~Idle /\ ~Answer /\ ~Configuration /\ (Addressed => in.byte = PS2_WRITE_CONFIG_BYTE)
    BY <1>6, <2>1 DEF Answer, Idle, Addressed, Configuration, InputFull
  <2>6. Calm' /\ (in.byte = PS2_WRITE_CONFIG_BYTE => Addressed') /\ (OutputFull' <=> OutputFull)
    BY <1>5, <2>1 DEF Calm, Addressed, InputFull, OutputFull
  <2>. QED
    BY <2>3, <2>4, <2>5, <2>6 DEF Remains
<1>10. CASE TakesConfig
  <2>1. /\ in.port = "data" /\ expects = "config" /\ config' = AfterByte(in.byte)
        /\ in' = NoInput /\ UNCHANGED <<out, dev>>
    BY <1>10, Zenon DEF TakesConfig, AfterByte
  <2>2. Coming' = Coming
    BY <1>5, <1>7, <2>1 DEF Coming
  <2>3. Early'
    BY <1>4, <1>5, <2>1 DEF Early
  <2>4. ~Idle /\ ~Answer /\ ~Configuration /\ ~Addressed
    BY <2>1 DEF Answer, Idle, Addressed, Configuration, InputFull
  <2>5. Calm' /\ (OutputFull' <=> OutputFull)
    BY <1>5, <2>1 DEF Calm, OutputFull
  <2>. QED
    BY <2>2, <2>3, <2>4, <2>5 DEF Remains
<1>11. ~DeviceTakes
  BY Zenon DEF DeviceTakes, Early
<1>12. \A p \in Ports : ~DeviceSends(p)
  BY Zenon DEF DeviceSends, Early
<1>13. CASE Tick
  <2>1. UNCHANGED <<config, in, out, expects, dev>>
    BY <1>13, Zenon DEF Tick, controller
  <2>2. Early'
    BY <1>4, <2>1 DEF Early
  <2>. QED
    BY <1>1, <2>1, <2>2 DEF Remains, Coming, Calm, Answer, Idle, Configuration, Addressed,
       InputFull, OutputFull, AfterCommand, AfterByte
<1>. QED
  BY <1>8, <1>9, <1>10, <1>11, <1>12, <1>13 DEF Hardware

LEMMA OthersRemain ==
  ASSUME Types, Early, Others, todo # <<>>
  PROVE  UNCHANGED <<todo, byte, port1, port2, machine>> /\ Remains
<1>a. MachineTypes
  BY DEF Types
<1>1. ASSUME UNCHANGED <<todo, byte, port1, port2, machine, config, in, expects, handler, dev>>,
             UNCHANGED <<keyboard_enabled, ps2_initialized>>,
             out'.byte = out.byte, out'.src = out.src
      PROVE  Remains
  <2>1. Early'
    BY <1>1 DEF Early
  <2>. QED
    BY <1>1, <2>1 DEF Remains, Coming, Calm, Answer, Idle, Configuration, Addressed,
       InputFull, OutputFull, AfterCommand, AfterByte
<1>2. ~MouseHandler /\ ~User
  BY Zenon DEF MouseHandler, EnterMouseIrq, MouseIrq, User, Key, Early
<1>3. CASE KeyboardIrq
  <2>1. /\ UNCHANGED <<todo, byte, port1, port2, machine, config, in, expects, handler, dev>>
        /\ UNCHANGED <<keyboard_enabled, ps2_initialized>>
        /\ out' = [out EXCEPT !.irq = FALSE]
    BY <1>3, Zenon DEF KeyboardIrq, thread, driver, Early
  <2>2. out'.byte = out.byte /\ out'.src = out.src
    BY <1>a, <2>1 DEF MachineTypes
  <2>. QED
    BY <1>1, <2>1, <2>2
<1>4. CASE Machinery
  <2>1. Hardware /\ UNCHANGED <<keyboard_enabled, ps2_initialized>>
    BY <1>4, Zenon DEF Machinery, Hardware, ControllerAnswers, ControllerObeys, TakesConfig,
       DeviceTakes, DeviceSends, Tick, Silent, driver
  <2>. QED
    BY <2>1, ControllerRemains
<1>5. CASE UNCHANGED vars
  <2>1. /\ UNCHANGED <<todo, byte, port1, port2, machine, config, in, expects, handler, dev, out>>
        /\ UNCHANGED <<keyboard_enabled, ps2_initialized>>
    BY <1>5, Zenon DEF vars, ps2vars, thread, driver, controller
  <2>. QED
    BY <1>1, <2>1
<1>. QED
  BY <1>2, <1>3, <1>4, <1>5 DEF Others, Halt

\* ps2_init is under way.
Places == Starting \/ Testing \/ Enabling

\* The operations that leave the error flag alone.
SetupOps == {op \in Usual : op[1] \notin {"poll", "ack_test", "disabled", "id_byte"}}
Working(s) == s # <<>> /\ s[1] \in SetupOps

LEMMA SetupIs ==
  ASSUME NEW op \in SetupOps, NEW rest \in Seq(Usual)
  PROVE  Working(Before(op, rest)) /\ Before(op, rest) \in Seq(Usual)
<1>1. op \in Usual
  BY DEF SetupOps
<1>. QED
  BY <1>1, BeforeIs DEF Working

LEMMA SetupOpsAre ==
  /\ ps2_send_cmd(PS2_DISABLE_PORT) \in SetupOps /\ ps2_send_cmd(PS2_DISABLE_PORT_2) \in SetupOps
  /\ \A c \in Bytes : ps2_send_cmd(c) \in SetupOps /\ ps2_write_data(c) \in SetupOps
  /\ <<"flush">> \in SetupOps /\ <<"read_data">> \in SetupOps
  /\ <<"first_check">> \in SetupOps /\ <<"self_test">> \in SetupOps /\ <<"second_test">> \in SetupOps
  /\ <<"second_check">> \in SetupOps
  /\ <<"port_1_test">> \in SetupOps /\ <<"test_port_2">> \in SetupOps /\ <<"port_2_test">> \in SetupOps
  /\ <<"enable_ports">> \in SetupOps /\ <<"enable_interrupts">> \in SetupOps
  /\ <<"check_ps2">> \in SetupOps /\ <<"identify", 1>> \in SetupOps
<1>1. /\ <<"flush">> \in Usual /\ <<"read_data">> \in Usual
      /\ <<"first_check">> \in Usual /\ <<"self_test">> \in Usual /\ <<"second_test">> \in Usual
      /\ <<"second_check">> \in Usual
      /\ <<"port_1_test">> \in Usual /\ <<"test_port_2">> \in Usual /\ <<"port_2_test">> \in Usual
      /\ <<"enable_ports">> \in Usual /\ <<"enable_interrupts">> \in Usual
      /\ <<"check_ps2">> \in Usual /\ <<"identify", 1>> \in Usual
  BY InitOpsAre, Zenon
<1>2. \A c \in Bytes : ps2_send_cmd(c) \in Usual /\ ps2_write_data(c) \in Usual
  BY OpsAre, Zenon
<1>3. ps2_send_cmd(PS2_DISABLE_PORT) \in Usual /\ ps2_send_cmd(PS2_DISABLE_PORT_2) \in Usual
  BY InitOpsAre, Zenon
<1>4. \A c : ps2_send_cmd(c)[1] = "outb" /\ ps2_write_data(c)[1] = "outb"
  BY DEF ps2_send_cmd, ps2_write_data
<1>. HIDE DEF Usual
<1>. QED
  BY <1>1, <1>2, <1>3, <1>4 DEF SetupOps

LEMMA RestsBusy ==
  /\ Working(AtIdentify) /\ Working(AtInterrupts) /\ Working(AtEnable) /\ Working(AtTest2)
  /\ Working(AtTestPort2) /\ Working(AtTest1) /\ Working(AtSecondCheck) /\ Working(AtSecondTest)
  /\ Working(AtSelfTest) /\ Working(AtFirstCheck) /\ Working(AtFlush) /\ Working(AtDisable2)
  /\ Working(AtDisable1) /\ Working(Before(<<"check_ps2">>, AtKeyboardInit))
<1>1. \A op \in SetupOps, rest \in Seq(Usual) :
        Working(Before(op, rest)) /\ Before(op, rest) \in Seq(Usual)
  BY SetupIs
<1>b. \A op \in Usual, rest \in Seq(Usual) : Before(op, rest) \in Seq(Usual)
  BY BeforeIs
<1>2. ReadOps(AtInterrupts) \in Seq(Usual) /\ ReadOps(AtFirstCheck) \in Seq(Usual)
  BY RestsAre, PartsAre
<1>3. Working(AtIdentify)
  BY <1>1, <1>b, InitOpsAre, SetupOpsAre, RestsAre, Zenon DEF AtIdentify
<1>4. Working(AtInterrupts) /\ Working(AtEnable)
  BY <1>1, <1>2, SetupOpsAre, RestsAre, Zenon DEF AtInterrupts, AtEnable
<1>5. Working(AtTest2) /\ Working(AtTestPort2) /\ Working(AtTest1)
  BY <1>1, SetupOpsAre, RestsAre, Zenon DEF AtTest2, AtTestPort2, AtTest1
<1>6. /\ Working(AtSecondCheck) /\ Working(AtSecondTest) /\ Working(AtSelfTest)
      /\ Working(AtFirstCheck)
  BY <1>1, SetupOpsAre, RestsAre, Zenon DEF AtSecondCheck, AtSecondTest, AtSelfTest, AtFirstCheck
<1>7. Working(AtFlush) /\ Working(AtDisable2) /\ Working(AtDisable1)
  BY <1>1, <1>2, SetupOpsAre, RestsAre, Zenon DEF AtFlush, AtDisable2, AtDisable1
<1>8. Working(Before(<<"check_ps2">>, AtKeyboardInit))
  BY <1>1, SetupOpsAre, RestsAre
<1>. QED
  BY <1>3, <1>4, <1>5, <1>6, <1>7, <1>8

LEMMA PartsBusy ==
  ASSUME NEW rest \in Seq(Usual)
  PROVE  /\ Working(ReadOps(rest)) /\ Working(Before(<<"read_data">>, rest))
         /\ \A c \in Bytes : /\ Working(AskOps(c, rest)) /\ Working(WriteOps(c, rest))
                             /\ Working(Before(ps2_send_cmd(c), rest))
                             /\ Working(Before(ps2_write_data(c), rest))
<1>1. \A op \in SetupOps, r \in Seq(Usual) : Working(Before(op, r)) /\ Before(op, r) \in Seq(Usual)
  BY SetupIs
<1>4. \A c \in Bytes : Working(AskOps(c, rest))
  BY <1>1, SetupOpsAre, Zenon DEF AskOps
<1>5. \A c \in Bytes : Working(WriteOps(c, rest))
  BY <1>1, SetupOpsAre, CommandBytes, Zenon DEF WriteOps
<1>6. Working(ReadOps(rest))
  BY <1>1, SetupOpsAre, PartsAre, CommandBytes DEF ReadOps
<1>. QED
  BY <1>1, <1>4, <1>5, <1>6, SetupOpsAre, Zenon

LEMMA PlacesBusy == Places => Working(todo)
<1>1. /\ PS2_CONTROLLER_TEST \in Bytes /\ PS2_TEST_PORT \in Bytes /\ PS2_READ_CONFIG_BYTE \in Bytes
      /\ PS2_ENABLE_PORT_2 \in Bytes /\ PS2_DISABLE_PORT_2 \in Bytes /\ PS2_ENABLE_PORT \in Bytes
  BY CommandBytes
<1>2. \A rest \in Seq(Usual) : ReadOps(rest) \in Seq(Usual)
  BY PartsAre
<1>3. \A c \in {PS2_CONTROLLER_TEST, PS2_TEST_PORT}, rest \in Seq(Usual) :
        \A on, off : Asking(c, rest, on, off) => Working(todo)
  BY <1>1, PartsBusy DEF Asking, Waiting
<1>4. \A rest \in Seq(Usual) : \A on, off : Reading(rest, on, off) => Working(todo)
  BY <1>1, PartsBusy DEF Reading, Fetching
<1>5. \A rest \in Seq(Usual) : \A on, off : Writing(rest, on, off) => Working(todo)
  BY PartsBusy DEF Writing, Storing
<1>6. \A c \in {PS2_ENABLE_PORT, PS2_ENABLE_PORT_2, PS2_DISABLE_PORT_2}, rest \in Seq(Usual) :
        \A on, off : Sending(c, rest, on, off) => Working(todo)
  BY <1>1, PartsBusy DEF Sending
<1>7. Starting => Working(todo)
  BY <1>2, <1>4, <1>5, RestsAre, RestsBusy DEF Starting, Read, Got, Asked
<1>8. Testing => Working(todo)
  BY <1>2, <1>3, <1>4, <1>6, RestsAre, RestsBusy DEF Testing, Read, Got, Asked
<1>9. Enabling => Working(todo)
  <2>1. Before(ps2_send_cmd(PS2_ENABLE_PORT_2), ReadOps(AtInterrupts)) \in Seq(Usual)
    BY <1>2, RestsAre, InitOpsAre, BeforeIs
  <2>. QED
    BY <1>2, <1>4, <1>5, <1>6, <2>1, RestsAre, RestsBusy DEF Enabling, Read, Got, Asked
<1>. QED
  BY <1>7, <1>8, <1>9 DEF Places

LEMMA PlacesRemain ==
  ASSUME Types, Early, Places, Others
  PROVE  Early' /\ Places'
<1>1. UNCHANGED <<todo, byte, port1, port2, machine>> /\ Remains
  BY PlacesBusy, OthersRemain DEF Working
<1>2. Remains
  BY <1>1
<1>3. /\ ClocksOff' = ClocksOff /\ ClocksOn' = ClocksOn /\ IrqsOn' = IrqsOn /\ IrqsOff' = IrqsOff
      /\ OneClock' = OneClock /\ NoOneClock' = NoOneClock
      /\ (Usable(1)' <=> Usable(1)) /\ (Usable(2)' <=> Usable(2))
  BY <1>1 DEF ClocksOff, ClocksOn, IrqsOn, IrqsOff, OneClock, NoOneClock, Usable, Off, On
<1>b. Early'
  BY <1>2 DEF Remains
<1>. SUFFICES Places'
  BY <1>b
<1>. USE DEF Holds, Remains
<1>a. Starting \/ Testing \/ Enabling
  BY DEF Places
<1>4. CASE Starting
  <2>1. CASE Reading(AtFirstCheck, NoClocks, {})
    <3>1. Reading(AtFirstCheck, NoClocks, {})'
      BY <1>1, <2>1 DEF Reading, Fetching
    <3>. QED
      BY <3>1 DEF Starting, Places
  <2>2. CASE Read(AtFirstCheck, NoClocks, {})
    <3>1. Read(AtFirstCheck, NoClocks, {})'
      BY <1>1, <2>2 DEF Read, Got
    <3>. QED
      BY <3>1 DEF Starting, Places
  <2>3. CASE Writing(ReadOps(AtController), NoClocks, NoIrqs)
    <3>1. Writing(ReadOps(AtController), NoClocks, NoIrqs)'
      BY <1>1, <2>3 DEF Writing, Storing
    <3>. QED
      BY <3>1 DEF Starting, Places
  <2>4. CASE Reading(AtController, NoClocks, NoIrqs)
    <3>1. Reading(AtController, NoClocks, NoIrqs)'
      BY <1>1, <2>4 DEF Reading, Fetching
    <3>. QED
      BY <3>1 DEF Starting, Places
  <2>5. CASE /\ ~Reading(AtFirstCheck, NoClocks, {}) /\ ~Read(AtFirstCheck, NoClocks, {})
             /\ ~Writing(ReadOps(AtController), NoClocks, NoIrqs)
             /\ ~Reading(AtController, NoClocks, NoIrqs)
    BY <1>1, <1>4, <2>5 DEF Starting, Places
  <2>. QED
    BY <2>1, <2>2, <2>3, <2>4, <2>5
<1>5. CASE Testing
  <2>1. CASE Reading(AtSecondCheck, {ClockOff(1)}, NoIrqs)
    <3>1. Reading(AtSecondCheck, {ClockOff(1)}, NoIrqs)'
      BY <1>1, <2>1 DEF Reading, Fetching
    <3>. QED
      BY <3>1 DEF Testing, Places
  <2>2. CASE ~Reading(AtSecondCheck, {ClockOff(1)}, NoIrqs)
    <3>1. Testing'
      BY <1>1, <1>5, <2>2 DEF Testing, Asking, Waiting, Asked, Read, Got, Sending
    <3>. QED
      BY <3>1 DEF Places
  <2>. QED
    BY <2>1, <2>2
<1>6. CASE Enabling
  <2>1. CASE Reading(AtInterrupts, ClocksOff, NoIrqs \cup ClocksOn)
    <3>1. Reading(AtInterrupts, ClocksOff, NoIrqs \cup ClocksOn)'
      BY <1>1, <1>3, <2>1 DEF Reading, Fetching
    <3>. QED
      BY <3>1 DEF Enabling, Places
  <2>2. CASE Writing(ReadOps(AtIdentify), ClocksOff \cup IrqsOn,
                     {Translation} \cup ClocksOn \cup IrqsOff)
    <3>1. Writing(ReadOps(AtIdentify), ClocksOff \cup IrqsOn,
                  {Translation} \cup ClocksOn \cup IrqsOff)'
      BY <1>1, <1>3, <2>2 DEF Writing, Storing
    <3>. QED
      BY <3>1 DEF Enabling, Places
  <2>3. CASE /\ Reading(AtIdentify, ClocksOff \cup IrqsOn, {Translation} \cup ClocksOn \cup IrqsOff)
             /\ machine.channels = 1 => 5 \in Coming
    <3>1. /\ Reading(AtIdentify, ClocksOff \cup IrqsOn, {Translation} \cup ClocksOn \cup IrqsOff)'
          /\ (machine.channels = 1 => 5 \in Coming)'
      BY <1>1, <1>3, <2>3 DEF Reading, Fetching
    <3>. QED
      BY <3>1 DEF Enabling, Places
  <2>4. CASE \/ Asked(AtEnable, NoClocks, NoIrqs)
             \/ Read(AtInterrupts, ClocksOff, NoIrqs \cup ClocksOn)
    BY <1>1, <1>3, <2>4 DEF Enabling, Places, Asked, Read, Got
  <2>5. CASE \/ /\ Usable(1)
                /\ Sending(PS2_ENABLE_PORT,
                           IF Usable(2) THEN Before(ps2_send_cmd(PS2_ENABLE_PORT_2), ReadOps(AtInterrupts))
                           ELSE ReadOps(AtInterrupts),
                           NoClocks, NoIrqs)
             \/ /\ Usable(2)
                /\ Sending(PS2_ENABLE_PORT_2, ReadOps(AtInterrupts), {ClockOff(2)} \cup OneClock,
                           NoIrqs \cup NoOneClock)
    BY <1>1, <1>3, <2>5 DEF Enabling, Places, Sending
  <2>. QED
    BY <1>6, <2>1, <2>2, <2>3, <2>4, <2>5 DEF Enabling
<1>. QED
  BY <1>a, <1>2, <1>4, <1>5, <1>6

-----------------------------------------------------------------------------
(* The steps of the thread in the dialogues of ps2_init. *)

LEMMA EarlyKept ==
  ASSUME Early, Steady, out' = out \/ out' = NoByte, in'.port = "data" => expects' = "config"
  PROVE  Early'
<1>1. out'.src # 2
  BY DEF Early, NoByte, Nobody
<1>. QED
  BY <1>1 DEF Early, Steady

\* What a step does that only empties the output buffer,
LEMMA Drained ==
  ASSUME MachineTypes, Early, Steady, UNCHANGED <<config, in, expects>>, out' = out \/ out' = NoByte
  PROVE  /\ Early' /\ Coming' = Coming /\ (Calm' <=> Calm) /\ (~OutputFull => ~OutputFull')
         /\ (InputFull' <=> InputFull) /\ (Addressed => Addressed') /\ (Idle => Idle')
         /\ (out' = NoByte => ~OutputFull')
<1>1. Early'
  BY EarlyKept DEF Early
<1>2. machine' = machine
  BY DEF Steady
<1>3. Coming' = Coming
  BY <1>2 DEF Coming, AfterCommand, AfterByte
<1>4. (Calm' <=> Calm) /\ (InputFull' <=> InputFull) /\ (Addressed => Addressed')
  BY DEF Calm, InputFull, Addressed
<1>5. /\ ~OutputFull => ~OutputFull'
      /\ out' = NoByte => ~OutputFull'
  BY DEF OutputFull, NoByte, Nobody
<1>. QED
  BY <1>1, <1>3, <1>4, <1>5 DEF Idle

\* that sends a command,
LEMMA CommandSent ==
  ASSUME Types, Early, NEW c \in Bytes, NEW rest \in Seq(Usual),
         todo = Before(ps2_send_cmd(c), rest), Thread
  PROVE  /\ todo' = rest /\ Steady /\ Early'
         /\ Coming = config /\ UNCHANGED <<config, out, byte, expects>> /\ config \in Bytes
         /\ in' = [byte |-> c, port |-> "command"] /\ in'.byte = c /\ in'.port = "command"
         /\ Coming' = AfterCommand(config, c)
         /\ (OutputFull' <=> OutputFull) /\ (c \notin Loud => Calm')
<1>1. /\ todo' = rest /\ Steady
      /\ ~InputFull /\ in' = [byte |-> c, port |-> "command"]
      /\ UNCHANGED <<byte, config, out, expects>>
  BY OutDoes DEF ps2_send_cmd
<1>2. in'.byte = c /\ in'.port = "command"
  BY <1>1
<1>3. Early'
  BY <1>1, <1>2, EarlyKept
<1>4. Coming = config
  BY <1>1 DEF Coming, InputFull
<1>5. Coming' = AfterCommand(config, c)
  BY <1>1, <1>2 DEF Coming, AfterCommand, Steady
<1>6. (OutputFull' <=> OutputFull) /\ (c \notin Loud => Calm')
  BY <1>1, <1>2 DEF OutputFull, Calm
<1>7. config \in Bytes
  BY DEF Types, MachineTypes
<1>. QED
  BY <1>1, <1>2, <1>3, <1>4, <1>5, <1>6, <1>7

\* that asks for an answer or reads it,
LEMMA WaitingStep ==
  ASSUME Types, Early, Thread, NEW c \in Loud, NEW rest \in Seq(Usual), Waiting(c, rest)
  PROVE  /\ Steady /\ Early' /\ Coming' = Coming
         /\ Waiting(c, rest)' \/ (todo' = rest /\ Idle')
<1>0. c \in Bytes /\ c \notin Obeyed
  BY CommandsDiffer, CommandBytes DEF Loud
<1>a. MachineTypes
  BY DEF Types
<1>1. CASE todo = AskOps(c, rest) /\ Calm /\ ~OutputFull
  <2>. DEFINE then == Before(<<"read_data">>, rest)
  <2>1. then \in Seq(Usual)
    BY InitOpsAre, BeforeIs
  <2>2. todo = Before(ps2_send_cmd(c), then)
    BY <1>1 DEF AskOps
  <2>. HIDE DEF then
  <2>3. /\ todo' = then /\ Steady /\ Early' /\ Coming = config /\ config \in Bytes
        /\ in'.byte = c /\ in'.port = "command"
        /\ Coming' = AfterCommand(config, c) /\ (OutputFull' <=> OutputFull)
    BY <1>0, <2>1, <2>2, CommandSent
  <2>4. Coming' = Coming
    BY <1>0, <1>a, <2>3, AfterIs
  <2>5. Answer'
    BY <1>1, <2>3 DEF Answer
  <2>. QED
    BY <2>3, <2>4, <2>5 DEF Waiting, then
<1>2. CASE todo = Before(<<"read_data">>, rest) /\ Answer
  <2>1. /\ Steady /\ UNCHANGED <<config, in, expects>>
        /\ todo' = rest /\ OutputFull /\ out' = NoByte
    BY <1>2, ReadDoes
  <2>2. Early' /\ Coming' = Coming /\ (InputFull' <=> InputFull) /\ ~OutputFull'
    BY <1>a, <2>1, Drained
  <2>3. ~InputFull
    BY <1>2, <2>1 DEF Answer
  <2>. QED
    BY <2>1, <2>2, <2>3 DEF Idle
<1>. QED
  BY <1>1, <1>2 DEF Waiting

\* that fetches the configuration,
LEMMA FetchingStep ==
  ASSUME Types, Early, Thread, NEW rest \in Seq(Usual), Fetching(rest)
  PROVE  /\ Steady /\ Early' /\ Coming' = Coming
         /\ Fetching(rest)' \/ Got(rest)'
<1>a. MachineTypes
  BY DEF Types
<1>. DEFINE READ == PS2_READ_CONFIG_BYTE
<1>0. READ \in Bytes /\ READ \notin Obeyed
  BY CommandsDiffer, CommandBytes DEF Loud
<1>1. CASE todo = ReadOps(rest) /\ Calm
  <2>. DEFINE then == AskOps(READ, rest)
  <2>1. then \in Seq(Usual) /\ todo = Before(<<"flush">>, then)
    BY <1>0, <1>1, PartsAre DEF ReadOps
  <2>. HIDE DEF then
  <2>2. /\ Steady /\ UNCHANGED <<byte, config, in, expects>>
        /\ \/ todo' = todo /\ out' = NoByte
           \/ todo' = then /\ ~OutputFull /\ UNCHANGED out
    BY <2>1, FlushDoes
  <2>3. /\ Early' /\ Coming' = Coming /\ Calm' /\ (~OutputFull => ~OutputFull')
    BY <1>1, <1>a, <2>2, Drained
  <2>. QED
    BY <1>1, <2>2, <2>3 DEF Fetching, then
<1>2. CASE todo = AskOps(READ, rest) /\ Calm /\ ~OutputFull
  <2>. DEFINE then == Before(<<"read_data">>, rest)
  <2>1. then \in Seq(Usual)
    BY InitOpsAre, BeforeIs
  <2>2. todo = Before(ps2_send_cmd(READ), then)
    BY <1>2 DEF AskOps
  <2>. HIDE DEF then
  <2>3. /\ todo' = then /\ Steady /\ Early' /\ Coming = config /\ config \in Bytes
        /\ in' = [byte |-> READ, port |-> "command"]
        /\ Coming' = AfterCommand(config, READ) /\ (OutputFull' <=> OutputFull)
    BY <1>0, <2>1, <2>2, CommandSent
  <2>4. Coming' = Coming
    BY <1>0, <1>a, <2>3, AfterIs
  <2>5. Configuration'
    BY <1>2, <2>3 DEF Configuration
  <2>. QED
    BY <2>3, <2>4, <2>5 DEF Fetching, then
<1>3. CASE todo = Before(<<"read_data">>, rest) /\ Configuration
  <2>1. /\ Steady /\ UNCHANGED <<config, in, expects>>
        /\ todo' = rest /\ OutputFull /\ byte' = out.byte /\ out' = NoByte
    BY <1>3, ReadDoes
  <2>2. Early' /\ Coming' = Coming /\ (InputFull' <=> InputFull) /\ ~OutputFull'
    BY <1>a, <2>1, Drained
  <2>3. ~InputFull /\ out.byte = config /\ expects = "port 1"
    BY <1>3, <2>1 DEF Configuration
  <2>4. Idle'
    BY <2>2, <2>3 DEF Idle
  <2>. QED
    BY <2>1, <2>2, <2>3, <2>4 DEF Got
<1>. QED
  BY <1>1, <1>2, <1>3 DEF Fetching

\* and that writes it.
LEMMA StoringStep ==
  ASSUME Types, Early, Thread, NEW b \in Bytes, NEW rest \in Seq(Usual), Storing(b, rest)
  PROVE  /\ Steady /\ Early'
         /\ Storing(b, rest)' \/ (todo' = rest /\ Calm' /\ Coming' = AfterByte(b))
<1>a. MachineTypes
  BY DEF Types
<1>. DEFINE WRITE == PS2_WRITE_CONFIG_BYTE
<1>1. CASE todo = WriteOps(b, rest) /\ Calm
  <2>. DEFINE then == Before(ps2_write_data(b), rest)
  <2>1. then \in Seq(Usual) /\ WRITE \in Bytes
    BY OpsAre, BeforeIs, CommandBytes
  <2>2. todo = Before(ps2_send_cmd(WRITE), then)
    BY <1>1 DEF WriteOps
  <2>. HIDE DEF then
  <2>3. /\ todo' = then /\ Steady /\ Early'
        /\ in' = [byte |-> WRITE, port |-> "command"]
    BY <2>1, <2>2, CommandSent
  <2>. QED
    BY <2>3 DEF Storing, Addressed, then
<1>2. CASE todo = Before(ps2_write_data(b), rest) /\ Addressed
  <2>1. /\ todo' = rest /\ Steady
        /\ ~InputFull /\ in' = [byte |-> b, port |-> "data"]
        /\ UNCHANGED <<byte, config, out, expects>>
    BY <1>2, OutDoes DEF ps2_write_data
  <2>2. in'.byte = b /\ in'.port = "data"
    BY <2>1
  <2>3. expects = "config"
    <3>1. [byte |-> WRITE, port |-> "command"].port = "command"
      OBVIOUS
    <3>. QED
      BY <1>2, <2>1, <3>1 DEF Addressed, InputFull
  <2>4. Early'
    BY <2>1, <2>3, EarlyKept
  <2>5. Coming' = AfterByte(b) /\ Calm'
    BY <2>1, <2>2, <2>3 DEF Coming, AfterByte, Calm, Steady
  <2>. QED
    BY <2>1, <2>4, <2>5
<1>. QED
  BY <1>1, <1>2 DEF Storing

-----------------------------------------------------------------------------
(* From place to place. *)

LEMMA PortBits ==
  ASSUME MachineTypes
  PROVE  /\ Irq(1) = 0 /\ Irq(2) = 1 /\ ClockOff(1) = 4 /\ ClockOff(2) = 5 /\ Translation = 6
         /\ machine.channels \in {1, 2}
         /\ \A b : b \in ClocksOff <=> \/ b = 4 /\ ~Usable(1)
                                       \/ b = 5 /\ ~Usable(2) /\ machine.channels = 2
         /\ \A b : b \in ClocksOn <=> \/ b = 4 /\ Usable(1)
                                      \/ b = 5 /\ Usable(2) /\ machine.channels = 2
         /\ \A b : b \in IrqsOn <=> (b = 0 /\ Usable(1)) \/ (b = 1 /\ Usable(2))
         /\ \A b : b \in IrqsOff <=> (b = 0 /\ ~Usable(1)) \/ (b = 1 /\ ~Usable(2))
         /\ \A b : b \in OneClock <=> b = 4 /\ ~Usable(1)
         /\ \A b : b \in NoOneClock <=> b = 4 /\ Usable(1)
<1>1. machine.channels \in {1, 2}
  BY MachineIs
<1>2. /\ Irq(1) = 0 /\ Irq(2) = 1 /\ ClockOff(1) = 4 /\ ClockOff(2) = 5 /\ Translation = 6
  BY DEF Irq, ClockOff, Translation
<1>3. \A b : b \in ClocksOff <=> \/ b = 4 /\ ~Usable(1)
                                 \/ b = 5 /\ ~Usable(2) /\ machine.channels = 2
  BY <1>1, <1>2 DEF ClocksOff, Off, Ports
<1>4. \A b : b \in ClocksOn <=> \/ b = 4 /\ Usable(1)
                                \/ b = 5 /\ Usable(2) /\ machine.channels = 2
  BY <1>1, <1>2 DEF ClocksOn, On, Ports
<1>5. /\ \A b : b \in IrqsOn <=> (b = 0 /\ Usable(1)) \/ (b = 1 /\ Usable(2))
      /\ \A b : b \in IrqsOff <=> (b = 0 /\ ~Usable(1)) \/ (b = 1 /\ ~Usable(2))
  BY <1>2 DEF IrqsOn, IrqsOff, Ports
<1>6. /\ \A b : b \in OneClock <=> b = 4 /\ ~Usable(1)
      /\ \A b : b \in NoOneClock <=> b = 4 /\ Usable(1)
  BY <1>2 DEF OneClock, NoOneClock
<1>. QED
  BY <1>1, <1>2, <1>3, <1>4, <1>5, <1>6

LEMMA PortsSteady ==
  ASSUME UNCHANGED <<port1, port2, machine>>
  PROVE  /\ ClocksOff' = ClocksOff /\ ClocksOn' = ClocksOn /\ IrqsOn' = IrqsOn /\ IrqsOff' = IrqsOff
         /\ OneClock' = OneClock /\ NoOneClock' = NoOneClock
         /\ (Usable(1)' <=> Usable(1)) /\ (Usable(2)' <=> Usable(2))
BY DEF ClocksOff, ClocksOn, IrqsOn, IrqsOff, OneClock, NoOneClock, Usable, Off, On

\* A step that touches no hardware.
LEMMA LocalKept ==
  ASSUME Early, Local, UNCHANGED <<keyboard_enabled, ps2_initialized>>
  PROVE  /\ Early' /\ Coming' = Coming /\ (Calm' <=> Calm) /\ (OutputFull' <=> OutputFull)
         /\ (Idle' <=> Idle) /\ machine' = machine /\ UNCHANGED <<config, expects>>
         /\ (Idle => Calm' /\ Answer' /\ ~OutputFull')
<1>1. UNCHANGED <<config, in, out, expects, handler, machine, dev>>
  BY Zenon DEF Local, controller
<1>2. Early'
  BY <1>1 DEF Early
<1>3. Coming' = Coming /\ (Calm' <=> Calm) /\ (OutputFull' <=> OutputFull) /\ (Idle' <=> Idle)
  BY <1>1 DEF Coming, AfterCommand, AfterByte, Calm, OutputFull, InputFull, Idle
<1>4. Idle => Calm' /\ Answer' /\ ~OutputFull'
  BY <1>1 DEF Idle, Calm, Answer, InputFull, OutputFull
<1>. QED
  BY <1>1, <1>2, <1>3, <1>4

\* ps2_init has written the configuration, and nothing will change it any more.
Configured ==
  /\ Holds(config, ClocksOff \cup IrqsOn, {Translation} \cup ClocksOn \cup IrqsOff)
  /\ machine.channels = 1 => 5 \in config
  /\ in.port = "command" => in.byte = PS2_WRITE_BYTE_INPUT_PORT_2
  /\ expects # "config"

\* keyboard_init comes last, but for the flush that follows what enables the
\* keyboard; once that is enabled, only the flush is left.
KeyboardLast(ops) ==
  \A i \in 1 .. Len(ops) :
    /\ ops[i] = <<"keyboard_init">> => i = Len(ops)
    /\ ops[i] = <<"enable">> => i = Len(ops) - 1 /\ ops[Len(ops)] = <<"flush">>
Ending == KeyboardLast(todo) /\ (keyboard_enabled => todo \in {<<>>, <<<<"flush">>>>})

Settled == Configured /\ TodoIn(QuietOps) /\ Ending /\ NothingStuck

\* The first dialogue begins, with a controller that has nothing to say.
Begun == Early /\ Idle /\ todo = AtIdentify /\ expects = "port 1"

Advances == (Early' /\ Places') \/ Unused' \/ (Settled' /\ Begun')

LEMMA LastJoin ==
  ASSUME NEW ops \in Seq(PlainOps \cup IdOps), NEW s \in Seq(Usual \cup IdOps), KeyboardLast(s)
  PROVE  KeyboardLast(ops \o s)
<1>. DEFINE t == ops \o s
<1>1. \A op \in PlainOps \cup IdOps : op # <<"keyboard_init">> /\ op # <<"enable">>
  <2>1. \A op \in PlainOps \cup IdOps : op[1] # "keyboard_init" /\ op[1] # "enable"
    BY DEF PlainOps, IdOps
  <2>. QED
    BY <2>1
<1>. HIDE DEF PlainOps, IdOps, Usual
<1>2. /\ Len(t) = Len(ops) + Len(s) /\ Len(ops) \in Nat /\ Len(s) \in Nat
      /\ \A i \in 1 .. Len(ops) : t[i] \in PlainOps \cup IdOps
      /\ \A i \in Len(ops) + 1 .. Len(ops) + Len(s) : t[i] = s[i - Len(ops)]
  OBVIOUS
<1>. HIDE DEF t
<1>3. SUFFICES ASSUME NEW i \in 1 .. Len(t)
               PROVE  /\ t[i] = <<"keyboard_init">> => i = Len(t)
                      /\ t[i] = <<"enable">> => i = Len(t) - 1 /\ t[Len(t)] = <<"flush">>
  BY DEF KeyboardLast, t
<1>a. i \in Int /\ 1 <= i /\ i <= Len(ops) + Len(s) /\ Len(ops) \in Nat /\ Len(s) \in Nat
  BY <1>2, <1>3
<1>4. CASE i <= Len(ops)
  <2>1. i \in 1 .. Len(ops)
    BY <1>a, <1>4
  <2>2. t[i] \in PlainOps \cup IdOps
    BY <1>2, <2>1
  <2>. QED
    BY <1>1, <2>2
<1>5. CASE i > Len(ops)
  <2>. DEFINE k == i - Len(ops)
  <2>3. i \in Len(ops) + 1 .. Len(ops) + Len(s) /\ Len(t) \in Len(ops) + 1 .. Len(ops) + Len(s)
        /\ Len(t) - Len(ops) = Len(s)
    BY <1>2, <1>a, <1>5
  <2>1. k \in 1 .. Len(s) /\ (i = Len(t) <=> k = Len(s))
        /\ (i = Len(t) - 1 <=> k = Len(s) - 1) /\ k \in Int
    BY <1>2, <1>a, <1>5
  <2>4. t[i] = s[k]
    BY <1>2, <2>3
  <2>2. t[Len(t)] = s[Len(s)]
    BY <1>2, <2>3
  <2>. HIDE DEF k
  <2>. QED
    BY <2>1, <2>2, <2>4 DEF KeyboardLast
<1>. QED
  BY <1>a, <1>4, <1>5

LEMMA LastTail ==
  ASSUME NEW s \in Seq(Usual \cup IdOps), s # <<>>, KeyboardLast(s)
  PROVE  KeyboardLast(Tail(s))
<1>. HIDE DEF Usual, IdOps
<1>. DEFINE t == Tail(s)
<1>1. /\ Len(s) \in Nat \ {0} /\ Len(t) = Len(s) - 1
      /\ \A i \in 1 .. Len(t) : t[i] = s[i + 1]
  OBVIOUS
<1>. HIDE DEF t
<1>2. SUFFICES ASSUME NEW i \in 1 .. Len(t)
               PROVE  /\ t[i] = <<"keyboard_init">> => i = Len(t)
                      /\ t[i] = <<"enable">> => i = Len(t) - 1 /\ t[Len(t)] = <<"flush">>
  BY DEF KeyboardLast, t
<1>3. i + 1 \in 1 .. Len(s) /\ t[i] = s[i + 1] /\ t[Len(t)] = s[Len(s)]
  BY <1>1
<1>4. /\ s[i + 1] = <<"keyboard_init">> => i + 1 = Len(s)
      /\ s[i + 1] = <<"enable">> => i + 1 = Len(s) - 1 /\ s[Len(s)] = <<"flush">>
  BY <1>3 DEF KeyboardLast
<1>. QED
  BY <1>1, <1>3, <1>4

LEMMA IdentifyLast == KeyboardLast(AtIdentify)
<1>1. /\ <<"identify", 1>> \in PlainOps /\ <<"identified", 1>> \in PlainOps
      /\ <<"identify", 2>> \in PlainOps /\ <<"identified", 2>> \in PlainOps
      /\ <<"initialized">> \in PlainOps
  BY DEF PlainOps, Ports
<1>. DEFINE All == Usual \cup IdOps
            Good(s) == s \in Seq(All) /\ KeyboardLast(s)
<1>2. ASSUME NEW op \in PlainOps, NEW s, Good(s)
      PROVE  Good(Before(op, s))
  <2>1. <<op>> \in Seq(PlainOps \cup IdOps)
    OBVIOUS
  <2>2. KeyboardLast(Before(op, s))
    BY <1>2, <2>1, LastJoin DEF Before
  <2>3. op \in All
    BY DEF Usual, QuietOps
  <2>4. Before(op, s) \in Seq(All)
    BY <1>2, <2>3, ConsIs DEF Before
  <2>. QED
    BY <2>2, <2>4
<1>3. Good(AtKeyboardInit)
  <2>1. KeyboardLast(AtKeyboardInit)
    BY DEF AtKeyboardInit, KeyboardLast
  <2>2. <<"keyboard_init">> \in All
    BY DEF Usual, QuietOps
  <2>. HIDE DEF All
  <2>3. AtKeyboardInit \in Seq(All)
    BY <2>2 DEF AtKeyboardInit
  <2>. QED
    BY <2>1, <2>3
<1>. HIDE DEF Good
<1>4. Good(AtIdentify)
  BY <1>1, <1>2, <1>3, Zenon DEF AtIdentify
<1>. QED
  BY <1>4 DEF Good

LEMMA CheckPs2Place ==
  ASSUME Types, Early, Thread,
         todo = Before(<<"check_ps2">>, AtKeyboardInit), Holds(Coming, {}, {}), Calm
  PROVE  Advances
<1>1. /\ todo[1] = <<"check_ps2">> /\ UNCHANGED keyboard_enabled
      /\ \A ops : Then(ops) => todo' = ops \o AtKeyboardInit
  BY InitOpsAre, RestsAre, NextOp
<1>2. CheckPs2
  BY <1>1, ThreadAt
<1>3. Local /\ UNCHANGED ps2_initialized
      /\ (todo' = ps2_init \o AtKeyboardInit \/ todo' = <<>> \o AtKeyboardInit)
  BY <1>1, <1>2, Zenon DEF CheckPs2, driver
<1>4. Early' /\ Coming' = Coming /\ Calm' /\ machine' = machine
  BY <1>1, <1>3, LocalKept
<1>5. CASE todo' = ps2_init \o AtKeyboardInit
  <2>1. todo' = AtDisable1
    BY <1>5, ProgramIs
  <2>2. Starting'
    BY <1>4, <2>1 DEF Starting, Holds
  <2>. QED
    BY <1>4, <2>2 DEF Advances, Places
<1>6. CASE todo' = <<>> \o AtKeyboardInit
  <2>1. todo' = AtKeyboardInit
    <3>1. AtKeyboardInit \in Seq(Usual)
      BY RestsAre
    <3>. QED
      BY <1>6, <3>1, ConcatEmptySeq
  <2>2. ~ps2_initialized' /\ ~keyboard_enabled'
    BY <1>4 DEF Early
  <2>. QED
    BY <2>1, <2>2 DEF Advances, Unused
<1>. QED
  BY <1>3, <1>5, <1>6

LEMMA DisablePlaces ==
  ASSUME Types, Early, Thread, Calm,
         \/ todo = AtDisable1 /\ Holds(Coming, {}, {})
         \/ todo = AtDisable2 /\ Holds(Coming, {ClockOff(1)}, {})
         \/ todo = AtFlush /\ Holds(Coming, NoClocks, {})
  PROVE  Advances
<1>a. MachineTypes
  BY DEF Types
<1>0. /\ PS2_DISABLE_PORT \in Bytes /\ PS2_DISABLE_PORT_2 \in Bytes
      /\ PS2_DISABLE_PORT \notin Loud /\ PS2_DISABLE_PORT_2 \notin Loud
  BY CommandBytes, CommandsDiffer DEF Obeyed
<1>1. CASE todo = AtDisable1 /\ Holds(Coming, {}, {})
  <2>1. /\ todo' = AtDisable2 /\ Steady /\ Early' /\ Coming = config /\ config \in Bytes
        /\ Coming' = AfterCommand(config, PS2_DISABLE_PORT) /\ Calm'
    BY <1>0, <1>1, RestsAre, CommandSent DEF AtDisable1
  <2>2. Coming' = Coming \cup {4} /\ machine' = machine
    BY <1>a, <2>1, AfterIs DEF Steady
  <2>3. Starting'
    BY <1>1, <1>a, <2>1, <2>2, PortBits DEF Starting, Holds
  <2>. QED
    BY <2>1, <2>3 DEF Advances, Places
<1>2. CASE todo = AtDisable2 /\ Holds(Coming, {ClockOff(1)}, {})
  <2>1. /\ todo' = AtFlush /\ Steady /\ Early' /\ Coming = config /\ config \in Bytes
        /\ Coming' = AfterCommand(config, PS2_DISABLE_PORT_2) /\ Calm'
    BY <1>0, <1>2, RestsAre, CommandSent DEF AtDisable2
  <2>2. Coming' = Coming \cup {5} /\ machine' = machine
    BY <1>a, <2>1, AfterIs DEF Steady
  <2>3. Starting'
    BY <1>2, <1>a, <2>1, <2>2, PortBits DEF Starting, Holds, NoClocks
  <2>. QED
    BY <2>1, <2>3 DEF Advances, Places
<1>3. CASE todo = AtFlush /\ Holds(Coming, NoClocks, {})
  <2>1. ReadOps(AtFirstCheck) \in Seq(Usual)
    BY RestsAre, PartsAre
  <2>2. /\ Steady /\ UNCHANGED <<byte, config, in, expects>>
        /\ \/ todo' = todo /\ out' = NoByte
           \/ todo' = ReadOps(AtFirstCheck) /\ UNCHANGED out
    BY <1>3, <2>1, FlushDoes DEF AtFlush
  <2>3. Early' /\ Coming' = Coming /\ Calm' /\ machine' = machine
    BY <1>a, <2>2, Drained DEF Steady
  <2>4. CASE todo' = todo
    <3>1. Starting'
      BY <1>3, <2>3, <2>4 DEF Starting, Holds
    <3>. QED
      BY <2>3, <3>1 DEF Advances, Places
  <2>5. CASE todo' = ReadOps(AtFirstCheck)
    <3>1. Reading(AtFirstCheck, NoClocks, {})'
      BY <1>3, <2>3, <2>5 DEF Reading, Fetching, Holds
    <3>. QED
      BY <2>3, <3>1 DEF Advances, Places, Starting
  <2>. QED
    BY <2>2, <2>4, <2>5
<1>. QED
  BY <1>1, <1>2, <1>3

LEMMA FirstMaskBits ==
  /\ 0 \notin FirstMask /\ 1 \notin FirstMask /\ 6 \notin FirstMask
  /\ 2 \in FirstMask /\ 3 \in FirstMask /\ 4 \in FirstMask /\ 5 \in FirstMask /\ 7 \in FirstMask
BY BitOf DEF FirstMask

LEMMA IdleComing ==
  ASSUME Idle
  PROVE  Coming = config
BY DEF Idle, InputFull, Coming

\* The first configuration is read, masked and written back.
LEMMA FirstReadPlaces ==
  ASSUME Types, Early, Thread,
         Reading(AtFirstCheck, NoClocks, {}) \/ Reading(AtController, NoClocks, NoIrqs)
  PROVE  Advances
<1>1. CASE Reading(AtFirstCheck, NoClocks, {})
  <2>1. Steady /\ Early' /\ Coming' = Coming /\ (Fetching(AtFirstCheck)' \/ Got(AtFirstCheck)')
    BY <1>1, RestsAre, FetchingStep DEF Reading, Fetching, Got
  <2>2. Reading(AtFirstCheck, NoClocks, {})' \/ Read(AtFirstCheck, NoClocks, {})'
    BY <1>1, <2>1 DEF Reading, Read, Holds, Steady, Fetching, Got
  <2>. QED
    BY <2>1, <2>2 DEF Advances, Places, Starting
<1>2. CASE Reading(AtController, NoClocks, NoIrqs)
  <2>1. Steady /\ Early' /\ Coming' = Coming /\ (Fetching(AtController)' \/ Got(AtController)')
    BY <1>2, RestsAre, FetchingStep DEF Reading, Fetching, Got
  <2>2. CASE Fetching(AtController)'
    <3>1. Reading(AtController, NoClocks, NoIrqs)'
      BY <1>2, <2>1, <2>2 DEF Reading, Holds, Steady, Fetching
    <3>. QED
      BY <2>1, <3>1 DEF Advances, Places, Starting
  <2>3. CASE Got(AtController)'
    <3>1. Calm' /\ ~OutputFull'
      BY <2>3 DEF Got, Idle, Calm, InputFull
    <3>2. Asking(PS2_CONTROLLER_TEST, AtSelfTest, NoClocks, NoIrqs)'
      BY <1>2, <2>1, <2>3, <3>1 DEF Reading, Asking, Waiting, Holds, Steady, Got, AtController
    <3>. QED
      BY <2>1, <3>2 DEF Advances, Places, Testing
  <2>. QED
    BY <2>1, <2>2, <2>3
<1>. QED
  BY <1>1, <1>2

LEMMA FirstCheckPlace ==
  ASSUME Types, Early, Thread, Read(AtFirstCheck, NoClocks, {})
  PROVE  Advances
<1>a. MachineTypes /\ byte \in Bytes
  BY DEF Types, ThreadTypes
<1>b. todo = AtFirstCheck /\ Holds(Coming, NoClocks, {}) /\ Idle /\ byte = config /\ Coming = config
  BY IdleComing DEF Read, Got
<1>1. /\ todo[1] = <<"first_check">> /\ UNCHANGED keyboard_enabled
      /\ \A ops : Then(ops) => todo' = ops \o AtController
  BY <1>b, InitOpsAre, RestsAre, NextOp DEF AtFirstCheck
<1>2. FirstCheck
  BY <1>1, ThreadAt
<1>. DEFINE b == byte \cap FirstMask
<1>3. /\ Local /\ UNCHANGED ps2_initialized
      /\ todo' = (write_ps2_controller_config(b) \o read_ps2_controller_config) \o AtController
  BY <1>1, <1>2, Zenon DEF FirstCheck
<1>4. b \in Bytes
  BY <1>a DEF Bytes
<1>5. todo' = WriteOps(b, ReadOps(AtController))
  BY <1>3, <1>4, RestsAre, SubroutinesAre
<1>6. Early' /\ Calm' /\ machine' = machine
  BY <1>1, <1>3, <1>b, LocalKept
<1>7. Holds(b, NoClocks, NoIrqs)
  BY <1>a, <1>b, FirstMaskBits, PortBits DEF Holds, NoClocks, NoIrqs
<1>. HIDE DEF b
<1>8. Writing(ReadOps(AtController), NoClocks, NoIrqs)'
  BY <1>4, <1>5, <1>6, <1>7 DEF Writing, Storing, Holds
<1>. QED
  BY <1>6, <1>8 DEF Advances, Places, Starting

LEMMA FirstWritePlace ==
  ASSUME Types, Early, Thread, Writing(ReadOps(AtController), NoClocks, NoIrqs)
  PROVE  Advances
<1>a. MachineTypes
  BY DEF Types
<1>1. PICK b \in Bytes : Holds(b, NoClocks, NoIrqs) /\ Storing(b, ReadOps(AtController))
  BY DEF Writing
<1>2. ReadOps(AtController) \in Seq(Usual)
  BY RestsAre, PartsAre
<1>3. /\ Steady /\ Early'
      /\ \/ Storing(b, ReadOps(AtController))'
         \/ todo' = ReadOps(AtController) /\ Calm' /\ Coming' = AfterByte(b)
  BY <1>1, <1>2, StoringStep DEF Storing
<1>4. CASE Storing(b, ReadOps(AtController))'
  <2>1. Writing(ReadOps(AtController), NoClocks, NoIrqs)'
    BY <1>1, <1>3, <1>4 DEF Writing, Storing, Holds, Steady
  <2>. QED
    BY <1>3, <2>1 DEF Advances, Places, Starting
<1>5. CASE todo' = ReadOps(AtController) /\ Calm' /\ Coming' = AfterByte(b)
  <2>1. AfterByte(b) = b \cup (IF machine.channels = 1 THEN {5} ELSE {})
    BY DEF AfterByte
  <2>2. Holds(AfterByte(b), NoClocks, NoIrqs)
    BY <1>1, <1>a, <2>1, PortBits DEF Holds, NoClocks, NoIrqs
  <2>3. Reading(AtController, NoClocks, NoIrqs)'
    BY <1>3, <1>5, <2>2 DEF Reading, Fetching, Holds, Steady
  <2>. QED
    BY <1>3, <2>3 DEF Advances, Places, Starting
<1>. QED
  BY <1>3, <1>4, <1>5

\* The controller and its ports are tested.
LEMMA AskingPlaces ==
  ASSUME Types, Early, Thread,
         \/ Asking(PS2_CONTROLLER_TEST, AtSelfTest, NoClocks, NoIrqs)
         \/ Asking(PS2_TEST_PORT, AtTest1, NoClocks, NoIrqs)
         \/ Asking(PS2_TEST_PORT, AtTest2, NoClocks, NoIrqs)
  PROVE  Advances
<1>0. PS2_CONTROLLER_TEST \in Loud /\ PS2_TEST_PORT \in Loud
  BY DEF Loud
<1>a. AtSelfTest \in Seq(Usual) /\ AtTest1 \in Seq(Usual) /\ AtTest2 \in Seq(Usual)
  BY RestsAre
<1>1. CASE Asking(PS2_CONTROLLER_TEST, AtSelfTest, NoClocks, NoIrqs)
  <2>1. /\ Steady /\ Early' /\ Coming' = Coming
        /\ Waiting(PS2_CONTROLLER_TEST, AtSelfTest)' \/ (todo' = AtSelfTest /\ Idle')
    BY <1>0, <1>1, <1>a, WaitingStep DEF Asking, Waiting
  <2>2. \/ Asking(PS2_CONTROLLER_TEST, AtSelfTest, NoClocks, NoIrqs)'
        \/ Asked(AtSelfTest, NoClocks, NoIrqs)'
    BY <1>1, <2>1 DEF Asking, Asked, Waiting, Holds, Steady
  <2>. QED
    BY <2>1, <2>2 DEF Advances, Places, Testing
<1>2. CASE Asking(PS2_TEST_PORT, AtTest1, NoClocks, NoIrqs)
  <2>1. /\ Steady /\ Early' /\ Coming' = Coming
        /\ Waiting(PS2_TEST_PORT, AtTest1)' \/ (todo' = AtTest1 /\ Idle')
    BY <1>0, <1>2, <1>a, WaitingStep DEF Asking, Waiting
  <2>2. \/ Asking(PS2_TEST_PORT, AtTest1, NoClocks, NoIrqs)'
        \/ Asked(AtTest1, NoClocks, NoIrqs)'
    BY <1>2, <2>1 DEF Asking, Asked, Waiting, Holds, Steady
  <2>. QED
    BY <2>1, <2>2 DEF Advances, Places, Testing
<1>3. CASE Asking(PS2_TEST_PORT, AtTest2, NoClocks, NoIrqs)
  <2>1. /\ Steady /\ Early' /\ Coming' = Coming
        /\ Waiting(PS2_TEST_PORT, AtTest2)' \/ (todo' = AtTest2 /\ Idle')
    BY <1>0, <1>3, <1>a, WaitingStep DEF Asking, Waiting
  <2>2. \/ Asking(PS2_TEST_PORT, AtTest2, NoClocks, NoIrqs)'
        \/ Asked(AtTest2, NoClocks, NoIrqs)'
    BY <1>3, <2>1 DEF Asking, Asked, Waiting, Holds, Steady
  <2>. QED
    BY <2>1, <2>2 DEF Advances, Places, Testing
<1>. QED
  BY <1>1, <1>2, <1>3

LEMMA SelfTestPlace ==
  ASSUME Types, Early, Thread, Asked(AtSelfTest, NoClocks, NoIrqs)
  PROVE  Advances
<1>b. todo = AtSelfTest /\ Holds(Coming, NoClocks, NoIrqs) /\ Idle
  BY DEF Asked
<1>1. /\ todo[1] = <<"self_test">> /\ UNCHANGED keyboard_enabled
      /\ ReturnFrom => todo' = AtSecondTest
  BY <1>b, InitOpsAre, RestsAre, NextOp DEF AtSelfTest
<1>2. SelfTest
  BY <1>1, ThreadAt
<1>3. /\ Local /\ UNCHANGED ps2_initialized
      /\ \/ todo' = AtSecondTest \/ todo' = AtKeyboardInit
         \/ todo' = Before(<<"read_data">>, AtSelfTest)
  BY <1>1, <1>2, <1>b, Zenon DEF SelfTest, driver, Fail, AtKeyboardInit, Before
<1>4. Early' /\ Coming' = Coming /\ Idle' /\ Answer' /\ machine' = machine
  BY <1>1, <1>3, <1>b, LocalKept
<1>5. CASE todo' = AtSecondTest
  <2>1. Asked(AtSecondTest, NoClocks, NoIrqs)'
    BY <1>4, <1>5, <1>b DEF Asked, Holds
  <2>. QED
    BY <1>4, <2>1 DEF Advances, Places, Testing
<1>6. CASE todo' = AtKeyboardInit
  BY <1>4, <1>6 DEF Advances, Unused, Early
<1>7. CASE todo' = Before(<<"read_data">>, AtSelfTest)
  <2>1. Asking(PS2_CONTROLLER_TEST, AtSelfTest, NoClocks, NoIrqs)'
    BY <1>4, <1>7, <1>b DEF Asking, Waiting, Holds
  <2>. QED
    BY <1>4, <2>1 DEF Advances, Places, Testing
<1>. QED
  BY <1>3, <1>5, <1>6, <1>7

LEMMA JoinIs ==
  \A x, y, z, t \in Seq(Usual) : ((x \o y) \o z) \o t = x \o (y \o (z \o t))
<1>. HIDE DEF Usual
<1>1. \A x, y, z \in Seq(Usual) : (x \o y) \o z = x \o (y \o z)
  BY ConcatAssociative
<1>2. \A x, y \in Seq(Usual) : x \o y \in Seq(Usual)
  BY ConcatProperties
<1>. SUFFICES ASSUME NEW x \in Seq(Usual), NEW y \in Seq(Usual), NEW z \in Seq(Usual),
                     NEW t \in Seq(Usual)
              PROVE  ((x \o y) \o z) \o t = x \o (y \o (z \o t))
  OBVIOUS
<1>3. x \o y \in Seq(Usual)
  BY <1>2, Zenon
<1>4. z \o t \in Seq(Usual)
  BY <1>2, Zenon
<1>5. ((x \o y) \o z) \o t = (x \o y) \o (z \o t)
  BY <1>1, <1>3, Zenon
<1>6. (x \o y) \o (z \o t) = x \o (y \o (z \o t))
  BY <1>1, <1>4, Zenon
<1>. QED
  BY <1>5, <1>6, Zenon

LEMMA SecondTestPlace ==
  ASSUME Types, Early, Thread, Asked(AtSecondTest, NoClocks, NoIrqs)
  PROVE  Advances
<1>b. todo = AtSecondTest /\ Holds(Coming, NoClocks, NoIrqs) /\ Idle
  BY DEF Asked
<1>1. /\ todo[1] = <<"second_test">> /\ UNCHANGED keyboard_enabled
      /\ \A ops : Then(ops) => todo' = ops \o AtPort1
  BY <1>b, InitOpsAre, RestsAre, NextOp DEF AtSecondTest
<1>2. SecondTest
  BY <1>1, ThreadAt
<1>. DEFINE enable == ps2_send_cmd(PS2_ENABLE_PORT_2)
            ops == <<enable>> \o read_ps2_controller_config \o <<<<"second_check">>>>
<1>3. /\ Local /\ UNCHANGED ps2_initialized
      /\ todo' = <<>> \o AtPort1 \/ todo' = ops \o AtPort1
  BY <1>1, <1>2, Zenon DEF SecondTest, driver
<1>4. Early' /\ Coming' = Coming /\ Calm' /\ ~OutputFull' /\ machine' = machine
  BY <1>1, <1>3, <1>b, LocalKept
<1>5. CASE todo' = <<>> \o AtPort1
  <2>1. todo' = AtPort1
    <3>1. AtPort1 \in Seq(Usual)
      BY RestsAre
    <3>. QED
      BY <1>5, <3>1, ConcatEmptySeq
  <2>2. Asking(PS2_TEST_PORT, AtTest1, NoClocks, NoIrqs)'
    BY <1>4, <1>b, <2>1 DEF Asking, Waiting, Holds, AtPort1
  <2>. QED
    BY <1>4, <2>2 DEF Advances, Places, Testing
<1>6. CASE todo' = ops \o AtPort1
  <2>1. ops \o AtPort1 = Before(enable, ReadOps(AtSecondCheck))
    <3>. DEFINE check == <<<<"second_check">>>>
                read == read_ps2_controller_config
                one == <<enable>>
    <3>1. enable \in Usual /\ <<"second_check">> \in Usual
      BY InitOpsAre
    <3>2. read \in Seq(Usual)
      BY UsualSeqs
    <3>3. check \o AtPort1 = AtSecondCheck
      BY DEF AtSecondCheck, Before
    <3>4. read \o AtSecondCheck = ReadOps(AtSecondCheck)
      BY RestsAre, SubroutinesAre
    <3>5. one \o ReadOps(AtSecondCheck) = Before(enable, ReadOps(AtSecondCheck))
      BY DEF Before
    <3>6. check \in Seq(Usual) /\ one \in Seq(Usual)
      <4>. HIDE DEF Usual, enable
      <4>. QED
        BY <3>1
    <3>7. ops = (one \o read) \o check
      OBVIOUS
    <3>. HIDE DEF check, read, one, ops
    <3>a. one \in Seq(Usual)
      BY <3>6
    <3>b. check \in Seq(Usual)
      BY <3>6
    <3>c. AtPort1 \in Seq(Usual)
      BY RestsAre
    <3>8. ((one \o read) \o check) \o AtPort1 = one \o (read \o (check \o AtPort1))
      <4>1. \A y, z, t \in Seq(Usual) : ((one \o y) \o z) \o t = one \o (y \o (z \o t))
        BY <3>a, JoinIs, Zenon
      <4>2. \A z, t \in Seq(Usual) : ((one \o read) \o z) \o t = one \o (read \o (z \o t))
        BY <3>2, <4>1, Zenon
      <4>. QED
        BY <3>b, <3>c, <4>2, Zenon
    <3>. QED
      BY <3>3, <3>4, <3>5, <3>7, <3>8, Zenon
  <2>2. Sending(PS2_ENABLE_PORT_2, ReadOps(AtSecondCheck), NoClocks, NoIrqs)'
    BY <1>4, <1>6, <1>b, <2>1 DEF Sending, Holds
  <2>. QED
    BY <1>4, <2>2 DEF Advances, Places, Testing
<1>. QED
  BY <1>3, <1>5, <1>6

LEMMA SecondPortPlaces ==
  ASSUME Types, Early, Thread,
         \/ Sending(PS2_ENABLE_PORT_2, ReadOps(AtSecondCheck), NoClocks, NoIrqs)
         \/ Reading(AtSecondCheck, {ClockOff(1)}, NoIrqs)
         \/ Sending(PS2_DISABLE_PORT_2, AtPort1, {ClockOff(1)}, NoIrqs)
  PROVE  Advances
<1>a. MachineTypes
  BY DEF Types
<1>0. /\ PS2_ENABLE_PORT_2 \in Bytes /\ PS2_DISABLE_PORT_2 \in Bytes
      /\ PS2_ENABLE_PORT_2 \notin Loud /\ PS2_DISABLE_PORT_2 \notin Loud
  BY CommandBytes, CommandsDiffer DEF Obeyed
<1>1. CASE Sending(PS2_ENABLE_PORT_2, ReadOps(AtSecondCheck), NoClocks, NoIrqs)
  <2>1. ReadOps(AtSecondCheck) \in Seq(Usual)
    BY RestsAre, PartsAre
  <2>2. /\ todo' = ReadOps(AtSecondCheck) /\ Steady /\ Early' /\ Coming = config /\ config \in Bytes
        /\ Coming' = AfterCommand(config, PS2_ENABLE_PORT_2) /\ Calm'
    BY <1>0, <1>1, <2>1, CommandSent DEF Sending
  <2>3. Coming' = (IF machine.channels = 2 THEN Coming \ {5} ELSE Coming) /\ machine' = machine
    BY <1>a, <2>2, AfterIs DEF Steady
  <2>4. Holds(Coming, NoClocks, NoIrqs)
    BY <1>1 DEF Sending
  <2>5. Reading(AtSecondCheck, {ClockOff(1)}, NoIrqs)'
    BY <1>a, <2>2, <2>3, <2>4, PortBits DEF Reading, Fetching, Holds, NoClocks, NoIrqs
  <2>. QED
    BY <2>2, <2>5 DEF Advances, Places, Testing
<1>2. CASE Reading(AtSecondCheck, {ClockOff(1)}, NoIrqs)
  <2>1. Steady /\ Early' /\ Coming' = Coming /\ (Fetching(AtSecondCheck)' \/ Got(AtSecondCheck)')
    BY <1>2, RestsAre, FetchingStep DEF Reading, Fetching, Got
  <2>2. Reading(AtSecondCheck, {ClockOff(1)}, NoIrqs)' \/ Read(AtSecondCheck, {ClockOff(1)}, NoIrqs)'
    BY <1>2, <2>1 DEF Reading, Read, Holds, Steady, Fetching, Got
  <2>. QED
    BY <2>1, <2>2 DEF Advances, Places, Testing
<1>3. CASE Sending(PS2_DISABLE_PORT_2, AtPort1, {ClockOff(1)}, NoIrqs)
  <2>1. todo = Before(ps2_send_cmd(PS2_DISABLE_PORT_2), AtPort1) /\ ~OutputFull
        /\ Holds(Coming, {ClockOff(1)}, NoIrqs)
    BY <1>3 DEF Sending
  <2>2. /\ todo' = AtPort1 /\ Steady /\ Early' /\ Coming = config /\ config \in Bytes
        /\ Coming' = AfterCommand(config, PS2_DISABLE_PORT_2) /\ Calm' /\ ~OutputFull'
    BY <1>0, <2>1, RestsAre, CommandSent
  <2>3. Coming' = Coming \cup {5} /\ machine' = machine
    BY <1>a, <2>2, AfterIs DEF Steady
  <2>4. Asking(PS2_TEST_PORT, AtTest1, NoClocks, NoIrqs)'
    BY <1>a, <2>1, <2>2, <2>3, PortBits DEF Asking, Waiting, Holds, NoClocks, NoIrqs, AtPort1
  <2>. QED
    BY <2>2, <2>4 DEF Advances, Places, Testing
<1>. QED
  BY <1>1, <1>2, <1>3

LEMMA SecondCheckPlace ==
  ASSUME Types, Early, Thread, Read(AtSecondCheck, {ClockOff(1)}, NoIrqs)
  PROVE  Advances
<1>a. MachineTypes
  BY DEF Types
<1>b. todo = AtSecondCheck /\ Holds(Coming, {ClockOff(1)}, NoIrqs) /\ Idle /\ byte = config /\ Coming = config
  BY IdleComing DEF Read, Got
<1>1. /\ todo[1] = <<"second_check">> /\ UNCHANGED keyboard_enabled
      /\ \A ops : Then(ops) => todo' = ops \o AtPort1
  BY <1>b, InitOpsAre, RestsAre, NextOp DEF AtSecondCheck
<1>2. SecondCheck
  BY <1>1, ThreadAt
<1>3. /\ Local /\ UNCHANGED ps2_initialized
      /\ \/ 5 \in byte /\ todo' = <<>> \o AtPort1
         \/ todo' = <<ps2_send_cmd(PS2_DISABLE_PORT_2)>> \o AtPort1
  BY <1>1, <1>2, Zenon DEF SecondCheck
<1>4. Early' /\ Coming' = Coming /\ Calm' /\ ~OutputFull' /\ machine' = machine
  BY <1>1, <1>3, <1>b, LocalKept
<1>5. CASE 5 \in byte /\ todo' = <<>> \o AtPort1
  <2>1. todo' = AtPort1
    <3>1. AtPort1 \in Seq(Usual)
      BY RestsAre
    <3>. QED
      BY <1>5, <3>1, ConcatEmptySeq
  <2>2. Holds(Coming, NoClocks, NoIrqs)
    BY <1>5, <1>a, <1>b, PortBits DEF Holds, NoClocks
  <2>3. Asking(PS2_TEST_PORT, AtTest1, NoClocks, NoIrqs)'
    BY <1>4, <2>1, <2>2 DEF Asking, Waiting, Holds, AtPort1
  <2>. QED
    BY <1>4, <2>3 DEF Advances, Places, Testing
<1>6. CASE todo' = <<ps2_send_cmd(PS2_DISABLE_PORT_2)>> \o AtPort1
  <2>1. Sending(PS2_DISABLE_PORT_2, AtPort1, {ClockOff(1)}, NoIrqs)'
    BY <1>4, <1>6, <1>b DEF Sending, Holds, Before
  <2>. QED
    BY <1>4, <2>1 DEF Advances, Places, Testing
<1>. QED
  BY <1>3, <1>5, <1>6

\* What the test of a port stores, no place looks at before the end of the tests.
LEMMA PortTestPlaces ==
  ASSUME Types, Early, Thread,
         Asked(AtTest1, NoClocks, NoIrqs) \/ Asked(AtTest2, NoClocks, NoIrqs)
  PROVE  Advances
<1>1. CASE Asked(AtTest1, NoClocks, NoIrqs)
  <2>b. todo = AtTest1 /\ Holds(Coming, NoClocks, NoIrqs) /\ Idle
    BY <1>1 DEF Asked
  <2>1. /\ todo[1] = <<"port_1_test">> /\ UNCHANGED keyboard_enabled
        /\ ReturnFrom => todo' = AtTestPort2
    BY <2>b, InitOpsAre, RestsAre, NextOp DEF AtTest1
  <2>2. Port1Test
    BY <2>1, ThreadAt
  <2>3. /\ Local /\ UNCHANGED ps2_initialized
        /\ todo' = AtTestPort2 \/ todo' = Before(<<"read_data">>, AtTest1)
    BY <2>1, <2>2, <2>b, Zenon DEF Port1Test, PortTest, Before
  <2>4. Early' /\ Coming' = Coming /\ Idle' /\ Answer' /\ machine' = machine
    BY <2>1, <2>3, <2>b, LocalKept
  <2>5. Asked(AtTestPort2, NoClocks, NoIrqs)' \/ Asking(PS2_TEST_PORT, AtTest1, NoClocks, NoIrqs)'
    BY <2>3, <2>4, <2>b DEF Asked, Asking, Waiting, Holds
  <2>. QED
    BY <2>4, <2>5 DEF Advances, Places, Testing
<1>2. CASE Asked(AtTest2, NoClocks, NoIrqs)
  <2>b. todo = AtTest2 /\ Holds(Coming, NoClocks, NoIrqs) /\ Idle
    BY <1>2 DEF Asked
  <2>1. /\ todo[1] = <<"port_2_test">> /\ UNCHANGED keyboard_enabled
        /\ ReturnFrom => todo' = AtEnable
    BY <2>b, InitOpsAre, RestsAre, NextOp DEF AtTest2
  <2>2. Port2Test
    BY <2>1, ThreadAt
  <2>3. /\ Local /\ UNCHANGED ps2_initialized
        /\ todo' = AtEnable \/ todo' = Before(<<"read_data">>, AtTest2)
    BY <2>1, <2>2, <2>b, Zenon DEF Port2Test, PortTest, Before
  <2>4. Early' /\ Coming' = Coming /\ Idle' /\ Answer' /\ machine' = machine
    BY <2>1, <2>3, <2>b, LocalKept
  <2>5. CASE todo' = AtEnable
    <3>1. Asked(AtEnable, NoClocks, NoIrqs)'
      BY <2>4, <2>5, <2>b DEF Asked, Holds
    <3>. QED
      BY <2>4, <3>1 DEF Advances, Places, Enabling
  <2>6. CASE todo' = Before(<<"read_data">>, AtTest2)
    <3>1. Asking(PS2_TEST_PORT, AtTest2, NoClocks, NoIrqs)'
      BY <2>4, <2>6, <2>b DEF Asking, Waiting, Holds
    <3>. QED
      BY <2>4, <3>1 DEF Advances, Places, Testing
  <2>. QED
    BY <2>3, <2>5, <2>6
<1>. QED
  BY <1>1, <1>2

LEMMA TestPort2Place ==
  ASSUME Types, Early, Thread, Asked(AtTestPort2, NoClocks, NoIrqs)
  PROVE  Advances
<1>b. todo = AtTestPort2 /\ Holds(Coming, NoClocks, NoIrqs) /\ Idle
  BY DEF Asked
<1>1. /\ todo[1] = <<"test_port_2">> /\ UNCHANGED keyboard_enabled
      /\ \A ops : Then(ops) => todo' = ops \o AtEnable
  BY <1>b, InitOpsAre, RestsAre, NextOp DEF AtTestPort2
<1>2. TestPort2
  BY <1>1, ThreadAt
<1>. DEFINE ask == ps2_send_cmd(PS2_TEST_PORT)
<1>3. /\ Local /\ UNCHANGED ps2_initialized
      /\ \/ todo' = <<>> \o AtEnable
         \/ todo' = <<ask, <<"read_data">>, <<"port_2_test">>>> \o AtEnable
  BY <1>1, <1>2, Zenon DEF TestPort2, driver
<1>4. Early' /\ Coming' = Coming /\ Idle' /\ Calm' /\ ~OutputFull' /\ machine' = machine
  BY <1>1, <1>3, <1>b, LocalKept
<1>5. CASE todo' = <<>> \o AtEnable
  <2>1. todo' = AtEnable
    <3>1. AtEnable \in Seq(Usual)
      BY RestsAre
    <3>. QED
      BY <1>5, <3>1, ConcatEmptySeq
  <2>2. Asked(AtEnable, NoClocks, NoIrqs)'
    BY <1>4, <1>b, <2>1 DEF Asked, Holds
  <2>. QED
    BY <1>4, <2>2 DEF Advances, Places, Enabling
<1>6. CASE todo' = <<ask, <<"read_data">>, <<"port_2_test">>>> \o AtEnable
  <2>1. todo' = Before(ask, Before(<<"read_data">>, Before(<<"port_2_test">>, AtEnable)))
    <3>1. ask \in Usual /\ <<"read_data">> \in Usual /\ <<"port_2_test">> \in Usual
      BY InitOpsAre
    <3>2. AtEnable \in Seq(Usual)
      BY RestsAre
    <3>3. \A a, b, c \in Usual :
            <<a, b, c>> \o AtEnable = Before(a, Before(b, Before(c, AtEnable)))
      BY <3>2, ListsAre, Zenon
    <3>. QED
      BY <1>6, <3>1, <3>3, Zenon
  <2>2. Asking(PS2_TEST_PORT, AtTest2, NoClocks, NoIrqs)'
    BY <1>4, <1>b, <2>1 DEF Asking, Waiting, Holds, AskOps, AtTest2
  <2>. QED
    BY <1>4, <2>2 DEF Advances, Places, Testing
<1>. QED
  BY <1>3, <1>5, <1>6

LEMMA EnablePlace ==
  ASSUME Types, Early, Thread, Asked(AtEnable, NoClocks, NoIrqs)
  PROVE  Advances
<1>a. MachineTypes
  BY DEF Types
<1>b. todo = AtEnable /\ Holds(Coming, NoClocks, NoIrqs) /\ Idle
  BY DEF Asked
<1>. DEFINE e1 == ps2_send_cmd(PS2_ENABLE_PORT)
            e2 == ps2_send_cmd(PS2_ENABLE_PORT_2)
            rest == ReadOps(AtInterrupts)
            ops == OpsIf(Usable(1), <<e1>>) \o OpsIf(Usable(2), <<e2>>)
<1>c. rest \in Seq(Usual)
  BY RestsAre, PartsAre
<1>d. e1 \in Usual /\ e2 \in Usual
  BY InitOpsAre
<1>. HIDE DEF rest, e1, e2
<1>1. /\ todo[1] = <<"enable_ports">> /\ UNCHANGED keyboard_enabled
      /\ \A s : Then(s) => todo' = s \o rest
  <2>1. <<"enable_ports">> \in Usual
    BY InitOpsAre
  <2>. QED
    BY <1>b, <1>c, <2>1, NextOp DEF AtEnable, rest
<1>2. EnablePorts
  BY <1>1, ThreadAt
<1>3. /\ Local /\ UNCHANGED <<ps2_initialized, port1, port2>>
      /\ IF ~Usable(1) /\ ~Usable(2) THEN todo' = AtKeyboardInit ELSE todo' = ops \o rest
  BY <1>1, <1>2, Zenon DEF EnablePorts, driver, Fail, AtKeyboardInit, e1, e2
<1>. HIDE DEF ops
<1>4. Early' /\ Coming' = Coming /\ Idle' /\ Calm' /\ ~OutputFull' /\ machine' = machine
  BY <1>1, <1>3, <1>b, LocalKept
<1>5. (Usable(1)' <=> Usable(1)) /\ (Usable(2)' <=> Usable(2)) /\ OneClock' = OneClock
      /\ NoOneClock' = NoOneClock
  BY <1>3, <1>4, PortsSteady
<1>6. CASE ~Usable(1) /\ ~Usable(2)
  <2>1. todo' = AtKeyboardInit
    BY <1>3, <1>6
  <2>. QED
    BY <1>4, <2>1 DEF Advances, Unused, Early
<1>7. CASE Usable(1) /\ Usable(2)
  <2>1. ops = <<e1>> \o <<e2>>
    BY <1>7 DEF ops, OpsIf
  <2>2. (<<e1>> \o <<e2>>) \o rest = <<e1>> \o (<<e2>> \o rest)
    <3>. HIDE DEF Usual
    <3>1. <<e1>> \in Seq(Usual) /\ <<e2>> \in Seq(Usual)
      BY <1>d
    <3>2. \A x, y, z \in Seq(Usual) : (x \o y) \o z = x \o (y \o z)
      BY ConcatAssociative
    <3>. QED
      BY <1>c, <3>1, <3>2, Zenon
  <2>3. todo' = Before(e1, Before(e2, rest))
    BY <1>3, <1>7, <2>1, <2>2, Zenon DEF Before
  <2>4. Enabling'
    BY <1>4, <1>5, <1>7, <1>b, <2>3 DEF Enabling, Sending, Holds, e1, e2, rest
  <2>. QED
    BY <1>4, <2>4 DEF Advances, Places
<1>8. CASE Usable(1) /\ ~Usable(2)
  <2>1. ops = <<e1>>
    BY <1>8 DEF ops, OpsIf
  <2>2. todo' = Before(e1, rest)
    BY <1>3, <1>8, <2>1 DEF Before
  <2>3. Enabling'
    BY <1>4, <1>5, <1>8, <1>b, <2>2 DEF Enabling, Sending, Holds, e1, rest
  <2>. QED
    BY <1>4, <2>3 DEF Advances, Places
<1>9. CASE ~Usable(1) /\ Usable(2)
  <2>1. ops = <<e2>>
    BY <1>9 DEF ops, OpsIf
  <2>2. todo' = Before(e2, rest)
    BY <1>3, <1>9, <2>1 DEF Before
  <2>3. Holds(Coming, {ClockOff(2)} \cup OneClock, NoIrqs \cup NoOneClock)
    BY <1>9, <1>a, <1>b, PortBits DEF Holds, NoClocks, NoIrqs
  <2>4. Sending(PS2_ENABLE_PORT_2, ReadOps(AtInterrupts), {ClockOff(2)} \cup OneClock,
                NoIrqs \cup NoOneClock)'
    BY <1>4, <1>5, <2>2, <2>3 DEF Sending, Holds, e2, rest
  <2>. QED
    BY <1>4, <1>5, <1>9, <2>4 DEF Advances, Places, Enabling
<1>. QED
  BY <1>6, <1>7, <1>8, <1>9

LEMMA EnableFirstPlace ==
  ASSUME Types, Early, Thread, Usable(1),
         Sending(PS2_ENABLE_PORT,
                 IF Usable(2) THEN Before(ps2_send_cmd(PS2_ENABLE_PORT_2), ReadOps(AtInterrupts))
                 ELSE ReadOps(AtInterrupts),
                 NoClocks, NoIrqs)
  PROVE  Advances
<1>a. MachineTypes
  BY DEF Types
<1>. DEFINE all == ReadOps(AtInterrupts)
            rest == IF Usable(2) THEN Before(ps2_send_cmd(PS2_ENABLE_PORT_2), all) ELSE all
<1>b. todo = Before(ps2_send_cmd(PS2_ENABLE_PORT), rest) /\ Holds(Coming, NoClocks, NoIrqs)
      /\ ~OutputFull
  BY DEF Sending
<1>c. all \in Seq(Usual)
  BY RestsAre, PartsAre
<1>d. Before(ps2_send_cmd(PS2_ENABLE_PORT_2), all) \in Seq(Usual)
  BY <1>c, InitOpsAre, BeforeIs
<1>e. rest \in Seq(Usual)
  BY <1>c, <1>d
<1>0. PS2_ENABLE_PORT \in Bytes /\ PS2_ENABLE_PORT \notin Loud
  BY CommandBytes, CommandsDiffer DEF Obeyed
<1>. HIDE DEF rest
<1>1. /\ todo' = rest /\ Steady /\ Early' /\ Coming = config /\ config \in Bytes
      /\ Coming' = AfterCommand(config, PS2_ENABLE_PORT) /\ Calm' /\ ~OutputFull'
  BY <1>0, <1>b, <1>e, CommandSent
<1>2. Coming' = Coming \ {4} /\ UNCHANGED <<port1, port2, machine>>
  BY <1>a, <1>1, AfterIs DEF Steady
<1>3. /\ (Usable(1)' <=> Usable(1)) /\ (Usable(2)' <=> Usable(2)) /\ OneClock' = OneClock
      /\ NoOneClock' = NoOneClock /\ ClocksOff' = ClocksOff /\ ClocksOn' = ClocksOn
  BY <1>2, PortsSteady
<1>4. CASE Usable(2)
  <2>1. todo' = Before(ps2_send_cmd(PS2_ENABLE_PORT_2), all)
    BY <1>1, <1>4 DEF rest
  <2>2. Holds(Coming \ {4}, {ClockOff(2)} \cup OneClock, NoIrqs \cup NoOneClock)
    BY <1>a, <1>b, PortBits DEF Holds, NoClocks, NoIrqs
  <2>3. Sending(PS2_ENABLE_PORT_2, all, {ClockOff(2)} \cup OneClock, NoIrqs \cup NoOneClock)'
    BY <1>1, <1>2, <1>3, <2>1, <2>2 DEF Sending, Holds
  <2>. QED
    BY <1>1, <1>3, <1>4, <2>3 DEF Advances, Places, Enabling
<1>5. CASE ~Usable(2)
  <2>1. todo' = all
    BY <1>1, <1>5 DEF rest
  <2>2. Holds(Coming \ {4}, ClocksOff, NoIrqs \cup ClocksOn)
    BY <1>5, <1>a, <1>b, PortBits DEF Holds, NoClocks, NoIrqs
  <2>3. Reading(AtInterrupts, ClocksOff, NoIrqs \cup ClocksOn)'
    BY <1>1, <1>2, <1>3, <2>1, <2>2 DEF Reading, Fetching, Holds
  <2>. QED
    BY <1>1, <2>3 DEF Advances, Places, Enabling
<1>. QED
  BY <1>4, <1>5

LEMMA EnableSecondPlace ==
  ASSUME Types, Early, Thread, Usable(2),
         Sending(PS2_ENABLE_PORT_2, ReadOps(AtInterrupts), {ClockOff(2)} \cup OneClock,
                 NoIrqs \cup NoOneClock)
  PROVE  Advances
<1>a. MachineTypes
  BY DEF Types
<1>. DEFINE rest == ReadOps(AtInterrupts)
<1>b. todo = Before(ps2_send_cmd(PS2_ENABLE_PORT_2), rest)
      /\ Holds(Coming, {ClockOff(2)} \cup OneClock, NoIrqs \cup NoOneClock)
  BY DEF Sending
<1>c. rest \in Seq(Usual)
  BY RestsAre, PartsAre
<1>0. PS2_ENABLE_PORT_2 \in Bytes /\ PS2_ENABLE_PORT_2 \notin Loud
  BY CommandBytes, CommandsDiffer DEF Obeyed
<1>. HIDE DEF rest
<1>1. /\ todo' = rest /\ Steady /\ Early' /\ Coming = config /\ config \in Bytes
      /\ Coming' = AfterCommand(config, PS2_ENABLE_PORT_2) /\ Calm'
  BY <1>0, <1>b, <1>c, CommandSent
<1>2. /\ Coming' = IF machine.channels = 2 THEN Coming \ {5} ELSE Coming
      /\ UNCHANGED <<port1, port2, machine>>
  BY <1>a, <1>1, AfterIs DEF Steady
<1>3. ClocksOff' = ClocksOff /\ ClocksOn' = ClocksOn
  BY <1>2, PortsSteady
<1>4. Holds(IF machine.channels = 2 THEN Coming \ {5} ELSE Coming, ClocksOff, NoIrqs \cup ClocksOn)
  BY <1>a, <1>b, PortBits DEF Holds, NoIrqs
<1>5. Reading(AtInterrupts, ClocksOff, NoIrqs \cup ClocksOn)'
  BY <1>1, <1>2, <1>3, <1>4 DEF Reading, Fetching, Holds, rest
<1>. QED
  BY <1>1, <1>5 DEF Advances, Places, Enabling

\* The configuration is read again, gets the interrupts and is written.
LEMMA LastReadPlace ==
  ASSUME Types, Early, Thread, Reading(AtInterrupts, ClocksOff, NoIrqs \cup ClocksOn)
  PROVE  Advances
<1>1. Steady /\ Early' /\ Coming' = Coming /\ (Fetching(AtInterrupts)' \/ Got(AtInterrupts)')
  BY RestsAre, FetchingStep DEF Reading, Fetching, Got
<1>2. ClocksOff' = ClocksOff /\ ClocksOn' = ClocksOn
  BY <1>1, PortsSteady DEF Steady
<1>3. \/ Reading(AtInterrupts, ClocksOff, NoIrqs \cup ClocksOn)'
      \/ Read(AtInterrupts, ClocksOff, NoIrqs \cup ClocksOn)'
  BY <1>1, <1>2 DEF Reading, Read, Holds, Steady, Fetching, Got
<1>. QED
  BY <1>1, <1>3 DEF Advances, Places, Enabling

LEMMA InterruptsPlace ==
  ASSUME Types, Early, Thread, Read(AtInterrupts, ClocksOff, NoIrqs \cup ClocksOn)
  PROVE  Advances
<1>a. MachineTypes /\ byte \in Bytes
  BY DEF Types, ThreadTypes
<1>b. /\ todo = AtInterrupts /\ Holds(Coming, ClocksOff, NoIrqs \cup ClocksOn)
      /\ Idle /\ byte = config /\ Coming = config
  BY IdleComing DEF Read, Got
<1>1. /\ todo[1] = <<"enable_interrupts">> /\ UNCHANGED keyboard_enabled
      /\ \A ops : Then(ops) => todo' = ops \o AtIdentify
  BY <1>b, InitOpsAre, RestsAre, NextOp DEF AtInterrupts
<1>2. EnableInterrupts
  BY <1>1, ThreadAt
<1>. DEFINE b == byte \cup IrqsOn
<1>3. /\ Local /\ UNCHANGED <<ps2_initialized, port1, port2>>
      /\ todo' = (write_ps2_controller_config(b) \o read_ps2_controller_config) \o AtIdentify
  BY <1>1, <1>2, Zenon DEF EnableInterrupts, IrqsOn, driver
<1>4. b \in Bytes
  <2>1. IrqsOn \subseteq Bits
    BY <1>a, PortBits DEF Bits
  <2>. QED
    BY <1>a, <2>1 DEF Bytes
<1>5. todo' = WriteOps(b, ReadOps(AtIdentify))
  BY <1>3, <1>4, RestsAre, SubroutinesAre
<1>6. Early' /\ Calm' /\ machine' = machine
  BY <1>1, <1>3, <1>b, LocalKept
<1>7. Holds(b, ClocksOff \cup IrqsOn, {Translation} \cup ClocksOn \cup IrqsOff)
  BY <1>a, <1>b, PortBits DEF Holds, NoIrqs
<1>8. /\ ClocksOff' = ClocksOff /\ ClocksOn' = ClocksOn /\ IrqsOn' = IrqsOn /\ IrqsOff' = IrqsOff
  BY <1>3, <1>6, PortsSteady
<1>. HIDE DEF b
<1>9. Writing(ReadOps(AtIdentify), ClocksOff \cup IrqsOn, {Translation} \cup ClocksOn \cup IrqsOff)'
  BY <1>4, <1>5, <1>6, <1>7, <1>8 DEF Writing, Storing, Holds
<1>. QED
  BY <1>6, <1>9 DEF Advances, Places, Enabling

LEMMA LastWritePlace ==
  ASSUME Types, Early, Thread,
         Writing(ReadOps(AtIdentify), ClocksOff \cup IrqsOn, {Translation} \cup ClocksOn \cup IrqsOff)
  PROVE  Advances
<1>a. MachineTypes
  BY DEF Types
<1>. DEFINE on == ClocksOff \cup IrqsOn
            off == {Translation} \cup ClocksOn \cup IrqsOff
            rest == ReadOps(AtIdentify)
<1>1. PICK b \in Bytes : Holds(b, on, off) /\ Storing(b, rest)
  BY DEF Writing
<1>2. rest \in Seq(Usual)
  BY RestsAre, PartsAre
<1>3. /\ Steady /\ Early'
      /\ Storing(b, rest)' \/ (todo' = rest /\ Calm' /\ Coming' = AfterByte(b))
  BY <1>1, <1>2, StoringStep DEF Storing
<1>4. ClocksOff' = ClocksOff /\ ClocksOn' = ClocksOn /\ IrqsOn' = IrqsOn /\ IrqsOff' = IrqsOff
  BY <1>3, PortsSteady DEF Steady
<1>5. CASE Storing(b, rest)'
  <2>1. Writing(rest, on, off)'
    BY <1>1, <1>3, <1>4, <1>5 DEF Writing, Storing, Holds, Steady
  <2>. QED
    BY <1>3, <2>1 DEF Advances, Places, Enabling
<1>6. CASE todo' = rest /\ Calm' /\ Coming' = AfterByte(b)
  <2>1. AfterByte(b) = b \cup (IF machine.channels = 1 THEN {5} ELSE {})
    BY DEF AfterByte
  <2>2. Holds(AfterByte(b), on, off) /\ (machine.channels = 1 => 5 \in AfterByte(b))
    BY <1>1, <1>a, <2>1, PortBits DEF Holds
  <2>3. Reading(AtIdentify, on, off)' /\ (machine.channels = 1 => 5 \in Coming)'
    BY <1>3, <1>4, <1>6, <2>2 DEF Reading, Fetching, Holds, Steady
  <2>. QED
    BY <1>3, <2>3 DEF Advances, Places, Enabling
<1>. QED
  BY <1>3, <1>5, <1>6

\* It is read once more, and then it is as it will be.
LEMMA LastPlace ==
  ASSUME Types, Early, Thread,
         Reading(AtIdentify, ClocksOff \cup IrqsOn, {Translation} \cup ClocksOn \cup IrqsOff),
         machine.channels = 1 => 5 \in Coming
  PROVE  Advances
<1>. DEFINE on == ClocksOff \cup IrqsOn
            off == {Translation} \cup ClocksOn \cup IrqsOff
<1>1. /\ Steady /\ Early' /\ Coming' = Coming
      /\ Fetching(AtIdentify)' \/ Got(AtIdentify)'
  BY RestsAre, FetchingStep DEF Reading, Fetching, Got
<1>2. ClocksOff' = ClocksOff /\ ClocksOn' = ClocksOn /\ IrqsOn' = IrqsOn /\ IrqsOff' = IrqsOff
  BY <1>1, PortsSteady DEF Steady
<1>3. machine' = machine
  BY <1>1 DEF Steady
<1>4. CASE Fetching(AtIdentify)'
  <2>1. Reading(AtIdentify, on, off)' /\ (machine.channels = 1 => 5 \in Coming)'
    BY <1>1, <1>2, <1>3, <1>4 DEF Reading, Fetching, Holds
  <2>. QED
    BY <1>1, <2>1 DEF Advances, Places, Enabling
<1>5. CASE Got(AtIdentify)'
  <2>1. todo' = AtIdentify /\ Idle' /\ ~InputFull' /\ expects' = "port 1"
    BY <1>5 DEF Got, Idle
  <2>2. in'.port = "none"
    BY <2>1, TypesStep DEF InputFull
  <2>3. config' = Coming
    BY <1>1, <2>2 DEF Coming
  <2>4. Configured'
    BY <1>2, <1>3, <2>1, <2>2, <2>3 DEF Configured, Reading, Holds
  <2>5. AtIdentify \in Seq(QuietOps)
    <3>1. /\ <<"identify", 1>> \in QuietOps /\ <<"identified", 1>> \in QuietOps
          /\ <<"identify", 2>> \in QuietOps /\ <<"identified", 2>> \in QuietOps
          /\ <<"initialized">> \in QuietOps /\ <<"keyboard_init">> \in QuietOps
      BY DEF QuietOps, PlainOps, Ports
    <3>2. \A op \in QuietOps, rest \in Seq(QuietOps) : Before(op, rest) \in Seq(QuietOps)
      BY ConsIs DEF Before
    <3>3. AtKeyboardInit \in Seq(QuietOps)
      <4>. HIDE DEF QuietOps
      <4>. QED
        BY <3>1 DEF AtKeyboardInit
    <3>. QED
      BY <3>1, <3>2, <3>3, Zenon DEF AtIdentify
  <2>6. TodoIn(QuietOps)'
    BY <2>1, <2>5 DEF TodoIn
  <2>7. ~keyboard_enabled'
    BY <1>1 DEF Early
  <2>8. KeyboardLast(AtIdentify)
    BY IdentifyLast
  <2>9. Ending'
    BY <2>1, <2>7, <2>8 DEF Ending
  <2>. QED
    BY <1>1, <2>1, <2>4, <2>6, <2>7, <2>9 DEF Advances, Settled, Begun, NothingStuck
<1>. QED
  BY <1>1, <1>4, <1>5

LEMMA PlacesStep ==
  ASSUME Types, Early, Places, Thread
  PROVE  Advances
<1>a. Starting \/ Testing \/ Enabling
  BY DEF Places
<1>1. CASE Starting
  BY <1>1, CheckPs2Place, DisablePlaces, FirstReadPlaces, FirstCheckPlace, FirstWritePlace
  DEF Starting
<1>2. CASE Testing
  BY <1>2, AskingPlaces, SelfTestPlace, SecondTestPlace, SecondPortPlaces, SecondCheckPlace,
     PortTestPlaces, TestPort2Place
  DEF Testing
<1>3. CASE Enabling
  BY <1>3, EnablePlace, EnableFirstPlace, EnableSecondPlace, LastReadPlace, InterruptsPlace,
     LastWritePlace, LastPlace
  DEF Enabling
<1>. QED
  BY <1>a, <1>1, <1>2, <1>3

-----------------------------------------------------------------------------
(* Where ps2_init was not called or has failed, nothing is ever enabled.    *)

LEMMA UnusedStep ==
  ASSUME Unused, Types, [Next]_vars
  PROVE  Unused'
<1>a. todo \in {AtKeyboardInit, <<>>} /\ ~ps2_initialized /\ ~keyboard_enabled
  BY DEF Unused
<1>1. CASE Thread
  <2>1. todo = AtKeyboardInit
    BY <1>1, <1>a, ThreadAt
  <2>2. todo[1][1] = "keyboard_init" /\ Tail(todo) = <<>> /\ todo[1][1] # "enable"
    BY <2>1 DEF AtKeyboardInit
  <2>3. KeyboardInit /\ Untouched
    BY <1>1, <2>2, ThreadAt
  <2>4. Then(<<>>) /\ UNCHANGED <<ps2_initialized, keyboard_enabled>>
    BY <1>a, <2>3 DEF KeyboardInit, driver, Untouched
  <2>5. todo' = <<>>
    BY <2>2, <2>4 DEF Then
  <2>. QED
    BY <1>a, <2>4, <2>5 DEF Unused
<1>2. CASE Others
  <2>1. UNCHANGED <<todo, ps2_initialized, keyboard_enabled>>
    BY <1>2, Zenon DEF Others, MouseHandler, EnterMouseIrq, MouseIrq, KeyboardIrq, Machinery,
       Hardware, ControllerAnswers, ControllerObeys, TakesConfig, DeviceTakes, DeviceSends, Tick,
       Silent, User, Key, Halt, vars, ps2vars, thread, driver
  <2>. QED
    BY <1>a, <2>1 DEF Unused
<1>. QED
  BY <1>1, <1>2 DEF Next, Others

-----------------------------------------------------------------------------
(* Once ps2_init has written it, the configuration stays.                  *)

\* A step that leaves the controller and its ports alone.
LEMMA ConfiguredKept ==
  ASSUME Configured, UNCHANGED <<port1, port2, machine, config, expects>>,
         in' = in \/ in' = NoInput
  PROVE  Configured'
<1>1. ClocksOff' = ClocksOff /\ ClocksOn' = ClocksOn /\ IrqsOn' = IrqsOn /\ IrqsOff' = IrqsOff
  BY PortsSteady
<1>2. in'.port = "command" => in'.byte = PS2_WRITE_BYTE_INPUT_PORT_2
  BY DEF Configured, NoInput
<1>. QED
  BY <1>1, <1>2 DEF Configured, Holds

LEMMA QuietKeeps ==
  ASSUME QuietThread, ~Out
  PROVE  UNCHANGED <<port1, port2, machine, config, expects, in>>
BY Zenon DEF QuietThread, Flush, WritePort, WaitForAck, PollReceived, PollTimedOut, AckTest,
   AckTime, Identify, ScanningDisabled, IdLoop, IdWait, IdByte, Identified, Initialized,
   KeyboardInit, Check, Enable, Local, controller, driver

LEMMA TailOfOne ==
  ASSUME NEW S, NEW s \in Seq(S), s # <<>>, Len(s) = 1
  PROVE  Tail(s) = <<>>
<1>1. Tail(s) \in Seq(S) /\ Len(Tail(s)) = 0
  BY HeadTailProperties
<1>. QED
  BY <1>1, EmptySeq

LEMMA TailOfTwo ==
  ASSUME NEW S, NEW s \in Seq(S), s # <<>>, Len(s) = 2
  PROVE  Tail(s) = <<s[2]>>
<1>. DEFINE u == Tail(s)
            v == <<s[2]>>
<1>1. u \in Seq(S) /\ Len(u) = 1 /\ u[1] = s[2]
  BY HeadTailProperties
<1>2. v \in Seq(S) /\ Len(v) = 1 /\ v[1] = s[2]
  <2>. DEFINE e == s[2]
  <2>1. e \in S
    BY ElementOfSeq
  <2>. HIDE DEF e
  <2>2. <<e>> \in Seq(S) /\ Len(<<e>>) = 1 /\ <<e>>[1] = e
    BY <2>1
  <2>. QED
    BY <2>2 DEF e
<1>. HIDE DEF u, v
<1>3. u = v
  <2>1. Len(u) = Len(v) /\ \A i \in 1 .. Len(u) : u[i] = v[i]
    BY <1>1, <1>2
  <2>. QED
    BY <1>1, <1>2, <2>1, SeqEqual
<1>. QED
  BY <1>3 DEF u, v

\* keyboard_init stays the last, and a byte without an interrupt is flushed.
LEMMA EndingStep ==
  ASSUME TodoIn(QuietOps), Ending, NothingStuck, Thread, QuietThread, ~KeyboardInit => Proceeds
  PROVE  Ending' /\ NothingStuck'
<1>a. todo # <<>> /\ todo \in Seq(Usual \cup IdOps)
  <2>1. todo # <<>>
    BY ThreadAt
  <2>2. todo \in Seq(Usual \cup IdOps)
    <3>1. QuietOps \in SUBSET Usual
      BY DEF Usual
    <3>. QED
      BY <3>1, TodoSeq
  <2>. QED
    BY <2>1, <2>2
<1>b. KeyboardLast(todo)
  BY DEF Ending
<1>1. CASE KeyboardInit
  <2>1. Len(todo) = 1 /\ Tail(todo) = <<>> /\ ~keyboard_enabled
    <3>1. todo[1] = <<"keyboard_init">>
      <4>1. todo[1] \in QuietOps /\ todo[1][1] = "keyboard_init"
        <5>1. QuietOps \in SUBSET Usual
          BY DEF Usual
        <5>2. todo[1][1] = "keyboard_init"
          BY <1>1 DEF KeyboardInit, At
        <5>. QED
          BY <1>a, <5>1, <5>2, UsualHead
      <4>. QED
        BY <4>1 DEF QuietOps, PlainOps
    <3>2. Len(todo) = 1
      <4>. HIDE DEF Usual, IdOps
      <4>1. Len(todo) \in Nat /\ 1 \in 1 .. Len(todo)
        BY <1>a
      <4>2. 1 = Len(todo)
        BY <1>b, <3>1, <4>1 DEF KeyboardLast
      <4>. QED
        BY <4>2
    <3>3. Tail(todo) = <<>>
      BY <1>a, <3>2, TailOfOne
    <3>4. ~keyboard_enabled
      <4>1. <<<<"flush">>>>[1] # <<"keyboard_init">>
        OBVIOUS
      <4>. QED
        BY <1>a, <3>1, <4>1 DEF Ending
    <3>. QED
      BY <3>2, <3>3, <3>4
  <2>2. KeyboardLast(todo')
    <3>1. \/ Then(<<>>) \/ Then(<<<<"flush">>>>)
          \/ \E q \in Ports : Then(ps2_scancode_correction(q) \o enable_and_flush)
      BY <1>1, KeyboardInitThen
    <3>2. CASE Then(<<>>)
      <4>1. todo' = <<>>
        BY <2>1, <3>2 DEF Then
      <4>. QED
        BY <4>1 DEF KeyboardLast
    <3>3. CASE Then(<<<<"flush">>>>)
      <4>1. todo' = <<<<"flush">>>> \o <<>>
        BY <2>1, <3>3 DEF Then
      <4>2. <<<<"flush">>>> \in Seq({<<"flush">>})
        OBVIOUS
      <4>3. todo' = <<<<"flush">>>>
        BY <4>1, <4>2, ConcatEmptySeq
      <4>4. KeyboardLast(<<<<"flush">>>>)
        BY DEF KeyboardLast
      <4>. QED
        BY <4>3, <4>4
    <3>4. ASSUME NEW q \in Ports, Then(ps2_scancode_correction(q) \o enable_and_flush)
          PROVE  KeyboardLast(todo')
      <4>. DEFINE c == ps2_scancode_correction(q)
                  All == Usual \cup IdOps
      <4>1. c \in Seq(PlainOps) /\ c \o enable_and_flush \in Seq(QuietOps)
        <5>1. {} \in Bytes
          BY DEF Bytes
        <5>. QED
          BY <5>1, QuietJoins
      <4>. HIDE DEF c
      <4>2. todo' = c \o enable_and_flush
        <5>1. todo' = (c \o enable_and_flush) \o <<>>
          BY <2>1, <3>4 DEF Then, c
        <5>2. c \o enable_and_flush \in Seq(QuietOps)
          BY <4>1
        <5>. HIDE DEF QuietOps
        <5>. QED
          BY <5>1, <5>2, ConcatEmptySeq
      <4>3. KeyboardLast(enable_and_flush)
        BY DEF KeyboardLast, enable_and_flush
      <4>4. c \in Seq(PlainOps \cup IdOps)
        BY <4>1, SeqMonotonic
      <4>5. enable_and_flush \in Seq(All)
        <5>1. <<"enable">> \in All /\ <<"flush">> \in All
          BY DEF Usual, QuietOps, PlainOps
        <5>. HIDE DEF All
        <5>. QED
          BY <5>1 DEF enable_and_flush
      <4>. QED
        BY <4>2, <4>3, <4>4, <4>5, LastJoin
    <3>. QED
      BY <3>1, <3>2, <3>3, <3>4
  <2>3. ~keyboard_enabled'
    <3>1. Untouched
      BY <1>1, ThreadAt DEF KeyboardInit, At
    <3>. QED
      BY <2>1, <3>1 DEF Untouched
  <2>. QED
    BY <2>2, <2>3 DEF Ending, NothingStuck
<1>2. CASE Enable
  <2>1. todo[1] = <<"enable">>
    <3>1. QuietOps \in SUBSET Usual
      BY DEF Usual
    <3>2. todo[1][1] = "enable"
      BY <1>2 DEF Enable, At
    <3>3. todo[1] \in QuietOps
      BY <1>a, <3>1, <3>2, UsualHead
    <3>. QED
      BY <3>2, <3>3 DEF QuietOps, PlainOps
  <2>2. Len(todo) = 2 /\ todo[2] = <<"flush">>
    <3>. HIDE DEF Usual, IdOps
    <3>1. Len(todo) \in Nat /\ 1 \in 1 .. Len(todo)
      BY <1>a
    <3>2. 1 = Len(todo) - 1 /\ todo[Len(todo)] = <<"flush">>
      BY <1>b, <2>1, <3>1 DEF KeyboardLast
    <3>3. Len(todo) = 2
      BY <3>1, <3>2
    <3>. QED
      BY <3>2, <3>3
  <2>3. todo' = <<<<"flush">>>>
    <3>. HIDE DEF Usual, IdOps
    <3>1. Tail(todo) = <<<<"flush">>>>
      BY <1>a, <2>2, TailOfTwo
    <3>4. <<<<"flush">>>> \in Seq({<<"flush">>})
      OBVIOUS
    <3>2. todo' = <<>> \o Tail(todo)
      BY <1>2 DEF Enable, ReturnFrom, Then
    <3>. QED
      BY <3>1, <3>2, <3>4, ConcatEmptySeq
  <2>4. KeyboardLast(<<<<"flush">>>>)
    BY DEF KeyboardLast
  <2>. QED
    BY <2>3, <2>4 DEF Ending, NothingStuck
<1>3. CASE ~KeyboardInit /\ ~Enable
  <2>1. UNCHANGED keyboard_enabled
    BY <1>3, ThreadIsOne DEF Untouched
  <2>2. KeyboardLast(todo')
    <3>1. CASE todo' = todo
      BY <1>b, <3>1
    <3>2. CASE todo' = <<>>
      BY <3>2 DEF KeyboardLast
    <3>3. CASE \E ops \in Seq(PlainOps \cup IdOps) : Then(ops)
      <4>1. PICK ops \in Seq(PlainOps \cup IdOps) : todo' = ops \o Tail(todo)
        BY <3>3 DEF Then
      <4>2. KeyboardLast(Tail(todo))
        BY <1>a, <1>b, LastTail
      <4>3. Tail(todo) \in Seq(Usual \cup IdOps)
        <5>. HIDE DEF Usual, IdOps
        <5>. QED
          BY <1>a
      <4>. QED
        BY <4>1, <4>2, <4>3, LastJoin
    <3>. QED
      BY <1>3, <3>1, <3>2, <3>3 DEF Proceeds
  <2>3. CASE ~keyboard_enabled
    BY <2>1, <2>2, <2>3 DEF Ending, NothingStuck
  <2>4. CASE keyboard_enabled
    <3>1. todo = <<<<"flush">>>>
      BY <1>a, <2>4 DEF Ending
    <3>2. todo[1][1] = "flush" /\ Tail(todo) = <<>>
      BY <3>1
    <3>3. Flush
      BY <3>2, ThreadAt
    <3>4. todo' = todo \/ (todo' = <<>> /\ ~OutputFull /\ out' = out)
      <4>1. <<>> \o <<>> = <<>>
        <5>1. <<>> \in Seq({})
          OBVIOUS
        <5>. QED
          BY <5>1, ConcatEmptySeq
      <4>. QED
        BY <3>2, <3>3, <4>1 DEF Flush, ReturnFrom, Then
    <3>5. Ending'
      BY <2>2, <3>1, <3>4 DEF Ending
    <3>6. NothingStuck'
      BY <3>1, <3>4 DEF NothingStuck, OutputFull
    <3>. QED
      BY <3>5, <3>6
  <2>. QED
    BY <2>3, <2>4
<1>. QED
  BY <1>1, <1>2, <1>3

\* The thread only tells the controller which device a byte is for.
LEMMA SettledThread ==
  ASSUME Types, Settled, Thread
  PROVE  Settled'
<1>a. Configured /\ TodoIn(QuietOps) /\ Ending /\ NothingStuck
  BY DEF Settled
<1>b. QuietOps \in SUBSET Usual
  BY DEF Usual
<1>c. todo # <<>>
  BY ThreadAt
<1>0. ~LoudThread
  <2>. DEFINE Names == {"read_data", "check_ps2", "first_check", "self_test", "second_test",
                        "second_check", "port_1_test", "port_2_test", "test_port_2",
                        "enable_ports", "enable_interrupts"}
  <2>1. LoudThread => todo[1][1] \in Names
    BY Heads, Zenon DEF LoudThread, At
  <2>2. \A op \in QuietOps : op[1] \notin Names
    BY DEF QuietOps, PlainOps
  <2>3. todo[1][1] \in Names => todo[1] \in QuietOps
    <3>1. todo[1][1] \in Names => todo[1][1] \notin {"id_wait", "id_byte", "poll"}
      OBVIOUS
    <3>. QED
      BY <1>a, <1>b, <1>c, <3>1, UsualHead
  <2>. HIDE DEF Names
  <2>. QED
    BY <2>1, <2>2, <2>3
<1>1. QuietThread
  BY <1>0, ThreadIsOne DEF QuietThread
<1>d. TodoIn(QuietOps)' /\ (~KeyboardInit => Proceeds)
  BY <1>a, <1>b, <1>1, QuietTodo DEF Types, ThreadTypes
<1>e. Ending' /\ NothingStuck'
  BY <1>a, <1>1, <1>d, EndingStep
<1>2. TodoIn(QuietOps)' /\ Ending' /\ NothingStuck'
  BY <1>d, <1>e
<1>3. CASE ~Out
  <2>1. UNCHANGED <<port1, port2, machine, config, expects, in>>
    BY <1>1, <1>3, QuietKeeps
  <2>2. Configured'
    BY <1>a, <2>1, ConfiguredKept
  <2>. QED
    BY <1>2, <2>2 DEF Settled
<1>4. CASE Out
  <2>1. todo[1] \in QuietOps /\ todo[1][1] = "outb"
    BY <1>4, <1>a, <1>b, <1>c, UsualHead DEF Out, At
  <2>2. Arg(2) = "command" => Arg(3) = PS2_WRITE_BYTE_INPUT_PORT_2
    <3>1. ASSUME NEW op \in QuietOps, op[1] = "outb", op[2] = "command"
          PROVE  op[3] = PS2_WRITE_BYTE_INPUT_PORT_2
      BY <3>1 DEF QuietOps, PlainOps
    <3>. QED
      BY <2>1, <3>1 DEF Arg
  <2>3. in' = [byte |-> Arg(3), port |-> Arg(2)] /\ UNCHANGED <<port1, port2, machine, config, expects>>
    BY <1>4, Zenon DEF Out, driver
  <2>4. in'.byte = Arg(3) /\ in'.port = Arg(2)
    BY <2>3
  <2>5. ClocksOff' = ClocksOff /\ ClocksOn' = ClocksOn /\ IrqsOn' = IrqsOn /\ IrqsOff' = IrqsOff
    BY <2>3, PortsSteady
  <2>6. Configured'
    BY <1>a, <2>2, <2>3, <2>4, <2>5 DEF Configured, Holds
  <2>. QED
    BY <1>2, <2>6 DEF Settled
<1>. QED
  BY <1>3, <1>4

\* What a device sends has an interrupt; the handlers take what had one.
LEMMA StuckOthers ==
  ASSUME MachineTypes, Configured, NothingStuck, Others, UNCHANGED <<todo, keyboard_enabled>>
  PROVE  NothingStuck'
<1>1. SUFFICES ASSUME keyboard_enabled, todo = <<>>, handler' = "none", OutputFull'
               PROVE  out'.irq
  BY DEF NothingStuck
<1>2. CASE MouseHandler
  <2>1. ~OutputFull /\ UNCHANGED out
    BY <1>1, <1>2, Zenon DEF MouseHandler, EnterMouseIrq, MouseIrq
  <2>. QED
    BY <1>1, <2>1 DEF OutputFull
<1>3. CASE KeyboardIrq
  <2>1. out' = NoByte
    BY <1>1, <1>3 DEF KeyboardIrq
  <2>. QED
    BY <1>1, <2>1 DEF OutputFull, NoByte
<1>4. ~ControllerAnswers
  BY CommandsDiffer DEF ControllerAnswers, Configured, Loud
<1>5. ASSUME NEW p \in Ports, DeviceSends(p)
      PROVE  out'.irq
  <2>1. ClockOff(p) \notin config /\ out'.irq = (Irq(p) \in config)
    BY <1>5 DEF DeviceSends
  <2>2. Usable(p)
    <3>1. 4 \notin config => Usable(1)
      BY PortBits DEF Configured, Holds
    <3>2. 5 \notin config => Usable(2)
      BY PortBits DEF Configured, Holds
    <3>. QED
      BY <2>1, <3>1, <3>2, PortBits DEF Ports
  <2>3. Irq(p) \in IrqsOn
    BY <2>2 DEF IrqsOn
  <2>. QED
    BY <2>1, <2>3 DEF Configured, Holds
<1>6. CASE ~MouseHandler /\ ~KeyboardIrq /\ \A p \in Ports : ~DeviceSends(p)
  <2>1. UNCHANGED <<out, handler>>
    BY <1>4, <1>6, Zenon DEF Others, Machinery, Hardware, ControllerObeys, TakesConfig, DeviceTakes,
       Tick, Silent, User, Key, Halt, vars, ps2vars, controller
  <2>. QED
    BY <1>1, <2>1 DEF NothingStuck, OutputFull
<1>. QED
  BY <1>2, <1>3, <1>5, <1>6

LEMMA SettledOthers ==
  ASSUME Types, Settled, Others
  PROVE  Settled'
<1>a. Configured /\ TodoIn(QuietOps) /\ Ending /\ NothingStuck
  BY DEF Settled
<1>b. MachineTypes
  BY DEF Types
<1>c. config \in Bytes
  BY <1>b DEF MachineTypes
<1>1. UNCHANGED <<todo, response, port1, port2, machine>>
  BY Zenon DEF Others, MouseHandler, EnterMouseIrq, MouseIrq, KeyboardIrq, Machinery,
     Hardware, ControllerAnswers, ControllerObeys, TakesConfig, DeviceTakes, DeviceSends, Tick,
     Silent, User, Key, Halt, vars, ps2vars, thread, driver
<1>2. TodoIn(QuietOps)' /\ Ending' /\ NothingStuck'
  <2>1. UNCHANGED keyboard_enabled
    BY Zenon DEF Others, MouseHandler, KeyboardIrq, Machinery, User, Key, Halt, vars
  <2>2. TodoIn(QuietOps)'
    BY <1>1, <1>a DEF TodoIn
  <2>3. Ending'
    BY <1>1, <1>a, <2>1 DEF Ending
  <2>4. NothingStuck'
    BY <1>1, <1>a, <1>b, <2>1, StuckOthers
  <2>. QED
    BY <2>2, <2>3, <2>4
<1>3. ClocksOff' = ClocksOff /\ ClocksOn' = ClocksOn /\ IrqsOn' = IrqsOn /\ IrqsOff' = IrqsOff
  BY <1>1, PortsSteady
<1>4. NoInput.port # "command"
  BY DEF NoInput
<1>5. CASE ControllerObeys
  <2>1. in.port = "command" /\ in.byte = PS2_WRITE_BYTE_INPUT_PORT_2
    BY <1>5, <1>a DEF ControllerObeys, Configured
  <2>2. config' = AfterCommand(config, in.byte) /\ in' = NoInput
    BY <1>5, Zenon DEF ControllerObeys, AfterCommand
  <2>3. config' = config
    BY <1>b, <1>c, <2>1, <2>2, AfterIs, CommandsDiffer
  <2>4. expects' # "config"
    <3>1. in.byte # PS2_WRITE_CONFIG_BYTE
      BY <2>1, CommandsDiffer
    <3>. QED
      BY <1>5, <3>1 DEF ControllerObeys
  <2>5. Configured'
    BY <1>1, <1>3, <1>4, <1>a, <2>2, <2>3, <2>4 DEF Configured, Holds
  <2>. QED
    BY <1>2, <2>5 DEF Settled
<1>6. CASE ~ControllerObeys
  <2>1. ~ControllerAnswers
    BY <1>a, CommandsDiffer DEF ControllerAnswers, Configured, Loud
  <2>2. ~TakesConfig
    BY <1>a DEF TakesConfig, Configured
  <2>3. UNCHANGED config /\ (expects' = expects \/ expects' = "port 1") /\ (in' = in \/ in' = NoInput)
    BY <1>6, <2>1, <2>2, Zenon DEF Others, MouseHandler, EnterMouseIrq, MouseIrq, KeyboardIrq,
       Machinery, Hardware, DeviceTakes, DeviceSends, Tick, User, Key, Halt, vars, ps2vars,
       controller
  <2>4. Configured'
    BY <1>1, <1>3, <1>4, <1>a, <2>3 DEF Configured, Holds
  <2>. QED
    BY <1>2, <2>4 DEF Settled
<1>. QED
  BY <1>5, <1>6

-----------------------------------------------------------------------------
(* The configuration of the controller.                                    *)

\* ps2_init is at one of its places, or it is over.
Progress == Types /\ ((Early /\ Places) \/ Unused \/ Settled)

LEMMA InitPlaces == Init => Types /\ Early /\ Places
<1>. SUFFICES ASSUME Init PROVE Types /\ Early /\ Places
  OBVIOUS
<1>1. Types
  BY InitTypes
<1>2. /\ todo = <<<<"check_ps2">>, <<"keyboard_init">>>>
      /\ ~keyboard_enabled /\ ~ps2_initialized /\ handler = "none"
      /\ config = machine.config /\ in.port = "none"
  BY DEF Init, Ps2Init, NoInput
<1>3. todo = Before(<<"check_ps2">>, AtKeyboardInit)
  BY <1>2 DEF Before, AtKeyboardInit
<1>4. out.src # 2 /\ \A p \in Ports : dev[p].queue = <<>>
  <2>1. /\ out = IF machine.leftover THEN [byte |-> Byte(30), src |-> 1, irq |-> FALSE] ELSE NoByte
        /\ dev = [p \in Ports |-> [scanning |-> TRUE, set |-> 2, param |-> FALSE,
                                   queue |-> <<>>, resends |-> 0, held |-> {}]]
    BY Zenon DEF Init, Ps2Init
  <2>2. out.src # 2
    BY <2>1 DEF NoByte, Nobody
  <2>3. \A p \in Ports : dev[p].queue = <<>>
    BY <2>1
  <2>. QED
    BY <2>2, <2>3
<1>5. Early
  BY <1>2, <1>4 DEF Early
<1>6. Coming = config /\ Calm
  BY <1>2 DEF Coming, Calm
<1>7. Starting
  BY <1>2, <1>3, <1>6 DEF Starting, Holds
<1>. QED
  BY <1>1, <1>5, <1>7 DEF Places

LEMMA InitProgress == Init => Progress
BY InitPlaces DEF Progress

LEMMA ProgressStep == Progress /\ [Next]_vars => Progress'
<1>. SUFFICES ASSUME Progress, [Next]_vars PROVE Progress'
  OBVIOUS
<1>1. Types /\ Types'
  BY TypesStep DEF Progress
<1>2. Thread \/ Others
  BY DEF Next, Others
<1>3. CASE Early /\ Places
  <2>1. CASE Thread
    BY <1>1, <1>3, <2>1, PlacesStep DEF Progress, Advances
  <2>2. CASE Others
    BY <1>1, <1>3, <2>2, PlacesRemain DEF Progress
  <2>. QED
    BY <1>2, <2>1, <2>2
<1>4. CASE Unused
  BY <1>1, <1>4, UnusedStep DEF Progress
<1>5. CASE Settled
  BY <1>1, <1>2, <1>5, SettledThread, SettledOthers DEF Progress
<1>. QED
  BY <1>3, <1>4, <1>5 DEF Progress

LEMMA ProgressMeans == Progress => NothingStuck
BY DEF Progress, Early, Unused, Settled, NothingStuck

LEMMA ProgressKeeps == Progress => ConfigKept
<1>. SUFFICES ASSUME Progress, ps2_initialized PROVE ConfigKept
  BY DEF ConfigKept
<1>a. MachineTypes
  BY DEF Progress, Types
<1>b. config \in Bytes /\ machine.config \in Bytes
  BY <1>a, Ps2Assumption DEF MachineTypes, MachineType
<1>1. Configured
  BY DEF Progress, Early, Unused, Settled
<1>2. /\ \A b \in {2, 3, 7} : b \in config <=> b \in machine.config
      /\ \A b : b \in ClocksOff \cup IrqsOn => b \in config
      /\ \A b : b \in {Translation} \cup ClocksOn \cup IrqsOff => b \notin config
      /\ machine.channels = 1 => 5 \in config
  BY <1>1 DEF Configured, Holds
<1>3. config \ (0 .. 6) = machine.config \ (0 .. 6)
  <2>1. \A b : b \in config => b \in 0 .. 7
    BY <1>b DEF Bytes, Bits
  <2>2. \A b : b \in machine.config => b \in 0 .. 7
    BY <1>b DEF Bytes, Bits
  <2>3. \A b \in 0 .. 7 : b \notin 0 .. 6 => b = 7
    OBVIOUS
  <2>. QED
    BY <1>2, <2>1, <2>2, <2>3
<1>4. config \cap {2, 3} = machine.config \cap {2, 3}
  BY <1>2
<1>5. Translation \notin config
  BY <1>2
<1>6. \A p \in Ports : /\ Usable(p) <=> Irq(p) \in config
                       /\ p <= machine.channels => (Usable(p) <=> ClockOff(p) \notin config)
  <2>1. /\ Usable(1) <=> Irq(1) \in config
        /\ Usable(1) <=> ClockOff(1) \notin config
    BY <1>2, <1>a, PortBits
  <2>2. /\ Usable(2) <=> Irq(2) \in config
        /\ 2 <= machine.channels => (Usable(2) <=> ClockOff(2) \notin config)
    BY <1>2, <1>a, PortBits
  <2>. QED
    BY <2>1, <2>2 DEF Ports
<1>. QED
  BY <1>3, <1>4, <1>5, <1>6 DEF ConfigKept

\* ConfigKept: ps2_init leaves the firmware's configuration as it was but for
\* what it means to change (ps2.c:31-36, 128-153), whatever the tests of the
\* controller and of its ports answer, and no step after it changes that.
THEOREM ConfigAlwaysKept == Spec => []ConfigKept
<1>1. Spec => []Progress
  BY InitProgress, ProgressStep, PTL DEF Spec
<1>. QED
  BY <1>1, ProgressKeeps, PTL

\* NothingStuck: once the keyboard is enabled no byte waits without an interrupt,
\* because the flush comes after keyboard_enabled is set (keyboard.c:23-58) and a
\* port has its clock on only with its interrupt.
THEOREM NeverStuck == Spec => []NothingStuck
<1>1. Spec => []Progress
  BY InitProgress, ProgressStep, PTL DEF Spec
<1>. QED
  BY <1>1, ProgressMeans, PTL

=============================================================================
