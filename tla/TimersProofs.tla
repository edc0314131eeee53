---------------------------- MODULE TimersProofs ----------------------------
(***************************************************************************)
(* The timers' safety for every period, modulus, delay and bound.          *)
(***************************************************************************)
EXTENDS Timers, TLAPS

\* Arming the timer and setting the flag that its handler tests take no time.
PromptlyArmed == Slow \cap {"arm", "enable"} = {}

\* The machine has not been on for so long that the end of the sleep is out
\* of poll_hpet's range.
FreshHpet == HpetLimit * HpetPeriod + TenMsFs < U64

-----------------------------------------------------------------------------
(* Arithmetic. *)

\* Multiplication by a natural number is monotone.
LEMMA ProductMonotone ==
  ASSUME NEW m \in Int, NEW n \in Int, NEW c \in Nat, m <= n
  PROVE  m * c <= n * c
OBVIOUS

\* Multiplication distributes over one more.
LEMMA ProductNext ==
  ASSUME NEW n \in Int, NEW c \in Int
  PROVE  (n + 1) * c = n * c + c
OBVIOUS

\* Products of natural numbers are natural numbers.
LEMMA ProductType ==
  ASSUME NEW m \in Nat, NEW n \in Nat
  PROVE  m * n \in Nat
OBVIOUS

\* 10 ms are at least one unit of time.
LEMMA TenMsType == TenMs \in Nat \ {0}
<1>1. HpetPeriod \in Nat \ {0} /\ TenMsFs \in Nat \ {0}
  BY TimersAssumption
<1>. QED
  BY <1>1 DEF TenMs

\* As many periods of the HPET as cover the sleep are 10 ms.
LEMMA TenMsSmallest ==
  ASSUME NEW n \in Nat, TenMsFs <= n * HpetPeriod
  PROVE  TenMs <= n
<1>1. HpetPeriod \in Nat \ {0} /\ TenMsFs \in Nat \ {0}
  BY TimersAssumption
<1>2. TenMs \in Nat /\ TenMs * HpetPeriod <= TenMsFs + HpetPeriod - 1
  BY <1>1, TenMsType DEF TenMs
<1>3. (n + 1) * HpetPeriod = n * HpetPeriod + HpetPeriod
  BY <1>1, ProductNext
<1>. SUFFICES ASSUME n + 1 <= TenMs PROVE FALSE
  BY <1>2
<1>4. (n + 1) * HpetPeriod <= TenMs * HpetPeriod
  BY <1>1, <1>2, ProductMonotone
<1>5. n * HpetPeriod \in Nat /\ TenMs * HpetPeriod \in Nat
  BY <1>1, <1>2
<1>. QED
  BY <1>1, <1>2, <1>3, <1>4, <1>5

-----------------------------------------------------------------------------
(* Types. *)

\* The hardware's count stays a count.
LEMMA CountedType ==
  ASSUME NEW t \in LapicTimers
  PROVE  Counted(t) \in LapicTimers
<1>1. CountMax \in Nat
  BY TimersAssumption
<1>2. CASE t.cur # 1
  BY <1>1, <1>2 DEF LapicTimers, Counted
<1>3. CASE t.cur = 1
  <2>. DEFINE c == IF t.periodic THEN t.init ELSE 0
              b == t.irr \/ ~t.masked
  <2>1. c \in 0 .. CountMax
    BY <1>1 DEF LapicTimers
  <2>2. b \in BOOLEAN
    BY Zenon
  <2>3. Counted(t) = [t EXCEPT !.cur = c, !.irr = b]
    BY <1>3 DEF Counted
  <2>. HIDE DEF c, b
  <2>. QED
    BY <2>1, <2>2, <2>3 DEF LapicTimers
<1>. QED
  BY <1>2, <1>3

\* The program and the machine start with values of their types.
LEMMA InitType == Init => TypeOK
<1>. SUFFICES ASSUME Init PROVE TypeOK
  OBVIOUS
<1>1. lapic \in LapicTimers
  BY TimersAssumption DEF Init, LapicTimers
<1>2. hpet \in 0 .. HpetMod - 1
  BY TimersAssumption DEF Init
<1>3. 0 \in 0 .. CountMax /\ 0 \in 0 .. MaxTime
  BY TimersAssumption
<1>. QED
  BY <1>1, <1>2, <1>3 DEF Init, TypeOK, Places

\* Every step, of the thread, the handler or the hardware, keeps the types.
LEMMA StepType ==
  ASSUME TypeOK, [Next]_vars
  PROVE  TypeOK'
<1>. USE DEF machine, thread, clock
<1>1. /\ HpetMod \in Nat \ {0} /\ U64 \in Nat \ {0} /\ CountMax \in Nat
      /\ PitTicks \in Nat /\ TenMsFs \in Nat /\ MaxTime \in Nat
      /\ HpetPeriod \in Nat
  BY TimersAssumption
<1>2. lapic \in LapicTimers
  BY DEF TypeOK
<1>3. CASE hpet_init
  <2>1. hpet_base' \in BOOLEAN
    BY <1>3, Zenon DEF hpet_init
  <2>. QED
    BY <1>3, <2>1 DEF hpet_init, Step, TypeOK, Places
<1>4. CASE SetPit
  BY <1>4 DEF SetPit, Step, TypeOK, Places
<1>5. CASE SetCount
  <2>1. CountMax \in 0 .. CountMax
    BY <1>1
  <2>2. lapic' = [lapic EXCEPT !.init = CountMax, !.cur = CountMax]
    BY <1>5 DEF SetCount, WriteInitialCount
  <2>3. lapic' \in LapicTimers
    BY <1>2, <2>1, <2>2 DEF LapicTimers
  <2>. QED
    BY <1>5, <2>3 DEF SetCount, Step, TypeOK, Places
<1>6. CASE Log
  BY <1>6 DEF Log, Step, TypeOK, Places
<1>7. CASE StartSleep
  <2>1. hpet * HpetPeriod \in Nat
    BY <1>1 DEF TypeOK
  <2>2. poll_hpet \in Nat
    BY <1>1, <2>1 DEF poll_hpet
  <2>3. (poll_hpet + TenMsFs) % U64 \in Nat
    BY <1>1, <2>2
  <2>4. ticks + PitTicks \in Nat
    BY <1>1 DEF TypeOK
  <2>. QED
    BY <1>7, <2>3, <2>4 DEF StartSleep, Step, TypeOK, Places
<1>8. CASE EndSleep
  BY <1>8 DEF EndSleep, Step, TypeOK, Places
<1>9. CASE Spin
  BY <1>9 DEF Spin, Step, TypeOK, Places
<1>10. CASE MaskTimer
  <2>1. lapic' \in LapicTimers
    BY <1>2, <1>10 DEF MaskTimer, LapicTimers
  <2>. QED
    BY <1>10, <2>1 DEF MaskTimer, Step, TypeOK, Places
<1>11. CASE ReadCount
  <2>1. CountMax - lapic.cur \in 0 .. CountMax
    BY <1>1, <1>2 DEF LapicTimers
  <2>. QED
    BY <1>11, <2>1 DEF ReadCount, Step, TypeOK, Places
<1>12. CASE SetPeriodic
  <2>1. lapic' \in LapicTimers
    BY <1>2, <1>12 DEF SetPeriodic, LapicTimers
  <2>. QED
    BY <1>12, <2>1 DEF SetPeriodic, Step, TypeOK, Places
<1>13. CASE Arm
  <2>1. lapic' \in LapicTimers
    BY <1>2, <1>13 DEF Arm, WriteInitialCount, LapicTimers, TypeOK
  <2>. QED
    BY <1>1, <1>13, <2>1 DEF Arm, Step, TypeOK, Places
<1>14. CASE Enable
  BY <1>14 DEF Enable, Step, TypeOK, Places
<1>15. CASE Halt
  BY <1>15 DEF Halt, Step, TypeOK, Places
<1>16. CASE Deliver
  <2>1. lapic' \in LapicTimers
    BY <1>2, <1>16 DEF Deliver, LapicTimers
  <2>. QED
    BY <1>16, <2>1 DEF Deliver, TypeOK
<1>17. CASE DeliverPit
  BY <1>17 DEF DeliverPit, TypeOK
<1>18. CASE TestEnabled
  BY <1>18 DEF TestEnabled, TypeOK
<1>19. CASE Count
  BY <1>19 DEF Count, TypeOK
<1>20. CASE EndOfInterrupt
  <2>1. lapic' \in LapicTimers
    BY <1>2, <1>20 DEF EndOfInterrupt, LapicTimers
  <2>. QED
    BY <1>20, <2>1 DEF EndOfInterrupt, TypeOK
<1>21. CASE Return
  BY <1>21 DEF Return, TypeOK
<1>22. CASE Elapse
  <2>1. hpet' \in 0 .. HpetMod - 1
    BY <1>1, <1>22 DEF Elapse, TypeOK
  <2>2. lapic' \in LapicTimers
    BY <1>2, <1>22, CountedType DEF Elapse
  <2>3. now' \in 0 .. MaxTime
    BY <1>1, <1>22 DEF Elapse, TypeOK
  <2>. QED
    BY <1>22, <2>1, <2>2, <2>3 DEF Elapse, TypeOK
<1>23. CASE UNCHANGED vars
  BY <1>23 DEF vars, TypeOK
<1>. QED
  BY <1>3, <1>4, <1>5, <1>6, <1>7, <1>8, <1>9, <1>10, <1>11, <1>12, <1>13,
     <1>14, <1>15, <1>16, <1>17, <1>18, <1>19, <1>20, <1>21, <1>22, <1>23
     DEF Next, Thread, Handler

\* Every variable has its type, whatever the delays (timers.c:3-15).
THEOREM TypeCorrect == Spec => []TypeOK
<1>1. Init => TypeOK
  BY InitType
<1>2. TypeOK /\ [Next]_vars => TypeOK'
  BY StepType
<1>. QED
  BY <1>1, <1>2, PTL DEF Spec

-----------------------------------------------------------------------------
(* The inductive invariant. *)

AfterSleep == {"log_done", "mask", "read_count", "log_enable", "lvt", "arm",
               "enable", "hlt"}

\* Before main halts nothing has been counted and the LAPIC has delivered
\* nothing: its interrupt is masked up to the very end.
Quiet ==
  /\ pc # "hlt" =>
       /\ ~lapic_timer_enabled
       /\ ticks = 0
       /\ handler \in {"none", "test", "iret"}
       /\ ~lapic.irr
       /\ ~lapic.isr
  /\ pc \notin {"arm", "enable", "hlt"} => lapic.masked /\ ~lapic.periodic

\* Only machines with a usable HPET get past the sleep, and theirs is a PIT
\* that no longer interrupts.
OnlyLapic ==
  /\ pc \notin {"hpet_init", "pit"} /\ hpet_base =>
       pit = "off" /\ (pc # "hlt" => handler = "none")
  /\ pc \in AfterSleep => hpet_base
  /\ pc = "wait" /\ ~hpet_base => end_time = PitTicks

\* What calibration has measured, at each of its stages.
Measured ==
  /\ pc \in BeforeSample => hpet <= HpetLimit
  /\ pc = "wait" /\ hpet_base =>
       \/ lapic.cur = 0
       \/ hpet * HpetPeriod + TenMsFs
            <= end_time + (CountMax - lapic.cur) * HpetPeriod
  /\ pc \in {"log_done", "mask", "read_count"} =>
       TenMs <= CountMax - lapic.cur
  /\ CalibrationLongEnough

\* The ticks counted and those on their way to being counted.
Due ==
  ticks + (IF lapic.irr THEN 1 ELSE 0)
        + (IF handler \in {"test", "count"} THEN 1 ELSE 0)

\* Once armed, the timer has fired no more often than time allows.
Running ==
  /\ pc = "enable" =>
       /\ lapic.periodic
       /\ lapic.init = ticks_10ms
       /\ lapic.cur = ticks_10ms
       /\ now = 0
  /\ pc = "arm" => lapic.periodic
  /\ pc = "hlt" =>
       /\ lapic_timer_enabled
       /\ lapic.periodic
       /\ lapic.init = ticks_10ms
       /\ lapic.cur \in 1 .. ticks_10ms
       /\ lapic.isr => handler \in {"test", "count", "eoi"}
       /\ now < MaxTime =>
            Due * ticks_10ms + (ticks_10ms - lapic.cur) <= now

IInv == TypeOK /\ Quiet /\ OnlyLapic /\ Measured /\ Running

\* Every step keeps the invariant.
LEMMA StepIInv ==
  ASSUME PromptlyArmed, FreshHpet, IInv, [Next]_vars
  PROVE  IInv'
<1>. USE DEF IInv, machine, thread, clock
<1>1. /\ HpetMod \in Nat \ {0} /\ U64 \in Nat \ {0} /\ CountMax \in Nat
      /\ PitTicks \in Nat \ {0} /\ TenMsFs \in Nat \ {0} /\ MaxTime \in Nat
      /\ HpetPeriod \in Nat \ {0} /\ HpetLimit \in Nat
      /\ TenMs \in Nat \ {0} /\ TenMs <= CountMax
  BY TimersAssumption, TenMsType
<1>2. TypeOK' /\ lapic \in LapicTimers /\ hpet \in Nat /\ end_time \in Nat
      /\ ticks \in Nat /\ ticks_10ms \in 0 .. CountMax /\ now \in 0 .. MaxTime
      /\ lapic.cur \in 0 .. CountMax
  BY StepType, <1>1 DEF TypeOK, LapicTimers
<1>3. CASE hpet_init
  <2>1. Quiet' /\ OnlyLapic'
    BY <1>1, <1>2, <1>3 DEF hpet_init, Step, Quiet, OnlyLapic, AfterSleep, SleepOver
  <2>2. Measured'
    BY <1>1, <1>2, <1>3 DEF hpet_init, Step, Measured, Quiet, OnlyLapic, AfterSleep,
       BeforeSample, CalibrationLongEnough, Calibrated
  <2>3. Running'
    BY <1>1, <1>2, <1>3 DEF hpet_init, Step, Running, Due, Quiet, OnlyLapic, AfterSleep
  <2>. QED
    BY <1>2, <2>1, <2>2, <2>3
<1>4. CASE SetPit
  <2>1. Quiet' /\ OnlyLapic'
    BY <1>1, <1>2, <1>4 DEF SetPit, Step, Quiet, OnlyLapic, AfterSleep, SleepOver
  <2>2. Measured'
    BY <1>1, <1>2, <1>4 DEF SetPit, Step, Measured, Quiet, OnlyLapic, AfterSleep,
       BeforeSample, CalibrationLongEnough, Calibrated
  <2>3. Running'
    BY <1>1, <1>2, <1>4 DEF SetPit, Step, Running, Due, Quiet, OnlyLapic, AfterSleep
  <2>. QED
    BY <1>2, <2>1, <2>2, <2>3
<1>5. CASE SetCount
  <2>1. lapic' = [lapic EXCEPT !.init = CountMax, !.cur = CountMax]
    BY <1>5 DEF SetCount, WriteInitialCount
  <2>2. /\ lapic'.masked = lapic.masked /\ lapic'.periodic = lapic.periodic
        /\ lapic'.init = CountMax /\ lapic'.cur = CountMax
        /\ lapic'.irr = lapic.irr /\ lapic'.isr = lapic.isr
    BY <1>2, <2>1 DEF LapicTimers
  <2>3. Quiet' /\ OnlyLapic'
    BY <1>1, <1>2, <1>5, <2>2 DEF SetCount, Step, Quiet, OnlyLapic, AfterSleep, SleepOver
  <2>4. Measured'
    BY <1>1, <1>2, <1>5, <2>2 DEF SetCount, Step, Measured, Quiet, OnlyLapic, AfterSleep,
       BeforeSample, CalibrationLongEnough, Calibrated
  <2>5. Running'
    BY <1>1, <1>2, <1>5, <2>2 DEF SetCount, Step, Running, Due, Quiet, OnlyLapic, AfterSleep
  <2>. QED
    BY <1>2, <2>3, <2>4, <2>5
<1>6. CASE Log
  <2>1. Quiet' /\ OnlyLapic'
    BY <1>1, <1>2, <1>6 DEF Log, Step, Quiet, OnlyLapic, AfterSleep, SleepOver
  <2>2. Measured'
    BY <1>1, <1>2, <1>6 DEF Log, Step, Measured, Quiet, OnlyLapic, AfterSleep,
       BeforeSample, CalibrationLongEnough, Calibrated
  <2>3. Running'
    BY <1>1, <1>2, <1>6 DEF Log, Step, Running, Due, Quiet, OnlyLapic, AfterSleep
  <2>. QED
    BY <1>2, <2>1, <2>2, <2>3
<1>7. CASE StartSleep
  <2>1. Quiet' /\ OnlyLapic'
    BY <1>1, <1>2, <1>7 DEF StartSleep, Step, Quiet, OnlyLapic, AfterSleep, SleepOver
  <2>2. Measured'
    <3>1. CASE ~hpet_base
      BY <1>7, <3>1 DEF StartSleep, Step, Measured, BeforeSample,
                        CalibrationLongEnough, Calibrated
    <3>2. CASE hpet_base
      <4>1. hpet * HpetPeriod <= HpetLimit * HpetPeriod
        BY <1>1, <1>2, <1>7, ProductMonotone
           DEF StartSleep, Step, Measured, BeforeSample
      <4>2. hpet * HpetPeriod \in Nat /\ HpetLimit * HpetPeriod \in Nat
        BY <1>1, <1>2
      <4>3. hpet * HpetPeriod + TenMsFs < U64
        BY <1>1, <4>1, <4>2 DEF FreshHpet
      <4>4. poll_hpet = hpet * HpetPeriod
        BY <1>1, <4>2, <4>3 DEF poll_hpet
      <4>5. (poll_hpet + TenMsFs) % U64 = hpet * HpetPeriod + TenMsFs
        BY <1>1, <4>2, <4>3, <4>4
      <4>6. end_time' = hpet * HpetPeriod + TenMsFs
        BY <1>7, <3>2, <4>5 DEF StartSleep
      <4>7. (CountMax - lapic.cur) * HpetPeriod \in Nat
        BY <1>1, <1>2
      <4>8. hpet * HpetPeriod + TenMsFs
              <= end_time' + (CountMax - lapic.cur) * HpetPeriod
        BY <1>1, <4>2, <4>6, <4>7
      <4>. QED
        BY <1>7, <4>8 DEF StartSleep, Step, Measured, BeforeSample,
                          CalibrationLongEnough, Calibrated
    <3>. QED
      BY <3>1, <3>2
  <2>3. Running'
    BY <1>1, <1>2, <1>7 DEF StartSleep, Step, Running, Due, Quiet, OnlyLapic, AfterSleep
  <2>. QED
    BY <1>2, <2>1, <2>2, <2>3
<1>8. CASE EndSleep
  <2>1. Quiet' /\ OnlyLapic'
    BY <1>1, <1>2, <1>8 DEF EndSleep, Step, Quiet, OnlyLapic, AfterSleep, SleepOver
  <2>2. Measured'
    <3>1. hpet_base /\ pc = "wait"
      BY <1>1, <1>8 DEF EndSleep, Step, SleepOver, OnlyLapic, Quiet
    <3>2. TenMs <= CountMax - lapic.cur
      <4>1. CASE lapic.cur = 0
        BY <1>1, <4>1
      <4>2. CASE lapic.cur # 0
        <5>. DEFINE n == CountMax - lapic.cur
        <5>1. hpet * HpetPeriod + TenMsFs <= end_time + n * HpetPeriod
          BY <3>1, <4>2 DEF Measured
        <5>2. n \in Nat /\ n * HpetPeriod \in Nat /\ hpet * HpetPeriod \in Nat
          BY <1>1, <1>2
        <5>3. poll_hpet <= hpet * HpetPeriod
          BY <1>1, <5>2 DEF poll_hpet
        <5>4. poll_hpet \in Nat
          BY <1>1, <5>2 DEF poll_hpet
        <5>5. end_time <= poll_hpet
          BY <1>8, <3>1 DEF EndSleep, SleepOver
        <5>6. TenMsFs <= n * HpetPeriod
          BY <1>1, <1>2, <5>1, <5>2, <5>3, <5>4, <5>5
        <5>. HIDE DEF n
        <5>7. TenMs <= n
          BY <5>2, <5>6, TenMsSmallest
        <5>. QED
          BY <5>7 DEF n
      <4>. QED
        BY <4>1, <4>2
    <3>. QED
      BY <1>8, <3>2 DEF EndSleep, Step, Measured, BeforeSample,
                        CalibrationLongEnough, Calibrated
  <2>3. Running'
    BY <1>1, <1>2, <1>8 DEF EndSleep, Step, Running, Due, Quiet, OnlyLapic, AfterSleep
  <2>. QED
    BY <1>2, <2>1, <2>2, <2>3
<1>9. CASE Spin
  <2>1. Quiet' /\ OnlyLapic'
    BY <1>1, <1>2, <1>9 DEF Spin, Step, Quiet, OnlyLapic, AfterSleep, SleepOver
  <2>2. Measured'
    BY <1>1, <1>2, <1>9 DEF Spin, Step, Measured, Quiet, OnlyLapic, AfterSleep,
       BeforeSample, CalibrationLongEnough, Calibrated
  <2>3. Running'
    BY <1>1, <1>2, <1>9 DEF Spin, Step, Running, Due, Quiet, OnlyLapic, AfterSleep
  <2>. QED
    BY <1>2, <2>1, <2>2, <2>3
<1>10. CASE MaskTimer
  <2>1. lapic' = [lapic EXCEPT !.masked = TRUE, !.periodic = FALSE]
    BY <1>10 DEF MaskTimer
  <2>2. /\ lapic'.masked = TRUE /\ lapic'.periodic = FALSE
        /\ lapic'.init = lapic.init /\ lapic'.cur = lapic.cur
        /\ lapic'.irr = lapic.irr /\ lapic'.isr = lapic.isr
    BY <1>2, <2>1 DEF LapicTimers
  <2>3. Quiet' /\ OnlyLapic'
    BY <1>1, <1>2, <1>10, <2>2 DEF MaskTimer, Step, Quiet, OnlyLapic, AfterSleep, SleepOver
  <2>4. Measured'
    BY <1>1, <1>2, <1>10, <2>2 DEF MaskTimer, Step, Measured, Quiet, OnlyLapic, AfterSleep,
       BeforeSample, CalibrationLongEnough, Calibrated
  <2>5. Running'
    BY <1>1, <1>2, <1>10, <2>2 DEF MaskTimer, Step, Running, Due, Quiet, OnlyLapic, AfterSleep
  <2>. QED
    BY <1>2, <2>3, <2>4, <2>5
<1>11. CASE ReadCount
  <2>1. Quiet' /\ OnlyLapic'
    BY <1>1, <1>2, <1>11 DEF ReadCount, Step, Quiet, OnlyLapic, AfterSleep, SleepOver
  <2>2. Measured'
    BY <1>1, <1>2, <1>11 DEF ReadCount, Step, Measured, Quiet, OnlyLapic, AfterSleep,
       BeforeSample, CalibrationLongEnough, Calibrated
  <2>3. Running'
    BY <1>1, <1>2, <1>11 DEF ReadCount, Step, Running, Due, Quiet, OnlyLapic, AfterSleep
  <2>. QED
    BY <1>2, <2>1, <2>2, <2>3
<1>12. CASE SetPeriodic
  <2>1. lapic' = [lapic EXCEPT !.masked = FALSE, !.periodic = TRUE]
    BY <1>12 DEF SetPeriodic
  <2>2. /\ lapic'.masked = FALSE /\ lapic'.periodic = TRUE
        /\ lapic'.init = lapic.init /\ lapic'.cur = lapic.cur
        /\ lapic'.irr = lapic.irr /\ lapic'.isr = lapic.isr
    BY <1>2, <2>1 DEF LapicTimers
  <2>3. Quiet' /\ OnlyLapic'
    BY <1>1, <1>2, <1>12, <2>2 DEF SetPeriodic, Step, Quiet, OnlyLapic, AfterSleep, SleepOver
  <2>4. Measured'
    BY <1>1, <1>2, <1>12, <2>2 DEF SetPeriodic, Step, Measured, Quiet, OnlyLapic, AfterSleep,
       BeforeSample, CalibrationLongEnough, Calibrated
  <2>5. Running'
    BY <1>1, <1>2, <1>12, <2>2 DEF SetPeriodic, Step, Running, Due, Quiet, OnlyLapic, AfterSleep
  <2>. QED
    BY <1>2, <2>3, <2>4, <2>5
<1>13. CASE Arm
  <2>1. lapic' = [lapic EXCEPT !.init = ticks_10ms, !.cur = ticks_10ms]
    BY <1>13 DEF Arm, WriteInitialCount
  <2>2. /\ lapic'.masked = lapic.masked /\ lapic'.periodic = lapic.periodic
        /\ lapic'.init = ticks_10ms /\ lapic'.cur = ticks_10ms
        /\ lapic'.irr = lapic.irr /\ lapic'.isr = lapic.isr
    BY <1>2, <2>1 DEF LapicTimers
  <2>3. Quiet' /\ OnlyLapic'
    BY <1>1, <1>2, <1>13, <2>2 DEF Arm, Step, Quiet, OnlyLapic, AfterSleep, SleepOver
  <2>4. Measured'
    BY <1>1, <1>2, <1>13, <2>2 DEF Arm, Step, Measured, Quiet, OnlyLapic, AfterSleep,
       BeforeSample, CalibrationLongEnough, Calibrated
  <2>5. Running'
    BY <1>1, <1>2, <1>13, <2>2 DEF Arm, Step, Running, Due, Quiet, OnlyLapic, AfterSleep
  <2>. QED
    BY <1>2, <2>3, <2>4, <2>5
<1>14. CASE Enable
  <2>1. Quiet' /\ OnlyLapic'
    BY <1>1, <1>2, <1>14 DEF Enable, Step, Quiet, OnlyLapic, AfterSleep, SleepOver
  <2>2. Measured'
    BY <1>1, <1>2, <1>14 DEF Enable, Step, Measured, Quiet, OnlyLapic, AfterSleep,
       BeforeSample, CalibrationLongEnough, Calibrated
  <2>3. Running'
    <3>1. /\ lapic.periodic /\ lapic.init = ticks_10ms
          /\ lapic.cur = ticks_10ms /\ now = 0
      BY <1>14 DEF Enable, Step, Running
    <3>2. /\ handler = "none" /\ ticks = 0 /\ ~lapic.irr /\ ~lapic.isr
      BY <1>14 DEF Enable, Step, Quiet
    <3>3. Due' = 0
      BY <1>14, <3>2 DEF Enable, Due
    <3>4. ticks_10ms \in Nat \ {0}
      BY <1>1, <1>2, <1>14
         DEF Enable, Step, Measured, CalibrationLongEnough, Calibrated
    <3>5. Due' * ticks_10ms = 0
      BY <3>3, <3>4
    <3>. QED
      BY <1>14, <3>1, <3>2, <3>4, <3>5 DEF Enable, Step, Running
  <2>. QED
    BY <1>2, <2>1, <2>2, <2>3
<1>15. CASE Halt
  <2>1. Quiet' /\ OnlyLapic'
    BY <1>1, <1>2, <1>15 DEF Halt, Step, Quiet, OnlyLapic, AfterSleep, SleepOver
  <2>2. Measured'
    BY <1>1, <1>2, <1>15 DEF Halt, Step, Measured, Quiet, OnlyLapic, AfterSleep,
       BeforeSample, CalibrationLongEnough, Calibrated
  <2>3. Running'
    BY <1>1, <1>2, <1>15 DEF Halt, Step, Running, Due, Quiet, OnlyLapic, AfterSleep
  <2>. QED
    BY <1>2, <2>1, <2>2, <2>3
<1>16. CASE Deliver
  <2>1. lapic' = [lapic EXCEPT !.irr = FALSE, !.isr = TRUE]
    BY <1>16 DEF Deliver
  <2>2. /\ lapic'.masked = lapic.masked /\ lapic'.periodic = lapic.periodic
        /\ lapic'.init = lapic.init /\ lapic'.cur = lapic.cur
        /\ lapic'.irr = FALSE /\ lapic'.isr = TRUE
    BY <1>2, <2>1 DEF LapicTimers
  <2>3. Quiet' /\ OnlyLapic'
    BY <1>1, <1>2, <1>16, <2>2 DEF Deliver, Quiet, OnlyLapic, AfterSleep, SleepOver
  <2>4. Measured'
    BY <1>1, <1>2, <1>16, <2>2 DEF Deliver, Measured, Quiet, OnlyLapic, AfterSleep,
       BeforeSample, CalibrationLongEnough, Calibrated
  <2>5. Running'
    BY <1>1, <1>2, <1>16, <2>2 DEF Deliver, Running, Due, Quiet, OnlyLapic, AfterSleep
  <2>. QED
    BY <1>2, <2>3, <2>4, <2>5
<1>17. CASE DeliverPit
  <2>1. Quiet' /\ OnlyLapic'
    BY <1>1, <1>2, <1>17 DEF DeliverPit, Quiet, OnlyLapic, AfterSleep, SleepOver
  <2>2. Measured'
    BY <1>1, <1>2, <1>17 DEF DeliverPit, Measured, Quiet, OnlyLapic, AfterSleep,
       BeforeSample, CalibrationLongEnough, Calibrated
  <2>3. Running'
    BY <1>1, <1>2, <1>17 DEF DeliverPit, Running, Due, Quiet, OnlyLapic, AfterSleep
  <2>. QED
    BY <1>2, <2>1, <2>2, <2>3
<1>18. CASE TestEnabled
  <2>1. Quiet' /\ OnlyLapic'
    BY <1>1, <1>2, <1>18 DEF TestEnabled, Quiet, OnlyLapic, AfterSleep, SleepOver
  <2>2. Measured'
    BY <1>1, <1>2, <1>18 DEF TestEnabled, Measured, Quiet, OnlyLapic, AfterSleep,
       BeforeSample, CalibrationLongEnough, Calibrated
  <2>3. Running'
    BY <1>1, <1>2, <1>18 DEF TestEnabled, Running, Due, Quiet, OnlyLapic, AfterSleep
  <2>. QED
    BY <1>2, <2>1, <2>2, <2>3
<1>19. CASE Count
  <2>1. Quiet' /\ OnlyLapic'
    BY <1>1, <1>2, <1>19 DEF Count, Quiet, OnlyLapic, AfterSleep, SleepOver
  <2>2. Measured'
    BY <1>1, <1>2, <1>19 DEF Count, Measured, Quiet, OnlyLapic, AfterSleep,
       BeforeSample, CalibrationLongEnough, Calibrated
  <2>3. Running'
    BY <1>1, <1>2, <1>19 DEF Count, Running, Due, Quiet, OnlyLapic, AfterSleep
  <2>. QED
    BY <1>2, <2>1, <2>2, <2>3
<1>20. CASE EndOfInterrupt
  <2>1. lapic' = [lapic EXCEPT !.isr = FALSE]
    BY <1>20 DEF EndOfInterrupt
  <2>2. /\ lapic'.masked = lapic.masked /\ lapic'.periodic = lapic.periodic
        /\ lapic'.init = lapic.init /\ lapic'.cur = lapic.cur
        /\ lapic'.irr = lapic.irr /\ lapic'.isr = FALSE
    BY <1>2, <2>1 DEF LapicTimers
  <2>3. Quiet' /\ OnlyLapic'
    BY <1>1, <1>2, <1>20, <2>2 DEF EndOfInterrupt, Quiet, OnlyLapic, AfterSleep, SleepOver
  <2>4. Measured'
    BY <1>1, <1>2, <1>20, <2>2 DEF EndOfInterrupt, Measured, Quiet, OnlyLapic, AfterSleep,
       BeforeSample, CalibrationLongEnough, Calibrated
  <2>5. Running'
    BY <1>1, <1>2, <1>20, <2>2 DEF EndOfInterrupt, Running, Due, Quiet, OnlyLapic, AfterSleep
  <2>. QED
    BY <1>2, <2>3, <2>4, <2>5
<1>21. CASE Return
  <2>1. Quiet' /\ OnlyLapic'
    BY <1>1, <1>2, <1>21 DEF Return, Quiet, OnlyLapic, AfterSleep, SleepOver
  <2>2. Measured'
    BY <1>1, <1>2, <1>21 DEF Return, Measured, Quiet, OnlyLapic, AfterSleep,
       BeforeSample, CalibrationLongEnough, Calibrated
  <2>3. Running'
    BY <1>1, <1>2, <1>21 DEF Return, Running, Due, Quiet, OnlyLapic, AfterSleep
  <2>. QED
    BY <1>2, <2>1, <2>2, <2>3
<1>22. CASE Elapse
  <2>1. /\ UNCHANGED <<pc, handler, ticks, lapic_timer_enabled, hpet_base,
                       end_time, ticks_10ms, table, pit>>
        /\ lapic' = Counted(lapic)
        /\ handler # "none" \/ pc \in Slow
    BY <1>22 DEF Elapse
  <2>2. CASE lapic.cur # 1
    <3>1. /\ lapic'.masked = lapic.masked /\ lapic'.periodic = lapic.periodic
          /\ lapic'.init = lapic.init /\ lapic'.irr = lapic.irr
          /\ lapic'.isr = lapic.isr
          /\ lapic'.cur = IF lapic.cur = 0 THEN 0 ELSE lapic.cur - 1
      BY <1>2, <2>1, <2>2 DEF Counted, LapicTimers
    <3>2. Quiet' /\ OnlyLapic'
      BY <2>1, <3>1 DEF Quiet, OnlyLapic
    <3>3. Measured'
      <4>1. pc \in BeforeSample => hpet' <= HpetLimit
        BY <1>1, <1>2, <1>22 DEF Elapse, Measured
      <4>2. ASSUME pc = "wait", hpet_base, lapic'.cur # 0
            PROVE  hpet' * HpetPeriod + TenMsFs
                     <= end_time + (CountMax - lapic'.cur) * HpetPeriod
        <5>. DEFINE n == CountMax - lapic.cur
        <5>1. lapic'.cur = lapic.cur - 1 /\ CountMax - lapic'.cur = n + 1
              /\ n \in Nat /\ lapic.cur # 0
          BY <1>1, <1>2, <3>1, <4>2
        <5>2. hpet * HpetPeriod + TenMsFs <= end_time + n * HpetPeriod
          BY <4>2, <5>1 DEF Measured
        <5>3. hpet' = (hpet + 1) % HpetMod
          BY <1>22, <4>2 DEF Elapse
        <5>4. hpet' \in Nat /\ hpet' <= hpet + 1
          BY <1>1, <1>2, <5>3
        <5>5. hpet' * HpetPeriod <= (hpet + 1) * HpetPeriod
          <6>1. hpet' \in Int /\ hpet + 1 \in Int /\ HpetPeriod \in Nat
            BY <1>1, <1>2, <5>4
          <6>. QED
            BY <5>4, <6>1, ProductMonotone
        <5>6. (hpet + 1) * HpetPeriod = hpet * HpetPeriod + HpetPeriod
          BY <1>1, <1>2, ProductNext
        <5>7. (n + 1) * HpetPeriod = n * HpetPeriod + HpetPeriod
          BY <1>1, <5>1, ProductNext
        <5>8. hpet' * HpetPeriod \in Nat /\ hpet * HpetPeriod \in Nat
              /\ n * HpetPeriod \in Nat
          BY <1>1, <1>2, <5>1, <5>4, ProductType
        <5>. HIDE DEF n
        <5>. QED
          BY <1>1, <1>2, <5>1, <5>2, <5>5, <5>6, <5>7, <5>8
      <4>3. pc \in {"log_done", "mask", "read_count"} =>
              TenMs <= CountMax - lapic'.cur
        BY <1>1, <1>2, <3>1 DEF Measured
      <4>. QED
        BY <2>1, <4>1, <4>2, <4>3
           DEF Measured, CalibrationLongEnough, Calibrated
    <3>4. Running'
      <4>1. pc \notin {"arm", "enable"}
        <5>1. CASE handler = "none"
          BY <2>1, <5>1 DEF PromptlyArmed
        <5>2. CASE handler # "none"
          BY <5>2 DEF OnlyLapic, AfterSleep
        <5>. QED
          BY <5>1, <5>2
      <4>2. Due' = Due
        BY <2>1, <3>1 DEF Due
      <4>3. ASSUME pc = "hlt"
            PROVE  /\ lapic'.cur \in 1 .. ticks_10ms
                   /\ lapic'.cur = lapic.cur - 1
        BY <1>1, <1>2, <2>2, <3>1, <4>3 DEF Running
      <4>4. ASSUME pc = "hlt", now' < MaxTime
            PROVE  now < MaxTime /\ now' = now + 1
        BY <1>1, <1>2, <1>22, <4>4 DEF Elapse
      <4>5. Due \in Nat /\ Due * ticks_10ms \in Nat
        <5>1. Due \in Nat
          BY <1>2 DEF Due
        <5>. QED
          BY <1>1, <1>2, <5>1
      <4>6. ASSUME pc = "hlt", now' < MaxTime
            PROVE  Due * ticks_10ms + (ticks_10ms - lapic'.cur) <= now'
        <5>1. Due * ticks_10ms + (ticks_10ms - lapic.cur) <= now
          BY <4>4, <4>6 DEF Running
        <5>. QED
          BY <1>1, <1>2, <4>3, <4>4, <4>5, <4>6, <5>1
      <4>. QED
        BY <2>1, <3>1, <4>1, <4>2, <4>3, <4>6 DEF Running
    <3>. QED
      BY <1>2, <3>2, <3>3, <3>4
  <2>3. CASE lapic.cur = 1
    <3>1. /\ lapic'.masked = lapic.masked /\ lapic'.periodic = lapic.periodic
          /\ lapic'.init = lapic.init /\ lapic'.isr = lapic.isr
          /\ lapic'.cur = IF lapic.periodic THEN lapic.init ELSE 0
      BY <1>2, <2>1, <2>3 DEF Counted, LapicTimers
    <3>2. lapic'.irr = (lapic.irr \/ ~lapic.masked)
      BY <1>2, <2>1, <2>3 DEF Counted, LapicTimers
    <3>3. pc \notin {"arm", "enable"}
      <4>1. CASE handler = "none"
        BY <2>1, <4>1 DEF PromptlyArmed
      <4>2. CASE handler # "none"
        BY <4>2 DEF OnlyLapic, AfterSleep
      <4>. QED
        BY <4>1, <4>2
    <3>4. Quiet' /\ OnlyLapic'
      <4>1. pc # "hlt" => ~lapic'.irr
        BY <3>2, <3>3 DEF Quiet
      <4>. QED
        BY <2>1, <3>1, <4>1 DEF Quiet, OnlyLapic
    <3>5. Measured'
      <4>1. pc \in BeforeSample => hpet' <= HpetLimit
        BY <1>1, <1>2, <1>22 DEF Elapse, Measured
      <4>2. pc \notin {"arm", "enable", "hlt"} => lapic'.cur = 0
        BY <3>1 DEF Quiet
      <4>. QED
        BY <1>1, <2>1, <4>1, <4>2
           DEF Measured, CalibrationLongEnough, Calibrated
    <3>6. Running'
      <4>1. ASSUME pc = "hlt"
            PROVE  lapic'.cur = ticks_10ms /\ ticks_10ms \in Nat \ {0}
        BY <1>1, <1>2, <3>1, <4>1 DEF Running
      <4>2. Due \in Nat /\ Due' \in Nat /\ Due' <= Due + 1
        <5>1. ticks' \in Nat /\ ticks' = ticks /\ handler' = handler
          BY <1>2, <2>1
        <5>2. CASE lapic.irr
          <6>1. lapic'.irr
            BY <3>2, <5>2
          <6>. QED
            BY <5>1, <5>2, <6>1 DEF Due
        <5>3. CASE ~lapic.irr
          BY <5>1, <5>3 DEF Due
        <5>. QED
          BY <5>2, <5>3
      <4>3. ASSUME pc = "hlt", now' < MaxTime
            PROVE  Due' * ticks_10ms <= now'
        <5>1. now < MaxTime /\ now' = now + 1
          BY <1>1, <1>2, <1>22, <4>3 DEF Elapse
        <5>2. Due * ticks_10ms + (ticks_10ms - 1) <= now
          BY <2>3, <4>3, <5>1 DEF Running
        <5>3. Due' * ticks_10ms <= (Due + 1) * ticks_10ms
          BY <4>1, <4>2, <4>3, ProductMonotone
        <5>4. (Due + 1) * ticks_10ms = Due * ticks_10ms + ticks_10ms
          BY <4>1, <4>2, <4>3, ProductNext
        <5>5. Due * ticks_10ms \in Nat /\ Due' * ticks_10ms \in Nat
          BY <4>1, <4>2, <4>3, ProductType
        <5>. QED
          BY <1>1, <1>2, <5>1, <5>2, <5>3, <5>4, <5>5
      <4>4. ASSUME pc = "hlt", now' < MaxTime
            PROVE  Due' * ticks_10ms + (ticks_10ms - lapic'.cur) <= now'
        <5>1. ticks_10ms - lapic'.cur = 0 /\ Due' * ticks_10ms \in Nat
          BY <4>1, <4>2, <4>4, ProductType
        <5>. QED
          BY <4>3, <4>4, <5>1
      <4>. QED
        BY <2>1, <3>1, <3>3, <4>1, <4>4 DEF Running
    <3>. QED
      BY <1>2, <3>4, <3>5, <3>6
  <2>. QED
    BY <2>2, <2>3
<1>23. CASE UNCHANGED vars
  BY <1>2, <1>23 DEF vars, Quiet, OnlyLapic, Measured, Running, Due,
     CalibrationLongEnough, Calibrated
<1>. QED
  BY <1>3, <1>4, <1>5, <1>6, <1>7, <1>8, <1>9, <1>10, <1>11, <1>12, <1>13, <1>14, <1>15, <1>16, <1>17, <1>18, <1>19, <1>20, <1>21, <1>22, <1>23
     DEF Next, Thread, Handler

\* The machine starts within the invariant.
LEMMA InitIInv == Init => IInv
<1>. SUFFICES ASSUME Init PROVE IInv
  OBVIOUS
<1>1. TypeOK
  BY InitType
<1>2. Quiet /\ OnlyLapic
  BY DEF Init, Quiet, OnlyLapic, AfterSleep
<1>3. Measured
  BY TimersAssumption
     DEF Init, Measured, BeforeSample, CalibrationLongEnough, Calibrated
<1>4. Running
  BY DEF Init, Running
<1>. QED
  BY <1>1, <1>2, <1>3, <1>4 DEF IInv

\* The invariant holds throughout.
LEMMA AlwaysIInv ==
  ASSUME PromptlyArmed, FreshHpet
  PROVE  Spec => []IInv
<1>1. Init => IInv
  BY InitIInv
<1>2. IInv /\ [Next]_vars => IInv'
  BY StepIInv
<1>. QED
  BY <1>1, <1>2, PTL DEF Spec

-----------------------------------------------------------------------------
(* The properties. *)

\* The count saved spans the 10 ms of the sleep, for every period and modulus
\* of the HPET and every delay (timers.c:124-143).
THEOREM CalibrationNeverShort ==
  ASSUME PromptlyArmed, FreshHpet
  PROVE  Spec => []CalibrationLongEnough
<1>1. IInv => CalibrationLongEnough
  BY DEF IInv, Measured
<1>. QED
  BY <1>1, AlwaysIInv, PTL

\* Every LAPIC interrupt that is delivered is acknowledged by its handler
\* (timers.c:158-162).
THEOREM EveryInterruptAcknowledged ==
  ASSUME PromptlyArmed, FreshHpet
  PROVE  Spec => []NothingLeftInService
<1>1. IInv => NothingLeftInService
  BY DEF IInv, Quiet, Running, NothingLeftInService
<1>. QED
  BY <1>1, AlwaysIInv, PTL

\* The uptime is never ahead of the time passed (timers.c:3, 160).
THEOREM UptimeNeverAhead ==
  ASSUME PromptlyArmed, FreshHpet
  PROVE  Spec => []TicksNeverAhead
<1>1. IInv => TicksNeverAhead
  <2>. SUFFICES ASSUME IInv, now < MaxTime PROVE ticks * TenMs <= now
    BY DEF TicksNeverAhead
  <2>1. /\ ticks \in Nat /\ now \in Nat /\ TenMs \in Nat /\ ticks_10ms \in Nat
        /\ lapic.cur \in Int
    BY TimersAssumption, TenMsType DEF IInv, TypeOK, LapicTimers
  <2>2. CASE pc # "hlt"
    <3>1. ticks = 0
      BY <2>2 DEF IInv, Quiet
    <3>. QED
      BY <2>1, <3>1
  <2>3. CASE pc = "hlt"
    <3>1. /\ lapic.cur <= ticks_10ms
          /\ Due * ticks_10ms + (ticks_10ms - lapic.cur) <= now
          /\ TenMs <= ticks_10ms
      BY <2>1, <2>3
         DEF IInv, Running, Measured, CalibrationLongEnough, Calibrated
    <3>2. Due \in Nat /\ ticks <= Due
      BY <2>1 DEF Due
    <3>3. ticks * ticks_10ms <= Due * ticks_10ms
      BY <2>1, <3>2, ProductMonotone
    <3>4. TenMs * ticks <= ticks_10ms * ticks
      BY <2>1, <3>1, ProductMonotone
    <3>5. TenMs * ticks = ticks * TenMs /\ ticks_10ms * ticks = ticks * ticks_10ms
      BY <2>1
    <3>6. Due * ticks_10ms \in Nat /\ ticks * ticks_10ms \in Nat
          /\ ticks * TenMs \in Nat
      BY <2>1, <3>2
    <3>. QED
      BY <2>1, <3>1, <3>3, <3>4, <3>5, <3>6
  <2>. QED
    BY <2>2, <2>3
<1>. QED
  BY <1>1, AlwaysIInv, PTL

=============================================================================
