------------------------------- MODULE Timers -------------------------------
(***************************************************************************)
(* The kernel's timers (src/os/src/kernel/timers.c): timers_init run by    *)
(* the one thread, timer_handler run by the interrupt, and the hardware    *)
(* between them: the LAPIC timer, the HPET, the PIT, whose interrupt comes *)
(* through the same gate, and the time that passes.  A unit of time is one *)
(* count of the LAPIC timer, and one of the HPET, whose period in          *)
(* femtoseconds is HpetPeriod.                                             *)
(***************************************************************************)
EXTENDS Integers

CONSTANTS
  HpetTables,   \* what the ACPI HPET table may look like, see Tables
  HpetPeriod,   \* hpet_period
  HpetMod,      \* the modulus of the HPET's main counter (2^32 or 2^64)
  HpetLimit,    \* the highest main counter value when calibration starts
  U64,          \* 2^64, the modulus of poll_hpet's product and of end_time
  TenMsFs,      \* 10 * HPET_MILLISECONDS, in femtoseconds
  CountMax,     \* 0xFFFFFFFF, the initial count of calibration
  PitTicks,     \* the argument of sleep_timer (10)
  Slow,         \* the places of the thread at which time may pass
  MaxTicks,     \* bound: time stops when ticks reaches it
  MaxTime       \* bound: now stops being counted there

Tables == {"absent", "null_address", "not_memory", "revision_0", "usable"}

Places == {"hpet_init", "pit", "set_count", "log_sleep", "sample", "wait",
           "log_done", "mask", "read_count", "log_enable", "lvt", "arm",
           "enable", "hlt"}

\* The units of time in 10 ms, rounded up.
TenMs == (TenMsFs + HpetPeriod - 1) \div HpetPeriod

ASSUME TimersAssumption ==
  /\ {HpetPeriod, HpetMod, U64, TenMsFs, CountMax, PitTicks} \subseteq Nat \ {0}
  /\ {HpetLimit, MaxTicks, MaxTime} \subseteq Nat
  /\ HpetLimit < HpetMod
  /\ TenMs <= CountMax
  /\ HpetTables \subseteq Tables
  /\ Slow \subseteq Places

VARIABLES
  pc,        \* where the thread is in timers_init, then main's hlt loop
  handler,   \* where timer_handler is, or "none"
  ticks,
  lapic_timer_enabled,
  hpet_base, \* hpet_base_addr # NULL
  end_time,  \* of the sleep in progress
  ticks_10ms,
  lapic,     \* the LAPIC timer and the vector 0x20 bits of its IRR and ISR
  hpet,      \* the HPET's main counter
  table,     \* the machine's HPET table
  pit,       \* who programmed the PIT: "firmware", "kernel", or nobody, "off"
  now        \* the time since the timer was armed (timers.c:153)

thread == <<hpet_base, end_time, ticks_10ms>>
clock == <<ticks, lapic_timer_enabled>>
machine == <<table, pit>>
vars == <<pc, handler, thread, clock, lapic, hpet, machine, now>>

\* A LAPIC timer: its LVT entry, its two counts, and vector 0x20's bits.
LapicTimers ==
  [masked : BOOLEAN, periodic : BOOLEAN, init : 0 .. CountMax,
   cur : 0 .. CountMax, irr : BOOLEAN, isr : BOOLEAN]

TypeOK ==
  /\ pc \in Places
  /\ handler \in {"none", "test", "count", "eoi", "iret"}
  /\ ticks \in Nat
  /\ lapic_timer_enabled \in BOOLEAN
  /\ hpet_base \in BOOLEAN
  /\ end_time \in Nat
  /\ ticks_10ms \in 0 .. CountMax
  /\ lapic \in LapicTimers
  /\ hpet \in 0 .. HpetMod - 1
  /\ table \in HpetTables
  /\ pit \in {"firmware", "kernel", "off"}
  /\ now \in 0 .. MaxTime

\* The LAPIC timer as a reset leaves it; the HPET may have run for any time.
Init ==
  /\ pc = "hpet_init"
  /\ handler = "none"
  /\ ticks = 0
  /\ lapic_timer_enabled = FALSE
  /\ hpet_base = FALSE
  /\ end_time = 0
  /\ ticks_10ms = 0
  /\ lapic = [masked |-> TRUE, periodic |-> FALSE, init |-> 0, cur |-> 0,
              irr |-> FALSE, isr |-> FALSE]
  /\ hpet \in 0 .. HpetLimit
  /\ table \in HpetTables
  /\ pit = "firmware"
  /\ now = 0

-----------------------------------------------------------------------------
(* The thread. *)

\* The thread executes only while no handler runs.
Step(from, to) == handler = "none" /\ pc = from /\ pc' = to

hpet_init ==
  /\ Step("hpet_init", "pit")
  /\ hpet_base' = (table = "usable")
  /\ UNCHANGED <<handler, end_time, ticks_10ms, clock, lapic, hpet, machine, now>>

\* Faulty variant: pit_disable left out.
SetPitOnlyAsNeeded ==
  /\ Step("pit", "set_count")
  /\ pit' = IF hpet_base THEN pit ELSE "kernel"
  /\ UNCHANGED <<handler, thread, clock, lapic, hpet, table, now>>

\* pit_disable, whose mode makes no further interrupt, or pit_init.
SetPit ==
  /\ Step("pit", "set_count")
  /\ pit' = IF hpet_base THEN "off" ELSE "kernel"
  /\ UNCHANGED <<handler, thread, clock, lapic, hpet, table, now>>

WriteInitialCount(n) == lapic' = [lapic EXCEPT !.init = n, !.cur = n]

\* Faulty variant: 2^32 for the highest count.
SetCountHigh ==
  /\ Step("set_count", "log_sleep")
  /\ WriteInitialCount(CountMax + 1)
  /\ UNCHANGED <<handler, thread, clock, hpet, machine, now>>

SetCount ==
  /\ Step("set_count", "log_sleep")
  /\ WriteInitialCount(CountMax)
  /\ UNCHANGED <<handler, thread, clock, hpet, machine, now>>

\* kern_log prints every message at the default filter; it takes time.
Log ==
  /\ \/ Step("log_sleep", "sample")
     \/ Step("log_done", "mask")
     \/ Step("log_enable", "lvt")
  /\ UNCHANGED <<handler, thread, clock, lapic, hpet, machine, now>>

poll_hpet == (hpet * HpetPeriod) % U64

\* The first line of hpet_sleep, or of sleep_timer.
StartSleep ==
  /\ Step("sample", "wait")
  /\ end_time' = IF hpet_base THEN (poll_hpet + TenMsFs) % U64
                 ELSE ticks + PitTicks
  /\ UNCHANGED <<handler, hpet_base, ticks_10ms, clock, lapic, hpet, machine, now>>

SleepOver == end_time <= (IF hpet_base THEN poll_hpet ELSE ticks)

\* Their second line, one evaluation of the loop's condition.
EndSleep ==
  /\ SleepOver
  /\ Step("wait", "log_done")
  /\ UNCHANGED <<handler, thread, clock, lapic, hpet, machine, now>>

Spin ==
  /\ ~SleepOver
  /\ Step("wait", "wait")
  /\ UNCHANGED <<handler, thread, clock, lapic, hpet, machine, now>>

\* "Stop apic timer": masks its interrupt, the count goes on.
MaskTimer ==
  /\ Step("mask", "read_count")
  /\ lapic' = [lapic EXCEPT !.masked = TRUE, !.periodic = FALSE]
  /\ UNCHANGED <<handler, thread, clock, hpet, machine, now>>

\* Faulty variant: the count taken from one too low a maximum.
ReadCountLow ==
  /\ Step("read_count", "log_enable")
  /\ ticks_10ms' = IF lapic.cur < CountMax THEN CountMax - 1 - lapic.cur ELSE 0
  /\ UNCHANGED <<handler, hpet_base, end_time, clock, lapic, hpet, machine, now>>

ReadCount ==
  /\ Step("read_count", "log_enable")
  /\ ticks_10ms' = CountMax - lapic.cur
  /\ UNCHANGED <<handler, hpet_base, end_time, clock, lapic, hpet, machine, now>>

\* Faulty variant: the LVT entry without APIC_TIMER_MODE_PERIODIC.
SetOneShot ==
  /\ Step("lvt", "arm")
  /\ lapic' = [lapic EXCEPT !.masked = FALSE, !.periodic = FALSE]
  /\ UNCHANGED <<handler, thread, clock, hpet, machine, now>>

SetPeriodic ==
  /\ Step("lvt", "arm")
  /\ lapic' = [lapic EXCEPT !.masked = FALSE, !.periodic = TRUE]
  /\ UNCHANGED <<handler, thread, clock, hpet, machine, now>>

\* Faulty variant: a count from ticks_10ms - 1 down to 0, as if 0 counted.
ArmShort ==
  /\ Step("arm", "enable")
  /\ WriteInitialCount(ticks_10ms - 1)
  /\ now' = 0
  /\ UNCHANGED <<handler, thread, clock, hpet, machine>>

Arm ==
  /\ Step("arm", "enable")
  /\ WriteInitialCount(ticks_10ms)
  /\ now' = 0
  /\ UNCHANGED <<handler, thread, clock, hpet, machine>>

Enable ==
  /\ Step("enable", "hlt")
  /\ lapic_timer_enabled' = TRUE
  /\ UNCHANGED <<handler, thread, ticks, lapic, hpet, machine, now>>

\* The rest of main, until it halts; the timer interrupts it at any time.
Halt ==
  /\ Step("hlt", "hlt")
  /\ UNCHANGED <<handler, thread, clock, lapic, hpet, machine, now>>

Thread ==
  \/ hpet_init
  \/ SetPit
  \/ SetCount
  \/ Log
  \/ StartSleep
  \/ EndSleep
  \/ Spin
  \/ MaskTimer
  \/ ReadCount
  \/ SetPeriodic
  \/ Arm
  \/ Enable
  \/ Halt

-----------------------------------------------------------------------------
(* The interrupt: timer_handler, reached through gate 0x20. *)

\* The LAPIC delivers a vector only when none is in service.
Deliver ==
  /\ handler = "none"
  /\ lapic.irr
  /\ ~lapic.isr
  /\ lapic' = [lapic EXCEPT !.irr = FALSE, !.isr = TRUE]
  /\ handler' = "test"
  /\ UNCHANGED <<pc, thread, clock, hpet, machine, now>>

\* An interrupt of the PIT comes through the PIC, whose mask the ICW1 of
\* disable_pic8259 cleared (apic.c:16), to the same gate.
DeliverPit ==
  /\ handler = "none"
  /\ pit # "off"
  /\ handler' = "test"
  /\ UNCHANGED <<pc, thread, clock, lapic, hpet, machine, now>>

TestEnabled ==
  /\ handler = "test"
  /\ handler' = IF lapic_timer_enabled THEN "count" ELSE "iret"
  /\ UNCHANGED <<pc, thread, clock, lapic, hpet, machine, now>>

Count ==
  /\ handler = "count"
  /\ ticks' = ticks + 1
  /\ handler' = "eoi"
  /\ UNCHANGED <<pc, thread, lapic_timer_enabled, lapic, hpet, machine, now>>

\* Faulty variant: the handler that forgets the LAPIC and only tells the PIC.
EndOfPicInterrupt ==
  /\ handler = "eoi"
  /\ handler' = "iret"
  /\ UNCHANGED <<pc, thread, clock, lapic, hpet, machine, now>>

EndOfInterrupt ==
  /\ handler = "eoi"
  /\ lapic' = [lapic EXCEPT !.isr = FALSE]
  /\ handler' = "iret"
  /\ UNCHANGED <<pc, thread, clock, hpet, machine, now>>

Return ==
  /\ handler = "iret"
  /\ handler' = "none"
  /\ UNCHANGED <<pc, thread, clock, lapic, hpet, machine, now>>

Handler ==
  \/ Deliver
  \/ DeliverPit
  \/ TestEnabled
  \/ Count
  \/ EndOfInterrupt
  \/ Return

-----------------------------------------------------------------------------
(* The hardware. *)

BeforeSample == {"hpet_init", "pit", "set_count", "log_sleep", "sample"}

\* A count that ends raises the interrupt unless it is masked, and starts
\* again in periodic mode.
Counted(t) ==
  IF t.cur # 1
  THEN [t EXCEPT !.cur = IF t.cur = 0 THEN 0 ELSE t.cur - 1]
  ELSE [t EXCEPT !.cur = IF t.periodic THEN t.init ELSE 0,
                 !.irr = t.irr \/ ~t.masked]

\* One unit of time.  The HPET is followed for as long as it is polled.
Elapse ==
  /\ handler # "none" \/ pc \in Slow
  /\ ticks < MaxTicks
  /\ pc \in BeforeSample => hpet < HpetLimit
  /\ lapic' = Counted(lapic)
  /\ hpet' = IF pc \in BeforeSample \cup {"wait"} THEN (hpet + 1) % HpetMod
             ELSE hpet
  /\ now' = IF pc \in {"enable", "hlt"} /\ now < MaxTime THEN now + 1 ELSE now
  /\ UNCHANGED <<pc, handler, thread, clock, machine>>

Next == Thread \/ Handler \/ Elapse

Spec == Init /\ [][Next]_vars

\* The interrupts, at 100 Hz, leave the thread time to run; a handler runs to
\* its end and a pending LAPIC interrupt is delivered; time passes; and the
\* loop of hpet_sleep reads the counter far more often than it wraps around.
Fairness ==
  /\ SF_vars(Thread)
  /\ WF_vars(Handler)
  /\ WF_vars(Elapse)
  /\ SF_vars(Deliver)
  /\ SF_vars(EndSleep)

FairSpec == Spec /\ Fairness

-----------------------------------------------------------------------------
(* Properties. *)

Calibrated == pc \in {"log_enable", "lvt", "arm", "enable", "hlt"}

\* The count saved at timers.c:143 spans at least the 10 ms slept at 129,
\* whatever the two counters hold and however late the polls come.
CalibrationLongEnough == Calibrated => ticks_10ms >= TenMs

\* The uptime is never ahead of the time that passed since the timer was
\* armed (timers.c:3, "system uptime in 10 milliseconds"), though two sources
\* of interrupts share the gate that counts it.
TicksNeverAhead == now < MaxTime => ticks * TenMs <= now

\* No timer interrupt is left in service once its handler has returned: the
\* LAPIC would never deliver another one (timers.c:159 skips the EOI).
NothingLeftInService == lapic.isr => handler \in {"test", "count", "eoi"}

\* With a usable HPET the calibration ends, the timer starts and it goes on
\* interrupting (timers.c:117, "LAPIC timer will interrupt every 10 ms").
TicksAdvance == table = "usable" => <>(ticks >= MaxTicks)

\* timers_init returns.
InitReturns == <>(pc = "hlt")

=============================================================================
