# flosp-os: TLA+ models and proofs

flosp-os is a UEFI boot loader (`src/bootloader`) and a single-CPU x86-64 kernel
(`src/os`).  The kernel has one thread (`main` in `kernel.c`) and interrupt
handlers that run with interrupts disabled, so its only concurrency is *one
thread, one interrupt handler at a time, and the hardware* (timers, the PS/2
controller, the firmware).  Almost every hard behaviour of the code lives in
that triangle: a handler that runs between two instructions of the thread, a
device that answers late or not at all, a firmware call that fails, and
arithmetic on 16-, 32- and 64-bit registers.

All paths below are relative to the repository root.

## 1. Inventory

| component | source | state it keeps | operations |
|---|---|---|---|
| boot loader sequence | `src/bootloader/src/main.c`, `fs.c` | `status`, `BootInfo`, memory map and key, entry point | `efi_main`, `get_memory_map`, `compare_efi_guid`, `init_efi_fs` |
| kernel loader | `loader.c`, `elf.c` | file position, pool buffers, physical memory | `load_kernel`, `load_program_segments`, `load_segment`, `read_elf_identity`, `validate_elf_identity`, `read_elf_file` |
| boot-time video | `video.c` (bootloader) | graphics mode | `graphics_init`, `find_graphics_mode`, `set_graphics_mode`, printing |
| console | `drivers/vga.c`, `kernel/message.c` | `text_line`, `text_col_px`, `max_text_line`, back buffer, frame buffer | `initialize_video`, `blank_output`, `kputchar`, `kscroll_down`, `backspace`, `flush_framebuffer`, `kprint`, `kern_log` |
| number formatting | `vga.c` `kprint_num/hex/bin`, `video.c` `efi_printnum/hex` | a digit stack | convert, reverse, terminate |
| interrupt dispatch | `cpu/idt.c`, `cpu/isr.s`, `cpu/gdt*` | the IDT, IF, PIC masks, the saved frame | `idt_init`, `interrupt_handler`, `page_fault_handler`, ISR stubs |
| local APIC | `cpu/apic.c` | `lapic_addr`, base MSR, spurious register | `enable_lapic`, `disable_pic8259`, `lapic_set_base`, `lapic_get_base` |
| timers | `kernel/timers.c` | `ticks`, `lapic_timer_enabled`, HPET addresses and period | `timers_init`, `pit_init`, `pit_disable`, `hpet_init`, `poll_hpet`, `hpet_sleep`, `sleep_timer`, `lapic_timer_init`, `timer_handler` |
| ACPI tables | `cpu/acpi.c` | table pointers, LAPIC address | `acpi_vcheck`, `acpi_ccheck`, `acpi_init`, `get_acpi_table`, `get_madt_entry_addr`, `check_ps2` |
| PS/2 controller | `drivers/ps2.c` | `port1`, `port2`, `dual_channel`, `ps2_error`, identities | `ps2_init`, polling reads and writes with time-outs, `ps2_wait_for_ack`, `ps2_port_identify` |
| keyboard | `drivers/keyboard.c` | `keyboard_enabled`, `shift_down` | `keyboard_init`, `ps2_scancode_correction`, `keycode_char`, `keyboard_handler` |
| memory | `drivers/mem.c`, `mem_asm.s` | page tables | `memcpy`, `memset`, `get_mem_page`, `set_mem_page_flags` |
| kernel main | `kernel/kernel.c`, `power_mgmt.c`, `sysprompt.c` | the boot order | `main`, `cpu_freeze`, `enter_sysprompt` |
| port I/O, USB, mouse, FAT32 stubs | `io.c`, `usb.c`, `mouse.c`, `fat32.c` | a flag each | one-line accessors |

**How they interact.**  The boot loader fills `BootInfo` and jumps to `main`.
`main` calls the components in order: console, GDT, IDT (`sti` happens here),
ACPI checks, LAPIC, timers, prompt.  From `sti` on, an interrupt gate may enter
`interrupt_handler` between any two instructions of `main`; the handler shares
`ticks`, `lapic_timer_enabled`, the console and the PS/2 data port with it.
Every component reports through the console; none of them checks an answer from
it.  PS/2 time-outs read `ticks`, which only the timer interrupt advances.

**What is hard, component by component**

* *console*: `kputchar` is several memory accesses (test, draw, advance) and an
  interrupt handler may print in the middle of it; the cursor is 16 bits and has
  no right margin; scrolling copies overlapping rows with `memcpy`; the screen is
  only refreshed by a scroll and by `set_mem_page_flags`, which reports there what it
  does while `initialize_video` runs; clearing does not refresh it.
* *timers*: the timer interrupt is armed before the flag its handler tests is
  set; calibration multiplies a free-running counter in 64 bits; without an HPET
  calibration waits for a tick nothing produces.
* *PS/2*: every time-out races a late answer; `ps2_error` is a global that a
  failed command leaves set for the next one; "not tested" and "passed" are both
  true in C.
* *boot loader*: `EFI_STATUS` is unsigned, so `EFI_ERROR(a)`, `(a < 0)`
  (`efi.h:17`), is never true and no firmware failure is seen.
* *page tables*: bit 12 means PAT in a large page and an address bit in a 4 KiB
  one.
* *ACPI*: table walks are bounded by pointer arithmetic of the wrong unit.
* *keyboard*: the shift state follows make and break codes that the flush of
  another handler may take away.
* *interrupts*: the PICs are programmed twice, the second time with interrupts
  enabled; an end-of-interrupt write names no line, and one code path ends the
  service of PIC, LAPIC and spurious interrupts alike.  Three macros of sixteen
  pushes and pops save and restore the interrupted code, `rsp` among them.

`main` calls neither `ps2_init` nor `keyboard_init` at this commit
(`kernel.c:31-38`), so of the PS/2 and keyboard code only the handlers run; the
models of the two drivers execute the calls where the comments have them.

## 2. Modules and plan

Written, in the order in which they were:

| module | models | extends |
|---|---|---|
| `Console` | what each operation of `vga.c` does to cursor, back buffer and frame buffer, pixel by pixel | |
| `Terminal` | abstract: a character terminal of lines and columns | |
| `Vga` | the thread inside `kputchar`, step by step, with handlers that print between two steps | `Console` |
| `Timers` | `timers_init`, `timer_handler`, LAPIC timer, HPET, PIT and time | |
| `Efi` | the status codes and `EFI_ERROR` of `efi.h` | |
| `Loader` | `load_kernel`, one firmware call or a few at a time, with file, pool and physical memory | `Efi` |
| `EfiBoot` | `efi_main`: graphics, the XSDP search, the memory map, `ExitBootServices`, and a firmware that allocates | `Efi` |
| `Pic` | `idt_init`, `disable_pic8259`, the two PICs, delivery and the end-of-interrupt writes of `interrupt_handler` | |
| `IsrStub` | the stubs of `isr.s` over a stack of words, and the fields of `cpu_status_t` | |
| `Interrupts` | `Pic` with the registers and the stack of the interrupted thread, and its exceptions | `Pic`, `IsrStub` |
| `Ps2` | `ps2_init`, the polling loops, the acknowledgements, the identification, with controller, devices and the flush of IRQ 12 | |
| `Keyboard` | `keyboard_init`, `keyboard_handler`, and users at the keyboards | `Ps2` |
| `PageTable` | `get_mem_page`, `set_mem_page_flags` | |
| `Acpi` | the checks of the XSDP, the walks over XSDT and MADT, the LAPIC's base | |
| `Digits` | the number conversions of kernel and loader | |
| `Kernel` | `main`, from the frame buffer to the prompt or to `cpu_freeze` | `PageTable`, `Acpi`, `Digits` |
| `MCVga`, `MCTimers`, `MCLoader`, `MCEfiBoot`, `MCPic`, `MCKeyboard`, `MCKernel` | the small instances TLC checks | |
| `VgaProofs`, `TimersProofs`, `LoaderProofs`, `EfiBootProofs`, `InterruptsProofs`, `KernelProofs`, `KeyboardProofs` | the theorems | the component, `TLAPS` |
| `DialogueProofs` | the theorems about what the keyboards answer | `KeyboardProofs` |

Planned: one module in which `main`, the interrupts, the timers and the console run
together: the PICs left unmasked are what lets handlers print in the middle of
`kputchar`, which today two runs show one half of each.

## 3. How the models correspond to the code

`PROJECT.json` maps every definition to its lines; this is the idea of each.

**Console, Vga.**  A buffer is a function from pixels to the glyph row that colours
them (a character, blank, or what the boot loader left).  `text_line`,
`text_col_px` and `max_text_line` are `con.line`, `con.col` and `LastLine`; the
cursor is counted modulo `U16`.  `Console` has one operator per function, from
console to console; `Vga` splits `kputchar` at its memory accesses (`pc`, with the
register of `text_col_px += 9` in `reg`) and lets an interrupt handler apply whole
operators between two steps, as interrupt gates disable interrupts.  Colours and
glyph bit patterns are abstracted.  `stage` is how far `main` has come: in
`initialize_video` each call of `set_mem_page_flags` clears the text, prints a report,
copies it to the screen twice, clears the text again and copies that (`mem.c:44-84`), and
the first state is after the first of these clears, with the boot loader's picture still on
the screen; then come the clear of `vga.c:39`, `idt_init`, from which on interrupts are
enabled, and the rest of `main`.  How long a report is and how many addresses are reported
is left open.  `Terminal` clears its text without touching the screen, as `blank_output`
does; `vga.txt:7` says otherwise (section 6).

**Timers.**  One unit of time is one count of the LAPIC timer and one of the HPET;
the action `Elapse` moves both.  The thread's `pc` has a place for each register
access or loop of `timers_init`; the constant `Slow` names the places at which time
may pass.  `poll_hpet` multiplies modulo `U64`.  The handler is `test`, `count`,
`eoi`, `iret`; the vector's request and in-service bits are in `lapic`.

**Loader.**  A file is its identity, size and program headers; a memory cell holds the
offset of the file cell copied there, or a mark (zero, junk, firmware, the entry
point).  `Step` applies `EFI_ERROR` to every status exactly as `efi.h:17` does, an
unsigned number compared with zero, so the early returns of the code are in the
model and cannot be taken, which is what the program does.  Address 0 is where
`*KernelEntryPoint` is, because `efi_main` passes `NULL`.

**EfiBoot.**  The firmware is the key and the number of descriptors of its memory
map; every allocation moves the key and adds up to two descriptors.
`FirmwareEvent` is the firmware's own.  `FindXsdp` has the index arithmetic of the
search: turn *i* tests the GUID of entry 2*i* (anything, beyond the table) and the
signature of entry *i*.

**Pic.**  `Program` is the sequence of port writes and `sti` that the thread executes,
with the values of `apic.h`; `Command` and `Data` decode them as an 8259 does,
including the initialization sequence, which clears the mask.  `frames` is the stack
of interrupts in progress, each with the lines it put in service.  A device may withdraw
its request before the PIC is asked for the vector: the master then says IRQ 7, and the
slave, if the master has put the cascade line in service already, IRQ 15.  `Stubs` are the
vectors that `isr_stub_table` has an entry for; gate 47 leads nowhere the source says, so an
interrupt through it is delivered and followed no further (`Lost`).

**IsrStub, Interrupts.**  A stack is the sequence of its words and `rsp` its length.
`Saved` is a stub up to the call, `Restored` the rest of it: the pops in the order of the
source, of which that of `rsp` moves the stack.  `Field` reads a word by its place in
`cpu_status_t`, so the order of the pushes and that of the structure are compared.
`Interrupts` adds to every delivery of `Pic` the frame it pushes; the handler may change
every register.  Exceptions happen in the thread only, between two of its steps, once
interrupts are on; those with an error code end in `cpu_freeze`, others are treated as an
unexpected interrupt, which is what `idt.c:61` does.

**Ps2, Keyboard.**  A byte is the set of its one bits.  `todo` is the sequence of
operations the thread has still to execute: a call puts those of its body in front, and
`ps2_init` is the sequence of its calls, with an operation for each decision.  Where a loop
tests the status port and then reads the data port, the two are one step: a handler
between them reads the same byte, and is in the model the handler before the step.  The
handler of IRQ 12 flushes in a loop of its own, while the devices go on; that of IRQ 1 is
one step.  Time is followed only in the two loops that look at it.  The controller has one
input and one output buffer, a device a queue of answers; a controller with one port
passes the bytes meant for a second to the first, as such a controller does.  What is said
on the console is left out.

**PageTable.**  Addresses are numbers of 4 KiB pages, an entry is its bit 7 and its bits
from 12 up, and is named by the indices that lead to it.  One call of
`set_mem_page_flags` stands for those of all bytes of a page, which set the same bit.

**Acpi, Kernel.**  The MADT is the sequence of its entries and of what lies behind it in
memory, as its walk is not bounded by its length.  A checksum is taken of the bytes that
are summed, modulo 256.  `Kernel` has one action for each call of `main` that decides or
stores something, and the prompt's loop.

**Digits.**  A conversion is a function from a number to the sequence of its digits:
`Left` is what the first loop has left of the number after each turn, `StackTop` where it
ends, `Exchanged` the exchange loop with its bound, `Text` what is in the buffer in front of the NUL.  The properties read the text
again and compare the value.

## 4. Runs

| run | question | result |
|---|---|---|
| `vga_halted` | with handlers printing only once `main` halts, and lines that fit, do the cursor, the drawing, the scrolling and their split updates amount to a character terminal? | yes |
| `vga_irq_anywhere` | does the cursor stay on the screen when handlers print at any time? | violated |
| `timers` | are calibration, uptime and acknowledgement right for every HPET table and delay, and does the timer go on? | yes, if the flag is set before an interrupt comes due; it goes on with a usable HPET |
| `timers_no_hpet` | does `timers_init` return without an HPET? | violated |
| `loader` | for 880 kernel files: is the kernel in memory, nothing else overwritten, every buffer freed once? | yes |
| `boot` | is the kernel entered with boot services ended, a current memory map, a frame buffer, an RSDP? | yes, with a quiet firmware |
| `boot_xsdp` | is a machine with an ACPI 2.0 table accepted? | violated |
| `pic` | while the PICs are programmed: are only the IRQs' vectors delivered, and which without a stub, is each end-of-interrupt write the right one, does the handler see what happened, does the thread get its registers back? | yes; only the slave's spurious vector has no stub |
| `pic_unmasked` | are the PICs silent after `disable_pic8259`? | violated |
| `ps2` | for every pair of devices: does initialization end, is the controller left configured, is a keyboard known and enabled, does nothing stay stuck? | yes |
| `ps2_found` | is every keyboard on a port that works enabled? | violated |
| `kernel` | is the frame buffer marked and nothing else, does the kernel freeze exactly if it must, is the LAPIC where it is looked for, can numbers be read? | yes, on large pages, without address overrides |

**Bounds, and why they are enough.**  *vga*: two text lines of two cells, a gap column
after each and a leftover row of pixels, two printable characters (symmetric): every
kind of pixel and cell exists, both scroll and no scroll occur, and a line holds at
most `LineLimit` characters.  The screen is square because `flush_framebuffer` copies
`HorizontalResolution` rows; `Height <= HRes` is assumed.  *timers*: a sleep of three
units, a count of six, the HPET starting at 0 to 3; time stops at three ticks, which
is enough for an interrupt to follow an interrupt.  *loader*: two segments, three
page-aligned addresses, file and memory sizes 0 to 3 with pages of two cells, so
incomplete pages, empty data, zero fill and adjacent segments occur; pages the firmware
keeps lie between them.  Files are well formed (whole, linked to free pages).
*boot*: up to three configuration tables in any order, one or two modes, one event of
the firmware's.  *pic*: four devices, two on each PIC, of which one each may withdraw its
request, so that either PIC delivers spurious interrupts; two interrupts inside one another would be possible, so that the invariants
say something; exceptions without error code, with code 0 and with another.  *ps2*: all
pairs of keyboard, mouse and nothing, with one port or two, each byte of an exchange asked
for once more by each device; a time-out of two ticks, so that an answer comes before it,
at its edge or not at all; a letter and both shift keys; and no
byte waiting when a key is pressed.  *kernel*: tables of two entries, so that a frame
buffer of one to five pages begins and ends inside and outside of every kind of page, and
each mixture of 1 GiB, 2 MiB and 4 KiB pages occurs; the prompt's numbers 0 to 999
and the buffers of the code, 20, 16 and 64 characters.

**Fairness** (`timers`, `timers_no_hpet`, `ps2`).  In *timers* the thread is strongly
fair: interrupts at 100 Hz leave it time to run.  A handler runs to its end and a pending
interrupt is delivered as soon as the LAPIC allows; time passes; and the polling loop of
`hpet_sleep` reads the counter far more often than it wraps.  In *ps2* the CPU runs thread
and handlers, the hardware goes on, and a controller or device that answers does so before
a time-out is over; the user need not type.

**What the runs leave out on purpose.**  `loader` is given files linked to free pages:
if they are not free, `AllocatePages` fails, the failure is not seen, and the segment
overwrites what is there; likewise a short `Read` is not noticed, and a file with a wrong
identity or without segments is "loaded".  `boot` keeps the firmware quiet between the
size of the memory map and `ExitBootServices`: otherwise the key is refused, and the
kernel starts with boot services running.  `timers` keeps the HPET's counter below the
points where the product of `poll_hpet` or the counter itself wraps: otherwise the sleep
ends at once or never; and it lets no interrupt come due between the two stores of
`timers.c:153-154`, which would never be acknowledged.  `vga_halted` and the theorems about the console
have no line longer than the screen is wide, as nothing compares the column with the width,
and a screen no higher than wide, of which `flush_framebuffer` copies every row (what it
copies beyond is not modelled).  `pic` has no device at IRQ 15,
though its vector, 47, is delivered as the slave's spurious one, and no #CP or #VC (vectors 21 and 29), whose stubs do not expect the error code that the CPU pushes.  `ps2` has devices that send
nothing of their own before initialization is over, because a byte after the flush of
`ps2.c:199` is written back as the configuration; none that asks for the parameter of 0xF0
again, because the driver does not wait for its acknowledgement; and a user at port 1 only,
because the flush of IRQ 12 takes bytes of either port.  `MappedAsBefore` is about frame
buffers on large pages: in a 4 KiB page bit 12 is part of the address, and every other page
becomes its neighbour.  `LapicReachedUsually` excludes address overrides, as `enable_lapic`
writes the old base back, and bases that are no multiple of 64 KiB.  Each of these is a hazard of the code, listed with its line in
`PROJECT.json`.

## 5. What is proved

All theorems hold for every value of the constants that satisfies the named assumption of
its module; those that assume more say so, and this is the list of what they assume.  The
safety properties were model-checked before they were proved, most invariants too; those that
no passing run lists are `CursorOnScreen`, part of the invariant of the console, and
`EveryVectorHasStub`.

| module | theorems | assumed beside the constants' types |
|---|---|---|
| `VgaProofs` | `TypeCorrect` | |
| | `CursorStaysOnScreen`, `DrawingInBounds`, `MarginsAlwaysBlank`, `CellsAlwaysLegible`, `NothingAheadEver`, `ConsoleImplementsTerminal` | `Disciplined` |
| `TimersProofs` | `TypeCorrect` | |
| | `CalibrationNeverShort`, `EveryInterruptAcknowledged`, `UptimeNeverAhead` | `PromptlyArmed`, `FreshHpet` |
| `LoaderProofs` | `TypeCorrect`, `PoolAlwaysBalanced` | |
| | `KernelAlwaysInMemory`, `OnlyOwnPagesWritten` | `Linked` |
| `EfiBootProofs` | `TypeCorrect`, `VideoAlwaysHandedOver`, `XsdpAlwaysHandedOver`, `TargetModeAlwaysSet` | |
| | `KernelAlwaysOwnsMachine` | `Quiet` |
| `InterruptsProofs` | `OwnServiceEnded`, `ServiceAlwaysEnded` | |
| | `KernelVectorsOnly` | `NoIrq15` |
| | `StubForEveryVector` | `NoIrq15`, `SlaveSteady` |
| | `TypeCorrect`, `ContextAlwaysKept`, `HandlerAlwaysSees`, `ErrorsAlwaysFreeze` | `CodesAsStubs` |
| `KernelProofs` | `TypeCorrect`, `OthersAlwaysKept`, `FreezesExactly`, `IdentityMapsAll` | |
| | `AlwaysMappedAsBefore` | `IdentityMapped` |
| | `LapicAlwaysReached` | `MadtTruthful` |
| | `NumbersAlwaysRead` | `NumbersFit` |
| `KeyboardProofs` | `TypeCorrect`, `ConfigAlwaysKept`, `NeverStuck` | |
| `DialogueProofs` | `IdentifiedCorrectly` | `Patient` |
| | `EnabledCorrectly` | `Patient`, `Byte(1) \notin Resendable` |
| | `ShiftReleased` | `Patient`, `Byte(1) \notin Resendable`, `TypedOn \subseteq {1}` |

* **Vga.**  `ConsoleAssumption` and `VgaAssumption` say that sizes are positive, a glyph fits
  its cell and the screen, that the screen is copied whole (`Height <= HRes`), and that the
  cursor's arithmetic fits 16 bits.  `TypeCorrect` needs no more.  `Disciplined`: handlers
  print only once the thread has halted, and no line is longer than the screen is wide.
  Without the first the run `vga_irq_anywhere` shows the cursor leave the screen.  The
  invariant `IInv` adds to the properties that the cursor stands at a cell (`CursorAtCell`)
  and what each place of the thread knows (`ThreadUpToDate`: the value of `reg`, whether the
  line tested is the last, that the position drawn at is the cursor's): the tests of
  `kputchar` are of use only together with where the thread is.  `MarginsBlank` and
  `CellsLegible` are one invariant of both buffers: a `Tidy` buffer is a grid of cells, each
  of which shows one glyph or nothing.  `PaintTidy` and `ScrollTidy` say that a glyph drawn at
  a cell, and the copy of overlapping rows by one text line, keep it so; from them `GridPaint`
  and `GridScroll` compute the grid that follows, and `StepRefines` that this is the
  terminal's next state: the steps inside `kputchar` map to stutters and the one that moves
  the cursor to the whole operation, because the mapping completes a character half printed
  (`Completed`).  `NothingAheadEver` is proved of the terminal, whose operations keep it, and
  holds of the code by the refinement.  The pixel arithmetic stands at the front of the module.
* **Timers.**  `TimersAssumption` says that the quantities are natural numbers, that the HPET's
  counter reaches the bound `HpetLimit` without wrapping, and that 10 ms fit the LAPIC's
  counter.  `PromptlyArmed`: no time passes between the store that arms the timer and the
  flag (the handler acknowledges nothing before the flag is set).  `FreshHpet`: the product of
  `poll_hpet` is far from wrapping.  `IInv` has four parts next to the types: `Quiet` (before
  `main` halts nothing is counted and the LAPIC has delivered nothing), `OnlyLapic` (only a
  machine with an HPET gets past the sleep, and its PIT is off), `Measured` (during the sleep,
  what the LAPIC has counted covers what the HPET has moved since `end_time` was computed;
  after it, at least 10 ms) and `Running` (the ticks counted, those on their way and the count
  under way are no more than the time passed).
* **Loader.**  `Linked`: the file is well formed and its segments lie on pages that are free,
  each on its own.  `Kept` says what the loader remembers of the file and which buffers are
  its own, for every file; `Loading`, under `Linked`, that the segments before the present one
  are in memory, and how far the present one is.  The round-up of `loader.c` is the lemma
  `PageRangeCovers`: the pages allocated cover the segment, for every page size.
* **EfiBoot.**  `Quiet`: the firmware changes its memory map at none of the three places
  between the size of the map and `ExitBootServices`.  `Handed` says, place by place, what
  `BootInfo` holds; `MapRight` that the buffer takes the map although its own allocation has
  made the map longer, and that the key is the current one.
* **Interrupts.**  `NoIrq15`: nothing is attached to the line whose gate has no stub.
  `SlaveSteady`: no device of the slave's withdraws a request; with one that does, vector 47
  is delivered without a device at IRQ 15, which is the exception that `OnlyKernelVectors`
  makes.  The other theorems hold with such devices too: nothing is said of what runs behind gate 47, but that
  what it interrupted does not go on (`Astray`).
  `CodesAsStubs`: an exception carries an error code if and only if its stub is one of
  `isr_err_stub`, which leaves out #CP and #VC.  The invariant has two halves.  `PicInv` is
  about the two PICs: where each is in its initialization sequence as a function of the
  thread's place, so that a line can be requested while the vectors are still the firmware's
  but never delivered with them.  `ThreadInv` is about the stack: below the thread's own words
  lies what the processor and the stub have pushed, word by word (`RegistersPushed`), and
  `Unwound` says that the pops give back each register, `rsp` last, for every stack and every
  value.
* **Kernel.**  `PagesInv`: each entry is the firmware's, or the firmware's with the flag, its
  page size is unchanged, and those of the pages done are marked; a place marked twice keeps
  its value, which is what makes the loop over bytes harmless.  `BootInv`: at each place of
  `main`, what the checks passed so far have established.  `IdentityMapped`: every page of the
  firmware's tables leads to itself.  `IdentityMapsAll` shows that this holds for every mixture
  of 1 GiB, 2 MiB and 4 KiB pages, and TLC evaluates it on the machines of `MCKernel`.
  `MadtTruthful`: the base the MADT gives is the one the LAPIC has; `LapicReachedUsually`
  itself is about machines whose base is a multiple of 64 KiB and whose MADT has no address
  override, nor what looks like one behind it.  `NumbersFit`: the
  numbers of the prompt have 16 bits and the buffers hold as many digits and a NUL; the code's
  numbers and sizes satisfy it, which TLC evaluates.  The functions of `Digits` are recursive,
  so `LeftIs` first shows, by the least number at which it could fail, that there is one, and
  `ReadBack` that a text has one value only.  `Printed`, the reversed remainders of what is
  left, is then read back digit by digit as what was left before them (`ValueIs`), up to the
  number itself.
* **Keyboard.**  The types hold together with the shape of what the thread has still to
  execute (`TodoIn`): what waits for a byte of an identity stands only in front, and only
  where there is room for the byte.  `ConfigKept` follows `ps2_init` place by place
  (`Starting`, `Testing`, `Enabling`): each place says which operations are left and what the
  controller *will have* in its configuration once it has taken what is in its input buffer
  (`Coming`), because it takes a command at any time after the thread has sent it.  A step of
  the controller changes none of these predicates (`OthersRemain`); a step of the thread leads
  from a place to itself or to the next, also where an answer that no test expects is read
  again.  The dialogues are lemmas of their own (`WaitingStep`, `FetchingStep`,
  `StoringStep`), used wherever `ps2_init` asks for an answer, reads the configuration or
  writes it.  Until the interrupts are on, no device has been sent a byte and none has sent
  one, so that what is read is the controller's (`Early`).  At the end `ps2_init` has failed
  (`Unused`) or the configuration is as it should be and none of the operations left can
  change it (`Settled`).  `NothingStuck` is part of `Settled`: `keyboard_init` comes after
  everything else that waits for a byte, a flush follows the assignment of `keyboard_enabled`
  (`Ending`), and a port whose clock is on has its interrupt on, so that a byte that comes
  after the flush raises one.

* **Keyboard, the devices.**  `Story` adds to the invariant above the dialogues with the
  devices.  A dialogue (`Dialogue`) is the port the driver names; the device that hears it,
  which is that of port 1 where the controller has one port only; what that device
  identifies itself with; and whether its answers all arrive (`exact`), which is so at port 1
  alone, as the flush in the handler of IRQ 12 may take those of port 2.  `Due` is what of a
  device is still to be read, in the output buffer or in its queue.  Before each operation of
  a command (`Writes`, `Acknowledging`) a byte is not taken yet, refused, accepted, or its
  answer is lost (`Pending`); what has been read is the acknowledgement, a request for the
  byte again, or something nobody waits for (`Heard`).  In `ps2_port_identify` (`Talk`) the
  response read so far, followed by what is due, is the device's identity, which is
  `Port1Identified` once nothing is due.  Lemmas say what each operation does to the
  operations left (`IdentifyHas`, `LoopHas`, ...) and that a step of a device, of the
  controller, of a handler or of a user leads from each state of a dialogue to a state of the
  same place.  From the identity on, `Correction` follows the change of the scan code set to
  the keyboard's acknowledgement of the parameter, which nobody waits for (`Finishing`).
  At the end `Following` says that `shift_down`, once all bytes that are due are handled
  (`Down`), is set only if a shift key is held.
  Why the hypotheses: `Patient`, a device asks for a byte again fewer times than a second has
  ticks.  `ps2.c:290` compares seconds with a number of ticks; a device that refuses for that
  long is given up while its answer is still on its way.  `Byte(1) \notin Resendable`: a
  request for the parameter of 0xF0 again is never served, and the keyboard keeps its old set.
  `TypedOn \subseteq {1}`: with a user at port 2 as well, `ShiftNeverStuck` is false; TLC finds
  a behaviour in which the handler of IRQ 12, which flushes whatever is in the output buffer,
  takes the break code of a shift key at port 1.  The constants of `ps2.cfg` satisfy all three.

**Only model-checked**: liveness (the prover handles neither fairness nor `ENABLED`):
`InitEnds` and the progress of the timers.  And what the runs that expect a violation show,
which are behaviours and no theorems.

## 6. Disagreements between code and comments

Each is shown by a run; `PROJECT.json` quotes the lines.

* A handler that prints inside `kputchar` moves the cursor past the last line
  (`vga.c:75-79`), and the console never scrolls again.
* Calibration without an HPET waits for ticks nobody counts (`timers.c:136`).
* The XSDP search skips an ACPI 2.0 table that comes first (`main.c:179`).
* `disable_pic8259` unmasks both PICs (`apic.c:16`).
* A keyboard at port 2 is not found where nothing is at port 1: the error flag of the
  first identification ends the second (`ps2.c:305`).

Five more are known and no run is kept for them:

* A handler that prints between the load and the store of the column (`vga.c:120`) has its
  text overwritten: `NothingAhead` is violated if `IrqAnywhere` is set to `TRUE` in
  `vga_halted.cfg`.
* `blank_output` blackens the buffer behind the screen, not the screen (`vga.c:50-66`), which
  shows what it showed until `flush_framebuffer` is called; `vga.txt:7` says "Fill the screen
  with black pixels".  `Terminal` describes what the code does here.
* The gate of IRQ 15 is filled from beyond the table of the stubs (`isr.s:206`), and vector 47
  is also the slave PIC's spurious one; the run `pic` delivers it (`AcceptSlaveSpurious`,
  `Lost`).
* The timer is armed before the flag its handler needs is set (`timers.c:153-154`).
* In its default build the loader prints after `ExitBootServices` (`main.c:275-282`).

## 7. Not modelled

Components with status `not_modelled` or `partly` in `PROJECT.json` say what is missing
and why.  In short: the processor accessors are one instruction each, and the USB, mouse and
FAT32 stubs have no behaviour to check; the load of the GDT, the write of the spurious
vector register and the TLB have no state that the code reads again; `validate_rsdp` is
called by nothing; exceptions inside a handler, and a second exception while one is
handled, would need the nested stacks of `IsrStub` and are left for later.  Glyphs, colours
and the wording of messages are data that no property is about.
