-------------------------------- MODULE Vga --------------------------------
(***************************************************************************)
(* The console shared by the kernel's one thread and its interrupt         *)
(* handlers.  The thread executes kputchar one memory access at a time, as *)
(* the code compiled without optimisation does; an interrupt handler runs  *)
(* with interrupts disabled, so each of its calls is one step that may     *)
(* come between any two steps of the thread.                               *)
(*                                                                         *)
(* The thread starts in initialize_video (vga.c:18-40), which calls         *)
(* set_mem_page_flags (mem.c:44-84) for every address of the frame buffer. *)
(* Each such call reports on the screen what it does, and clears the       *)
(* screen again.  The first state is the one in which the first of these   *)
(* calls has blanked the back buffer, whatever was in it (mem.c:47): the   *)
(* cursor is at the origin and the screen is not yet written to.           *)
(***************************************************************************)
EXTENDS Console

CONSTANTS
  LineLimit,    \* the most characters anyone prints or types on one line
  IrqAnywhere   \* TRUE: handlers print at any time once interrupts are
                \* enabled; FALSE: only when the thread has reached the
                \* hlt loop that ends main

ASSUME VgaAssumption ==
  /\ LineLimit \in Nat \ {0}
  /\ LineLimit * Advance < U16
  /\ IrqAnywhere \in BOOLEAN
  /\ Height <= HRes

VARIABLES
  con,    \* the console, see Console
  stage,  \* how far the thread has come, see Stages
  pc,     \* where the thread is inside kputchar
  arg,    \* the character the thread is putting
  at,     \* the cursor position from which it computed pos (vga.c:85-87)
  reg     \* the register of a load, add, store

vars == <<con, stage, pc, arg, at, reg>>

\* report    set_mem_page_flags prints (mem.c:48-59)
\* post      it prints on, after its first copy to the screen (mem.c:78-79)
\* posted    and after its second (mem.c:80)
\* cleared   it has called blank_output (mem.c:82)
\* returned  and copied that to the screen (mem.c:83)
\* main      initialize_video has returned, interrupts are disabled
\* irq       idt_init has enabled them
Stages == {"report", "post", "posted", "cleared", "returned", "main", "irq"}

\* Where the thread prints whatever it likes; how long a report is, and how
\* many addresses there are, is left open.
Printing == stage \in {"report", "post", "main", "irq"}

Locations == {"idle", "draw", "load_col", "store_col", "test_line", "scroll",
              "load_line", "store_line", "hlt"}

TypeOK ==
  /\ con \in Consoles
  /\ stage \in Stages
  /\ pc \in Locations
  /\ arg \in Chars
  /\ at \in [line : 0 .. U16 - 1, col : 0 .. U16 - 1]
  /\ reg \in 0 .. U16 - 1

\* The console and the thread after the kernel's first blank_output.
Init ==
  /\ con = [line |-> 0, col |-> 0, back |-> BlankBuffer, front |-> BootScreen]
  /\ stage = "report"
  /\ pc = "idle"
  /\ arg = Space
  /\ at = [line |-> 0, col |-> 0]
  /\ reg = 0

RoomOnLine == con.col < LineLimit * Advance

Goto(from, to) == pc = from /\ pc' = to /\ UNCHANGED stage

\* A call of the thread that is one step, between two others.
Call(from, to, after) ==
  /\ pc = "idle"
  /\ stage = from
  /\ stage' = to
  /\ con' = after
  /\ UNCHANGED <<pc, arg, at, reg>>

-----------------------------------------------------------------------------
(* The thread: kputchar of a character. *)

\* Enter with a printable character and compute its address.
BeginPut(c) ==
  /\ Goto("idle", "draw")
  /\ Printing
  /\ RoomOnLine
  /\ arg' = c
  /\ at' = [line |-> con.line, col |-> con.col]
  /\ UNCHANGED <<con, reg>>

Draw ==
  /\ Goto("draw", "load_col")
  /\ con' = [con EXCEPT !.back = Paint(con.back, Glyph(at.line, at.col), arg)]
  /\ UNCHANGED <<arg, at, reg>>

LoadCol ==
  /\ Goto("load_col", "store_col")
  /\ reg' = con.col
  /\ UNCHANGED <<con, arg, at>>

StoreCol ==
  /\ Goto("store_col", "idle")
  /\ con' = [con EXCEPT !.col = (reg + Advance) % U16]
  /\ UNCHANGED <<arg, at, reg>>

(* The thread: kputchar of a newline. *)

BeginNewLine ==
  /\ Goto("idle", "test_line")
  /\ Printing
  /\ con' = [con EXCEPT !.col = 0]
  /\ UNCHANGED <<arg, at, reg>>

\* Faulty variant: the test that lets one line too many through.
TestLineLate ==
  /\ pc = "test_line"
  /\ pc' = IF con.line > LastLine THEN "scroll" ELSE "load_line"
  /\ UNCHANGED <<con, stage, arg, at, reg>>

TestLine ==
  /\ pc = "test_line"
  /\ pc' = IF con.line = LastLine THEN "scroll" ELSE "load_line"
  /\ UNCHANGED <<con, stage, arg, at, reg>>

ScrollLine ==
  /\ Goto("scroll", "idle")
  /\ con' = kscroll_down(con)
  /\ UNCHANGED <<arg, at, reg>>

LoadLine ==
  /\ Goto("load_line", "store_line")
  /\ reg' = con.line
  /\ UNCHANGED <<con, arg, at>>

StoreLine ==
  /\ Goto("store_line", "idle")
  /\ con' = [con EXCEPT !.line = (reg + 1) % U16]
  /\ UNCHANGED <<arg, at, reg>>

(* The thread: set_mem_page_flags, after the printing of each of its parts. *)

FlushReport == Call("report", "post", flush_framebuffer(con))

FlushPost == Call("post", "posted", flush_framebuffer(con))

BlankPage == Call("posted", "cleared", blank_output(con))

FlushBlank == Call("cleared", "returned", flush_framebuffer(con))

\* The call for the next address: its blank_output.
BlankReport == Call("returned", "report", blank_output(con))

\* There is no next address: the blank_output that ends initialize_video.
EndInitialize == Call("returned", "main", blank_output(con))

(* The thread: the rest of main. *)

\* The end of idt_init.
EnableInterrupts == Call("main", "irq", con)

CallScroll == Call("irq", "irq", kscroll_down(con))

Halt ==
  /\ stage = "irq"
  /\ Goto("idle", "hlt")
  /\ UNCHANGED <<con, arg, at, reg>>

Thread ==
  \/ \E c \in Chars : BeginPut(c)
  \/ Draw
  \/ LoadCol
  \/ StoreCol
  \/ BeginNewLine
  \/ TestLine
  \/ ScrollLine
  \/ LoadLine
  \/ StoreLine
  \/ FlushReport
  \/ FlushPost
  \/ BlankPage
  \/ FlushBlank
  \/ BlankReport
  \/ EndInitialize
  \/ EnableInterrupts
  \/ CallScroll
  \/ Halt

-----------------------------------------------------------------------------
(* The interrupt handlers.  keyboard_handler puts the character of a key,  *)
(* a newline or a backspace; the default branch of interrupt_handler       *)
(* prints a line of its own.                                               *)

Interruptible == stage = "irq" /\ (IrqAnywhere \/ pc = "hlt")

Handler(after) ==
  /\ Interruptible
  /\ con' = after
  /\ UNCHANGED <<stage, pc, arg, at, reg>>

KeyChar(c) == RoomOnLine /\ Handler(Put(con, c))

KeyEnter == Handler(NewLine(con))

KeyBackspace == Handler(backspace(con))

\* "Unexpected Interrupt: 0x..", its text standing for one character.
UnexpectedInterrupt(c) == RoomOnLine /\ Handler(NewLine(Put(con, c)))

Interrupt ==
  \/ \E c \in Chars : KeyChar(c) \/ UnexpectedInterrupt(c)
  \/ KeyEnter
  \/ KeyBackspace

Next == Thread \/ Interrupt

Spec == Init /\ [][Next]_vars

-----------------------------------------------------------------------------
(* Safety. *)

\* The cursor is on a line of the screen, so that what is printed next can be
\* seen and the test for equality with max_text_line (vga.c:75) keeps working:
\* past the last line it would never scroll again.
CursorOnScreen == con.line <= LastLine

\* The glyph about to be drawn lies inside the back buffer and does not run
\* over the right edge into the next rows (vga.c:83-119 checks neither).
DrawInBounds ==
  pc = "draw" =>
    /\ Glyph(at.line, at.col) \subseteq Pixels
    /\ at.col + GlyphW <= Width

Cell(l, k) == Glyph(l, k * Advance)

CellPixels == UNION {Cell(l, k) : l \in 0 .. LastLine, k \in 0 .. Cols - 1}

\* The gap between characters, the right margin and the rows below the last
\* text line are never drawn on, whatever is printed, erased and scrolled; and
\* once the first report is on the screen (mem.c:60), nothing of what the boot
\* loader left there is seen in them, for the copy is of the whole screen.
MarginsBlank ==
  \A p \in Pixels \ CellPixels :
    /\ con.back[p] = Blank
    /\ con.front[p] = Blank \/ (con.front = BootScreen /\ stage = "report")

\* Every cell, in memory and on the screen, shows one character: no call
\* leaves it with rows of two (vga.c:104-119 and the row copies of 128-133).
CellsLegible ==
  \A l \in 0 .. LastLine, k \in 0 .. Cols - 1 :
    \A p, q \in Cell(l, k) :
      con.back[p] = con.back[q] /\ con.front[p] = con.front[q]

-----------------------------------------------------------------------------
(* Refinement: the console as it will be when the call in progress returns. *)

Completed ==
  CASE pc = "draw" -> Put(con, arg)
    [] pc \in {"load_col", "store_col"} ->
         [con EXCEPT !.col = (con.col + Advance) % U16]
    [] pc \in {"test_line", "scroll", "load_line", "store_line"} ->
         NextLine(con)
    [] OTHER -> con

GridOf(buf) ==
  [l \in 0 .. LastLine |->
     [k \in 0 .. Cols - 1 |-> buf[l * FontSize * Width + k * Advance]]]

Term == INSTANCE Terminal WITH
  Lines <- LastLine + 1, Columns <- Cols,
  grid <- GridOf(Completed.back), line <- Completed.line,
  col <- Completed.col \div Advance, shown <- GridOf(Completed.front)

\* Taken together, the steps of each call have the effect of one operation of
\* the terminal: pixel arithmetic, row copies and split updates included.
ImplementsTerminal == Term!Spec

\* Between two calls nothing is drawn where text is still to come: kputchar
\* "puts the character at the next location" (vga.txt:10), and what a scroll
\* moves or an erasure leaves there (vga.c:123-144, 253-262) is blank.
NothingAhead == pc \in {"idle", "hlt"} => Term!AheadEmpty

=============================================================================
