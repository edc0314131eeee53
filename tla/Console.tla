------------------------------ MODULE Console ------------------------------
(***************************************************************************)
(* The kernel's text console (src/os/src/drivers/vga.c) as functions on    *)
(* its state, a record                                                     *)
(*                                                                         *)
(*   line   text_line,   the text line of the cursor (ui16_t)              *)
(*   col    text_col_px, the pixel column of the cursor (ui16_t)           *)
(*   back   the back buffer every operation draws into                     *)
(*   front  the frame buffer the screen shows                              *)
(*                                                                         *)
(* A buffer maps each pixel address, counted in pixels from the start of   *)
(* the buffer as the code's ui32_t* pointers do, to what was drawn there:  *)
(* Blank, the character whose glyph covers the pixel, or Boot for what the *)
(* boot loader left on the screen.  The bit pattern of a glyph and the     *)
(* colours are left out.                                                   *)
(***************************************************************************)
EXTENDS Integers

CONSTANTS
  Width,     \* PixelsPerScanline
  Height,    \* VerticalResolution
  HRes,      \* HorizontalResolution
  FontSize,  \* font_size, the rows of a text line (16)
  GlyphW,    \* the pixel columns of a glyph (8)
  Advance,   \* the columns the cursor moves by, glyph and gap (9)
  U16,       \* 2^16, the modulus of the cursor's two counters
  Chars,     \* the printable characters; neither NUL nor newline
  Space,     \* the one whose glyph has no pixel set
  Blank,     \* the background colour
  Boot       \* a pixel the boot loader's own messages left on the screen

ASSUME ConsoleAssumption ==
  /\ {Width, Height, HRes, FontSize, GlyphW, Advance, U16} \subseteq Nat \ {0}
  /\ GlyphW <= Advance
  /\ GlyphW <= Width
  /\ FontSize <= Height
  /\ Height < U16
  /\ Width + 2 * Advance < U16
  /\ Space \in Chars
  /\ Blank \notin Chars
  /\ Boot \notin Chars \cup {Blank}

Pixels == 0 .. Width * Height - 1

Buffers == [Pixels -> Chars \cup {Blank}]

\* The screen before the kernel's first copy to it.
BootScreen == [p \in Pixels |-> Boot]

Consoles == [line : 0 .. U16 - 1, col : 0 .. U16 - 1,
             back : Buffers, front : Buffers \cup {BootScreen}]

\* max_text_line: the last text line that fits the screen whole.
LastLine == (Height \div FontSize) - 1

\* The glyph cells that fit in a row of pixels; the code has no such bound.
Cols == ((Width - GlyphW) \div Advance) + 1

\* A glyph drawn in the background colour is the space's.
Ink(c) == IF c = Space THEN Blank ELSE c

\* The pixels of the glyph at a cursor position.
Glyph(line, col) ==
  {line * FontSize * Width + i * Width + col + j :
     i \in 0 .. FontSize - 1, j \in 0 .. GlyphW - 1}

\* Writes outside the buffer fall on memory that is not modelled.
Paint(buf, cells, c) ==
  [p \in Pixels |-> IF p \in cells THEN Ink(c) ELSE buf[p]]

BlankBuffer == [p \in Pixels |-> Blank]

\* Faulty variant: the copy of all but the last line of text.
FlushShort(con) ==
  [con EXCEPT !.front =
     [p \in Pixels |-> IF p < Width * FontSize * LastLine
                       THEN con.back[p] ELSE con.front[p]]]

\* The copy of PixelsPerScanline * HorizontalResolution pixels to the screen.
flush_framebuffer(con) ==
  [con EXCEPT !.front =
     [p \in Pixels |-> IF p < Width * HRes THEN con.back[p] ELSE con.front[p]]]

blank_output(con) == [con EXCEPT !.back = BlankBuffer, !.line = 0, !.col = 0]

\* Faulty variant: the shift with one row of pixels too few.
ScrolledTooLittle(buf) ==
  LET text == FontSize * LastLine * Width
      one  == FontSize * Width
  IN  [p \in Pixels |-> IF p < text THEN buf[p + one - Width]
                        ELSE IF p < text + one THEN Blank
                        ELSE buf[p]]

\* Faulty variant: the shift that leaves the last line of text as it was.
ScrolledNoBlank(buf) ==
  LET text == FontSize * LastLine * Width
  IN  [p \in Pixels |-> IF p < text THEN buf[p + FontSize * Width] ELSE buf[p]]

\* Every text line takes the pixels of the one below, the last becomes blank,
\* and the rows under it (when Height is no multiple of FontSize) stay.
ScrolledUp(buf) ==
  LET text == FontSize * LastLine * Width
      one  == FontSize * Width
  IN  [p \in Pixels |-> IF p < text THEN buf[p + one]
                        ELSE IF p < text + one THEN Blank
                        ELSE buf[p]]

kscroll_down(con) ==
  flush_framebuffer([con EXCEPT !.back = ScrolledUp(con.back)])

\* kputchar of a printable character: draw at the cursor, then advance it.
Put(con, c) ==
  [con EXCEPT !.back = Paint(con.back, Glyph(con.line, con.col), c),
              !.col  = (con.col + Advance) % U16]

\* kputchar of a newline once the column is 0.
NextLine(con) ==
  IF con.line = LastLine
  THEN kscroll_down(con)
  ELSE [con EXCEPT !.line = (con.line + 1) % U16]

\* kputchar of a newline.
NewLine(con) == NextLine([con EXCEPT !.col = 0])

\* Faulty variant: the backspace that forgets that drawing the space advances the cursor.
BackspaceOnce(con) ==
  IF con.col >= Advance
  THEN Put([con EXCEPT !.col = con.col - Advance], Space)
  ELSE con

\* Faulty variant: no test for the line's start, and a column that is a signed integer.
BackspaceUnguarded(con) ==
  LET drawn == Put([con EXCEPT !.col = con.col - Advance], Space)
  IN  [drawn EXCEPT !.col = drawn.col - Advance]

\* A step back, a space drawn there, and a step back again.
backspace(con) ==
  IF con.col >= Advance
  THEN LET drawn == Put([con EXCEPT !.col = con.col - Advance], Space)
       IN  [drawn EXCEPT !.col = (drawn.col - Advance) % U16]
  ELSE con

=============================================================================
