------------------------------ MODULE VgaProofs ------------------------------
(***************************************************************************)
(* The console's safety for every screen, font and number of characters.   *)
(* Its types need no hypothesis.  The rest is proved under the discipline  *)
(* the code needs and does not enforce: handlers do not print while the    *)
(* thread may be printing, without which it is false, as two runs of MCVga *)
(* show, and no line is longer than the screen is wide.  First come the    *)
(* facts about the pixels of Console: its operations map consoles to       *)
(* consoles, and a glyph on a text line of the screen lies inside the      *)
(* buffers.                                                                *)
(***************************************************************************)
EXTENDS Vga, TLAPS

-----------------------------------------------------------------------------
(* Arithmetic the solver needs to be told. *)

\* Multiplication by a natural number is monotone.
LEMMA TimesMonotone ==
  ASSUME NEW m \in Int, NEW n \in Int, NEW c \in Nat, m <= n
  PROVE  m * c <= n * c
OBVIOUS

\* Multiplication distributes over one more.
LEMMA TimesNext ==
  ASSUME NEW n \in Int, NEW c \in Int
  PROVE  (n + 1) * c = n * c + c
OBVIOUS

\* max_text_line counts whole text lines: they all fit (vga.c:24).
LEMMA LinesFit ==
  /\ LastLine \in Nat
  /\ (LastLine + 1) * FontSize <= Height
<1>. DEFINE lines == Height \div FontSize
<1>1. FontSize \in Nat \ {0} /\ Height \in Nat \ {0} /\ FontSize <= Height
  BY ConsoleAssumption
<1>2. lines \in Nat /\ lines >= 1
  BY <1>1
<1>3. lines * FontSize <= Height
  BY <1>1
<1>4. LastLine = lines - 1
  BY DEF LastLine
<1>. QED
  BY <1>2, <1>3, <1>4

\* The cells counted by Cols fit in a row of pixels.
LEMMA CellsFit ==
  ASSUME NEW k \in Nat, k < Cols
  PROVE  k * Advance + GlyphW <= Width
<1>. DEFINE q == (Width - GlyphW) \div Advance
<1>1. /\ Width \in Nat /\ GlyphW \in Nat /\ GlyphW <= Width
      /\ Advance \in Nat \ {0}
  BY ConsoleAssumption
<1>2. q \in Nat /\ q * Advance <= Width - GlyphW
  BY <1>1
<1>3. k <= q
  BY <1>2 DEF Cols
<1>4. k * Advance <= q * Advance
  BY <1>1, <1>2, <1>3, TimesMonotone
<1>5. k * Advance \in Nat /\ q * Advance \in Nat
  BY <1>1, <1>2
<1>. QED
  BY <1>1, <1>2, <1>4, <1>5

\* The pixels of the text lines come before the end of the buffer.
LEMMA TextFits ==
  /\ FontSize * LastLine * Width \in Nat
  /\ FontSize * Width \in Nat
  /\ Width * Height \in Nat
  /\ FontSize * LastLine * Width + FontSize * Width <= Width * Height
<1>. DEFINE l == LastLine
<1>1. Width \in Nat /\ Height \in Nat /\ FontSize \in Nat /\ l \in Nat
  BY ConsoleAssumption, LinesFit
<1>2. (l + 1) * FontSize <= Height
  BY LinesFit
<1>3. ((l + 1) * FontSize) * Width <= Height * Width
  BY <1>1, <1>2, TimesMonotone
<1>4. (FontSize * l) * Width + FontSize * Width = ((l + 1) * FontSize) * Width
  BY <1>1
<1>. QED
  BY <1>1, <1>3, <1>4

\* A glyph on a line of the screen, at a column that leaves room for it, is
\* drawn inside the buffer (vga.c:83-119 relies on it).
LEMMA GlyphFits ==
  ASSUME NEW line \in 0 .. LastLine, NEW col \in Nat, col + GlyphW <= Width
  PROVE  Glyph(line, col) \subseteq Pixels
<1>1. /\ Width \in Nat /\ Height \in Nat /\ FontSize \in Nat /\ GlyphW \in Nat
      /\ LastLine \in Nat
  BY ConsoleAssumption, LinesFit
<1>2. SUFFICES ASSUME NEW i \in 0 .. FontSize - 1, NEW j \in 0 .. GlyphW - 1
               PROVE  line * FontSize * Width + i * Width + col + j \in Pixels
  BY DEF Glyph
<1>. DEFINE row == line * FontSize + i
<1>3. row \in Nat /\ row + 1 <= Height
  <2>1. line + 1 <= LastLine + 1 /\ line \in Nat /\ i \in Nat
    BY <1>1
  <2>2. (line + 1) * FontSize <= (LastLine + 1) * FontSize
    BY <2>1, <1>1, TimesMonotone
  <2>3. (line + 1) * FontSize = line * FontSize + FontSize
    BY <2>1, <1>1, TimesNext
  <2>4. line * FontSize \in Nat /\ (LastLine + 1) * FontSize \in Nat
    BY <2>1, <1>1
  <2>. QED
    BY <2>1, <2>2, <2>3, <2>4, <1>1, LinesFit
<1>4. (row + 1) * Width <= Height * Width
  BY <1>1, <1>3, TimesMonotone
<1>5. (row + 1) * Width = row * Width + Width
  BY <1>1, <1>3, TimesNext
<1>6. row * Width = line * FontSize * Width + i * Width
  BY <1>1
<1>7. row * Width \in Nat /\ Width * Height = Height * Width
  BY <1>1, <1>3
<1>8. col + j \in 0 .. Width - 1
  BY <1>1
<1>. HIDE DEF row
<1>9. row * Width + col + j \in 0 .. Width * Height - 1
  BY <1>1, <1>3, <1>4, <1>5, <1>7, <1>8
<1>. QED
  BY <1>6, <1>9 DEF Pixels

-----------------------------------------------------------------------------
(* Buffers stay buffers. *)

\* Drawing a character leaves a buffer.
LEMMA PaintType ==
  ASSUME NEW buf \in Buffers, NEW cells, NEW c \in Chars
  PROVE  Paint(buf, cells, c) \in Buffers
BY DEF Paint, Buffers, Ink

\* Scrolling reads inside the buffer and leaves a buffer (vga.c:128-142).
LEMMA ScrolledUpType ==
  ASSUME NEW buf \in Buffers
  PROVE  ScrolledUp(buf) \in Buffers
<1>. DEFINE text == FontSize * LastLine * Width
            one  == FontSize * Width
<1>1. text \in Nat /\ one \in Nat /\ Width * Height \in Nat
      /\ text + one <= Width * Height
  BY TextFits
<1>2. \A p \in Pixels : p < text => p + one \in Pixels
  BY <1>1 DEF Pixels
<1>3. ScrolledUp(buf) =
        [p \in Pixels |-> IF p < text THEN buf[p + one]
                          ELSE IF p < text + one THEN Blank
                          ELSE buf[p]]
  BY DEF ScrolledUp
<1>. HIDE DEF text, one
<1>. QED
  BY <1>2, <1>3 DEF Buffers

\* A screen no taller than wide is refreshed whole (vga.c:46).
LEMMA FlushType ==
  ASSUME NEW scr \in Consoles, Height <= HRes
  PROVE  /\ flush_framebuffer(scr) \in Consoles
         /\ flush_framebuffer(scr).line = scr.line
         /\ flush_framebuffer(scr).col = scr.col
<1>1. Width \in Nat /\ Height \in Nat /\ HRes \in Nat
  BY ConsoleAssumption
<1>2. Height * Width <= HRes * Width
  BY <1>1, TimesMonotone
<1>3. Width * Height \in Nat /\ Width * HRes \in Nat
      /\ Width * Height <= Width * HRes
  BY <1>1, <1>2
<1>4. \A p \in Pixels : p < Width * HRes
  BY <1>3 DEF Pixels
<1>. DEFINE screen == [p \in Pixels |-> IF p < Width * HRes THEN scr.back[p]
                                       ELSE scr.front[p]]
<1>5. screen \in Buffers
  BY <1>4 DEF Consoles, Buffers
<1>6. flush_framebuffer(scr) = [scr EXCEPT !.front = screen]
  BY DEF flush_framebuffer
<1>. HIDE DEF screen
<1>. QED
  BY <1>5, <1>6 DEF Consoles

\* Scrolling keeps the cursor (vga.c:123-144).
LEMMA ScrollType ==
  ASSUME NEW scr \in Consoles, Height <= HRes
  PROVE  /\ kscroll_down(scr) \in Consoles
         /\ kscroll_down(scr).line = scr.line
         /\ kscroll_down(scr).col = scr.col
<1>. DEFINE moved == [scr EXCEPT !.back = ScrolledUp(scr.back)]
<1>1. scr.back \in Buffers
  BY DEF Consoles
<1>2. ScrolledUp(scr.back) \in Buffers
  BY <1>1, ScrolledUpType
<1>3. moved \in Consoles /\ moved.line = scr.line /\ moved.col = scr.col
  BY <1>2 DEF Consoles
<1>4. kscroll_down(scr) = flush_framebuffer(moved)
  BY DEF kscroll_down
<1>. HIDE DEF moved
<1>. QED
  BY <1>3, <1>4, FlushType

\* blank_output leaves a console with the cursor at the origin.
LEMMA BlankType ==
  ASSUME NEW scr \in Consoles
  PROVE  /\ blank_output(scr) \in Consoles
         /\ blank_output(scr).line = 0
         /\ blank_output(scr).col = 0
<1>1. BlankBuffer \in Buffers
  BY DEF BlankBuffer, Buffers
<1>2. 0 \in 0 .. U16 - 1
  BY ConsoleAssumption
<1>. QED
  BY <1>1, <1>2 DEF blank_output, Consoles

\* A character drawn where the counter does not overflow moves the cursor by
\* one cell (vga.c:120).
LEMMA PutType ==
  ASSUME NEW scr \in Consoles, NEW c \in Chars, scr.col + Advance < U16
  PROVE  /\ Put(scr, c) \in Consoles
         /\ Put(scr, c).line = scr.line
         /\ Put(scr, c).col = scr.col + Advance
<1>. DEFINE drawn == Paint(scr.back, Glyph(scr.line, scr.col), c)
            col == (scr.col + Advance) % U16
<1>1. drawn \in Buffers
  BY PaintType DEF Consoles
<1>2. scr.col \in 0 .. U16 - 1 /\ Advance \in Nat \ {0} /\ U16 \in Nat \ {0}
  BY ConsoleAssumption DEF Consoles
<1>3. col \in 0 .. U16 - 1 /\ col = scr.col + Advance
  BY <1>2
<1>4. Put(scr, c) = [scr EXCEPT !.back = drawn, !.col = col]
  BY DEF Put
<1>. HIDE DEF drawn, col
<1>. QED
  BY <1>1, <1>3, <1>4 DEF Consoles

\* A newline keeps the cursor on the screen (vga.c:75-80).
LEMMA NextLineType ==
  ASSUME NEW scr \in Consoles, scr.line <= LastLine, Height <= HRes
  PROVE  /\ NextLine(scr) \in Consoles
         /\ NextLine(scr).line <= LastLine
         /\ NextLine(scr).col = scr.col
<1>1. CASE scr.line = LastLine
  BY <1>1, ScrollType DEF NextLine
<1>2. CASE scr.line # LastLine
  <2>1. scr.line \in Nat /\ scr.line + 1 <= LastLine /\ LastLine \in Nat
    BY <1>2, LinesFit DEF Consoles
  <2>2. LastLine < U16
    <3>1. LastLine < Height
      <4>1. FontSize \in Nat \ {0} /\ Height \in Nat
        BY ConsoleAssumption
      <4>2. LastLine + 1 <= (LastLine + 1) * FontSize
        BY <2>1, <4>1
      <4>. QED
        BY <2>1, <4>1, <4>2, LinesFit
    <3>. QED
      BY <3>1, <2>1, ConsoleAssumption
  <2>3. U16 \in Nat \ {0}
    BY ConsoleAssumption
  <2>4. (scr.line + 1) % U16 = scr.line + 1
    BY <2>1, <2>2, <2>3
  <2>5. NextLine(scr) = [scr EXCEPT !.line = scr.line + 1]
    BY <1>2, <2>4 DEF NextLine
  <2>6. scr.line + 1 \in 0 .. U16 - 1
    BY <2>1, <2>2, <2>3
  <2>. QED
    BY <2>1, <2>5, <2>6 DEF Consoles
<1>. QED
  BY <1>1, <1>2

\* The same with the column set back first (vga.c:74).
LEMMA NewLineType ==
  ASSUME NEW scr \in Consoles, scr.line <= LastLine, Height <= HRes
  PROVE  /\ NewLine(scr) \in Consoles
         /\ NewLine(scr).line <= LastLine
         /\ NewLine(scr).col = 0
<1>. DEFINE start == [scr EXCEPT !.col = 0]
<1>1. 0 \in 0 .. U16 - 1
  BY ConsoleAssumption
<1>2. start \in Consoles /\ start.line <= LastLine /\ start.col = 0
  BY <1>1 DEF Consoles
<1>3. NewLine(scr) = NextLine(start)
  BY DEF NewLine
<1>. HIDE DEF start
<1>. QED
  BY <1>2, <1>3, NextLineType

\* Wherever the cursor is, what the operations leave is a console.
LEMMA AnyPutType ==
  ASSUME NEW scr \in Consoles, NEW c \in Chars
  PROVE  Put(scr, c) \in Consoles
<1>. DEFINE drawn == Paint(scr.back, Glyph(scr.line, scr.col), c)
            col == (scr.col + Advance) % U16
<1>1. drawn \in Buffers
  BY PaintType DEF Consoles
<1>2. scr.col \in 0 .. U16 - 1 /\ Advance \in Nat \ {0} /\ U16 \in Nat \ {0}
  BY ConsoleAssumption DEF Consoles
<1>3. col \in 0 .. U16 - 1
  BY <1>2
<1>4. Put(scr, c) = [scr EXCEPT !.back = drawn, !.col = col]
  BY DEF Put
<1>. HIDE DEF drawn, col
<1>. QED
  BY <1>1, <1>3, <1>4 DEF Consoles

LEMMA AnyNextLineType ==
  ASSUME NEW scr \in Consoles, Height <= HRes
  PROVE  NextLine(scr) \in Consoles
<1>. DEFINE line == (scr.line + 1) % U16
<1>1. scr.line \in 0 .. U16 - 1 /\ U16 \in Nat \ {0}
  BY ConsoleAssumption DEF Consoles
<1>2. line \in 0 .. U16 - 1
  BY <1>1
<1>. HIDE DEF line
<1>3. [scr EXCEPT !.line = line] \in Consoles
  BY <1>2 DEF Consoles
<1>. QED
  BY <1>3, ScrollType DEF NextLine, line

LEMMA AnyNewLineType ==
  ASSUME NEW scr \in Consoles, Height <= HRes
  PROVE  NewLine(scr) \in Consoles
<1>. DEFINE start == [scr EXCEPT !.col = 0]
<1>1. 0 \in 0 .. U16 - 1
  BY ConsoleAssumption
<1>2. start \in Consoles
  BY <1>1 DEF Consoles
<1>. HIDE DEF start
<1>. QED
  BY <1>2, AnyNextLineType DEF NewLine, start

\* backspace goes one cell back, or does nothing (vga.c:253-262).
LEMMA BackspaceType ==
  ASSUME NEW scr \in Consoles
  PROVE  /\ backspace(scr) \in Consoles
         /\ backspace(scr).line = scr.line
         /\ backspace(scr).col =
              IF scr.col >= Advance THEN scr.col - Advance ELSE scr.col
<1>1. scr.col \in 0 .. U16 - 1 /\ Advance \in Nat \ {0} /\ U16 \in Nat \ {0}
  BY ConsoleAssumption DEF Consoles
<1>2. CASE scr.col >= Advance
  <2>. DEFINE back == [scr EXCEPT !.col = scr.col - Advance]
              drawn == Put(back, Space)
  <2>1. scr.col - Advance \in 0 .. U16 - 1
    BY <1>1, <1>2
  <2>2. back \in Consoles /\ back.line = scr.line
        /\ back.col = scr.col - Advance
    BY <2>1 DEF Consoles
  <2>3. Space \in Chars
    BY ConsoleAssumption
  <2>4. back.col + Advance = scr.col /\ scr.col < U16
    BY <1>1, <2>2
  <2>. HIDE DEF back
  <2>5. drawn \in Consoles /\ drawn.line = scr.line /\ drawn.col = scr.col
    BY <2>2, <2>3, <2>4, PutType
  <2>6. backspace(scr) = [drawn EXCEPT !.col = (drawn.col - Advance) % U16]
    BY <1>2 DEF backspace, back
  <2>7. (drawn.col - Advance) % U16 = scr.col - Advance
    BY <1>1, <2>1, <2>5
  <2>. HIDE DEF drawn
  <2>. QED
    BY <1>2, <2>1, <2>5, <2>6, <2>7 DEF Consoles
<1>3. CASE ~(scr.col >= Advance)
  BY <1>3 DEF backspace
<1>. QED
  BY <1>2, <1>3

-----------------------------------------------------------------------------
(* Where a pixel is. *)

Row(p) == p \div Width
Column(p) == p % Width

\* Factors that are ordered like their products.
LEMMA TimesOrder ==
  ASSUME NEW m \in Int, NEW n \in Int, NEW c \in Nat, m * c < n * c
  PROVE  m < n
<1>. SUFFICES ASSUME n <= m PROVE FALSE
  OBVIOUS
<1>1. n * c <= m * c
  BY TimesMonotone
<1>2. n * c \in Int /\ m * c \in Int
  OBVIOUS
<1>. QED
  BY <1>1, <1>2

\* A pixel is the one of its column in its row.
LEMMA PixelAt ==
  ASSUME NEW row \in Nat, NEW x \in 0 .. Width - 1
  PROVE  /\ row * Width + x \in Nat
         /\ Row(row * Width + x) = row /\ Column(row * Width + x) = x
<1>. DEFINE w == Width
            p == row * w + x
<1>1. w \in Nat \ {0} /\ x \in 0 .. w - 1
  BY ConsoleAssumption
<1>. HIDE DEF w
<1>2. row * w \in Nat
  BY <1>1
<1>3. p \in Nat /\ row * w <= p /\ p < row * w + w
  BY <1>1, <1>2
<1>4. (row + 1) * w = row * w + w
  BY <1>1, TimesNext
<1>5. p \div w = row
  BY <1>1, <1>3, <1>4
<1>6. p = (p \div w) * w + (p % w) /\ p % w \in Nat
  BY <1>1, <1>3
<1>7. p % w = x
  BY <1>1, <1>2, <1>5, <1>6
<1>. QED
  BY <1>3, <1>5, <1>7 DEF Row, Column, w

LEMMA PixelIs ==
  ASSUME NEW p \in Nat
  PROVE  /\ Row(p) \in Nat /\ Column(p) \in 0 .. Width - 1
         /\ p = Row(p) * Width + Column(p)
<1>1. Width \in Nat \ {0}
  BY ConsoleAssumption
<1>. QED
  BY <1>1 DEF Row, Column

\* The pixels of a glyph are those of its rows and its columns.
LEMMA InGlyph ==
  ASSUME NEW line \in Nat, NEW col \in Nat, col + GlyphW <= Width, NEW p \in Nat
  PROVE  p \in Glyph(line, col) <=>
           /\ line * FontSize <= Row(p) /\ Row(p) < (line + 1) * FontSize
           /\ col <= Column(p) /\ Column(p) < col + GlyphW
<1>1. Width \in Nat \ {0} /\ FontSize \in Nat \ {0} /\ GlyphW \in Nat \ {0}
  BY ConsoleAssumption
<1>2. line * FontSize \in Nat /\ (line + 1) * FontSize = line * FontSize + FontSize
  BY <1>1, TimesNext
<1>3. \A i \in Nat : line * FontSize * Width + i * Width = (line * FontSize + i) * Width
  BY <1>1
<1>4. ASSUME p \in Glyph(line, col)
      PROVE  /\ line * FontSize <= Row(p) /\ Row(p) < (line + 1) * FontSize
             /\ col <= Column(p) /\ Column(p) < col + GlyphW
  <2>1. PICK i \in 0 .. FontSize - 1, j \in 0 .. GlyphW - 1 :
          p = line * FontSize * Width + i * Width + col + j
    BY <1>4 DEF Glyph
  <2>. DEFINE row == line * FontSize + i
              x == col + j
  <2>2. row \in Nat /\ x \in 0 .. Width - 1
    BY <1>1, <1>2
  <2>3. row * Width = line * FontSize * Width + i * Width /\ row * Width \in Nat
    BY <1>1, <1>3, <2>2
  <2>4. p = row * Width + x
    <3>. DEFINE y == line * FontSize * Width + i * Width
    <3>1. y = row * Width /\ y \in Nat /\ p = y + col + j
      BY <2>1, <2>3
    <3>. HIDE DEF y, row
    <3>. QED
      BY <3>1
  <2>5. Row(p) = row /\ Column(p) = x
    BY <2>2, <2>4, PixelAt
  <2>. QED
    BY <1>1, <1>2, <2>5
<1>5. ASSUME line * FontSize <= Row(p), Row(p) < (line + 1) * FontSize,
             col <= Column(p), Column(p) < col + GlyphW
      PROVE  p \in Glyph(line, col)
  <2>. DEFINE i == Row(p) - line * FontSize
              j == Column(p) - col
  <2>1. Row(p) \in Nat /\ Column(p) \in Nat /\ p = Row(p) * Width + Column(p)
    BY <1>1, PixelIs
  <2>2. i \in 0 .. FontSize - 1 /\ j \in 0 .. GlyphW - 1
    BY <1>1, <1>2, <1>5, <2>1
  <2>3. Row(p) = line * FontSize + i /\ Column(p) = col + j
    BY <1>2, <2>1
  <2>4. Row(p) * Width = line * FontSize * Width + i * Width
    BY <1>3, <2>2, <2>3
  <2>5. p = line * FontSize * Width + i * Width + col + j
    <3>. DEFINE y == line * FontSize * Width + i * Width
    <3>1. y = Row(p) * Width /\ y \in Nat
      BY <1>1, <2>1, <2>4
    <3>. HIDE DEF y
    <3>2. p = y + col + j
      BY <2>1, <2>2, <2>3, <3>1
    <3>. QED
      BY <3>2 DEF y
  <2>. QED
    BY <2>2, <2>5 DEF Glyph
<1>. QED
  BY <1>4, <1>5

\* The pixel under one is in the same column, one text line further.
LEMMA PixelUnder ==
  ASSUME NEW p \in Nat
  PROVE  /\ p + FontSize * Width \in Nat
         /\ Row(p + FontSize * Width) = Row(p) + FontSize
         /\ Column(p + FontSize * Width) = Column(p)
<1>1. Width \in Nat \ {0} /\ FontSize \in Nat \ {0}
  BY ConsoleAssumption
<1>2. Row(p) \in Nat /\ Column(p) \in 0 .. Width - 1 /\ p = Row(p) * Width + Column(p)
  BY PixelIs
<1>. DEFINE row == Row(p) + FontSize
            x == Column(p)
<1>3. row \in Nat
  BY <1>1, <1>2
<1>4. row * Width = Row(p) * Width + FontSize * Width
  BY <1>1, <1>2
<1>5. Row(p) * Width \in Nat /\ FontSize * Width \in Nat
  BY <1>1, <1>2
<1>6. p + FontSize * Width = row * Width + x
  BY <1>1, <1>2, <1>4, <1>5
<1>. HIDE DEF row, x
<1>7. row * Width + x \in Nat /\ Row(row * Width + x) = row /\ Column(row * Width + x) = x
  BY <1>2, <1>3, PixelAt DEF x
<1>. QED
  BY <1>6, <1>7 DEF row, x

\* The pixels before a row are those of the rows before it.
LEMMA BeforeRow ==
  ASSUME NEW p \in Nat, NEW row \in Nat
  PROVE  p < row * Width <=> Row(p) < row
<1>1. Width \in Nat \ {0}
  BY ConsoleAssumption
<1>2. Row(p) \in Nat /\ Column(p) \in 0 .. Width - 1 /\ p = Row(p) * Width + Column(p)
  BY PixelIs
<1>3. ASSUME p < row * Width PROVE Row(p) < row
  <2>1. Row(p) * Width \in Nat /\ row * Width \in Nat
    BY <1>1, <1>2
  <2>2. Row(p) * Width < row * Width
    BY <1>1, <1>2, <1>3, <2>1
  <2>. QED
    BY <1>1, <1>2, <2>2, TimesOrder
<1>4. ASSUME Row(p) < row PROVE p < row * Width
  <2>1. (Row(p) + 1) * Width <= row * Width
    BY <1>1, <1>2, <1>4, TimesMonotone
  <2>2. (Row(p) + 1) * Width = Row(p) * Width + Width
    BY <1>1, <1>2, TimesNext
  <2>3. Row(p) * Width \in Nat /\ row * Width \in Nat
    BY <1>1, <1>2
  <2>. QED
    BY <1>1, <1>2, <2>1, <2>2, <2>3
<1>. QED
  BY <1>3, <1>4

-----------------------------------------------------------------------------
(* The types, whenever handlers print and however long the lines are. *)

LEMMA InitTypeOK == Init => TypeOK
<1>1. 0 \in 0 .. U16 - 1 /\ Space \in Chars
  BY ConsoleAssumption
<1>2. BlankBuffer \in Buffers
  BY DEF BlankBuffer, Buffers
<1>. QED
  BY <1>1, <1>2 DEF Init, TypeOK, Consoles, Locations, Stages

LEMMA StepTypeOK ==
  ASSUME TypeOK, [Next]_vars
  PROVE  TypeOK'
<1>1. /\ Height <= HRes /\ Advance \in Nat \ {0} /\ U16 \in Nat \ {0}
  BY ConsoleAssumption, VgaAssumption
<1>2. /\ con \in Consoles /\ con.line \in 0 .. U16 - 1 /\ con.col \in 0 .. U16 - 1
      /\ con.back \in Buffers
  BY DEF TypeOK, Consoles
<1>3. \A n \in 0 .. U16 - 1 : /\ [con EXCEPT !.col = n] \in Consoles
                             /\ [con EXCEPT !.line = n] \in Consoles
  BY <1>2 DEF Consoles
<1>4. reg \in 0 .. U16 - 1 /\ 0 \in 0 .. U16 - 1
      /\ (reg + 1) % U16 \in 0 .. U16 - 1 /\ (reg + Advance) % U16 \in 0 .. U16 - 1
  BY <1>1 DEF TypeOK
<1>5. CASE \E c \in Chars : BeginPut(c)
  BY <1>2, <1>5 DEF BeginPut, Goto, TypeOK, Locations
<1>6. CASE Draw
  <2>. DEFINE drawn == Paint(con.back, Glyph(at.line, at.col), arg)
  <2>1. drawn \in Buffers
    BY <1>2, PaintType DEF TypeOK
  <2>2. con' = [con EXCEPT !.back = drawn]
    BY <1>6 DEF Draw
  <2>. HIDE DEF drawn
  <2>3. con' \in Consoles
    BY <1>2, <2>1, <2>2 DEF Consoles
  <2>. QED
    BY <1>6, <2>3 DEF Draw, Goto, TypeOK, Locations
<1>7. CASE LoadCol \/ LoadLine \/ TestLine \/ Halt
  BY <1>2, <1>7 DEF LoadCol, LoadLine, TestLine, Halt, Goto, TypeOK, Locations
<1>8. CASE StoreCol \/ StoreLine \/ BeginNewLine
  <2>1. con' \in Consoles
    BY <1>3, <1>4, <1>8 DEF StoreCol, StoreLine, BeginNewLine
  <2>. QED
    BY <1>8, <2>1 DEF StoreCol, StoreLine, BeginNewLine, Goto, TypeOK, Locations
<1>9. CASE ScrollLine
  <2>1. con' \in Consoles
    BY <1>1, <1>2, <1>9, ScrollType DEF ScrollLine
  <2>. QED
    BY <1>9, <2>1 DEF ScrollLine, Goto, TypeOK, Locations
<1>10. ASSUME NEW from, NEW to \in Stages, NEW after \in Consoles, Call(from, to, after)
       PROVE  TypeOK'
  BY <1>10 DEF Call, TypeOK
<1>11. flush_framebuffer(con) \in Consoles /\ blank_output(con) \in Consoles
       /\ kscroll_down(con) \in Consoles
  BY <1>1, <1>2, FlushType, BlankType, ScrollType
<1>12. {"report", "post", "posted", "cleared", "returned", "main", "irq"} \subseteq Stages
  BY DEF Stages
<1>13. CASE FlushReport \/ FlushPost \/ FlushBlank \/ CallScroll
  BY <1>10, <1>11, <1>12, <1>13 DEF FlushReport, FlushPost, FlushBlank, CallScroll
<1>14. CASE BlankPage \/ BlankReport \/ EndInitialize \/ EnableInterrupts
  BY <1>2, <1>10, <1>11, <1>12, <1>14
     DEF BlankPage, BlankReport, EndInitialize, EnableInterrupts
<1>15. ASSUME NEW after \in Consoles, Handler(after) PROVE TypeOK'
  BY <1>15 DEF Handler, TypeOK
<1>16. CASE \E c \in Chars : KeyChar(c) \/ UnexpectedInterrupt(c)
  <2>1. \A c \in Chars : Put(con, c) \in Consoles /\ NewLine(Put(con, c)) \in Consoles
    BY <1>1, <1>2, AnyPutType, AnyNewLineType
  <2>. QED
    BY <1>15, <1>16, <2>1 DEF KeyChar, UnexpectedInterrupt
<1>17. CASE KeyEnter \/ KeyBackspace
  <2>1. NewLine(con) \in Consoles /\ backspace(con) \in Consoles
    BY <1>1, <1>2, AnyNewLineType, BackspaceType
  <2>. QED
    BY <1>15, <1>17, <2>1 DEF KeyEnter, KeyBackspace
<1>18. CASE UNCHANGED vars
  BY <1>18 DEF vars, TypeOK
<1>. QED
  BY <1>5, <1>6, <1>7, <1>8, <1>9, <1>13, <1>14, <1>16, <1>17, <1>18
     DEF Next, Thread, Interrupt

\* Every variable has its type, with no hypothesis on handlers and lines:
\* buffers, 16 bit counters, registers, the thread's place.
THEOREM TypeCorrect == Spec => []TypeOK
<1>1. Init => TypeOK
  BY InitTypeOK
<1>2. TypeOK /\ [Next]_vars => TypeOK'
  BY StepTypeOK
<1>. QED
  BY <1>1, <1>2, PTL DEF Spec

-----------------------------------------------------------------------------
(* The console in use. *)

Disciplined == IrqAnywhere = FALSE /\ LineLimit <= Cols

\* The cursor stands at a cell of its line, or just after the last one.
CursorAtCell == \E k \in 0 .. LineLimit : con.col = k * Advance

\* What the thread has read stays true until it uses it.
ThreadUpToDate ==
  /\ pc \in {"draw", "load_col", "store_col"} => RoomOnLine
  /\ pc = "draw" => at = [line |-> con.line, col |-> con.col]
  /\ pc = "store_col" => reg = con.col
  /\ pc = "scroll" => con.line = LastLine
  /\ pc \in {"load_line", "store_line"} => con.line < LastLine
  /\ pc = "store_line" => reg = con.line

IInv == TypeOK /\ CursorOnScreen /\ CursorAtCell /\ ThreadUpToDate

-----------------------------------------------------------------------------
\* A cursor before the limit leaves room for a glyph, and stays at a cell
\* when it advances (vga.c:120).
LEMMA RoomForGlyph ==
  ASSUME Disciplined, con \in Consoles, CursorAtCell, RoomOnLine
  PROVE  /\ con.col \in Nat
         /\ con.col + GlyphW <= Width
         /\ con.col + Advance < U16
         /\ \E k \in 0 .. LineLimit : con.col + Advance = k * Advance
<1>1. PICK k \in 0 .. LineLimit : con.col = k * Advance
  BY DEF CursorAtCell
<1>2. Advance \in Nat \ {0} /\ LineLimit \in Nat /\ k \in Nat
  BY ConsoleAssumption, VgaAssumption
<1>3. k < LineLimit
  <2>1. SUFFICES ASSUME k = LineLimit PROVE FALSE
    BY <1>2
  <2>2. con.col = LineLimit * Advance
    BY <1>1, <2>1
  <2>3. con.col < LineLimit * Advance
    BY DEF RoomOnLine
  <2>. QED
    BY <1>2, <2>2, <2>3
<1>4. con.col + GlyphW <= Width
  <2>1. Cols \in Int
    BY ConsoleAssumption DEF Cols
  <2>2. k < Cols
    BY <1>2, <1>3, <2>1 DEF Disciplined
  <2>. QED
    BY <1>1, <1>2, <2>2, CellsFit
<1>5. (k + 1) * Advance = con.col + Advance
  BY <1>1, <1>2, TimesNext
<1>6. con.col + Advance < U16
  BY <1>4, ConsoleAssumption DEF Consoles
<1>. QED
  BY <1>1, <1>2, <1>3, <1>4, <1>5, <1>6

\* The screen is wider than a glyph, so some cell fits and a line may have 0.
LEMMA FirstCell == 0 \in 0 .. LineLimit /\ 0 * Advance = 0
  BY VgaAssumption, ConsoleAssumption

\* Initially the cursor is at the origin (vga.c:39, 64-65).
LEMMA InitIInv == Init => IInv
<1>. SUFFICES ASSUME Init PROVE IInv
  OBVIOUS
<1>4. CursorOnScreen /\ CursorAtCell /\ ThreadUpToDate
  BY FirstCell, LinesFit
     DEF Init, CursorOnScreen, CursorAtCell, ThreadUpToDate
<1>. QED
  BY <1>4, InitTypeOK DEF IInv

\* Every step keeps the strengthened invariant.
LEMMA StepIInv ==
  ASSUME Disciplined, IInv, [Next]_vars
  PROVE  IInv'
<1>. USE DEF IInv
<1>0. TypeOK'
  BY StepTypeOK
<1>1. /\ Height <= HRes /\ LineLimit \in Nat
      /\ Advance \in Nat \ {0} /\ U16 \in Nat \ {0} /\ LastLine \in Nat
  BY ConsoleAssumption, VgaAssumption, LinesFit
<1>2. con \in Consoles /\ con.line \in 0 .. U16 - 1 /\ con.col \in 0 .. U16 - 1
      /\ con.back \in Buffers
  BY DEF TypeOK, Consoles
<1>3. ASSUME NEW c \in Chars, BeginPut(c) PROVE IInv'
  <2>2. CursorOnScreen' /\ CursorAtCell'
    BY <1>3 DEF BeginPut, CursorOnScreen, CursorAtCell
  <2>3. ThreadUpToDate'
    BY <1>3 DEF BeginPut, Goto, ThreadUpToDate, RoomOnLine
  <2>. QED
    BY <1>0, <2>2, <2>3
<1>4. CASE Draw
  <2>. DEFINE drawn == Paint(con.back, Glyph(at.line, at.col), arg)
  <2>1. drawn \in Buffers
    BY <1>2, PaintType DEF TypeOK
  <2>2. con' = [con EXCEPT !.back = drawn]
    BY <1>4 DEF Draw
  <2>. HIDE DEF drawn
  <2>3. con' \in Consoles /\ con'.line = con.line /\ con'.col = con.col
    BY <1>2, <2>1, <2>2 DEF Consoles
  <2>5. CursorOnScreen' /\ CursorAtCell'
    BY <2>3 DEF CursorOnScreen, CursorAtCell
  <2>6. ThreadUpToDate'
    BY <1>4, <2>3 DEF Draw, Goto, ThreadUpToDate, RoomOnLine
  <2>. QED
    BY <1>0, <2>5, <2>6
<1>5. CASE LoadCol
  <2>2. CursorOnScreen' /\ CursorAtCell'
    BY <1>5 DEF LoadCol, CursorOnScreen, CursorAtCell
  <2>3. ThreadUpToDate'
    BY <1>5 DEF LoadCol, Goto, ThreadUpToDate, RoomOnLine
  <2>. QED
    BY <1>0, <2>2, <2>3
<1>6. CASE StoreCol
  <2>1. RoomOnLine /\ reg = con.col
    BY <1>6 DEF StoreCol, Goto, ThreadUpToDate
  <2>2. /\ con.col + Advance < U16
        /\ \E k \in 0 .. LineLimit : con.col + Advance = k * Advance
    BY <1>2, <2>1, RoomForGlyph
  <2>3. (reg + Advance) % U16 = con.col + Advance
    BY <1>1, <1>2, <2>1, <2>2
  <2>4. con' = [con EXCEPT !.col = con.col + Advance]
    BY <1>6, <2>3 DEF StoreCol
  <2>5. con.col + Advance \in 0 .. U16 - 1
    BY <1>1, <1>2, <2>2
  <2>6. con' \in Consoles /\ con'.line = con.line
        /\ con'.col = con.col + Advance
    BY <1>2, <2>4, <2>5 DEF Consoles
  <2>8. CursorOnScreen' /\ CursorAtCell'
    BY <2>2, <2>6 DEF CursorOnScreen, CursorAtCell
  <2>9. ThreadUpToDate'
    BY <1>6 DEF StoreCol, Goto, ThreadUpToDate
  <2>. QED
    BY <1>0, <2>8, <2>9
<1>7. CASE BeginNewLine
  <2>1. con' = [con EXCEPT !.col = 0]
    BY <1>7 DEF BeginNewLine
  <2>2. con' \in Consoles /\ con'.line = con.line /\ con'.col = 0
    BY <1>1, <1>2, <2>1 DEF Consoles
  <2>4. CursorOnScreen' /\ CursorAtCell'
    BY <2>2, FirstCell DEF CursorOnScreen, CursorAtCell
  <2>5. ThreadUpToDate'
    BY <1>7 DEF BeginNewLine, Goto, ThreadUpToDate
  <2>. QED
    BY <1>0, <2>4, <2>5
<1>8. CASE TestLine
  <2>2. CursorOnScreen' /\ CursorAtCell'
    BY <1>8 DEF TestLine, CursorOnScreen, CursorAtCell
  <2>3. ThreadUpToDate'
    BY <1>1, <1>2, <1>8
       DEF TestLine, ThreadUpToDate, CursorOnScreen
  <2>. QED
    BY <1>0, <2>2, <2>3
<1>9. CASE ScrollLine
  <2>1. con' \in Consoles /\ con'.line = con.line /\ con'.col = con.col
    BY <1>1, <1>2, <1>9, ScrollType DEF ScrollLine
  <2>3. CursorOnScreen' /\ CursorAtCell'
    BY <2>1 DEF CursorOnScreen, CursorAtCell
  <2>4. ThreadUpToDate'
    BY <1>9 DEF ScrollLine, Goto, ThreadUpToDate
  <2>. QED
    BY <1>0, <2>3, <2>4
<1>10. CASE LoadLine
  <2>2. CursorOnScreen' /\ CursorAtCell'
    BY <1>10 DEF LoadLine, CursorOnScreen, CursorAtCell
  <2>3. ThreadUpToDate'
    BY <1>10 DEF LoadLine, Goto, ThreadUpToDate
  <2>. QED
    BY <1>0, <2>2, <2>3
<1>11. CASE StoreLine
  <2>1. con.line < LastLine /\ reg = con.line
    BY <1>11 DEF StoreLine, Goto, ThreadUpToDate
  <2>2. con' = [con EXCEPT !.line = (con.line + 1) % U16]
    BY <1>11, <2>1 DEF StoreLine
  <2>3. con' = NextLine(con)
    BY <1>1, <1>2, <2>1, <2>2 DEF NextLine
  <2>4. con' \in Consoles /\ con'.line <= LastLine /\ con'.col = con.col
    BY <1>1, <1>2, <2>3, NextLineType DEF CursorOnScreen
  <2>6. CursorOnScreen' /\ CursorAtCell'
    BY <2>4 DEF CursorOnScreen, CursorAtCell
  <2>7. ThreadUpToDate'
    BY <1>11 DEF StoreLine, Goto, ThreadUpToDate
  <2>. QED
    BY <1>0, <2>6, <2>7
<1>12. CASE FlushReport \/ FlushPost \/ FlushBlank \/ CallScroll \/ EnableInterrupts
  <2>1. pc' = pc /\ pc = "idle"
    BY <1>12 DEF FlushReport, FlushPost, FlushBlank, CallScroll, EnableInterrupts, Call
  <2>2. con'.line = con.line /\ con'.col = con.col
    BY <1>1, <1>2, <1>12, FlushType, ScrollType
       DEF FlushReport, FlushPost, FlushBlank, CallScroll, EnableInterrupts, Call
  <2>3. CursorOnScreen' /\ CursorAtCell'
    BY <2>2 DEF CursorOnScreen, CursorAtCell
  <2>4. ThreadUpToDate'
    BY <2>1 DEF ThreadUpToDate
  <2>. QED
    BY <1>0, <2>3, <2>4
<1>13. CASE BlankPage \/ BlankReport \/ EndInitialize
  <2>1. pc' = pc /\ pc = "idle" /\ con'.line = 0 /\ con'.col = 0
    BY <1>2, <1>13, BlankType DEF BlankPage, BlankReport, EndInitialize, Call
  <2>2. CursorOnScreen' /\ CursorAtCell'
    BY <1>1, <2>1, FirstCell DEF CursorOnScreen, CursorAtCell
  <2>3. ThreadUpToDate'
    BY <2>1 DEF ThreadUpToDate
  <2>. QED
    BY <1>0, <2>2, <2>3
<1>14. CASE Halt
  <2>2. CursorOnScreen' /\ CursorAtCell'
    BY <1>14 DEF Halt, CursorOnScreen, CursorAtCell
  <2>3. ThreadUpToDate'
    BY <1>14 DEF Halt, Goto, ThreadUpToDate
  <2>. QED
    BY <1>0, <2>2, <2>3
<1>15. ASSUME NEW after \in Consoles, Handler(after),
              after.line <= LastLine,
              \E k \in 0 .. LineLimit : after.col = k * Advance
       PROVE  IInv'
  <2>1. pc = "hlt" /\ con' = after /\ UNCHANGED <<pc, arg, at, reg>>
    BY <1>15 DEF Handler, Interruptible, Disciplined
  <2>3. CursorOnScreen' /\ CursorAtCell'
    BY <1>15, <2>1 DEF CursorOnScreen, CursorAtCell
  <2>4. ThreadUpToDate'
    BY <2>1 DEF ThreadUpToDate
  <2>. QED
    BY <1>0, <2>3, <2>4
<1>16. ASSUME NEW c \in Chars, RoomOnLine
       PROVE  /\ Put(con, c) \in Consoles
              /\ Put(con, c).line <= LastLine
              /\ \E k \in 0 .. LineLimit : Put(con, c).col = k * Advance
  <2>1. /\ con.col + Advance < U16
        /\ \E k \in 0 .. LineLimit : con.col + Advance = k * Advance
    BY <1>2, <1>16, RoomForGlyph
  <2>. QED
    BY <1>2, <2>1, PutType DEF CursorOnScreen
<1>17. ASSUME NEW c \in Chars, KeyChar(c) PROVE IInv'
  BY <1>15, <1>16, <1>17 DEF KeyChar
<1>18. ASSUME NEW c \in Chars, UnexpectedInterrupt(c) PROVE IInv'
  <2>1. /\ NewLine(Put(con, c)) \in Consoles
        /\ NewLine(Put(con, c)).line <= LastLine
        /\ NewLine(Put(con, c)).col = 0
    BY <1>1, <1>16, <1>18, NewLineType DEF UnexpectedInterrupt
  <2>. QED
    BY <1>15, <1>18, <2>1, FirstCell DEF UnexpectedInterrupt
<1>19. CASE KeyEnter
  <2>1. /\ NewLine(con) \in Consoles
        /\ NewLine(con).line <= LastLine
        /\ NewLine(con).col = 0
    BY <1>1, <1>2, NewLineType DEF CursorOnScreen
  <2>. QED
    BY <1>15, <1>19, <2>1, FirstCell DEF KeyEnter
<1>20. CASE KeyBackspace
  <2>1. /\ backspace(con) \in Consoles
        /\ backspace(con).line <= LastLine
        /\ backspace(con).col =
             IF con.col >= Advance THEN con.col - Advance ELSE con.col
    BY <1>2, BackspaceType DEF CursorOnScreen
  <2>2. \E k \in 0 .. LineLimit : backspace(con).col = k * Advance
    <3>1. PICK k \in 0 .. LineLimit : con.col = k * Advance
      BY DEF CursorAtCell
    <3>2. CASE con.col >= Advance
      <4>1. k \in Nat \ {0}
        BY <1>1, <3>1, <3>2
      <4>2. ((k - 1) + 1) * Advance = (k - 1) * Advance + Advance
        BY <1>1, <4>1, TimesNext
      <4>3. (k - 1) * Advance \in Int
        BY <1>1, <4>1
      <4>4. con.col - Advance = (k - 1) * Advance
        BY <1>1, <3>1, <4>1, <4>2, <4>3
      <4>5. k - 1 \in 0 .. LineLimit
        BY <1>1, <4>1
      <4>. QED
        BY <2>1, <3>2, <4>4, <4>5
    <3>3. CASE ~(con.col >= Advance)
      BY <2>1, <3>1, <3>3
    <3>. QED
      BY <3>2, <3>3
  <2>. QED
    BY <1>15, <1>20, <2>1, <2>2 DEF KeyBackspace
<1>21. CASE UNCHANGED vars
  BY <1>21 DEF vars, TypeOK, CursorOnScreen, CursorAtCell, ThreadUpToDate,
               RoomOnLine
<1>. QED
  BY <1>3, <1>4, <1>5, <1>6, <1>7, <1>8, <1>9, <1>10, <1>11, <1>12, <1>13,
     <1>14, <1>17, <1>18, <1>19, <1>20, <1>21
     DEF Next, Thread, Interrupt

\* The invariant is inductive.
LEMMA AlwaysIInv ==
  ASSUME Disciplined
  PROVE  Spec => []IInv
<1>1. Init => IInv
  BY InitIInv
<1>2. IInv /\ [Next]_vars => IInv'
  BY StepIInv
<1>. QED
  BY <1>1, <1>2, PTL DEF Spec

-----------------------------------------------------------------------------
\* The cursor never leaves the screen (vga.c:75).
THEOREM CursorStaysOnScreen ==
  ASSUME Disciplined
  PROVE  Spec => []CursorOnScreen
<1>1. IInv => CursorOnScreen
  BY DEF IInv
<1>. QED
  BY <1>1, AlwaysIInv, PTL

\* Every glyph the thread draws lies inside the buffer and its row
\* (vga.c:83-119), at any point of the thread's other work.
THEOREM DrawingInBounds ==
  ASSUME Disciplined
  PROVE  Spec => []DrawInBounds
<1>1. IInv => DrawInBounds
  <2>. SUFFICES ASSUME IInv, pc = "draw"
                PROVE  /\ Glyph(at.line, at.col) \subseteq Pixels
                       /\ at.col + GlyphW <= Width
    BY DEF DrawInBounds
  <2>1. at.line = con.line /\ at.col = con.col /\ RoomOnLine
    BY DEF IInv, ThreadUpToDate
  <2>2. con \in Consoles /\ CursorAtCell /\ con.line <= LastLine
    BY DEF IInv, TypeOK, CursorOnScreen
  <2>3. con.col \in Nat /\ con.col + GlyphW <= Width
    BY <2>1, <2>2, RoomForGlyph
  <2>4. con.line \in 0 .. LastLine
    BY <2>2, LinesFit DEF Consoles
  <2>. QED
    BY <2>1, <2>3, <2>4, GlyphFits
<1>. QED
  BY <1>1, AlwaysIInv, PTL

-----------------------------------------------------------------------------
(* The cells of the screen. *)

CellLines == 0 .. LastLine
CellColumns == 0 .. Cols - 1

\* A buffer with blank margins and one character in each cell.
Tidy(buf) ==
  /\ \A p \in Pixels \ CellPixels : buf[p] = Blank
  /\ \A l \in CellLines, k \in CellColumns : \A p, q \in Cell(l, k) : buf[p] = buf[q]

TidyConsole(c) == Tidy(c.back) /\ (c.front = BootScreen \/ Tidy(c.front))

\* A cell is a rectangle of the screen, whose first pixel is that of GridOf.
LEMMA CellIs ==
  ASSUME NEW l \in CellLines, NEW k \in CellColumns
  PROVE  /\ Cell(l, k) \subseteq Pixels
         /\ \A p \in Nat : p \in Cell(l, k) <=>
              /\ l * FontSize <= Row(p) /\ Row(p) < (l + 1) * FontSize
              /\ k * Advance <= Column(p) /\ Column(p) < k * Advance + GlyphW
         /\ l * FontSize * Width + k * Advance \in Cell(l, k)
<1>1. /\ FontSize \in Nat \ {0} /\ GlyphW \in Nat \ {0} /\ Advance \in Nat \ {0}
      /\ Width \in Nat \ {0}
  BY ConsoleAssumption
<1>2. l \in Nat /\ l \in 0 .. LastLine
  BY LinesFit DEF CellLines
<1>3. Cols \in Int
  BY <1>1, ConsoleAssumption DEF Cols
<1>4. k \in Nat /\ k < Cols
  BY <1>3 DEF CellColumns
<1>5. k * Advance + GlyphW <= Width /\ k * Advance \in Nat
  BY <1>1, <1>4, CellsFit
<1>6. Cell(l, k) \subseteq Pixels
  BY <1>2, <1>5, GlyphFits DEF Cell
<1>7. \A p \in Nat : p \in Cell(l, k) <=>
              /\ l * FontSize <= Row(p) /\ Row(p) < (l + 1) * FontSize
              /\ k * Advance <= Column(p) /\ Column(p) < k * Advance + GlyphW
  BY <1>2, <1>5, InGlyph DEF Cell
<1>. DEFINE p == l * FontSize * Width + k * Advance
<1>8. l * FontSize \in Nat /\ k * Advance \in 0 .. Width - 1
  BY <1>1, <1>2, <1>5
<1>9. p \in Nat /\ Row(p) = l * FontSize /\ Column(p) = k * Advance
  BY <1>8, PixelAt
<1>10. (l + 1) * FontSize = l * FontSize + FontSize
  BY <1>1, <1>2, TimesNext
<1>. HIDE DEF p
<1>11. p \in Cell(l, k)
  BY <1>1, <1>5, <1>7, <1>8, <1>9, <1>10
<1>. QED
  BY <1>6, <1>7, <1>11 DEF p

\* No pixel is in two cells: between two columns there is a gap.
LEMMA OneCell ==
  ASSUME NEW l \in CellLines, NEW k \in CellColumns,
         NEW m \in CellLines, NEW n \in CellColumns,
         NEW p \in Cell(l, k), p \in Cell(m, n)
  PROVE  l = m /\ k = n
<1>1. /\ FontSize \in Nat \ {0} /\ GlyphW \in Nat \ {0} /\ Advance \in Nat \ {0}
      /\ GlyphW <= Advance /\ LastLine \in Nat
  BY ConsoleAssumption, LinesFit
<1>2. l \in Nat /\ m \in Nat /\ k \in Nat /\ n \in Nat
  BY <1>1 DEF CellLines, CellColumns
<1>3. p \in Nat /\ Row(p) \in Nat /\ Column(p) \in Nat
  <2>1. p \in Nat
    BY CellIs, ConsoleAssumption DEF Pixels
  <2>. QED
    BY <2>1, PixelIs, ConsoleAssumption
<1>4. /\ l * FontSize <= Row(p) /\ Row(p) < (l + 1) * FontSize
      /\ k * Advance <= Column(p) /\ Column(p) < k * Advance + GlyphW
  BY <1>3, CellIs
<1>5. /\ m * FontSize <= Row(p) /\ Row(p) < (m + 1) * FontSize
      /\ n * Advance <= Column(p) /\ Column(p) < n * Advance + GlyphW
  BY <1>3, CellIs
<1>6. /\ (k + 1) * Advance = k * Advance + Advance
      /\ (n + 1) * Advance = n * Advance + Advance
  BY <1>1, <1>2, TimesNext
<1>7. /\ l * FontSize \in Nat /\ (l + 1) * FontSize \in Nat
      /\ m * FontSize \in Nat /\ (m + 1) * FontSize \in Nat
      /\ k * Advance \in Nat /\ n * Advance \in Nat
  BY <1>1, <1>2
<1>8. l * FontSize < (m + 1) * FontSize /\ m * FontSize < (l + 1) * FontSize
  BY <1>3, <1>4, <1>5, <1>7
<1>9. k * Advance < (n + 1) * Advance /\ n * Advance < (k + 1) * Advance
  BY <1>1, <1>3, <1>4, <1>5, <1>6, <1>7
<1>10. l < m + 1 /\ m < l + 1
  BY <1>1, <1>2, <1>8, TimesOrder
<1>11. k < n + 1 /\ n < k + 1
  BY <1>1, <1>2, <1>9, TimesOrder
<1>. QED
  BY <1>2, <1>10, <1>11

\* A character drawn in a cell changes that cell, all of it, and nothing else
\* (vga.c:83-119).
LEMMA PaintTidy ==
  ASSUME NEW buf \in Buffers, Tidy(buf), NEW c \in Chars,
         NEW l \in CellLines, NEW k \in CellColumns
  PROVE  Tidy(Paint(buf, Cell(l, k), c))
<1>. DEFINE new == Paint(buf, Cell(l, k), c)
<1>1. \A p \in Pixels : new[p] = IF p \in Cell(l, k) THEN Ink(c) ELSE buf[p]
  BY DEF Paint
<1>. HIDE DEF new
<1>2. \A p \in Pixels \ CellPixels : p \notin Cell(l, k)
  BY DEF CellPixels, CellLines, CellColumns
<1>3. \A p \in Pixels \ CellPixels : new[p] = Blank
  BY <1>1, <1>2 DEF Tidy
<1>4. ASSUME NEW m \in CellLines, NEW n \in CellColumns, NEW p \in Cell(m, n), NEW q \in Cell(m, n)
      PROVE  new[p] = new[q]
  <2>1. p \in Pixels /\ q \in Pixels
    BY CellIs
  <2>2. CASE m = l /\ n = k
    BY <1>1, <2>1, <2>2
  <2>3. CASE ~(m = l /\ n = k)
    <3>1. p \notin Cell(l, k) /\ q \notin Cell(l, k)
      BY <2>3, OneCell
    <3>. QED
      BY <1>1, <2>1, <3>1 DEF Tidy
  <2>. QED
    BY <2>2, <2>3
<1>. QED
  BY <1>3, <1>4 DEF Tidy, new

\* The pixels of the lines of text.
LEMMA TextIs ==
  ASSUME NEW p \in Nat
  PROVE  /\ p < FontSize * LastLine * Width <=> Row(p) < LastLine * FontSize
         /\ p < FontSize * LastLine * Width + FontSize * Width
              <=> Row(p) < (LastLine + 1) * FontSize
<1>. DEFINE l == LastLine
<1>1. Width \in Nat \ {0} /\ FontSize \in Nat \ {0} /\ l \in Nat
  BY ConsoleAssumption, LinesFit
<1>2. l * FontSize \in Nat /\ (l + 1) * FontSize \in Nat
  BY <1>1
<1>3. FontSize * l * Width = (l * FontSize) * Width
  BY <1>1
<1>4. FontSize * l * Width + FontSize * Width = ((l + 1) * FontSize) * Width
  BY <1>1
<1>. HIDE DEF l
<1>. QED
  BY <1>2, <1>3, <1>4, BeforeRow DEF l

\* Scrolling moves whole cells, and the margins with them (vga.c:128-142).
LEMMA ScrollTidy ==
  ASSUME NEW buf \in Buffers, Tidy(buf)
  PROVE  Tidy(ScrolledUp(buf))
<1>. DEFINE new == ScrolledUp(buf)
            text == FontSize * LastLine * Width
            one == FontSize * Width
<1>1. /\ FontSize \in Nat \ {0} /\ LastLine \in Nat /\ Width \in Nat \ {0}
      /\ text \in Nat /\ one \in Nat /\ Width * Height \in Nat
      /\ text + one <= Width * Height
  BY ConsoleAssumption, LinesFit, TextFits
<1>2. \A p \in Pixels : new[p] = IF p < text THEN buf[p + one]
                                 ELSE IF p < text + one THEN Blank
                                 ELSE buf[p]
  BY DEF ScrolledUp
<1>3. \A p \in Pixels : p \in Nat /\ (p < text => p + one \in Pixels)
  BY <1>1 DEF Pixels
<1>4. \A p \in Nat : /\ p < text <=> Row(p) < LastLine * FontSize
                     /\ p < text + one <=> Row(p) < (LastLine + 1) * FontSize
  BY TextIs
<1>5. \A p \in Nat : /\ p + one \in Nat /\ Row(p) \in Nat
                     /\ Row(p + one) = Row(p) + FontSize
                     /\ Column(p + one) = Column(p)
  BY PixelUnder, PixelIs
<1>. HIDE DEF new, text, one
<1>6. \A l \in CellLines : /\ l \in Nat /\ l <= LastLine /\ l * FontSize \in Nat
                           /\ (l + 1) * FontSize = l * FontSize + FontSize
                           /\ (l + 1 + 1) * FontSize = l * FontSize + FontSize + FontSize
  <2>. SUFFICES ASSUME NEW l \in CellLines
                PROVE  /\ l \in Nat /\ l <= LastLine /\ l * FontSize \in Nat
                       /\ (l + 1) * FontSize = l * FontSize + FontSize
                       /\ (l + 1 + 1) * FontSize = l * FontSize + FontSize + FontSize
    OBVIOUS
  <2>1. l \in Nat /\ l <= LastLine
    BY <1>1 DEF CellLines
  <2>2. (l + 1) * FontSize = l * FontSize + FontSize
    BY <1>1, <2>1, TimesNext
  <2>3. (l + 1 + 1) * FontSize = (l + 1) * FontSize + FontSize
    BY <1>1, <2>1, TimesNext
  <2>. QED
    BY <1>1, <2>1, <2>2, <2>3
<1>7. ASSUME NEW l \in CellLines, l < LastLine, NEW k \in CellColumns, NEW p \in Pixels
      PROVE  /\ l + 1 \in CellLines
             /\ p \in Cell(l, k) <=> p + one \in Cell(l + 1, k)
  <2>1. l + 1 \in CellLines
    BY <1>1, <1>6, <1>7 DEF CellLines
  <2>2. /\ p \in Nat /\ p + one \in Nat /\ Row(p) \in Nat
        /\ Row(p + one) = Row(p) + FontSize /\ Column(p + one) = Column(p)
    BY <1>3, <1>5
  <2>3. p \in Cell(l, k) <=>
              /\ l * FontSize <= Row(p) /\ Row(p) < (l + 1) * FontSize
              /\ k * Advance <= Column(p) /\ Column(p) < k * Advance + GlyphW
    BY <2>2, CellIs
  <2>4. p + one \in Cell(l + 1, k) <=>
              /\ (l + 1) * FontSize <= Row(p + one) /\ Row(p + one) < (l + 1 + 1) * FontSize
              /\ k * Advance <= Column(p + one) /\ Column(p + one) < k * Advance + GlyphW
    BY <2>1, <2>2, CellIs
  <2>5. /\ l * FontSize <= Row(p) <=> (l + 1) * FontSize <= Row(p) + FontSize
        /\ Row(p) < (l + 1) * FontSize <=> Row(p) + FontSize < (l + 1 + 1) * FontSize
    BY <1>1, <1>6, <2>2
  <2>. QED
    BY <2>1, <2>2, <2>3, <2>4, <2>5
<1>8. ASSUME NEW p \in Pixels \ CellPixels PROVE new[p] = Blank
  <2>1. CASE p < text
    <3>1. p + one \in Pixels
      BY <1>3, <2>1
    <3>2. ASSUME NEW m \in CellLines, NEW k \in CellColumns, p + one \in Cell(m, k)
          PROVE  FALSE
      <4>1. m * FontSize <= Row(p + one) /\ Row(p + one) < (m + 1) * FontSize
        BY <1>3, <1>5, <3>2, CellIs
      <4>2. m # 0
        <5>1. FontSize <= Row(p + one)
          BY <1>1, <1>3, <1>5
        <5>. QED
          BY <1>1, <1>3, <1>5, <4>1, <5>1
      <4>. DEFINE l == m - 1
      <4>3. l \in CellLines /\ l < LastLine /\ l + 1 = m
        BY <1>1, <1>6, <4>2 DEF CellLines
      <4>. HIDE DEF l
      <4>4. p \in Cell(l, k)
        BY <1>7, <3>2, <4>3
      <4>. QED
        BY <4>3, <4>4 DEF CellPixels, CellLines, CellColumns
    <3>3. p + one \notin CellPixels
      BY <3>2 DEF CellPixels, CellLines, CellColumns
    <3>. QED
      BY <1>2, <2>1, <3>1, <3>3 DEF Tidy
  <2>2. CASE ~(p < text)
    BY <1>2, <2>2 DEF Tidy
  <2>. QED
    BY <2>1, <2>2
<1>9. ASSUME NEW l \in CellLines, NEW k \in CellColumns, NEW p \in Cell(l, k), NEW q \in Cell(l, k)
      PROVE  new[p] = new[q]
  <2>1. p \in Pixels /\ q \in Pixels /\ p \in Nat /\ q \in Nat
    BY <1>3, CellIs
  <2>2. /\ l * FontSize <= Row(p) /\ Row(p) < (l + 1) * FontSize
        /\ l * FontSize <= Row(q) /\ Row(q) < (l + 1) * FontSize
        /\ Row(p) \in Nat /\ Row(q) \in Nat
    BY <1>5, <2>1, CellIs
  <2>3. CASE l = LastLine
    <3>1. ~(p < text) /\ p < text + one /\ ~(q < text) /\ q < text + one
      BY <1>1, <1>4, <1>6, <2>1, <2>2, <2>3
    <3>. QED
      BY <1>2, <2>1, <3>1
  <2>4. CASE l # LastLine
    <3>1. l + 1 <= LastLine /\ l < LastLine /\ l + 1 \in Int
      BY <1>1, <1>6, <2>4
    <3>2. (l + 1) * FontSize <= LastLine * FontSize /\ LastLine * FontSize \in Nat
      BY <1>1, <3>1, TimesMonotone
    <3>3. p < text /\ q < text
      BY <1>1, <1>4, <1>6, <2>1, <2>2, <3>2
    <3>4. l + 1 \in CellLines /\ p + one \in Cell(l + 1, k) /\ q + one \in Cell(l + 1, k)
      BY <1>7, <2>1, <3>1
    <3>5. buf[p + one] = buf[q + one]
      BY <3>4 DEF Tidy
    <3>. QED
      BY <1>2, <2>1, <3>3, <3>5
  <2>. QED
    BY <2>3, <2>4
<1>. QED
  BY <1>8, <1>9 DEF Tidy, new

-----------------------------------------------------------------------------
(* What each operation makes of buffers, screen and cursor. *)

\* The whole screen is copied, for it is no taller than wide (vga.c:46).
LEMMA FlushIs ==
  ASSUME NEW c \in Consoles
  PROVE  /\ flush_framebuffer(c) \in Consoles
         /\ flush_framebuffer(c).line = c.line /\ flush_framebuffer(c).col = c.col
         /\ flush_framebuffer(c).back = c.back /\ flush_framebuffer(c).front = c.back
<1>1. Height <= HRes /\ Width \in Nat /\ Height \in Nat /\ HRes \in Nat
  BY ConsoleAssumption, VgaAssumption
<1>2. Height * Width <= HRes * Width
  BY <1>1, TimesMonotone
<1>3. Width * Height \in Nat /\ Width * HRes \in Nat
      /\ Width * Height <= Width * HRes
  BY <1>1, <1>2
<1>4. \A p \in Pixels : p < Width * HRes
  BY <1>3 DEF Pixels
<1>. DEFINE screen == [p \in Pixels |-> IF p < Width * HRes THEN c.back[p]
                                       ELSE c.front[p]]
<1>5. c.back \in Buffers
  BY DEF Consoles
<1>6. screen = c.back
  BY <1>4, <1>5 DEF Buffers
<1>7. flush_framebuffer(c) = [c EXCEPT !.front = screen]
  BY DEF flush_framebuffer
<1>. HIDE DEF screen
<1>. QED
  BY <1>5, <1>6, <1>7 DEF Consoles

LEMMA ScrollIs ==
  ASSUME NEW c \in Consoles
  PROVE  /\ kscroll_down(c) \in Consoles
         /\ kscroll_down(c).line = c.line /\ kscroll_down(c).col = c.col
         /\ kscroll_down(c).back = ScrolledUp(c.back)
         /\ kscroll_down(c).front = ScrolledUp(c.back)
<1>. DEFINE moved == [c EXCEPT !.back = ScrolledUp(c.back)]
<1>1. c.back \in Buffers
  BY DEF Consoles
<1>2. ScrolledUp(c.back) \in Buffers
  BY <1>1, ScrolledUpType
<1>3. /\ moved \in Consoles /\ moved.line = c.line /\ moved.col = c.col
      /\ moved.back = ScrolledUp(c.back)
  BY <1>2 DEF Consoles
<1>4. kscroll_down(c) = flush_framebuffer(moved)
  BY DEF kscroll_down
<1>. HIDE DEF moved
<1>. QED
  BY <1>3, <1>4, FlushIs

\* At a cell, a character fills that cell and the cursor goes to the next.
LEMMA PutIs ==
  ASSUME NEW c \in Consoles, NEW ch \in Chars, NEW k \in CellColumns,
         c.line <= LastLine, c.col = k * Advance
  PROVE  /\ c.line \in CellLines
         /\ Put(c, ch) \in Consoles
         /\ Put(c, ch).line = c.line
         /\ Put(c, ch).col = (k + 1) * Advance
         /\ Put(c, ch).back = Paint(c.back, Cell(c.line, k), ch)
         /\ Put(c, ch).front = c.front
<1>1. /\ Advance \in Nat \ {0} /\ GlyphW \in Nat \ {0} /\ U16 \in Nat \ {0}
      /\ Width \in Nat /\ Width + 2 * Advance < U16 /\ LastLine \in Nat
  BY ConsoleAssumption, LinesFit
<1>2. Cols \in Int
  BY ConsoleAssumption DEF Cols
<1>3. k \in Nat /\ k < Cols
  BY <1>2 DEF CellColumns
<1>4. k * Advance + GlyphW <= Width /\ k * Advance \in Nat
  BY <1>1, <1>3, CellsFit
<1>5. c.line \in CellLines
  BY <1>1 DEF Consoles, CellLines
<1>6. (k + 1) * Advance = c.col + Advance
  BY <1>1, <1>3, TimesNext
<1>7. c.col + Advance < U16
  BY <1>1, <1>4
<1>8. /\ Put(c, ch) \in Consoles /\ Put(c, ch).line = c.line
      /\ Put(c, ch).col = (k + 1) * Advance
  BY <1>6, <1>7, PutType
<1>. DEFINE drawn == Paint(c.back, Glyph(c.line, c.col), ch)
            col == (c.col + Advance) % U16
<1>9. Put(c, ch) = [c EXCEPT !.back = drawn, !.col = col]
  BY DEF Put
<1>10. drawn = Paint(c.back, Cell(c.line, k), ch)
  BY DEF Cell
<1>. HIDE DEF drawn, col
<1>11. Put(c, ch).back = drawn /\ Put(c, ch).front = c.front
  BY <1>9 DEF Consoles
<1>. QED
  BY <1>5, <1>8, <1>10, <1>11

\* A newline goes to the next line or moves the text.
LEMMA NextLineIs ==
  ASSUME NEW c \in Consoles, c.line <= LastLine
  PROVE  /\ NextLine(c) \in Consoles /\ NextLine(c).col = c.col
         /\ \/ /\ c.line < LastLine /\ NextLine(c).line = c.line + 1
               /\ NextLine(c).back = c.back /\ NextLine(c).front = c.front
            \/ /\ c.line = LastLine /\ NextLine(c).line = LastLine
               /\ NextLine(c).back = ScrolledUp(c.back)
               /\ NextLine(c).front = ScrolledUp(c.back)
<1>1. NextLine(c) \in Consoles /\ NextLine(c).col = c.col /\ NextLine(c).line <= LastLine
  BY NextLineType, VgaAssumption
<1>2. CASE c.line = LastLine
  BY <1>1, <1>2, ScrollIs DEF NextLine
<1>3. CASE c.line # LastLine
  <2>. DEFINE line == (c.line + 1) % U16
  <2>1. NextLine(c) = [c EXCEPT !.line = line]
    BY <1>3 DEF NextLine
  <2>2. c.line \in Nat /\ c.line < LastLine /\ LastLine \in Nat
    BY <1>3, LinesFit DEF Consoles
  <2>3. U16 \in Nat \ {0} /\ c.line + 1 <= U16
    BY ConsoleAssumption DEF Consoles
  <2>4. line = c.line + 1 \/ (line = 0 /\ c.line + 1 = U16)
    BY <2>2, <2>3
  <2>. HIDE DEF line
  <2>5. /\ NextLine(c).line = line
        /\ NextLine(c).back = c.back /\ NextLine(c).front = c.front
    BY <2>1 DEF Consoles
  <2>6. c.line + 1 # U16
    <3>1. LastLine < Height /\ Height < U16 /\ Height \in Nat
      <4>1. FontSize \in Nat \ {0} /\ Height \in Nat /\ Height < U16
        BY ConsoleAssumption
      <4>2. LastLine + 1 <= (LastLine + 1) * FontSize
        BY <2>2, <4>1
      <4>. QED
        BY <2>2, <4>1, <4>2, LinesFit
    <3>. QED
      BY <2>2, <2>3, <3>1
  <2>. QED
    BY <1>1, <2>2, <2>4, <2>5, <2>6
<1>. QED
  BY <1>2, <1>3

LEMMA NewLineIs ==
  ASSUME NEW c \in Consoles, c.line <= LastLine
  PROVE  /\ NewLine(c) \in Consoles /\ NewLine(c).col = 0
         /\ \/ /\ c.line < LastLine /\ NewLine(c).line = c.line + 1
               /\ NewLine(c).back = c.back /\ NewLine(c).front = c.front
            \/ /\ c.line = LastLine /\ NewLine(c).line = LastLine
               /\ NewLine(c).back = ScrolledUp(c.back)
               /\ NewLine(c).front = ScrolledUp(c.back)
<1>. DEFINE first == [c EXCEPT !.col = 0]
<1>1. 0 \in 0 .. U16 - 1
  BY ConsoleAssumption
<1>2. /\ first \in Consoles /\ first.line = c.line /\ first.col = 0
      /\ first.back = c.back /\ first.front = c.front
  BY <1>1 DEF Consoles
<1>3. NewLine(c) = NextLine(first)
  BY DEF NewLine
<1>. HIDE DEF first
<1>. QED
  BY <1>2, <1>3, NextLineIs

\* A step back blanks the cell before the cursor, if there is one.
LEMMA BackspaceIs ==
  ASSUME NEW c \in Consoles, c.line <= LastLine,
         NEW k \in 0 .. Cols, c.col = k * Advance
  PROVE  IF k = 0 THEN backspace(c) = c
         ELSE /\ k - 1 \in CellColumns /\ c.line \in CellLines
              /\ backspace(c) \in Consoles
              /\ backspace(c).line = c.line
              /\ backspace(c).col = (k - 1) * Advance
              /\ backspace(c).back = Paint(c.back, Cell(c.line, k - 1), Space)
              /\ backspace(c).front = c.front
<1>1. /\ Advance \in Nat \ {0} /\ Cols \in Int /\ U16 \in Nat \ {0} /\ k \in Nat
      /\ c.col \in 0 .. U16 - 1 /\ Space \in Chars
  BY ConsoleAssumption DEF Cols, Consoles
<1>2. CASE k = 0
  BY <1>1, <1>2 DEF backspace
<1>3. CASE k # 0
  <2>. DEFINE m == k - 1
              back == [c EXCEPT !.col = c.col - Advance]
              drawn == Put(back, Space)
  <2>1. m \in Nat /\ m \in CellColumns /\ k = m + 1
    BY <1>1, <1>3 DEF CellColumns
  <2>. HIDE DEF m
  <2>2. c.col = m * Advance + Advance /\ m * Advance \in Nat
    BY <1>1, <2>1, TimesNext
  <2>3. c.col >= Advance /\ c.col - Advance = m * Advance
        /\ m * Advance \in 0 .. U16 - 1
    BY <1>1, <2>2
  <2>4. /\ back \in Consoles /\ back.line = c.line /\ back.col = m * Advance
        /\ back.back = c.back /\ back.front = c.front
    BY <2>3 DEF Consoles
  <2>. HIDE DEF back
  <2>5. /\ c.line \in CellLines /\ drawn \in Consoles /\ drawn.line = c.line
        /\ drawn.col = c.col
        /\ drawn.back = Paint(c.back, Cell(c.line, m), Space)
        /\ drawn.front = c.front
    BY <1>1, <2>1, <2>4, PutIs
  <2>6. backspace(c) = [drawn EXCEPT !.col = (drawn.col - Advance) % U16]
    BY <2>3 DEF backspace, back
  <2>7. (drawn.col - Advance) % U16 = m * Advance
    BY <1>1, <2>3, <2>5
  <2>. HIDE DEF drawn
  <2>8. /\ backspace(c) \in Consoles /\ backspace(c).line = c.line
        /\ backspace(c).col = m * Advance
        /\ backspace(c).back = drawn.back /\ backspace(c).front = drawn.front
    BY <2>3, <2>5, <2>6, <2>7 DEF Consoles
  <2>. QED
    BY <1>3, <2>1, <2>5, <2>8 DEF m
<1>. QED
  BY <1>2, <1>3

\* The cursor is at a cell, or behind the last one; with room on the line at a
\* cell.
LEMMA CursorCell ==
  ASSUME Disciplined, CursorAtCell
  PROVE  \E k \in 0 .. Cols : /\ con.col = k * Advance
                              /\ RoomOnLine => k \in CellColumns
<1>1. Advance \in Nat \ {0} /\ LineLimit \in Nat /\ Cols \in Int /\ LineLimit <= Cols
  BY ConsoleAssumption, VgaAssumption DEF Cols, Disciplined
<1>2. PICK k \in 0 .. LineLimit : con.col = k * Advance
  BY DEF CursorAtCell
<1>3. ASSUME RoomOnLine PROVE k \in CellColumns
  <2>1. k * Advance < LineLimit * Advance
    BY <1>2, <1>3 DEF RoomOnLine
  <2>2. k < LineLimit
    BY <1>1, <2>1, TimesOrder
  <2>. QED
    BY <1>1, <2>2 DEF CellColumns
<1>. QED
  BY <1>1, <1>2, <1>3

-----------------------------------------------------------------------------
(* Margins and cells. *)

\* Every operation of the thread and of the handlers leaves the buffers tidy.
LEMMA StepTidy ==
  ASSUME Disciplined, IInv, TidyConsole(con), [Next]_vars
  PROVE  TidyConsole(con)'
<1>1. con \in Consoles /\ con.line <= LastLine /\ CursorAtCell /\ ThreadUpToDate /\ arg \in Chars
  BY DEF IInv, TypeOK, CursorOnScreen
<1>2. con.back \in Buffers /\ Tidy(con.back) /\ (con.front = BootScreen \/ Tidy(con.front))
  BY <1>1 DEF Consoles, TidyConsole
<1>3. PICK k \in 0 .. Cols : con.col = k * Advance /\ (RoomOnLine => k \in CellColumns)
  BY CursorCell DEF IInv
<1>4. ASSUME con'.back = con.back, con'.front = con.front PROVE TidyConsole(con)'
  BY <1>2, <1>4 DEF TidyConsole
<1>5. ASSUME NEW c \in Consoles, TidyConsole(c), c.line <= LastLine
      PROVE  TidyConsole(NextLine(c)) /\ TidyConsole(NewLine(c)) /\ TidyConsole(kscroll_down(c))
  <2>1. c.back \in Buffers /\ Tidy(c.back)
    BY <1>5 DEF Consoles, TidyConsole
  <2>2. Tidy(ScrolledUp(c.back))
    BY <2>1, ScrollTidy
  <2>3. TidyConsole(NextLine(c))
    BY <1>5, <2>2, NextLineIs DEF TidyConsole
  <2>4. TidyConsole(NewLine(c))
    BY <1>5, <2>2, NewLineIs DEF TidyConsole
  <2>5. TidyConsole(kscroll_down(c))
    BY <1>5, <2>2, ScrollIs DEF TidyConsole
  <2>. QED
    BY <2>3, <2>4, <2>5
<1>6. ASSUME RoomOnLine, NEW c \in Chars
      PROVE  /\ Put(con, c) \in Consoles /\ Put(con, c).line <= LastLine
             /\ TidyConsole(Put(con, c))
             /\ Tidy(Paint(con.back, Glyph(con.line, con.col), c))
  <2>1. /\ con.line \in CellLines /\ Put(con, c) \in Consoles /\ k \in CellColumns
        /\ Put(con, c).line = con.line
        /\ Put(con, c).back = Paint(con.back, Cell(con.line, k), c)
        /\ Put(con, c).front = con.front
    BY <1>1, <1>3, <1>6, PutIs
  <2>2. Tidy(Paint(con.back, Cell(con.line, k), c))
    BY <1>2, <2>1, PaintTidy
  <2>3. Cell(con.line, k) = Glyph(con.line, con.col)
    BY <1>3 DEF Cell
  <2>. QED
    BY <1>1, <1>2, <2>1, <2>2, <2>3 DEF TidyConsole
<1>7. TidyConsole(con)
  OBVIOUS
<1>8. CASE Draw
  <2>. DEFINE drawn == Paint(con.back, Glyph(at.line, at.col), arg)
  <2>1. RoomOnLine /\ at.line = con.line /\ at.col = con.col
    BY <1>1, <1>8 DEF Draw, Goto, ThreadUpToDate
  <2>2. Tidy(drawn)
    BY <1>1, <1>6, <2>1
  <2>3. con' = [con EXCEPT !.back = drawn]
    BY <1>8 DEF Draw
  <2>. HIDE DEF drawn
  <2>4. con'.back = drawn /\ con'.front = con.front
    BY <1>1, <2>3 DEF Consoles
  <2>. QED
    BY <1>2, <2>2, <2>4 DEF TidyConsole
<1>9. CASE StoreCol \/ BeginNewLine \/ StoreLine
  <2>1. con'.back = con.back /\ con'.front = con.front
    BY <1>1, <1>9 DEF StoreCol, BeginNewLine, StoreLine, Consoles
  <2>. QED
    BY <1>4, <2>1
<1>10. CASE ScrollLine \/ CallScroll
  BY <1>1, <1>5, <1>7, <1>10 DEF ScrollLine, CallScroll, Call, TidyConsole
<1>11. CASE BlankPage \/ BlankReport \/ EndInitialize
  <2>1. BlankBuffer \in Buffers /\ Tidy(BlankBuffer)
    <3>1. \A p \in Pixels : BlankBuffer[p] = Blank
      BY DEF BlankBuffer
    <3>2. \A l \in CellLines, n \in CellColumns : Cell(l, n) \subseteq Pixels
      BY CellIs
    <3>3. BlankBuffer \in Buffers
      BY DEF BlankBuffer, Buffers
    <3>. QED
      BY <3>1, <3>2, <3>3 DEF Tidy
  <2>2. con'.back = BlankBuffer /\ con'.front = con.front
    BY <1>1, <1>11 DEF BlankPage, BlankReport, EndInitialize, Call, blank_output, Consoles
  <2>. QED
    BY <1>2, <2>1, <2>2 DEF TidyConsole
<1>12. CASE \E c \in Chars : KeyChar(c) \/ UnexpectedInterrupt(c)
  <2>1. PICK c \in Chars : KeyChar(c) \/ UnexpectedInterrupt(c)
    BY <1>12
  <2>2. RoomOnLine
    BY <2>1 DEF KeyChar, UnexpectedInterrupt
  <2>3. con' = Put(con, c) \/ con' = NewLine(Put(con, c))
    BY <2>1 DEF KeyChar, UnexpectedInterrupt, Handler
  <2>4. TidyConsole(Put(con, c)) /\ TidyConsole(NewLine(Put(con, c)))
    BY <1>5, <1>6, <2>2
  <2>. QED
    BY <2>3, <2>4 DEF TidyConsole
<1>13. CASE KeyEnter
  BY <1>1, <1>5, <1>7, <1>13 DEF KeyEnter, Handler, TidyConsole
<1>14. CASE KeyBackspace
  <2>1. con' = backspace(con)
    BY <1>14 DEF KeyBackspace, Handler
  <2>2. CASE k = 0
    BY <1>1, <1>3, <1>4, <2>1, <2>2, BackspaceIs
  <2>3. CASE k # 0
    <3>1. /\ k - 1 \in CellColumns /\ con.line \in CellLines
          /\ con'.back = Paint(con.back, Cell(con.line, k - 1), Space)
          /\ con'.front = con.front
      BY <1>1, <1>3, <2>1, <2>3, BackspaceIs
    <3>2. Space \in Chars
      BY ConsoleAssumption
    <3>3. Tidy(Paint(con.back, Cell(con.line, k - 1), Space))
      BY <1>2, <3>1, <3>2, PaintTidy
    <3>. QED
      BY <1>2, <3>1, <3>3 DEF TidyConsole
  <2>. QED
    BY <2>2, <2>3
<1>15. CASE con' = con
  BY <1>4, <1>15
<1>16. CASE FlushReport \/ FlushPost \/ FlushBlank
  BY <1>1, <1>2, <1>16, FlushIs DEF FlushReport, FlushPost, FlushBlank, Call, TidyConsole
<1>. QED
  BY <1>8, <1>9, <1>10, <1>11, <1>12, <1>13, <1>14, <1>15, <1>16
     DEF Next, Thread, Interrupt, BeginPut, LoadCol, TestLine, LoadLine,
         EnableInterrupts, Call, Halt, vars

\* From the first copy on (mem.c:60), the screen shows what was in the back buffer.
Copied == stage # "report" => Tidy(con.front)

LEMMA StepCopied ==
  ASSUME Disciplined, IInv, TidyConsole(con), Copied, [Next]_vars
  PROVE  Copied'
<1>1. /\ con \in Consoles /\ con.line <= LastLine /\ CursorAtCell
  BY DEF IInv, TypeOK, CursorOnScreen
<1>2. Tidy(con'.back)
  BY StepTidy DEF TidyConsole
<1>3. ASSUME con'.front = con'.back PROVE Copied'
  BY <1>2, <1>3 DEF Copied
<1>4. ASSUME con'.front = con.front, stage' = stage PROVE Copied'
  BY <1>4 DEF Copied
<1>5. CASE FlushReport \/ FlushPost \/ FlushBlank \/ CallScroll \/ ScrollLine
  BY <1>1, <1>3, <1>5, FlushIs, ScrollIs
     DEF FlushReport, FlushPost, FlushBlank, CallScroll, ScrollLine, Call
<1>6. CASE BlankPage \/ BlankReport \/ EndInitialize
  <2>1. con'.front = con.front /\ stage # "report"
    BY <1>1, <1>6
       DEF BlankPage, BlankReport, EndInitialize, Call, blank_output, Consoles
  <2>. QED
    BY <2>1 DEF Copied
<1>7. CASE Draw \/ StoreCol \/ BeginNewLine \/ StoreLine
  <2>1. con'.front = con.front /\ stage' = stage
    BY <1>1, <1>7 DEF Draw, StoreCol, BeginNewLine, StoreLine, Goto, Consoles
  <2>. QED
    BY <1>4, <2>1
<1>8. CASE UNCHANGED con /\ (EnableInterrupts \/ UNCHANGED stage)
  BY <1>8 DEF EnableInterrupts, Call, Copied
<1>9. ASSUME NEW c \in Chars, RoomOnLine
      PROVE  /\ Put(con, c) \in Consoles /\ Put(con, c).line <= LastLine
             /\ Put(con, c).front = con.front
  <2>1. PICK k \in CellColumns : con.col = k * Advance
    BY <1>9, CursorCell DEF IInv
  <2>. QED
    BY <1>1, <2>1, PutIs
<1>10. ASSUME NEW c \in Consoles, c.line <= LastLine, c.front = con.front,
              con' = NewLine(c), stage' = stage
       PROVE  Copied'
  BY <1>3, <1>4, <1>10, NewLineIs
<1>11. CASE \E c \in Chars : KeyChar(c)
  BY <1>4, <1>9, <1>11 DEF KeyChar, Handler
<1>12. CASE \E c \in Chars : UnexpectedInterrupt(c)
  BY <1>9, <1>10, <1>12 DEF UnexpectedInterrupt, Handler
<1>13. CASE KeyEnter
  BY <1>1, <1>10, <1>13 DEF KeyEnter, Handler
<1>14. CASE KeyBackspace
  <2>1. PICK k \in 0 .. Cols : con.col = k * Advance
    BY CursorCell DEF IInv
  <2>2. backspace(con).front = con.front
    BY <1>1, <2>1, BackspaceIs
  <2>. QED
    BY <1>4, <1>14, <2>2 DEF KeyBackspace, Handler
<1>. QED
  BY <1>5, <1>6, <1>7, <1>8, <1>11, <1>12, <1>13, <1>14
     DEF Next, Thread, Interrupt, BeginPut, LoadCol, TestLine, LoadLine,
         EnableInterrupts, Call, Goto, Halt, vars

\* The buffers are tidy from the first character on.
LEMMA AlwaysTidy ==
  ASSUME Disciplined
  PROVE  Spec => [](IInv /\ TidyConsole(con) /\ Copied)
<1>1. Init => IInv /\ TidyConsole(con) /\ Copied
  <2>. SUFFICES ASSUME Init PROVE TidyConsole(con)
    BY InitIInv DEF Init, Copied
  <2>1. con.back = BlankBuffer /\ con.front = BootScreen
    BY DEF Init
  <2>2. \A p \in Pixels : BlankBuffer[p] = Blank
    BY DEF BlankBuffer
  <2>3. \A l \in CellLines, n \in CellColumns : Cell(l, n) \subseteq Pixels
    BY CellIs
  <2>. QED
    BY <2>1, <2>2, <2>3 DEF TidyConsole, Tidy
<1>2. IInv /\ TidyConsole(con) /\ Copied /\ [Next]_vars
        => (IInv /\ TidyConsole(con) /\ Copied)'
  BY StepIInv, StepTidy, StepCopied
<1>. QED
  BY <1>1, <1>2, PTL DEF Spec

\* No operation draws on the gaps, the right margin or the rows below the last
\* line of text, or moves anything there (vga.c:83-142).
THEOREM MarginsAlwaysBlank ==
  ASSUME Disciplined
  PROVE  Spec => []MarginsBlank
<1>1. TidyConsole(con) /\ Copied => MarginsBlank
  BY DEF TidyConsole, Copied, Tidy, MarginsBlank
<1>. QED
  BY <1>1, AlwaysTidy, PTL

\* Every cell shows one character, in memory and on the screen, after any number
\* of characters, lines and handlers' messages.
THEOREM CellsAlwaysLegible ==
  ASSUME Disciplined
  PROVE  Spec => []CellsLegible
<1>1. TidyConsole(con) => CellsLegible
  <2>. SUFFICES ASSUME TidyConsole(con), NEW l \in CellLines, NEW k \in CellColumns,
                       NEW p \in Cell(l, k), NEW q \in Cell(l, k)
                PROVE  con.back[p] = con.back[q] /\ con.front[p] = con.front[q]
    BY DEF CellsLegible, CellLines, CellColumns
  <2>1. p \in Pixels /\ q \in Pixels
    BY CellIs
  <2>. QED
    BY <2>1 DEF TidyConsole, Tidy, BootScreen
<1>. QED
  BY <1>1, AlwaysTidy, PTL

-----------------------------------------------------------------------------
(* The console implements the terminal. *)

\* A character drawn in a cell is written in the grid.
LEMMA GridPaint ==
  ASSUME NEW buf \in Buffers, NEW l \in CellLines, NEW k \in CellColumns, NEW c \in Chars
  PROVE  GridOf(Paint(buf, Cell(l, k), c)) = Term!Written(GridOf(buf), l, k, c)
<1>. DEFINE First(m, n) == m * FontSize * Width + n * Advance
            new == Paint(buf, Cell(l, k), c)
<1>1. \A p \in Pixels : new[p] = IF p \in Cell(l, k) THEN Ink(c) ELSE buf[p]
  BY DEF Paint
<1>. HIDE DEF new
<1>2. \A m \in CellLines, n \in CellColumns :
        /\ First(m, n) \in Pixels
        /\ First(m, n) \in Cell(l, k) <=> m = l /\ n = k
  <2>. SUFFICES ASSUME NEW m \in CellLines, NEW n \in CellColumns
                PROVE  /\ First(m, n) \in Pixels
                       /\ First(m, n) \in Cell(l, k) <=> m = l /\ n = k
    OBVIOUS
  <2>1. First(m, n) \in Cell(m, n) /\ Cell(m, n) \subseteq Pixels
    BY CellIs
  <2>. HIDE DEF First
  <2>2. First(m, n) \in Cell(l, k) => m = l /\ n = k
    BY <2>1, OneCell
  <2>. QED
    BY <2>1, <2>2
<1>3. \A m \in CellLines, n \in CellColumns :
        new[First(m, n)] = IF m = l /\ n = k THEN Ink(c) ELSE buf[First(m, n)]
  BY <1>1, <1>2
<1>4. \A b : GridOf(b) = [m \in CellLines |-> [n \in CellColumns |-> b[First(m, n)]]]
  BY DEF GridOf, CellLines, CellColumns
<1>. HIDE DEF First
<1>5. Term!Written(GridOf(buf), l, k, c) = [GridOf(buf) EXCEPT ![l][k] = Ink(c)]
  BY DEF Term!Written, Ink
<1>6. [GridOf(buf) EXCEPT ![l][k] = Ink(c)]
        = [m \in CellLines |-> [n \in CellColumns |->
             IF m = l /\ n = k THEN Ink(c) ELSE buf[First(m, n)]]]
  BY <1>4
<1>7. GridOf(new) = [m \in CellLines |-> [n \in CellColumns |->
             IF m = l /\ n = k THEN Ink(c) ELSE buf[First(m, n)]]]
  BY <1>3, <1>4
<1>. QED
  BY <1>5, <1>6, <1>7 DEF new

\* Text that moves up in the buffer moves up in the grid.
LEMMA GridScroll ==
  ASSUME NEW buf \in Buffers
  PROVE  GridOf(ScrolledUp(buf)) = Term!Shifted(GridOf(buf))
<1>. DEFINE First(m, n) == m * FontSize * Width + n * Advance
            text == FontSize * LastLine * Width
            one == FontSize * Width
            new == ScrolledUp(buf)
<1>1. \A p \in Pixels : new[p] = IF p < text THEN buf[p + one]
                                 ELSE IF p < text + one THEN Blank
                                 ELSE buf[p]
  BY DEF ScrolledUp
<1>2. /\ LastLine \in Nat /\ FontSize \in Nat \ {0} /\ Width \in Nat \ {0}
      /\ Advance \in Nat /\ CellLines \subseteq Nat
  BY LinesFit, ConsoleAssumption DEF CellLines
<1>3. \A m \in CellLines, n \in CellColumns :
        /\ First(m, n) \in Pixels /\ First(m, n) \in Nat
        /\ m * FontSize <= Row(First(m, n)) /\ Row(First(m, n)) < (m + 1) * FontSize
        /\ Row(First(m, n)) \in Nat
  <2>. SUFFICES ASSUME NEW m \in CellLines, NEW n \in CellColumns
                PROVE  /\ First(m, n) \in Pixels /\ First(m, n) \in Nat
                       /\ m * FontSize <= Row(First(m, n))
                       /\ Row(First(m, n)) < (m + 1) * FontSize
                       /\ Row(First(m, n)) \in Nat
    OBVIOUS
  <2>1. First(m, n) \in Cell(m, n) /\ Cell(m, n) \subseteq Pixels
    BY CellIs
  <2>. HIDE DEF First
  <2>2. First(m, n) \in Nat
    BY <2>1, ConsoleAssumption DEF Pixels
  <2>. QED
    BY <2>1, <2>2, CellIs, PixelIs
<1>4. ASSUME NEW n \in CellColumns PROVE new[First(LastLine, n)] = Blank
  <2>1. LastLine \in CellLines
    BY <1>2 DEF CellLines
  <2>. DEFINE p == First(LastLine, n)
  <2>2. /\ p \in Pixels /\ p \in Nat /\ Row(p) \in Nat
        /\ LastLine * FontSize <= Row(p) /\ Row(p) < (LastLine + 1) * FontSize
    BY <1>3, <2>1
  <2>. HIDE DEF p
  <2>3. ~(p < text) /\ p < text + one
    <3>1. LastLine * FontSize \in Nat
      BY <1>2
    <3>2. ~(Row(p) < LastLine * FontSize)
      BY <2>2, <3>1
    <3>. QED
      BY <2>2, <3>2, TextIs
  <2>. QED
    BY <1>1, <2>2, <2>3 DEF p
<1>5. ASSUME NEW m \in CellLines, m # LastLine, NEW n \in CellColumns
      PROVE  m + 1 \in CellLines /\ new[First(m, n)] = buf[First(m + 1, n)]
  <2>1. m \in Nat /\ m + 1 <= LastLine /\ m + 1 \in CellLines
    BY <1>2, <1>5 DEF CellLines
  <2>2. (m + 1) * FontSize <= LastLine * FontSize
    BY <1>2, <2>1, TimesMonotone
  <2>. DEFINE p == First(m, n)
  <2>3. p \in Pixels /\ p \in Nat /\ Row(p) < (m + 1) * FontSize /\ Row(p) \in Nat
    BY <1>3
  <2>4. First(m + 1, n) = p + one
    <3>1. (m + 1) * FontSize * Width = m * FontSize * Width + FontSize * Width
      BY <1>2, <2>1
    <3>2. n * Advance \in Int /\ m * FontSize * Width \in Nat /\ FontSize * Width \in Nat
      BY <1>2, <2>1 DEF CellColumns
    <3>. QED
      BY <3>1, <3>2
  <2>. HIDE DEF p, First
  <2>5. p < text
    <3>1. LastLine * FontSize \in Nat /\ (m + 1) * FontSize \in Nat
      BY <1>2, <2>1
    <3>2. Row(p) < LastLine * FontSize
      BY <2>2, <2>3, <3>1
    <3>. QED
      BY <2>3, <3>2, TextIs
  <2>. QED
    BY <1>1, <2>1, <2>3, <2>4, <2>5 DEF p
<1>6. \A b : GridOf(b) = [m \in CellLines |-> [n \in CellColumns |-> b[First(m, n)]]]
  BY DEF GridOf, CellLines, CellColumns
<1>. HIDE DEF First, new, text, one
<1>7. Term!Shifted(GridOf(buf))
        = [m \in CellLines |-> IF m = LastLine THEN [n \in CellColumns |-> Blank]
                               ELSE GridOf(buf)[m + 1]]
  <2>1. (LastLine + 1) - 1 = LastLine
    BY <1>2
  <2>. QED
    BY <2>1 DEF Term!Shifted, Term!EmptyLine, CellLines, CellColumns
<1>8. ASSUME NEW m \in CellLines
      PROVE  [n \in CellColumns |-> new[First(m, n)]]
               = IF m = LastLine THEN [n \in CellColumns |-> Blank] ELSE GridOf(buf)[m + 1]
  <2>1. CASE m = LastLine
    BY <1>4, <2>1
  <2>2. CASE m # LastLine
    <3>1. m + 1 \in CellLines
      BY <1>2, <2>2 DEF CellLines
    <3>2. GridOf(buf)[m + 1] = [n \in CellColumns |-> buf[First(m + 1, n)]]
      BY <1>6, <3>1
    <3>. QED
      BY <1>5, <2>2, <3>2
  <2>. QED
    BY <2>1, <2>2
<1>9. GridOf(new) = [m \in CellLines |-> IF m = LastLine THEN [n \in CellColumns |-> Blank]
                                         ELSE GridOf(buf)[m + 1]]
  BY <1>6, <1>8
<1>. QED
  BY <1>7, <1>9 DEF new

\* The column of a cell.
LEMMA ColumnOf == ASSUME NEW k \in Nat PROVE (k * Advance) \div Advance = k
<1>. DEFINE a == Advance
<1>1. a \in Nat \ {0}
  BY ConsoleAssumption
<1>. HIDE DEF a
<1>2. (k * a) \div a = k
  BY <1>1
<1>. QED
  BY <1>2 DEF a

\* A call that is over, or has not begun, has no effect to come.
LEMMA NothingToCome == pc \in {"idle", "hlt"} => Completed = con
BY DEF Completed

\* What the console's operations are to the terminal.
LEMMA TermPut ==
  ASSUME Disciplined, IInv, RoomOnLine, Completed = con,
         NEW c \in Chars, Completed' = Put(con, c)
  PROVE  Term!PutChar(c)
<1>1. con \in Consoles /\ con.line <= LastLine /\ con.back \in Buffers
  BY DEF IInv, TypeOK, CursorOnScreen, Consoles
<1>2. PICK k \in CellColumns : con.col = k * Advance
  BY CursorCell DEF IInv
<1>3. k \in Nat /\ k < Cols /\ Cols \in Int
  BY ConsoleAssumption DEF CellColumns, Cols
<1>4. /\ con.line \in CellLines
      /\ Put(con, c).line = con.line
      /\ Put(con, c).col = (k + 1) * Advance
      /\ Put(con, c).back = Paint(con.back, Cell(con.line, k), c)
      /\ Put(con, c).front = con.front
  BY <1>1, <1>2, PutIs
<1>5. con.col \div Advance = k /\ Put(con, c).col \div Advance = k + 1
  BY <1>2, <1>3, <1>4, ColumnOf
<1>6. GridOf(Paint(con.back, Cell(con.line, k), c)) = Term!Written(GridOf(con.back), con.line, k, c)
  BY <1>1, <1>4, GridPaint
<1>7. /\ GridOf(Completed.back)' = Term!Written(GridOf(Completed.back), Completed.line, Completed.col \div Advance, c)
      /\ Completed'.line = Completed.line
      /\ GridOf(Completed.front)' = GridOf(Completed.front)
  BY <1>4, <1>5, <1>6 DEF GridOf
<1>. QED
  BY <1>3, <1>4, <1>5, <1>7 DEF Term!PutChar

\* A newline after c's text, of c or of what was printed before it.
LEMMA TermBreak ==
  ASSUME NEW c \in Consoles, c.line <= LastLine, Completed' = NewLine(c),
         Completed.line = c.line, Completed.front = c.front
  PROVE  Term!BreakLine(GridOf(c.back))
<1>. DEFINE d == NewLine(c)
<1>1. c.back \in Buffers /\ LastLine \in Nat /\ c.line \in Nat
  BY LinesFit DEF Consoles
<1>2. /\ d.col = 0
      /\ \/ /\ c.line < LastLine /\ d.line = c.line + 1
            /\ d.back = c.back /\ d.front = c.front
         \/ /\ c.line = LastLine /\ d.line = LastLine
            /\ d.back = ScrolledUp(c.back) /\ d.front = ScrolledUp(c.back)
  BY NewLineIs
<1>3. GridOf(ScrolledUp(c.back)) = Term!Shifted(GridOf(c.back))
  BY <1>1, GridScroll
<1>. HIDE DEF d
<1>4. Completed' = d
  BY DEF d
<1>5. 0 \div Advance = 0
  BY ConsoleAssumption
<1>6. /\ GridOf(Completed.back)' = GridOf(d.back)
      /\ GridOf(Completed.front)' = GridOf(d.front)
      /\ Completed'.line = d.line /\ Completed'.col \div Advance = 0
  BY <1>2, <1>4, <1>5 DEF GridOf
<1>7. (LastLine + 1) - 1 = LastLine
  BY <1>1
<1>8. CASE c.line < LastLine
  <2>1. d.line = c.line + 1 /\ d.back = c.back /\ d.front = c.front
    BY <1>1, <1>2, <1>8
  <2>. QED
    BY <1>6, <1>7, <1>8, <2>1 DEF Term!BreakLine
<1>9. CASE c.line = LastLine
  <2>1. d.line = LastLine /\ d.back = ScrolledUp(c.back) /\ d.front = ScrolledUp(c.back)
    BY <1>1, <1>2, <1>9
  <2>. QED
    BY <1>3, <1>6, <1>7, <1>9, <2>1 DEF Term!BreakLine, Term!Scroll
<1>. QED
  BY <1>1, <1>2, <1>8, <1>9

LEMMA TermNewLine ==
  ASSUME IInv, Completed = con, Completed' = NewLine(con)
  PROVE  Term!NewLine
<1>1. con \in Consoles /\ con.line <= LastLine
  BY DEF IInv, TypeOK, CursorOnScreen
<1>2. Term!BreakLine(GridOf(con.back))
  BY <1>1, TermBreak
<1>. QED
  BY <1>2 DEF Term!NewLine

LEMMA TermMessage ==
  ASSUME Disciplined, IInv, RoomOnLine, Completed = con,
         NEW c \in Chars, Completed' = NewLine(Put(con, c))
  PROVE  Term!Message(c)
<1>1. con \in Consoles /\ con.line <= LastLine /\ con.back \in Buffers
  BY DEF IInv, TypeOK, CursorOnScreen, Consoles
<1>2. PICK k \in CellColumns : con.col = k * Advance
  BY CursorCell DEF IInv
<1>3. k \in Nat /\ k < Cols /\ Cols \in Int
  BY ConsoleAssumption DEF CellColumns, Cols
<1>4. /\ con.line \in CellLines
      /\ Put(con, c) \in Consoles
      /\ Put(con, c).line = con.line
      /\ Put(con, c).back = Paint(con.back, Cell(con.line, k), c)
      /\ Put(con, c).front = con.front
  BY <1>1, <1>2, PutIs
<1>5. con.col \div Advance = k
  BY <1>2, <1>3, ColumnOf
<1>6. GridOf(Put(con, c).back) = Term!Written(GridOf(con.back), con.line, k, c)
  BY <1>1, <1>4, GridPaint
<1>7. Term!BreakLine(GridOf(Put(con, c).back))
  BY <1>1, <1>4, TermBreak
<1>. QED
  BY <1>3, <1>5, <1>6, <1>7 DEF Term!Message

LEMMA TermScrollText ==
  ASSUME IInv, Completed = con, Completed' = kscroll_down(con)
  PROVE  Term!ScrollText
<1>1. con \in Consoles /\ con.back \in Buffers
  BY DEF IInv, TypeOK, Consoles
<1>2. /\ kscroll_down(con).line = con.line /\ kscroll_down(con).col = con.col
      /\ kscroll_down(con).back = ScrolledUp(con.back)
      /\ kscroll_down(con).front = ScrolledUp(con.back)
  BY <1>1, ScrollIs
<1>3. GridOf(ScrolledUp(con.back)) = Term!Shifted(GridOf(con.back))
  BY <1>1, GridScroll
<1>4. /\ GridOf(Completed.back)' = Term!Shifted(GridOf(Completed.back))
      /\ GridOf(Completed.front)' = GridOf(Completed.back)'
      /\ Completed'.line = Completed.line /\ Completed'.col = Completed.col
  BY <1>2, <1>3 DEF GridOf
<1>. QED
  BY <1>4 DEF Term!ScrollText, Term!Scroll

LEMMA TermClear ==
  ASSUME IInv, Completed = con, Completed' = blank_output(con)
  PROVE  Term!Clear
<1>1. con \in Consoles
  BY DEF IInv, TypeOK
<1>2. /\ blank_output(con).line = 0 /\ blank_output(con).col = 0
      /\ blank_output(con).back = BlankBuffer /\ blank_output(con).front = con.front
  BY <1>1 DEF blank_output, Consoles
<1>3. GridOf(BlankBuffer) = Term!EmptyGrid
  <2>1. \A m \in CellLines, n \in CellColumns : m * FontSize * Width + n * Advance \in Pixels
    BY CellIs
  <2>2. (LastLine + 1) - 1 = LastLine
    BY LinesFit
  <2>. QED
    BY <2>1, <2>2 DEF GridOf, BlankBuffer, Term!EmptyGrid, Term!EmptyLine, CellLines, CellColumns
<1>4. 0 \div Advance = 0
  BY ConsoleAssumption
<1>5. /\ GridOf(Completed.back)' = Term!EmptyGrid
      /\ GridOf(Completed.front)' = GridOf(Completed.front)
      /\ Completed'.line = 0 /\ Completed'.col \div Advance = 0
  BY <1>2, <1>3, <1>4 DEF GridOf
<1>. QED
  BY <1>5 DEF Term!Clear

LEMMA TermRefresh ==
  ASSUME IInv, Completed = con, Completed' = flush_framebuffer(con)
  PROVE  Term!Refresh
<1>1. con \in Consoles
  BY DEF IInv, TypeOK
<1>2. /\ flush_framebuffer(con).line = con.line
      /\ flush_framebuffer(con).col = con.col
      /\ flush_framebuffer(con).back = con.back
      /\ flush_framebuffer(con).front = con.back
  BY <1>1, FlushIs
<1>. QED
  BY <1>2 DEF Term!Refresh, GridOf

LEMMA TermBackspace ==
  ASSUME Disciplined, IInv, Completed = con, Completed' = backspace(con)
  PROVE  Term!Backspace \/ UNCHANGED Term!vars
<1>1. con \in Consoles /\ con.line <= LastLine /\ con.back \in Buffers
  BY DEF IInv, TypeOK, CursorOnScreen, Consoles
<1>2. PICK k \in 0 .. Cols : con.col = k * Advance
  BY CursorCell DEF IInv
<1>3. CASE k = 0
  <2>1. Completed' = Completed
    BY <1>1, <1>2, <1>3, BackspaceIs
  <2>. QED
    BY <2>1 DEF Term!vars, GridOf
<1>4. CASE k # 0
  <2>1. k \in Nat /\ k - 1 \in Nat
    BY <1>4, ConsoleAssumption DEF Cols
  <2>2. /\ k - 1 \in CellColumns /\ con.line \in CellLines
        /\ backspace(con).line = con.line
        /\ backspace(con).col = (k - 1) * Advance
        /\ backspace(con).back = Paint(con.back, Cell(con.line, k - 1), Space)
        /\ backspace(con).front = con.front
    BY <1>1, <1>2, <1>4, BackspaceIs
  <2>3. con.col \div Advance = k /\ backspace(con).col \div Advance = k - 1
    BY <1>2, <2>1, <2>2, ColumnOf
  <2>4. Space \in Chars
    BY ConsoleAssumption
  <2>5. GridOf(backspace(con).back)
          = Term!Written(GridOf(con.back), con.line, k - 1, Space)
    BY <1>1, <2>2, <2>4, GridPaint
  <2>6. /\ GridOf(Completed.back)'
             = Term!Written(GridOf(Completed.back), Completed.line,
                            (Completed.col \div Advance) - 1, Space)
        /\ GridOf(Completed.front)' = GridOf(Completed.front)
        /\ Completed'.line = Completed.line
        /\ Completed'.col \div Advance = (Completed.col \div Advance) - 1
        /\ Completed.col \div Advance > 0
    BY <2>1, <2>2, <2>3, <2>5 DEF GridOf
  <2>. QED
    BY <2>6 DEF Term!Backspace
<1>. QED
  BY <1>3, <1>4

\* What is to come does not change while a call goes on.
LEMMA TermStutters ==
  ASSUME Completed' = Completed
  PROVE  UNCHANGED Term!vars
BY DEF Term!vars, GridOf

\* Each step of the console is one of the terminal's, or changes nothing there.
LEMMA StepRefines ==
  ASSUME Disciplined, IInv, [Next]_vars
  PROVE  [Term!Next]_Term!vars
<1>1. con \in Consoles /\ con.line <= LastLine /\ ThreadUpToDate /\ arg \in Chars
  BY DEF IInv, TypeOK, CursorOnScreen
<1>2. /\ DOMAIN con = {"line", "col", "back", "front"}
      /\ con.line \in 0 .. U16 - 1 /\ con.col \in 0 .. U16 - 1
  BY <1>1 DEF Consoles
<1>3. ASSUME NEW c \in Chars, BeginPut(c) PROVE Term!PutChar(c)
  <2>1. pc = "idle" /\ pc' = "draw" /\ con' = con /\ arg' = c /\ RoomOnLine
    BY <1>3 DEF BeginPut, Goto
  <2>2. Completed = con /\ Completed' = Put(con, c)
    BY <2>1 DEF Completed
  <2>. QED
    BY <2>1, <2>2, TermPut
<1>4. CASE Draw
  <2>. DEFINE drawn == Paint(con.back, Glyph(con.line, con.col), arg)
              col == (con.col + Advance) % U16
  <2>1. /\ pc = "draw" /\ pc' = "load_col" /\ UNCHANGED <<arg, at, reg>>
        /\ at = [line |-> con.line, col |-> con.col]
    BY <1>1, <1>4 DEF Draw, Goto, ThreadUpToDate
  <2>2. con' = [con EXCEPT !.back = drawn]
    BY <1>4, <2>1 DEF Draw
  <2>3. Completed = [con EXCEPT !.back = drawn, !.col = col]
    BY <2>1 DEF Completed, Put
  <2>4. Completed' = [con' EXCEPT !.col = (con'.col + Advance) % U16]
    BY <2>1 DEF Completed
  <2>. HIDE DEF drawn
  <2>5. con'.col = con.col
    BY <1>2, <2>2
  <2>6. Completed' = [con' EXCEPT !.col = col]
    BY <2>4, <2>5
  <2>. HIDE DEF col
  <2>7. Completed' = Completed
    BY <1>2, <2>2, <2>3, <2>6
  <2>. QED
    BY <2>7, TermStutters
<1>5. CASE LoadCol
  <2>1. pc = "load_col" /\ pc' = "store_col" /\ con' = con
    BY <1>5 DEF LoadCol, Goto
  <2>2. Completed' = Completed
    BY <2>1 DEF Completed
  <2>. QED
    BY <2>2, TermStutters
<1>6. CASE StoreCol
  <2>1. pc = "store_col" /\ pc' = "idle" /\ reg = con.col
        /\ con' = [con EXCEPT !.col = (reg + Advance) % U16]
    BY <1>1, <1>6 DEF StoreCol, Goto, ThreadUpToDate
  <2>2. Completed = [con EXCEPT !.col = (con.col + Advance) % U16]
    BY <2>1 DEF Completed
  <2>3. Completed' = con'
    BY <2>1 DEF Completed
  <2>4. Completed' = Completed
    BY <2>1, <2>2, <2>3
  <2>. QED
    BY <2>4, TermStutters
<1>7. CASE BeginNewLine
  <2>1. pc = "idle" /\ pc' = "test_line" /\ con' = [con EXCEPT !.col = 0]
    BY <1>7 DEF BeginNewLine, Goto
  <2>2. Completed = con
    BY <2>1 DEF Completed
  <2>3. Completed' = NextLine(con')
    BY <2>1 DEF Completed
  <2>4. Completed' = NewLine(con)
    BY <2>1, <2>3 DEF NewLine
  <2>5. Term!NewLine
    BY <2>2, <2>4, TermNewLine
  <2>. QED
    BY <2>5 DEF Term!Next
<1>8. CASE TestLine
  <2>1. pc = "test_line" /\ pc' \in {"scroll", "load_line"} /\ con' = con
    BY <1>8 DEF TestLine
  <2>2. Completed = NextLine(con)
    BY <2>1 DEF Completed
  <2>3. Completed' = NextLine(con')
    BY <2>1 DEF Completed
  <2>. QED
    BY <2>1, <2>2, <2>3, TermStutters
<1>9. CASE ScrollLine
  <2>1. pc = "scroll" /\ pc' = "idle" /\ con' = kscroll_down(con) /\ con.line = LastLine
    BY <1>1, <1>9 DEF ScrollLine, Goto, ThreadUpToDate
  <2>2. Completed = NextLine(con)
    BY <2>1 DEF Completed
  <2>3. Completed' = con'
    BY <2>1 DEF Completed
  <2>4. Completed' = Completed
    BY <2>1, <2>2, <2>3 DEF NextLine
  <2>. QED
    BY <2>4, TermStutters
<1>10. CASE LoadLine
  <2>1. pc = "load_line" /\ pc' = "store_line" /\ con' = con
    BY <1>10 DEF LoadLine, Goto
  <2>2. Completed' = Completed
    BY <2>1 DEF Completed
  <2>. QED
    BY <2>2, TermStutters
<1>11. CASE StoreLine
  <2>1. pc = "store_line" /\ pc' = "idle" /\ reg = con.line /\ con.line < LastLine
        /\ con' = [con EXCEPT !.line = (reg + 1) % U16]
    BY <1>1, <1>11 DEF StoreLine, Goto, ThreadUpToDate
  <2>2. Completed = NextLine(con)
    BY <2>1 DEF Completed
  <2>3. Completed' = con'
    BY <2>1 DEF Completed
  <2>4. con.line # LastLine
    BY <1>2, <2>1, LinesFit, ConsoleAssumption
  <2>5. NextLine(con) = [con EXCEPT !.line = (con.line + 1) % U16]
    BY <2>4 DEF NextLine
  <2>6. Completed' = Completed
    BY <2>1, <2>2, <2>3, <2>5
  <2>. QED
    BY <2>6, TermStutters
<1>12. ASSUME NEW from, NEW to, NEW after, Call(from, to, after)
       PROVE  Completed = con /\ Completed' = after
  BY <1>12 DEF Call, Completed
<1>13. CASE CallScroll \/ EnableInterrupts
  <2>1. CASE CallScroll
    <3>1. Term!ScrollText
      BY <1>12, <2>1, TermScrollText DEF CallScroll
    <3>. QED
      BY <3>1 DEF Term!Next
  <2>2. CASE EnableInterrupts
    BY <1>12, <2>2, TermStutters DEF EnableInterrupts
  <2>. QED
    BY <1>13, <2>1, <2>2
<1>23. CASE FlushReport \/ FlushPost \/ FlushBlank
  <2>1. Term!Refresh
    BY <1>12, <1>23, TermRefresh DEF FlushReport, FlushPost, FlushBlank
  <2>. QED
    BY <2>1 DEF Term!Next
<1>24. CASE BlankPage \/ BlankReport \/ EndInitialize
  <2>1. Term!Clear
    BY <1>12, <1>24, TermClear DEF BlankPage, BlankReport, EndInitialize
  <2>. QED
    BY <2>1 DEF Term!Next
<1>14. CASE Halt
  <2>1. pc = "idle" /\ pc' = "hlt" /\ con' = con
    BY <1>14 DEF Halt, Goto
  <2>2. Completed' = Completed
    BY <2>1 DEF Completed
  <2>. QED
    BY <2>2, TermStutters
<1>15. ASSUME NEW after, Handler(after)
       PROVE  Completed = con /\ Completed' = after
  <2>1. pc = "hlt" /\ pc' = "hlt" /\ con' = after
    BY <1>15 DEF Handler, Interruptible, Disciplined
  <2>. QED
    BY <2>1 DEF Completed
<1>16. ASSUME NEW c \in Chars, KeyChar(c) PROVE Term!PutChar(c)
  BY <1>15, <1>16, TermPut DEF KeyChar
<1>17. ASSUME NEW c \in Chars, UnexpectedInterrupt(c) PROVE Term!Message(c)
  BY <1>15, <1>17, TermMessage DEF UnexpectedInterrupt
<1>18. CASE KeyEnter
  <2>1. Term!NewLine
    BY <1>15, <1>18, TermNewLine DEF KeyEnter
  <2>. QED
    BY <2>1 DEF Term!Next
<1>19. CASE KeyBackspace
  <2>1. Term!Backspace \/ UNCHANGED Term!vars
    BY <1>15, <1>19, TermBackspace DEF KeyBackspace
  <2>. QED
    BY <2>1 DEF Term!Next
<1>20. CASE UNCHANGED vars
  <2>1. Completed' = Completed
    BY <1>20 DEF vars, Completed
  <2>. QED
    BY <2>1, TermStutters
<1>21. CASE \E c \in Chars : BeginPut(c)
  BY <1>3, <1>21 DEF Term!Next
<1>22. CASE \E c \in Chars : KeyChar(c) \/ UnexpectedInterrupt(c)
  BY <1>16, <1>17, <1>22 DEF Term!Next
<1>. QED
  BY <1>4, <1>5, <1>6, <1>7, <1>8, <1>9, <1>10, <1>11, <1>13, <1>14,
     <1>18, <1>19, <1>20, <1>21, <1>22, <1>23, <1>24 DEF Next, Thread, Interrupt

\* A blank console is an empty terminal.
LEMMA InitRefines == Init => Term!Init
<1>. SUFFICES ASSUME Init PROVE Term!Init
  OBVIOUS
<1>1. con = [line |-> 0, col |-> 0, back |-> BlankBuffer, front |-> BootScreen]
      /\ Completed = con
  BY DEF Init, Completed
<1>2. \A m \in CellLines, n \in CellColumns : m * FontSize * Width + n * Advance \in Pixels
  BY CellIs
<1>3. (LastLine + 1) - 1 = LastLine
  BY LinesFit
<1>4. GridOf(BlankBuffer) = Term!EmptyGrid
  BY <1>2, <1>3
     DEF GridOf, BlankBuffer, Term!EmptyGrid, Term!EmptyLine, CellLines, CellColumns
<1>5. GridOf(BootScreen) = Term!BootGrid
  BY <1>2, <1>3 DEF GridOf, BootScreen, Term!BootGrid, CellLines, CellColumns
<1>6. 0 \div Advance = 0
  BY ConsoleAssumption
<1>. QED
  BY <1>1, <1>4, <1>5, <1>6 DEF Term!Init

\* The code of vga.c, with its pixel arithmetic, its copies of rows and its
\* updates split into loads and stores, implements a character terminal whose
\* operations happen at once.
THEOREM ConsoleImplementsTerminal ==
  ASSUME Disciplined
  PROVE  Spec => ImplementsTerminal
<1>1. Init => Term!Init
  BY InitRefines
<1>2. IInv /\ [Next]_vars => [Term!Next]_Term!vars
  BY StepRefines
<1>3. Spec => []IInv
  BY AlwaysIInv
<1>. QED
  BY <1>1, <1>2, <1>3, PTL DEF Spec, ImplementsTerminal, Term!Spec

-----------------------------------------------------------------------------
(* What is ahead of the cursor. *)

Ahead(g, line, col) ==
  \A l \in CellLines, k \in CellColumns :
    l > line \/ (l = line /\ k >= col) => g[l][k] = Blank

\* A grid as the refinement mapping makes them.
Gridlike(g) == \E b : g = GridOf(b)

LEMMA AheadIs ==
  Term!AheadEmpty <=>
    Ahead(GridOf(Completed.back), Completed.line, Completed.col \div Advance)
<1>1. (LastLine + 1) - 1 = LastLine
  BY LinesFit
<1>. QED
  BY <1>1 DEF Term!AheadEmpty, Ahead, CellLines, CellColumns

\* The cursor, when the call in progress is over, is on the screen.
LEMMA CompletedCursor ==
  ASSUME Disciplined, IInv
  PROVE  Completed.line \in Nat /\ Completed.line <= LastLine
         /\ Completed.col \div Advance \in Nat
<1>1. /\ con \in Consoles /\ con.line \in Nat /\ con.line <= LastLine /\ con.col \in Nat
      /\ DOMAIN con = {"line", "col", "back", "front"} /\ arg \in Chars
  BY ConsoleAssumption DEF IInv, TypeOK, CursorOnScreen, Consoles
<1>2. /\ Advance \in Nat \ {0} /\ U16 \in Nat \ {0} /\ LastLine \in Nat
  BY ConsoleAssumption, LinesFit
<1>3. Completed.line \in Nat /\ Completed.line <= LastLine /\ Completed.col \in Nat
  <2>1. CASE pc = "draw"
    <3>1. RoomOnLine /\ Completed = Put(con, arg)
      BY <2>1 DEF IInv, ThreadUpToDate, Completed
    <3>2. PICK k \in CellColumns : con.col = k * Advance
      BY <3>1, CursorCell DEF IInv
    <3>3. /\ Completed \in Consoles /\ Completed.line = con.line
      BY <1>1, <3>1, <3>2, PutIs
    <3>. QED
      BY <1>1, <1>2, <3>3 DEF Consoles
  <2>2. CASE pc \in {"load_col", "store_col"}
    <3>. DEFINE col == (con.col + Advance) % U16
    <3>1. Completed = [con EXCEPT !.col = col]
      BY <2>2 DEF Completed
    <3>2. col \in Nat
      BY <1>1, <1>2
    <3>. HIDE DEF col
    <3>. QED
      BY <1>1, <3>1, <3>2
  <2>3. CASE pc \in {"test_line", "scroll", "load_line", "store_line"}
    <3>1. Completed = NextLine(con)
      BY <2>3 DEF Completed
    <3>. QED
      BY <1>1, <1>2, <3>1, NextLineIs
  <2>4. CASE pc \in {"idle", "hlt"}
    BY <1>1, <2>4, NothingToCome
  <2>. QED
    BY <2>1, <2>2, <2>3, <2>4 DEF IInv, TypeOK, Locations
<1>. QED
  BY <1>2, <1>3

\* A character written at the cursor is behind the cursor's next place.
LEMMA AheadOfWritten ==
  ASSUME NEW g, Gridlike(g), NEW l \in Int, NEW k \in Int, NEW c, Ahead(g, l, k)
  PROVE  Ahead(Term!Written(g, l, k, c), l, k + 1)
<1>1. PICK b : g = GridOf(b)
  BY DEF Gridlike
<1>2. DOMAIN g = CellLines /\ \A m \in CellLines : DOMAIN g[m] = CellColumns
  BY <1>1 DEF GridOf, CellLines, CellColumns
<1>. DEFINE new == Term!Written(g, l, k, c)
<1>3. \A m \in CellLines, n \in CellColumns : ~(m = l /\ n = k) => new[m][n] = g[m][n]
  BY <1>2 DEF Term!Written
<1>4. \A m \in CellLines, n \in CellColumns : m \in Int /\ n \in Int
  BY LinesFit, ConsoleAssumption DEF CellLines, CellColumns
<1>. HIDE DEF new
<1>. QED
  BY <1>3, <1>4 DEF Ahead, new

\* An erased cell is blank, so that nothing is ahead of it either.
LEMMA AheadOfErased ==
  ASSUME NEW g, Gridlike(g), NEW l \in Int, NEW k \in Int, Ahead(g, l, k)
  PROVE  Ahead(Term!Written(g, l, k - 1, Space), l, k - 1)
<1>1. PICK b : g = GridOf(b)
  BY DEF Gridlike
<1>2. DOMAIN g = CellLines /\ \A m \in CellLines : DOMAIN g[m] = CellColumns
  BY <1>1 DEF GridOf, CellLines, CellColumns
<1>. DEFINE j == k - 1
            new == Term!Written(g, l, j, Space)
<1>3. j \in Int /\ k = j + 1
  OBVIOUS
<1>. HIDE DEF j
<1>4. \A m \in CellLines, n \in CellColumns :
        new[m][n] = IF m = l /\ n = j THEN Blank ELSE g[m][n]
  BY <1>2 DEF Term!Written
<1>5. \A m \in CellLines, n \in CellColumns : m \in Int /\ n \in Int
  BY LinesFit, ConsoleAssumption DEF CellLines, CellColumns
<1>. HIDE DEF new
<1>6. Ahead(new, l, j)
  BY <1>3, <1>4, <1>5 DEF Ahead
<1>. QED
  BY <1>6 DEF new, j

\* What is below the cursor's line is blank, and moves up.
LEMMA AheadOfShifted ==
  ASSUME NEW g, NEW l \in Int, NEW k \in Int, Ahead(g, l, k), NEW col \in Int
  PROVE  Ahead(Term!Shifted(g), l, col)
<1>1. LastLine \in Nat /\ (LastLine + 1) - 1 = LastLine
  BY LinesFit
<1>2. \A m \in CellLines : /\ m \in Int /\ m <= LastLine
                           /\ (m # LastLine) => (m + 1 \in CellLines)
  BY <1>1 DEF CellLines
<1>3. \A m \in CellLines, n \in CellColumns :
        Term!Shifted(g)[m][n] = IF m = LastLine THEN Blank ELSE g[m + 1][n]
  <2>. SUFFICES ASSUME NEW m \in CellLines, NEW n \in CellColumns
                PROVE  Term!Shifted(g)[m][n] = IF m = LastLine THEN Blank ELSE g[m + 1][n]
    OBVIOUS
  <2>1. Term!Shifted(g)[m] = IF m = LastLine THEN Term!EmptyLine ELSE g[m + 1]
    BY <1>1 DEF Term!Shifted, CellLines
  <2>2. Term!EmptyLine[n] = Blank
    BY DEF Term!EmptyLine, CellColumns
  <2>. QED
    BY <2>1, <2>2
<1>4. ASSUME NEW m \in CellLines, NEW n \in CellColumns, m >= l
      PROVE  Term!Shifted(g)[m][n] = Blank
  <2>1. CASE m = LastLine
    BY <1>3, <2>1
  <2>2. CASE m # LastLine
    <3>1. m + 1 \in CellLines /\ m + 1 > l
      BY <1>2, <1>4, <2>2
    <3>2. g[m + 1][n] = Blank
      BY <3>1 DEF Ahead
    <3>. QED
      BY <1>3, <2>2, <3>2
  <2>. QED
    BY <2>1, <2>2
<1>. QED
  BY <1>2, <1>4 DEF Ahead

\* A newline takes the cursor to a line with nothing on it.
LEMMA AheadOfBreak ==
  ASSUME NEW g, NEW l \in Int, l = Completed.line, NEW k \in Int, Ahead(g, l, k),
         Term!BreakLine(g)
  PROVE  Term!AheadEmpty'
<1>1. LastLine \in Nat /\ (LastLine + 1) - 1 = LastLine
  BY LinesFit
<1>. DEFINE new == GridOf(Completed.back)'
            line == Completed'.line
            col == Completed'.col \div Advance
<1>2. Term!AheadEmpty' <=> Ahead(new, line, col)
  BY <1>1 DEF Term!AheadEmpty, Ahead, CellLines, CellColumns
<1>3. /\ col = 0
      /\ \/ line = l + 1 /\ new = g
         \/ l = LastLine /\ line = l /\ new = Term!Shifted(g)
  BY <1>1 DEF Term!BreakLine, Term!Scroll
<1>. HIDE DEF new, line, col
<1>4. CASE line = l + 1 /\ new = g
  <2>1. \A m \in CellLines : m \in Int
    BY <1>1 DEF CellLines
  <2>2. Ahead(new, line, col)
    BY <1>4, <2>1 DEF Ahead
  <2>. QED
    BY <1>2, <2>2
<1>5. CASE l = LastLine /\ line = l /\ new = Term!Shifted(g)
  <2>1. Ahead(Term!Shifted(g), l, 0)
    BY <1>5, AheadOfShifted
  <2>. QED
    BY <1>2, <1>3, <1>5, <2>1
<1>. QED
  BY <1>3, <1>4, <1>5

\* No operation of the terminal leaves text ahead of the cursor.
LEMMA StepAhead ==
  ASSUME Disciplined, IInv, Term!AheadEmpty, [Term!Next]_Term!vars
  PROVE  Term!AheadEmpty'
<1>. DEFINE g == GridOf(Completed.back)
            l == Completed.line
            k == Completed.col \div Advance
            new == GridOf(Completed.back)'
            line == Completed'.line
            col == Completed'.col \div Advance
<1>1. /\ l \in Int /\ k \in Int /\ LastLine \in Nat
      /\ (LastLine + 1) - 1 = LastLine
  BY CompletedCursor, LinesFit
<1>2. Ahead(g, l, k) /\ Gridlike(g)
  BY AheadIs DEF Gridlike
<1>3. Term!AheadEmpty' <=> Ahead(new, line, col)
  BY <1>1 DEF Term!AheadEmpty, Ahead, CellLines, CellColumns
<1>4. ASSUME NEW c \in Chars, Term!PutChar(c) PROVE Term!AheadEmpty'
  <2>1. new = Term!Written(g, l, k, c) /\ line = l /\ col = k + 1
    BY <1>4 DEF Term!PutChar
  <2>. HIDE DEF g, l, k, new, line, col
  <2>. QED
    BY <1>1, <1>2, <1>3, <2>1, AheadOfWritten
<1>5. ASSUME NEW c \in Chars, Term!Message(c) PROVE Term!AheadEmpty'
  <2>. DEFINE h == Term!Written(g, l, k, c)
  <2>1. Term!BreakLine(h)
    BY <1>5 DEF Term!Message
  <2>. HIDE DEF g, k, h
  <2>2. Ahead(h, l, k + 1) /\ k + 1 \in Int
    BY <1>1, <1>2, AheadOfWritten DEF h
  <2>. QED
    BY <1>1, <2>1, <2>2, AheadOfBreak
<1>6. CASE Term!NewLine
  <2>1. Term!BreakLine(g)
    BY <1>6 DEF Term!NewLine
  <2>. HIDE DEF g, k
  <2>. QED
    BY <1>1, <1>2, <2>1, AheadOfBreak
<1>7. CASE Term!ScrollText
  <2>1. new = Term!Shifted(g) /\ line = l /\ col = k
    BY <1>7 DEF Term!ScrollText, Term!Scroll
  <2>. HIDE DEF g, l, k, new, line, col
  <2>2. Ahead(Term!Shifted(g), l, k)
    BY <1>1, <1>2, AheadOfShifted
  <2>. QED
    BY <1>3, <2>1, <2>2
<1>8. CASE Term!Backspace
  <2>1. new = Term!Written(g, l, k - 1, Space) /\ line = l /\ col = k - 1
    BY <1>8 DEF Term!Backspace
  <2>. HIDE DEF g, l, k, new, line, col
  <2>. QED
    BY <1>1, <1>2, <1>3, <2>1, AheadOfErased
<1>9. CASE Term!Clear
  <2>1. new = Term!EmptyGrid
    BY <1>9 DEF Term!Clear
  <2>. HIDE DEF new, line, col
  <2>. QED
    BY <1>1, <1>3, <2>1
       DEF Ahead, Term!EmptyGrid, Term!EmptyLine, CellLines, CellColumns
<1>10. CASE Term!Refresh
  <2>1. new = g /\ line = l /\ col = k
    BY <1>10 DEF Term!Refresh
  <2>. HIDE DEF g, l, k, new, line, col
  <2>. QED
    BY <1>2, <1>3, <2>1
<1>11. CASE UNCHANGED Term!vars
  <2>1. new = g /\ line = l /\ col = k
    BY <1>11 DEF Term!vars
  <2>. HIDE DEF g, l, k, new, line, col
  <2>. QED
    BY <1>2, <1>3, <2>1
<1>. QED
  BY <1>4, <1>5, <1>6, <1>7, <1>8, <1>9, <1>10, <1>11 DEF Term!Next

\* Between two calls, whatever was printed, erased, cleared and scrolled
\* before, the places where the next characters go are blank: the cursor and
\* the text, of which each call changes both (vga.c:68-144, 253-262), agree.
THEOREM NothingAheadEver ==
  ASSUME Disciplined
  PROVE  Spec => []NothingAhead
<1>1. Init => Term!AheadEmpty
  <2>. SUFFICES ASSUME Term!Init PROVE Term!AheadEmpty
    BY InitRefines
  <2>1. (LastLine + 1) - 1 = LastLine
    BY LinesFit
  <2>. QED
    BY <2>1 DEF Term!Init, Term!AheadEmpty, Term!EmptyGrid, Term!EmptyLine
<1>2. IInv /\ Term!AheadEmpty /\ [Next]_vars => Term!AheadEmpty'
  BY StepRefines, StepAhead
<1>3. Term!AheadEmpty => NothingAhead
  BY DEF NothingAhead
<1>4. Spec => []IInv
  BY AlwaysIInv
<1>. QED
  BY <1>1, <1>2, <1>3, <1>4, PTL DEF Spec

=============================================================================
