------------------------------ MODULE Terminal ------------------------------
(***************************************************************************)
(* What the console of flosp-os promises: a grid of character cells, a     *)
(* cursor, and operations that each happen at once.  The operations are    *)
(* those of Documentation/drivers/vga.txt, save that they act on the text  *)
(* in memory: the screen shows it as it was at the last scroll or refresh. *)
(* Of clearing the document says otherwise, that it fills the screen with  *)
(* black pixels (vga.txt:7); the code does not do that (vga.c:50-66), and  *)
(* no terminal that did would be implemented by it.  Vga shows that the    *)
(* code, with its pixel arithmetic and its several steps per call,         *)
(* implements this terminal.                                               *)
(***************************************************************************)
EXTENDS Integers

CONSTANTS
  Lines, Columns,  \* the size of the grid
  Chars, Space,    \* the characters, and the one that looks like Blank
  Blank,           \* an empty cell
  Boot             \* a cell of the screen as the boot loader left it

VARIABLES
  grid,    \* grid[l][k]: the character on line l, column k
  line,    \* the cursor
  col,
  shown    \* the grid as the screen shows it

vars == <<grid, line, col, shown>>

Grids == [0 .. Lines - 1 -> [0 .. Columns - 1 -> Chars \cup {Blank}]]

EmptyLine == [k \in 0 .. Columns - 1 |-> Blank]

EmptyGrid == [l \in 0 .. Lines - 1 |-> EmptyLine]

BootGrid == [l \in 0 .. Lines - 1 |-> [k \in 0 .. Columns - 1 |-> Boot]]

\* A space is a blank cell.
Written(g, l, k, c) ==
  [g EXCEPT ![l][k] = IF c = Space THEN Blank ELSE c]

Shifted(g) ==
  [l \in 0 .. Lines - 1 |-> IF l = Lines - 1 THEN EmptyLine ELSE g[l + 1]]

Init ==
  /\ grid = EmptyGrid
  /\ line = 0
  /\ col = 0
  /\ shown = BootGrid

\* "Puts the character c at the next location."
PutChar(c) ==
  /\ col < Columns
  /\ grid' = Written(grid, line, col, c)
  /\ col' = col + 1
  /\ UNCHANGED <<line, shown>>

\* Text moves up by one line, and the screen is refreshed.
Scroll(g) ==
  /\ grid' = Shifted(g)
  /\ shown' = grid'

BreakLine(g) ==
  /\ col' = 0
  /\ \/ /\ line < Lines - 1
        /\ line' = line + 1
        /\ grid' = g
        /\ UNCHANGED shown
     \/ /\ line = Lines - 1
        /\ Scroll(g)
        /\ UNCHANGED line

NewLine == BreakLine(grid)

\* A handler's whole message: its text and the newline that ends it.
Message(c) ==
  /\ col < Columns
  /\ BreakLine(Written(grid, line, col, c))

\* "Scrolls all text on the screen up by one line", the cursor stays.
ScrollText == Scroll(grid) /\ UNCHANGED <<line, col>>

\* "Clears the last character and sets the cursor to the previous location."
Backspace ==
  /\ col > 0
  /\ grid' = Written(grid, line, col - 1, Space)
  /\ col' = col - 1
  /\ UNCHANGED <<line, shown>>

\* The text is cleared, and the screen is not: it shows that only when it is
\* refreshed, which after the last clear (vga.c:39) is at the next scroll.
Clear ==
  /\ grid' = EmptyGrid
  /\ line' = 0
  /\ col' = 0
  /\ UNCHANGED shown

Refresh == shown' = grid /\ UNCHANGED <<grid, line, col>>

Next ==
  \/ \E c \in Chars : PutChar(c) \/ Message(c)
  \/ NewLine
  \/ ScrollText
  \/ Backspace
  \/ Clear
  \/ Refresh

Spec == Init /\ [][Next]_vars

TypeOK ==
  /\ grid \in Grids
  /\ shown \in Grids \cup {BootGrid}
  /\ line \in 0 .. Lines - 1
  /\ col \in 0 .. Columns

\* Where the next characters go there is none yet.
AheadEmpty ==
  \A l \in 0 .. Lines - 1, k \in 0 .. Columns - 1 :
    l > line \/ (l = line /\ k >= col) => grid[l][k] = Blank

=============================================================================
