SPECIFICATION Spec
CONSTANTS
  a = a
  b = b
  Width = 6
  Height = 5
  HRes = 6
  FontSize = 2
  GlyphW = 2
  Advance = 3
  U16 = 32
  Chars = {a, b, sp}
  Space = sp
  Blank = none
  Boot = boot
  LineLimit = 2
  IrqAnywhere = TRUE
SYMMETRY Printable
INVARIANT CursorOnScreen
