-------------------------------- MODULE MCVga --------------------------------
(***************************************************************************)
(* A screen of two text lines of two cells, with a gap column after each   *)
(* cell and one leftover row of pixels below: every kind of pixel the real *)
(* 800 x 600 screen has.  A glyph is two pixels wide and two high, so that *)
(* a torn or shifted glyph differs from a whole one.                       *)
(***************************************************************************)
EXTENDS Vga, TLC

CONSTANTS a, b

\* Nothing tells two printable characters apart but their identity.
Printable == Permutations({a, b})

=============================================================================
