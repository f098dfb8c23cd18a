------------------------------- MODULE Screen -------------------------------
(***************************************************************************)
(* The text display (devices/vga.c): a framebuffer of ROW_CNT rows of      *)
(* COL_CNT characters, a cursor and the display's own copy of it.  0 is a  *)
(* blank, other characters are their codes (7 only beeps); TAB is the      *)
(* distance of tab stops (8 in the code).                                  *)
(***************************************************************************)
EXTENDS Integers, SequencesExt

CONSTANTS COL_CNT, ROW_CNT, TAB

Blank == [x \in 1..COL_CNT |-> 0]

\* Mutant of newline: the rows move up and the last one keeps its text.
newline_keep(s) ==
  IF s.cy + 1 < ROW_CNT THEN [s EXCEPT !.cx = 0, !.cy = @ + 1]
  ELSE [s EXCEPT !.cx = 0, !.fb = Append(Tail(@), Last(@))]

newline(s) ==
  IF s.cy + 1 < ROW_CNT THEN [s EXCEPT !.cx = 0, !.cy = @ + 1]
  ELSE [s EXCEPT !.cx = 0, !.fb = Append(Tail(@), Blank)]

cls(s) == [s EXCEPT !.cx = 0, !.cy = 0, !.fb = [y \in 1..ROW_CNT |-> Blank]]

Wrap(s) == IF s.cx >= COL_CNT THEN newline(s) ELSE s

move_cursor(s) == [s EXCEPT !.cp = s.cx + COL_CNT * s.cy]
find_cursor(cp) == [x |-> cp % COL_CNT, y |-> cp \div COL_CNT]

Draw(s, c) ==
  CASE c = 10 -> newline(s)
    [] c = 12 -> cls(s)
    [] c = 8  -> [s EXCEPT !.cx = IF @ > 0 THEN @ - 1 ELSE 0]
    [] c = 13 -> [s EXCEPT !.cx = 0]
    [] c = 9  -> Wrap([s EXCEPT !.cx = ((@ + 1 + TAB - 1) \div TAB) * TAB])
    [] c = 7  -> s
    [] OTHER -> Wrap([s EXCEPT !.fb[s.cy + 1][s.cx + 1] = c, !.cx = @ + 1])

vga_putc(s, c) == move_cursor(Draw(s, c))
=============================================================================
