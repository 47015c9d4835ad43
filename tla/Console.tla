------------------------------ MODULE Console ------------------------------
(***************************************************************************)
(* The text screen of the board (disp.c): a cursor, kept both as a row and *)
(* a column and as an address, over a memory of cells.  A character is     *)
(* printable, or one of the control codes dispWriteString knows.           *)
(* Attributes, the cursor registers and the beep's sound are left out;     *)
(* dispScroll and dispScreenRev have no caller.                            *)
(***************************************************************************)
EXTENDS Integers, Sequences, SequencesExt

CONSTANTS NCol,     \* characters of a row (80)
          Mem,      \* cells of the video memory (2048)
          TabWidth  \* distance of the tab stops (8)

ASSUME ConsoleAssumption == {NCol, Mem, TabWidth} \subseteq Nat \ {0}

Blank == " "
Control == {"BEL", "BS", "TAB", "VT", "FF", "CR", "SI", "DEL"}

\* dispStatInit and the clearing of dispHrdInit
Fresh == [row |-> 0, col |-> 0, pos |-> 0, cells |-> [p \in 0..Mem - 1 |-> Blank]]

CharPos(c, p) == [c EXCEPT !.pos = p, !.col = p % NCol, !.row = p \div NCol]

CarriageReturn(c) == [c EXCEPT !.pos = @ - c.col, !.col = 0]

LineFeed(c) == [c EXCEPT !.pos = @ + NCol, !.row = @ + 1]

BackSpace(c) ==
  LET back == [c EXCEPT !.pos = @ - 1, !.col = @ - 1]
  IN  IF back.col < 0 THEN [back EXCEPT !.col = NCol - 1, !.row = @ - 1] ELSE back

\* The address is computed from the row and the column; at the end of a row
\* the next one begins.
Tab(c) ==
  LET stops == {ix \in c.col + 1..NCol - 1 : ix % TabWidth = 0}
      there == IF stops # {} THEN [c EXCEPT !.col = Min(stops)]
                             ELSE [c EXCEPT !.col = 0, !.row = @ + 1]
  IN  [there EXCEPT !.pos = there.row * NCol + there.col]

\* 2: everything, cursor home; 0: from the cursor on; else up to the cursor
Clear(c, mode) ==
  LET erased == CASE mode = 2 -> DOMAIN c.cells
                  [] mode = 0 -> {p \in DOMAIN c.cells : p >= c.pos}
                  [] OTHER    -> {p \in DOMAIN c.cells : p <= c.pos}
      wiped  == [c EXCEPT !.cells = [p \in DOMAIN @ |-> IF p \in erased THEN Blank ELSE @[p]]]
  IN  IF mode = 2 THEN CharPos(wiped, 0) ELSE wiped

DelLeftChar(c) == [c EXCEPT !.pos = @ - 1, !.col = @ - 1, !.cells[c.pos - 1] = Blank]

Advance(c) == [c EXCEPT !.pos = @ + 1, !.col = @ + 1]

\* Mutant: the row is left only after a character has been put behind it.
PrintableLate(c, ch) ==
  LET stored == [c EXCEPT !.cells[c.pos] = ch]
  IN  IF c.col = NCol THEN LineFeed(CarriageReturn(stored)) ELSE Advance(stored)

Printable(c, ch) ==
  LET stored == [c EXCEPT !.cells[c.pos] = ch]
  IN  IF c.col = NCol - 1 THEN LineFeed(CarriageReturn(stored)) ELSE Advance(stored)

\* One turn of dispWriteString's loop; VT falls through to the clearing.
Put(c, ch) ==
  IF ch \notin Control THEN Printable(c, ch)
  ELSE CASE ch = "BS"  -> BackSpace(c)
         [] ch = "TAB" -> Tab(c)
         [] ch = "VT"  -> Clear(LineFeed(c), 2)
         [] ch = "FF"  -> Clear(c, 2)
         [] ch = "CR"  -> CarriageReturn(c)
         [] ch = "DEL" -> DelLeftChar(c)
         [] OTHER      -> c

WriteString(c, text) ==
  LET written[n \in 0..Len(text)] == IF n = 0 THEN c ELSE Put(written[n - 1], text[n])
  IN  written[Len(text)]

=============================================================================
