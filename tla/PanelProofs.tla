---------------------------- MODULE PanelProofs -----------------------------
(***************************************************************************)
(* Proofs about Console, Display, Keyboard and Panel, for a screen, rows,  *)
(* texts and a keypad of any size: a text fills the cells it is meant for, *)
(* rows stay apart although a text may change while it is read, and no     *)
(* command is given without a finger.  Induction over a text or an index   *)
(* is by a least counterexample.                                           *)
(***************************************************************************)
EXTENDS Panel, FiniteSetTheorems, SequenceTheorems, WellFoundedInduction, TLAPS

-----------------------------------------------------------------------------
(* Numbers *)

LEMMA Widths == NCol \in Nat \ {0} /\ Mem \in Nat \ {0} /\ TabWidth \in Nat \ {0}
BY ConsoleAssumption

(* An address is that of one row and one column. *)
LEMMA RowAndColumn ==
  ASSUME NEW r \in Nat, NEW c \in 0..NCol - 1
  PROVE  (r * NCol + c) \div NCol = r /\ (r * NCol + c) % NCol = c
BY Widths

LEMMA RowStarts == \A r \in Nat : r * NCol \in Nat /\ r * NCol + NCol = (r + 1) * NCol
BY Widths

LEMMA OneAddress ==
  ASSUME NEW r \in Nat, NEW s \in Nat, NEW c \in 0..NCol - 1, NEW d \in 0..NCol - 1,
         r * NCol + c = s * NCol + d
  PROVE  r = s /\ c = d
<1>1. r < s => (r + 1) * NCol <= s * NCol
  BY Widths
<1>2. s < r => (s + 1) * NCol <= r * NCol
  BY Widths
<1> QED
  BY <1>1, <1>2, Widths

Less == OpToRel(<, Nat)

(* A set of naturals has a least element. *)
LEMMA Least ==
  ASSUME NEW T, T \subseteq Nat, T # {}
  PROVE  \E x \in T : \A y \in T : x <= y
<1>1. IsWellFoundedOn(Less, Nat)
  BY NatLessThanWellFounded DEF Less
<1>2. PICK x \in T : \A y \in T : ~(<<y, x>> \in Less)
  BY <1>1, WFMin
<1>3. \A y \in T : y \in Nat /\ x \in Nat /\ ~(y < x)
  BY <1>2 DEF Less, OpToRel
<1> QED
  BY <1>3

-----------------------------------------------------------------------------
(* Writing a text *)

(* The screens of writing the first n characters of a text. *)
Writes(w, c, text, n) == w = [i \in 0..n |-> IF i = 0 THEN c ELSE Put(w[i - 1], text[i])]

LEMMA WritesExist ==
  ASSUME NEW c, NEW text, NEW n \in Nat
  PROVE  \E w : Writes(w, c, text, n)
<1> DEFINE T == {k \in Nat : ~\E w : Writes(w, c, text, k)}
<1>1. SUFFICES ASSUME T # {} PROVE FALSE
  OBVIOUS
<1>2. PICK k \in T : \A j \in T : k <= j
  BY <1>1, Least
<1>3. CASE k = 0
  <2>1. Writes([i \in 0..k |-> c], c, text, k)
    BY <1>3 DEF Writes
  <2> QED
    BY <2>1, <1>2
<1>4. CASE k # 0
  <2>1. k - 1 \in Nat /\ k - 1 \notin T
    BY <1>2, <1>4
  <2>2. PICK w : Writes(w, c, text, k - 1)
    BY <2>1
  <2> DEFINE x == [i \in 0..k |-> IF i = k THEN Put(w[k - 1], text[k]) ELSE w[i]]
  <2>3. \A i \in 0..k - 1 : x[i] = w[i] /\ w[i] = IF i = 0 THEN c ELSE Put(w[i - 1], text[i])
    BY <2>1, <2>2 DEF Writes
  <2>4. ASSUME NEW i \in 0..k
        PROVE  x[i] = IF i = 0 THEN c ELSE Put(x[i - 1], text[i])
    <3>1. CASE i = k
      BY <1>4, <2>1, <2>3, <3>1
    <3>2. CASE i # k
      <4>1. i \in 0..k - 1 /\ (i # 0 => i - 1 \in 0..k - 1)
        BY <2>1, <3>2
      <4> QED
        BY <2>3, <4>1
    <3> QED
      BY <3>1, <3>2
  <2>5. Writes(x, c, text, k)
    BY <2>4 DEF Writes
  <2> QED
    BY <2>5
<1> QED
  BY <1>3, <1>4

(* WriteString puts one character after the other. *)
LEMMA WriteStringPuts ==
  ASSUME NEW c, NEW text, Len(text) \in Nat
  PROVE  \E w : Writes(w, c, text, Len(text)) /\ WriteString(c, text) = w[Len(text)]
<1> DEFINE written[n \in 0..Len(text)] == IF n = 0 THEN c ELSE Put(written[n - 1], text[n])
<1>1. \E w : Writes(w, c, text, Len(text))
  BY WritesExist
<1>2. Writes(written, c, text, Len(text))
  BY <1>1 DEF Writes
<1>3. WriteString(c, text) = written[Len(text)]
  BY DEF WriteString
<1> QED
  BY <1>2, <1>3

(* A screen with characters of S; its address is that of its cursor.       *)
Screens(S) == [row : Nat, col : 0..NCol - 1, pos : Nat, cells : [0..Mem - 1 -> S]]
Aligned(c) == c.pos = c.row * NCol + c.col

(* The cells p, p + 1, ... filled with the first n characters of a text.   *)
Filled(cells, p, text, n) ==
  [q \in DOMAIN cells |-> IF q - p + 1 \in 1..n THEN text[q - p + 1] ELSE cells[q]]

LEMMA PutPrintable ==
  ASSUME NEW S, NEW c \in Screens(S), Aligned(c), NEW ch \in S, ch \notin Control
  PROVE  /\ Put(c, ch) \in Screens(S) /\ Aligned(Put(c, ch))
         /\ Put(c, ch).pos = c.pos + 1
         /\ Put(c, ch).cells = [c.cells EXCEPT ![c.pos] = ch]
<1> DEFINE s == [c EXCEPT !.cells[c.pos] = ch]
<1>1. Put(c, ch) = IF c.col = NCol - 1 THEN LineFeed(CarriageReturn(s)) ELSE Advance(s)
  BY DEF Put, Printable
<1>2. /\ s = [c EXCEPT !.cells = [c.cells EXCEPT ![c.pos] = ch]]
      /\ [c.cells EXCEPT ![c.pos] = ch] \in [0..Mem - 1 -> S]
  BY DEF Screens
<1>3. /\ s \in Screens(S) /\ s.cells = [c.cells EXCEPT ![c.pos] = ch]
      /\ s.row = c.row /\ s.col = c.col /\ s.pos = c.pos
  BY <1>2 DEF Screens
<1> HIDE DEF s
<1>4. CASE c.col = NCol - 1
  <2> DEFINE r == CarriageReturn(s)
             l == LineFeed(r)
             left == s.pos - s.col
  <2>1. left = s.row * NCol /\ left \in Nat /\ left + NCol = (s.row + 1) * NCol /\ left + NCol = c.pos + 1
    <3> DEFINE first == c.row * NCol
    <3>1. c.row \in Nat /\ first \in Nat /\ first + NCol = (c.row + 1) * NCol
      BY RowStarts DEF Screens
    <3>2. c.pos = first + c.col /\ c.col \in Int /\ s.row * NCol = first
      BY <1>3 DEF Screens, Aligned
    <3>3. (s.row + 1) * NCol = first + NCol
      BY <1>3, <3>1
    <3> HIDE DEF first
    <3> QED
      BY <1>3, <1>4, <3>1, <3>2, <3>3, Widths
  <2>2. r = [s EXCEPT !.pos = left, !.col = 0] /\ 0 \in 0..NCol - 1
    BY Widths DEF CarriageReturn
  <2> HIDE DEF left
  <2>3. r \in Screens(S) /\ r.cells = s.cells /\ r.row = s.row /\ r.col = 0 /\ r.pos = left
    BY <1>3, <2>1, <2>2 DEF Screens
  <2> HIDE DEF r
  <2>4. l = [r EXCEPT !.pos = left + NCol, !.row = s.row + 1] /\ left + NCol \in Nat /\ s.row + 1 \in Nat
    BY <1>3, <2>1, <2>3, Widths DEF LineFeed, Screens
  <2>5. /\ l \in Screens(S) /\ l.cells = r.cells /\ l.row = s.row + 1
        /\ l.col = 0 /\ l.pos = left + NCol
    BY <2>3, <2>4 DEF Screens
  <2>6. Put(c, ch) = l
    BY <1>1, <1>4 DEF r
  <2> HIDE DEF l
  <2>7. Aligned(l)
    BY <2>1, <2>4, <2>5 DEF Aligned
  <2> QED
    BY <1>3, <2>1, <2>3, <2>5, <2>6, <2>7
<1>5. CASE c.col # NCol - 1
  <2> DEFINE a == Advance(s)
  <2>1. a = [s EXCEPT !.pos = c.pos + 1, !.col = c.col + 1] /\ c.pos + 1 \in Nat /\ c.col + 1 \in 0..NCol - 1
    BY <1>3, <1>5, Widths DEF Screens, Advance
  <2>2. /\ a \in Screens(S) /\ a.cells = s.cells /\ a.row = c.row
        /\ a.col = c.col + 1 /\ a.pos = c.pos + 1
    BY <1>3, <2>1 DEF Screens
  <2>3. Put(c, ch) = a
    BY <1>1, <1>5
  <2> HIDE DEF a
  <2>4. c.row * NCol \in Nat /\ c.col \in Nat
    BY Widths DEF Screens
  <2>5. Aligned(a)
    BY <2>2, <2>4 DEF Aligned
  <2> QED
    BY <1>3, <2>2, <2>3, <2>5
<1> QED
  BY <1>4, <1>5

(* A text without control codes, however long, fills the cells from the    *)
(* cursor on, over the ends of rows, and leaves the others alone and the   *)
(* cursor behind it (dispWriteString, disp.c:489-584).                     *)
THEOREM WriteStringFills ==
  ASSUME NEW S, NEW c \in Screens(S), Aligned(c),
         NEW text, Len(text) \in Nat, \A i \in 1..Len(text) : text[i] \in S \ Control
  PROVE  /\ WriteString(c, text) \in Screens(S) /\ Aligned(WriteString(c, text))
         /\ WriteString(c, text).pos = c.pos + Len(text)
         /\ WriteString(c, text).cells = Filled(c.cells, c.pos, text, Len(text))
<1>1. PICK w : Writes(w, c, text, Len(text)) /\ WriteString(c, text) = w[Len(text)]
  BY WriteStringPuts
<1> DEFINE Good(k) == /\ w[k] \in Screens(S) /\ Aligned(w[k])
                      /\ w[k].pos = c.pos + k
                      /\ w[k].cells = Filled(c.cells, c.pos, text, k)
           T == {k \in 0..Len(text) : ~Good(k)}
<1>2. c.pos \in Nat /\ c.cells \in [0..Mem - 1 -> S]
  BY DEF Screens
<1>3. T = {}
  <2>1. SUFFICES ASSUME T # {} PROVE FALSE
    OBVIOUS
  <2>2. T \subseteq Nat
    OBVIOUS
  <2>3. PICK k \in T : \A j \in T : k <= j
    BY <2>1, <2>2, Least
  <2>4. k \in 0..Len(text) /\ ~Good(k)
    BY <2>3
  <2>5. CASE k = 0
    <3>1. w[k] = c
      BY <1>1, <2>5 DEF Writes
    <3>2. Filled(c.cells, c.pos, text, 0) = c.cells
      BY <1>2 DEF Filled
    <3> QED
      BY <1>2, <2>4, <2>5, <3>1, <3>2
  <2>6. CASE k # 0
    <3> DEFINE b == w[k - 1]
    <3>1. k - 1 \in 0..Len(text) /\ k \in 1..Len(text) /\ k - 1 \notin T
      BY <2>3, <2>4, <2>6
    <3>2. Good(k - 1)
      BY <3>1
    <3>3. w[k] = Put(b, text[k]) /\ text[k] \in S /\ text[k] \notin Control
      BY <1>1, <2>6, <3>1 DEF Writes
    <3>4. /\ w[k] \in Screens(S) /\ Aligned(w[k]) /\ w[k].pos = c.pos + (k - 1) + 1
          /\ w[k].cells = [b.cells EXCEPT ![c.pos + (k - 1)] = text[k]]
      BY <3>2, <3>3, PutPrintable
    <3>5. [Filled(c.cells, c.pos, text, k - 1) EXCEPT ![c.pos + (k - 1)] = text[k]]
            = Filled(c.cells, c.pos, text, k)
      <4> DEFINE old == Filled(c.cells, c.pos, text, k - 1)
                 new == [old EXCEPT ![c.pos + (k - 1)] = text[k]]
      <4>1. DOMAIN old = 0..Mem - 1 /\ DOMAIN new = 0..Mem - 1
        BY <1>2 DEF Filled
      <4>2. new = [q \in 0..Mem - 1 |-> IF q = c.pos + (k - 1) THEN text[k] ELSE old[q]]
        BY <4>1
      <4>3. ASSUME NEW q \in 0..Mem - 1
            PROVE  new[q] = IF q - c.pos + 1 \in 1..k THEN text[q - c.pos + 1] ELSE c.cells[q]
        <5>1. old[q] = IF q - c.pos + 1 \in 1..k - 1 THEN text[q - c.pos + 1] ELSE c.cells[q]
          BY <1>2 DEF Filled
        <5>2. q = c.pos + (k - 1) <=> q - c.pos + 1 = k
          BY <1>2, <3>1
        <5>3. q - c.pos + 1 \in 1..k <=> q - c.pos + 1 \in 1..k - 1 \/ q - c.pos + 1 = k
          BY <1>2, <3>1
        <5>4. new[q] = IF q = c.pos + (k - 1) THEN text[k] ELSE old[q]
          BY <4>2
        <5>5. q - c.pos + 1 = k => q - c.pos + 1 \notin 1..k - 1
          BY <1>2, <3>1
        <5> HIDE DEF old, new
        <5> QED
          BY <5>1, <5>2, <5>3, <5>4, <5>5
      <4> HIDE DEF old
      <4>4. new = [q \in 0..Mem - 1 |-> new[q]]
        BY <4>2
      <4> HIDE DEF new
      <4>5. new = [q \in 0..Mem - 1 |-> IF q - c.pos + 1 \in 1..k THEN text[q - c.pos + 1] ELSE c.cells[q]]
        BY <4>3, <4>4
      <4> QED
        BY <1>2, <4>5 DEF Filled, new, old
    <3> QED
      BY <1>2, <2>4, <3>1, <3>2, <3>4, <3>5
  <2> QED
    BY <2>5, <2>6
<1>4. Good(Len(text))
  BY <1>3
<1> QED
  BY <1>1, <1>4

LEMMA CharPosPlaces ==
  ASSUME NEW S, NEW c \in Screens(S), NEW r \in Nat, NEW k \in 0..NCol - 1, NEW p, p = r * NCol + k
  PROVE  /\ CharPos(c, p) \in Screens(S) /\ Aligned(CharPos(c, p))
         /\ CharPos(c, p).row = r /\ CharPos(c, p).col = k
         /\ CharPos(c, p).pos = p /\ CharPos(c, p).cells = c.cells
<1>1. p \in Nat
  BY RowStarts
<1>2. CharPos(c, p) = [c EXCEPT !.pos = p, !.col = k, !.row = r]
  BY RowAndColumn DEF CharPos
<1>3. /\ CharPos(c, p) \in Screens(S) /\ CharPos(c, p).row = r /\ CharPos(c, p).col = k
      /\ CharPos(c, p).pos = p /\ CharPos(c, p).cells = c.cells
  BY <1>1, <1>2 DEF Screens
<1> QED
  BY <1>3 DEF Aligned

LEMMA SameScreen ==
  ASSUME NEW S, NEW c \in Screens(S), NEW d \in Screens(S),
         c.row = d.row, c.col = d.col, c.pos = d.pos, c.cells = d.cells
  PROVE  c = d
BY DEF Screens

(* A control code but DEL leaves the address at the cursor.                *)
LEMMA PutControl ==
  ASSUME NEW S, NEW c \in Screens(S), Aligned(c), NEW ch \in Control \ {"DEL"}
  PROVE  Aligned(Put(c, ch))
<1> DEFINE first == c.row * NCol
<1>1. /\ c.row \in Nat /\ c.col \in 0..NCol - 1 /\ first \in Nat /\ c.pos = first + c.col
      /\ (c.row + 1) * NCol = first + NCol /\ (c.row - 1) * NCol = first - NCol /\ 0 * NCol = 0
  BY Widths, RowStarts DEF Screens, Aligned
<1>2. DOMAIN c = {"row", "col", "pos", "cells"}
  BY DEF Screens
<1>3. CASE ch = "BS"
  <2> DEFINE back == [c EXCEPT !.pos = c.pos - 1, !.col = c.col - 1]
             up == [back EXCEPT !.col = NCol - 1, !.row = back.row - 1]
  <2>1. /\ back.row = c.row /\ back.col = c.col - 1 /\ back.pos = c.pos - 1
        /\ up.row = c.row - 1 /\ up.col = NCol - 1 /\ up.pos = c.pos - 1
    BY <1>2
  <2>2. Put(c, ch) = IF back.col < 0 THEN up ELSE back
    BY <1>3 DEF Put, Control, BackSpace
  <2> HIDE DEF back, up
  <2>3. CASE back.col < 0
    <3>1. c.pos - 1 = (c.row - 1) * NCol + (NCol - 1)
      <4> HIDE DEF first
      <4> QED
        BY <1>1, <2>1, <2>3, Widths
    <3> QED
      BY <2>1, <2>2, <2>3, <3>1 DEF Aligned
  <2>4. CASE ~(back.col < 0)
    BY <1>1, <2>1, <2>2, <2>4 DEF Aligned
  <2> QED
    BY <2>3, <2>4
<1>4. CASE ch = "TAB"
  <2>1. PICK there : /\ Put(c, ch) = [there EXCEPT !.pos = there.row * NCol + there.col]
                     /\ \E x, y : there \in {[c EXCEPT !.col = x], [c EXCEPT !.col = 0, !.row = y]}
    BY <1>4, Zenon DEF Put, Control, Tab
  <2>2. DOMAIN there = {"row", "col", "pos", "cells"}
    BY <1>2, <2>1
  <2> QED
    BY <2>1, <2>2 DEF Aligned
<1>5. CASE ch \in {"VT", "FF"}
  <2>1. PICK d, wiped : /\ d \in {c, LineFeed(c)} /\ Put(c, ch) = CharPos(wiped, 0)
                        /\ \E x : wiped = [d EXCEPT !.cells = x]
    <3>1. Put(c, ch) = IF ch = "VT" THEN Clear(LineFeed(c), 2) ELSE Clear(c, 2)
      BY <1>5 DEF Put, Control
    <3>2. \A d : \E wiped : Clear(d, 2) = CharPos(wiped, 0) /\ \E x : wiped = [d EXCEPT !.cells = x]
      BY DEF Clear
    <3> QED
      BY <3>1, <3>2
  <2>2. DOMAIN wiped = {"row", "col", "pos", "cells"}
    BY <1>2, <2>1 DEF LineFeed
  <2>3. 0 % NCol = 0 /\ 0 \div NCol = 0
    BY RowAndColumn, Widths
  <2> QED
    BY <1>1, <2>1, <2>2, <2>3 DEF CharPos, Aligned
<1>6. CASE ch = "CR"
  <2>1. Put(c, ch) = [c EXCEPT !.pos = c.pos - c.col, !.col = 0]
    BY <1>6 DEF Put, Control, CarriageReturn
  <2>2. c.pos - c.col = first
    BY <1>1
  <2> QED
    BY <1>1, <1>2, <2>1, <2>2 DEF Aligned
<1>7. CASE ch \in {"BEL", "SI"}
  BY <1>7 DEF Put, Control
<1> QED
  BY <1>3, <1>4, <1>5, <1>6, <1>7 DEF Control

(* Where the cursor and its address agree, any text lands.                 *)
LEMMA AlignedLands ==
  ASSUME NEW S, console \in Screens(S), Aligned(console)
  PROVE  TextLands
<1>1. ASSUME NEW n \in 0..NCol
      PROVE  LET t == [i \in 1..n |-> IF i % 2 = 0 THEN "x" ELSE "y"]
             IN  WriteString(console, t)
                   = CharPos([console EXCEPT !.cells =
                               [p \in DOMAIN @ |-> IF p - console.pos + 1 \in DOMAIN t THEN t[p - console.pos + 1] ELSE @[p]]],
                             console.pos + n)
  <2> DEFINE t == [i \in 1..n |-> IF i % 2 = 0 THEN "x" ELSE "y"]
             X == S \cup {"x", "y"}
             d == WriteString(console, t)
             e == [console EXCEPT !.cells = Filled(console.cells, console.pos, t, n)]
  <2>1. n \in Nat /\ t \in Seq({"x", "y"}) /\ Len(t) = n /\ DOMAIN t = 1..n
    BY Widths
  <2>2. console \in Screens(X)
    BY DEF Screens
  <2>3. \A i \in 1..n : t[i] \in X \ Control
    BY DEF Control
  <2> HIDE DEF t, X
  <2>4. /\ d \in Screens(X) /\ Aligned(d) /\ d.pos = console.pos + n
        /\ d.cells = Filled(console.cells, console.pos, t, n)
    BY <2>1, <2>2, <2>3, WriteStringFills
  <2> HIDE DEF d
  <2>5. e \in Screens(X) /\ e.cells = d.cells
    BY <2>2, <2>4 DEF Screens
  <2> HIDE DEF e
  <2>6. CharPos(e, d.pos) \in Screens(X) /\ CharPos(e, d.pos).row = d.row
        /\ CharPos(e, d.pos).col = d.col /\ CharPos(e, d.pos).pos = d.pos /\ CharPos(e, d.pos).cells = d.cells
    <3>1. d.row \in Nat /\ d.col \in 0..NCol - 1 /\ d.pos = d.row * NCol + d.col
      BY <2>4 DEF Screens, Aligned
    <3> DEFINE r == d.row
               k == d.col
    <3> HIDE DEF r, k
    <3>2. r \in Nat /\ k \in 0..NCol - 1 /\ d.pos = r * NCol + k
      BY <3>1 DEF r, k
    <3>3. /\ CharPos(e, d.pos) \in Screens(X) /\ CharPos(e, d.pos).row = r
          /\ CharPos(e, d.pos).col = k
          /\ CharPos(e, d.pos).pos = d.pos /\ CharPos(e, d.pos).cells = e.cells
      BY <2>5, <3>2, CharPosPlaces
    <3> QED
      BY <2>5, <3>3 DEF r, k
  <2>7. d = CharPos(e, console.pos + n)
    BY <2>4, <2>6, SameScreen
  <2>8. e = [console EXCEPT !.cells =
              [p \in DOMAIN @ |-> IF p - console.pos + 1 \in DOMAIN t THEN t[p - console.pos + 1] ELSE @[p]]]
    BY <2>1 DEF e, Filled
  <2> QED
    BY <2>7, <2>8 DEF d, t
<1>2. ASSUME NEW ch \in Control \ {"DEL"}
      PROVE  LET c == Put(console, ch) IN c.pos = c.row * NCol + c.col
  BY PutControl DEF Aligned
<1> QED
  BY <1>1, <1>2 DEF TextLands

-----------------------------------------------------------------------------
(* The display *)

(* The characters that may be on the screen, and on the row r.             *)
Glyphs == {Blank} \cup Range(Heading) \cup UNION {Letters[f] : f \in Fields}
InRow(cells, r) == \A c \in 0..NCol - 1 : cells[r * NCol + c] \in Letters[Rows[r]]
RowsHold(cells) == \A r \in DOMAIN Rows : InRow(cells, r)

ScreenInv == console \in Screens(Glyphs) /\ Aligned(console) /\ RowsHold(console.cells)

(* Whoever reads the array of f from i on meets its end before the end of  *)
(* the row, and letters of f until then, whichever texts they are from.    *)
EndsAt(a, f, i, j) == /\ i <= j /\ j < Size /\ ValueCol + j <= NCol /\ a[j] = End
                      /\ \A k \in 0..Size - 1 : i <= k /\ k < j => a[k] \in Letters[f] \ Control
Readable(a, f, i) == \E j \in Nat : EndsAt(a, f, i, j)

ValuesInv ==
  /\ \A f \in Fields : value[f] \in DOMAIN Shape[f]
  /\ \A f \in InPlace : DOMAIN array[f] = 0..Size - 1 /\ Readable(array[f], f, 0)

(* Where the display task is. *)
TaskInv ==
  /\ at \in {"heading", "label", "value", "character"} /\ row \in Nat /\ index \in Nat
  /\ at # "heading" => row \in DOMAIN Rows
  /\ IF at # "character" THEN index = 0
     ELSE /\ Rows[row] \in InPlace /\ Readable(array[Rows[row]], Rows[row], index)
          /\ console.pos = row * NCol + ValueCol + index

DisplayInv == ScreenInv /\ ValuesInv /\ TaskInv

(* The texts, and that every text fits between its column and the end of   *)
(* its row.                                                                *)
LEMMA TextsFit ==
  /\ Len(Rows) \in Nat \ {0} /\ DOMAIN Rows = 1..Len(Rows)
  /\ LabelCol \in 0..NCol - 1 /\ ValueCol \in 0..NCol - 1 /\ Size \in Nat
  /\ Len(Heading) \in Nat /\ LabelCol + Len(Heading) <= NCol
  /\ \A i \in 1..Len(Heading) : Heading[i] \in Glyphs \ Control
  /\ \A r \in DOMAIN Rows : Rows[r] \in Fields
  /\ \A f \in Fields :
       /\ Letters[f] \subseteq Glyphs /\ Blank \in Letters[f]
       /\ Len(Label[f]) \in Nat /\ LabelCol + Len(Label[f]) <= NCol
       /\ \A i \in 1..Len(Label[f]) : Label[f][i] \in Letters[f] \ Control
       /\ Initial[f] \in DOMAIN Shape[f]
       /\ \A v \in DOMAIN Shape[f] :
            /\ Len(Shape[f][v]) \in Nat /\ Len(Shape[f][v]) < Size
            /\ ValueCol + Len(Shape[f][v]) <= NCol
            /\ \A i \in 1..Len(Shape[f][v]) : Shape[f][v][i] \in Letters[f] \ Control
<1>1. \A t : Plain(t) => /\ Len(t) \in Nat /\ DOMAIN t = 1..Len(t)
                         /\ \A i \in 1..Len(t) : t[i] \in Range(t) \ Control
  <2> TAKE t
  <2> DEFINE R == Range(t) \ Control
  <2>1. Plain(t) => t \in Seq(R)
    BY DEF Plain
  <2> HIDE DEF R
  <2>2. Plain(t) => Len(t) \in Nat /\ DOMAIN t = 1..Len(t) /\ \A i \in 1..Len(t) : t[i] \in R
    BY <2>1
  <2> QED
    BY <2>2 DEF R
<1>2. /\ Len(Rows) \in Nat \ {0} /\ DOMAIN Rows = 1..Len(Rows)
      /\ \A r \in DOMAIN Rows : Rows[r] \in Fields
  <2>1. Rows \in Seq(Fields) /\ Rows # <<>>
    BY DisplayAssumption
  <2> QED
    BY <2>1, EmptySeq, LenProperties
<1>3. ASSUME NEW f \in Fields
      PROVE  /\ Letters[f] \subseteq Glyphs /\ Blank \in Letters[f] /\ Range(Label[f]) \subseteq Letters[f]
             /\ \A v \in DOMAIN Shape[f] : Range(Shape[f][v]) \subseteq Letters[f]
  BY DEF Letters, Glyphs
<1>4. ASSUME NEW f \in Fields
      PROVE  /\ Initial[f] \in DOMAIN Shape[f] /\ Plain(Label[f]) /\ LabelCol + Len(Label[f]) <= NCol
             /\ \A v \in DOMAIN Shape[f] : /\ Plain(Shape[f][v]) /\ Len(Shape[f][v]) < Size
                                           /\ ValueCol + Len(Shape[f][v]) <= LabelCol + Len(Label[f])
  BY DisplayAssumption
<1>5. /\ LabelCol \in 0..NCol - 1 /\ ValueCol \in 0..NCol - 1 /\ Size \in Nat
      /\ Plain(Heading) /\ LabelCol + Len(Heading) <= NCol
  BY DisplayAssumption
<1>6. \A i \in 1..Len(Heading) : Heading[i] \in Glyphs \ Control
  BY <1>1, <1>5 DEF Glyphs
<1>7. ASSUME NEW f \in Fields
      PROVE  /\ Len(Label[f]) \in Nat /\ LabelCol + Len(Label[f]) <= NCol
             /\ \A i \in 1..Len(Label[f]) : Label[f][i] \in Letters[f] \ Control
  BY <1>1, <1>3, <1>4
<1>8. ASSUME NEW f \in Fields, NEW v \in DOMAIN Shape[f]
      PROVE  /\ Len(Shape[f][v]) \in Nat /\ Len(Shape[f][v]) < Size
             /\ ValueCol + Len(Shape[f][v]) <= NCol
             /\ \A i \in 1..Len(Shape[f][v]) : Shape[f][v][i] \in Letters[f] \ Control
  <2>1. Plain(Shape[f][v]) /\ Range(Shape[f][v]) \subseteq Letters[f]
    BY <1>3, <1>4
  <2>2. Len(Shape[f][v]) \in Nat
        /\ \A i \in 1..Len(Shape[f][v]) : Shape[f][v][i] \in Letters[f] \ Control
    BY <1>1, <2>1
  <2>3. /\ Len(Shape[f][v]) < Size /\ ValueCol + Len(Shape[f][v]) <= LabelCol + Len(Label[f])
        /\ LabelCol + Len(Label[f]) <= NCol /\ Len(Label[f]) \in Nat
    BY <1>4, <1>7
  <2> QED
    BY <1>5, <2>2, <2>3, Widths
<1>9. ASSUME NEW f \in Fields
      PROVE  Letters[f] \subseteq Glyphs /\ Blank \in Letters[f] /\ Initial[f] \in DOMAIN Shape[f]
  BY <1>3, <1>4
<1>10. Len(Heading) \in Nat
  BY <1>1, <1>5
<1> QED
  BY <1>2, <1>5, <1>6, <1>7, <1>8, <1>9, <1>10

(* The screen has room for every row.                                      *)
LEMMA CellsExist ==
  ASSUME NEW s \in DOMAIN Rows, NEW c \in 0..NCol - 1
  PROVE  s \in Nat /\ s * NCol + c \in 0..Mem - 1
<1> DEFINE l == Len(Rows) + 2
           first == s * NCol
           all == NCol * l
<1>1. Mem >= all /\ Mem \in Nat
  BY DisplayAssumption, Widths
<1>2. s \in Nat /\ l \in Nat /\ s + 1 <= l
  BY TextsFit
<1> HIDE DEF l
<1>3. first \in Nat /\ first + NCol = (s + 1) * NCol
  BY <1>2, RowStarts
<1>4. (s + 1) * NCol <= all /\ all \in Nat
  BY <1>2, Widths
<1>5. first + NCol <= all
  BY <1>3, <1>4
<1> HIDE DEF first, all
<1>6. first + c \in 0..Mem - 1
  BY <1>1, <1>3, <1>4, <1>5, Widths
<1> QED
  BY <1>2, <1>6 DEF first

(* Letters of a row, put on that row, leave every row its own.             *)
LEMMA OnRow ==
  ASSUME NEW old \in [0..Mem - 1 -> Glyphs], RowsHold(old), NEW new \in [0..Mem - 1 -> Glyphs],
         NEW r \in Nat,
         \A q \in 0..Mem - 1 :
           \/ new[q] = old[q]
           \/ \E c \in 0..NCol - 1 : q = r * NCol + c /\ (r \in DOMAIN Rows => new[q] \in Letters[Rows[r]])
  PROVE  RowsHold(new)
<1> SUFFICES ASSUME NEW s \in DOMAIN Rows, NEW c \in 0..NCol - 1
             PROVE  new[s * NCol + c] \in Letters[Rows[s]]
  BY DEF RowsHold, InRow
<1> DEFINE q == s * NCol + c
<1>1. s \in Nat /\ q \in 0..Mem - 1
  BY CellsExist
<1>2. old[q] \in Letters[Rows[s]]
  BY DEF RowsHold, InRow
<1>3. ASSUME NEW d \in 0..NCol - 1, q = r * NCol + d
      PROVE  s = r
  BY <1>1, <1>3, OneAddress
<1> HIDE DEF q
<1>4. new[q] \in Letters[Rows[s]]
  BY <1>1, <1>2, <1>3
<1> QED
  BY <1>4 DEF q

(* The cursor as writeToDisplay places it.                                *)
LEMMA CursorPlaced ==
  ASSUME NEW S, NEW c \in Screens(S), NEW r \in Nat, NEW k \in 0..NCol - 1
  PROVE  LET d == CharPos(c, k + NCol * r)
         IN  d \in Screens(S) /\ Aligned(d) /\ d.pos = r * NCol + k /\ d.cells = c.cells
<1> DEFINE first == r * NCol
           p == first + k
<1>1. first \in Nat /\ NCol * r = first
  BY Widths
<1> HIDE DEF first
<1>2. p = k + NCol * r
  BY <1>1, Widths
<1>3. p = r * NCol + k
  BY DEF first
<1> HIDE DEF p
<1>4. /\ CharPos(c, p) \in Screens(S) /\ Aligned(CharPos(c, p))
      /\ CharPos(c, p).pos = p /\ CharPos(c, p).cells = c.cells
  BY <1>3, CharPosPlaces
<1> QED
  BY <1>2, <1>3, <1>4

(* A text put on a row, from a column on from which it fits.               *)
LEMMA WrittenOnRow ==
  ASSUME ScreenInv, NEW r \in Nat, NEW k \in 0..NCol - 1, NEW text,
         Len(text) \in Nat, k + Len(text) <= NCol,
         \A i \in 1..Len(text) : text[i] \in Glyphs \ Control,
         r \in DOMAIN Rows => \A i \in 1..Len(text) : text[i] \in Letters[Rows[r]]
  PROVE  LET d == writeToDisplay(r, k, text)
         IN  /\ d \in Screens(Glyphs) /\ Aligned(d) /\ RowsHold(d.cells)
             /\ d.pos = r * NCol + k + Len(text)
<1> DEFINE p == r * NCol + k
           c == CharPos(console, k + NCol * r)
           d == WriteString(c, text)
<1>1. c \in Screens(Glyphs) /\ Aligned(c) /\ c.pos = p /\ c.cells = console.cells
  BY CursorPlaced DEF ScreenInv
<1>2. p \in Nat
  <2> HIDE DEF c, p
  <2> QED
    BY <1>1 DEF Screens
<1>3. writeToDisplay(r, k, text) = d
  BY DEF writeToDisplay
<1> HIDE DEF c
<1>4. /\ d \in Screens(Glyphs) /\ Aligned(d) /\ d.pos = p + Len(text)
      /\ d.cells = Filled(console.cells, p, text, Len(text))
  BY <1>1, WriteStringFills
<1> HIDE DEF d
<1>5. /\ d.cells \in [0..Mem - 1 -> Glyphs] /\ console.cells \in [0..Mem - 1 -> Glyphs]
      /\ RowsHold(console.cells)
  BY <1>4 DEF Screens, ScreenInv
<1>6. ASSUME NEW q \in 0..Mem - 1
      PROVE  \/ d.cells[q] = console.cells[q]
             \/ \E x \in 0..NCol - 1 : q = r * NCol + x /\ (r \in DOMAIN Rows => d.cells[q] \in Letters[Rows[r]])
  <2> HIDE DEF p
  <2>1. d.cells[q] = IF q - p + 1 \in 1..Len(text) THEN text[q - p + 1] ELSE console.cells[q]
    BY <1>4, <1>5 DEF Filled
  <2>2. CASE q - p + 1 \in 1..Len(text)
    <3>1. q - p + k \in 0..NCol - 1
      BY <1>2, <2>2, Widths
    <3>2. q = r * NCol + (q - p + k)
      <4> DEFINE first == r * NCol
      <4>1. first \in Nat /\ p = first + k
        BY RowStarts DEF p
      <4> HIDE DEF first
      <4>2. q = first + (q - p + k)
        BY <4>1, Widths
      <4> QED
        BY <4>2 DEF first
    <3>3. r \in DOMAIN Rows => d.cells[q] \in Letters[Rows[r]]
      BY <2>1, <2>2
    <3> QED
      BY <3>1, <3>2, <3>3
  <2>3. CASE ~(q - p + 1 \in 1..Len(text))
    BY <2>1, <2>3
  <2> QED
    BY <2>2, <2>3
<1>7. RowsHold(d.cells)
  BY <1>5, <1>6, OnRow
<1> QED
  BY <1>3, <1>4, <1>7

(* A copy over a text that is being read leaves it readable: the reader    *)
(* meets the new end, or, when it is past it already, the old one.         *)
LEMMA CopyReadable ==
  ASSUME NEW f \in Fields, NEW v \in DOMAIN Shape[f], NEW a, DOMAIN a = 0..Size - 1,
         NEW i \in Nat, i = 0 \/ Readable(a, f, i)
  PROVE  DOMAIN Copy(a, Shape[f][v]) = 0..Size - 1 /\ Readable(Copy(a, Shape[f][v]), f, i)
<1> DEFINE text == Shape[f][v]
           l == Len(text)
           b == Copy(a, text)
<1>1. /\ l \in Nat /\ l < Size /\ ValueCol + l <= NCol /\ Size \in Nat
      /\ \A m \in 1..l : text[m] \in Letters[f] \ Control
  BY TextsFit
<1> HIDE DEF text
<1>2. /\ DOMAIN b = 0..Size - 1
      /\ \A k \in 0..Size - 1 : b[k] = IF k < l THEN text[k + 1] ELSE IF k = l THEN End ELSE a[k]
  BY DEF Copy
<1> HIDE DEF b, l
<1>3. CASE i <= l
  <2>1. \A k \in 0..Size - 1 : i <= k /\ k < l => b[k] \in Letters[f] \ Control
    BY <1>1, <1>2, <1>3
  <2>2. EndsAt(b, f, i, l)
    BY <1>1, <1>2, <1>3, <2>1 DEF EndsAt
  <2> QED
    BY <1>1, <1>2, <2>2 DEF Readable, b, text
<1>4. CASE ~(i <= l)
  <2>1. PICK j \in Nat : EndsAt(a, f, i, j)
    BY <1>1, <1>4 DEF Readable
  <2>2. \A k \in 0..Size - 1 : i <= k => b[k] = a[k]
    BY <1>1, <1>2, <1>4
  <2>3. j \in 0..Size - 1
    BY <1>1, <2>1 DEF EndsAt
  <2>4. EndsAt(b, f, i, j)
    BY <2>1, <2>2, <2>3 DEF EndsAt
  <2> QED
    BY <1>2, <2>4 DEF Readable, b, text
<1> QED
  BY <1>1, <1>3, <1>4

LEMMA DisplayInvInit == DisplayInit => DisplayInv
<1> SUFFICES ASSUME DisplayInit PROVE DisplayInv
  OBVIOUS
<1>1. ScreenInv
  <2>1. console.cells = [p \in 0..Mem - 1 |-> Blank] /\ Blank \in Glyphs
    BY DEF DisplayInit, Fresh, Glyphs
  <2>2. console \in Screens(Glyphs) /\ Aligned(console)
    BY <2>1, Widths DEF DisplayInit, Fresh, Screens, Aligned
  <2>3. \A p \in 0..Mem - 1 : console.cells[p] = Blank
    BY <2>1
  <2>4. [p \in 0..Mem - 1 |-> Blank] \in [0..Mem - 1 -> Glyphs]
    BY <2>1
  <2>5. ASSUME NEW r \in DOMAIN Rows, NEW c \in 0..NCol - 1
        PROVE  console.cells[r * NCol + c] \in Letters[Rows[r]]
    <3>1. r * NCol + c \in 0..Mem - 1
      BY CellsExist
    <3> QED
      BY <2>3, <3>1, TextsFit
  <2> QED
    BY <2>2, <2>5 DEF ScreenInv, RowsHold, InRow
<1>2. ValuesInv
  <2>1. ASSUME NEW f \in InPlace
        PROVE  DOMAIN array[f] = 0..Size - 1 /\ Readable(array[f], f, 0)
    <3>1. f \in Fields /\ Initial[f] \in DOMAIN Shape[f]
      BY TextsFit, DisplayAssumption
    <3> DEFINE raw == [i \in 0..Size - 1 |-> "?"]
    <3>2. array[f] = Copy(raw, Shape[f][Initial[f]]) /\ DOMAIN raw = 0..Size - 1
      BY DEF DisplayInit
    <3> HIDE DEF raw
    <3> QED
      BY <3>1, <3>2, CopyReadable
  <2> QED
    BY <2>1, TextsFit DEF ValuesInv, DisplayInit
<1>3. TaskInv
  BY DEF TaskInv, DisplayInit
<1> QED
  BY <1>1, <1>2, <1>3 DEF DisplayInv

(* The setters *)
LEMMA SetAllKeeps ==
  ASSUME DisplayInv, NEW new, SetAll(new),
         \A f \in Fields : f \in DOMAIN new => new[f] \in DOMAIN Shape[f]
  PROVE  DisplayInv'
<1>1. ScreenInv'
  BY DEF DisplayInv, ScreenInv, SetAll
<1>2. \A f \in Fields : value'[f] \in DOMAIN Shape[f]
  BY DEF DisplayInv, ValuesInv, SetAll
<1>3. ASSUME NEW f \in InPlace, NEW i \in Nat, Readable(array[f], f, i)
      PROVE  DOMAIN array'[f] = 0..Size - 1 /\ Readable(array'[f], f, i)
  <2>1. f \in Fields /\ DOMAIN array[f] = 0..Size - 1
    BY DisplayAssumption DEF DisplayInv, ValuesInv
  <2>2. array'[f] = IF f \in DOMAIN new THEN Copy(array[f], Shape[f][new[f]]) ELSE array[f]
    BY DEF SetAll
  <2>3. CASE f \in DOMAIN new
    <3>1. new[f] \in DOMAIN Shape[f]
      BY <2>1, <2>3
    <3> QED
      BY <1>3, <2>1, <2>2, <2>3, <3>1, CopyReadable
  <2>4. CASE f \notin DOMAIN new
    BY <1>3, <2>1, <2>2, <2>4
  <2> QED
    BY <2>3, <2>4
<1>4. ValuesInv'
  BY <1>2, <1>3 DEF DisplayInv, ValuesInv
<1>5. TaskInv'
  BY <1>3 DEF DisplayInv, TaskInv, SetAll
<1> QED
  BY <1>1, <1>4, <1>5 DEF DisplayInv

(* The display task *)
LEMMA DisplayStepKeeps ==
  ASSUME DisplayInv, DisplayStep
  PROVE  DisplayInv'
<1> USE DEF DisplayInv
<1>1. ValuesInv'
  BY DEF DisplayStep, WriteHeading, WriteLabel, WriteFormatted, StartInPlace, WriteCharacter, ValuesInv
<1>2. /\ at # "heading" => row \in DOMAIN Rows /\ Rows[row] \in Fields
      /\ row \in Nat /\ 1 \in DOMAIN Rows /\ 0 \notin DOMAIN Rows
      /\ row < Len(Rows) => row + 1 \in DOMAIN Rows
      /\ \A f \in Fields : Letters[f] \subseteq Glyphs
  BY TextsFit DEF TaskInv
<1>3. ASSUME NEW r \in Nat, NEW k \in 0..NCol - 1, NEW text,
             Len(text) \in Nat, k + Len(text) <= NCol,
             \/ r = 0 /\ \A i \in 1..Len(text) : text[i] \in Glyphs \ Control
             \/ r \in DOMAIN Rows /\ \A i \in 1..Len(text) : text[i] \in Letters[Rows[r]] \ Control,
             console' = writeToDisplay(r, k, text)
      PROVE  ScreenInv' /\ console'.pos = r * NCol + k + Len(text)
  <2>1. /\ \A i \in 1..Len(text) : text[i] \in Glyphs \ Control
        /\ r \in DOMAIN Rows => \A i \in 1..Len(text) : text[i] \in Letters[Rows[r]]
    BY <1>2, <1>3, TextsFit
  <2> QED
    BY <1>3, <2>1, WrittenOnRow DEF ScreenInv
<1>4. ASSUME NextRow
      PROVE  /\ row' \in Nat /\ at' \in {"heading", "label"}
             /\ at' # "heading" => row' \in DOMAIN Rows
  BY <1>2, <1>4 DEF NextRow
<1>5. CASE WriteHeading
  <2>1. 0 \in Nat /\ console' = writeToDisplay(0, LabelCol, Heading)
    BY <1>5 DEF WriteHeading
  <2>2. ScreenInv'
    BY <1>3, <2>1, TextsFit
  <2>3. TaskInv'
    BY <1>2, <1>5 DEF WriteHeading, TaskInv
  <2> QED
    BY <1>1, <2>2, <2>3
<1>6. CASE WriteLabel
  <2>1. ScreenInv'
    BY <1>2, <1>3, <1>6, TextsFit DEF WriteLabel, LabelText
  <2>2. TaskInv'
    BY <1>2, <1>6 DEF WriteLabel, TaskInv
  <2> QED
    BY <1>1, <2>1, <2>2
<1>7. CASE WriteFormatted
  <2>1. value[Rows[row]] \in DOMAIN Shape[Rows[row]]
    BY <1>2, <1>7 DEF WriteFormatted, ValuesInv
  <2>2. ScreenInv'
    BY <1>2, <1>3, <1>7, <2>1, TextsFit DEF WriteFormatted
  <2>3. TaskInv'
    BY <1>4, <1>7 DEF WriteFormatted, TaskInv
  <2> QED
    BY <1>1, <2>2, <2>3
<1>8. CASE StartInPlace
  <2> DEFINE text == <<>>
  <2>1. /\ Len(text) = 0 /\ Len(text) \in Nat /\ ValueCol + Len(text) <= NCol
        /\ ValueCol \in 0..NCol - 1
        /\ \A i \in 1..Len(text) : text[i] \in Letters[Rows[row]] \ Control
    BY TextsFit, Widths
  <2>2. row \in Nat /\ row \in DOMAIN Rows /\ console' = writeToDisplay(row, ValueCol, text)
    BY <1>2, <1>8 DEF StartInPlace
  <2> HIDE DEF text
  <2>3. ScreenInv' /\ console'.pos = row * NCol + ValueCol + Len(text)
    BY <1>3, <2>1, <2>2
  <2>4. ScreenInv' /\ console'.pos = row * NCol + ValueCol + 0
    BY <2>1, <2>3
  <2>5. TaskInv'
    BY <1>2, <1>8, <2>4 DEF StartInPlace, TaskInv, ValuesInv
  <2> QED
    BY <1>1, <2>4, <2>5
<1>9. CASE WriteCharacter
  <2> DEFINE f == Rows[row]
             ch == array[f][index]
  <2>1. /\ f \in InPlace /\ f \in Fields /\ index \in Nat
        /\ console.pos = row * NCol + ValueCol + index
    BY <1>2, <1>9 DEF WriteCharacter, TaskInv
  <2>2. PICK j \in Nat : EndsAt(array[f], f, index, j)
    BY <1>9 DEF WriteCharacter, TaskInv, Readable
  <2>3. CASE ch = End
    <3>1. NextRow /\ index' = 0 /\ UNCHANGED console
      BY <1>9, <2>3 DEF WriteCharacter
    <3>2. TaskInv'
      BY <1>4, <3>1 DEF TaskInv
    <3> QED
      BY <1>1, <3>1, <3>2 DEF ScreenInv
  <2>4. CASE ch # End
    <3>1. console' = Put(console, ch) /\ index' = index + 1 /\ UNCHANGED <<row, at, array>>
      BY <1>9, <2>4 DEF WriteCharacter
    <3>2. index < j /\ j < Size /\ ValueCol + j <= NCol
      BY <2>1, <2>2, <2>4 DEF EndsAt
    <3>3. ch \in Letters[f] \ Control /\ ch \in Glyphs
      BY <1>2, <2>1, <2>2, <3>2, TextsFit DEF EndsAt
    <3>4. EndsAt(array[f], f, index + 1, j)
      BY <2>1, <2>2, <3>2, TextsFit DEF EndsAt
    <3> HIDE DEF ch
    <3>5. /\ console' \in Screens(Glyphs) /\ Aligned(console') /\ console'.pos = console.pos + 1
          /\ console'.cells = [console.cells EXCEPT ![console.pos] = ch]
      BY <3>1, <3>3, PutPrintable DEF ScreenInv
    <3>6. ASSUME NEW q \in 0..Mem - 1
          PROVE  \/ console'.cells[q] = console.cells[q]
                 \/ \E c \in 0..NCol - 1 : q = row * NCol + c /\ (row \in DOMAIN Rows => console'.cells[q] \in Letters[f])
      <4>1. console'.cells[q] = IF q = console.pos THEN ch ELSE console.cells[q]
        BY <3>5 DEF ScreenInv, Screens
      <4>2. ValueCol + index \in 0..NCol - 1
        BY <2>1, <3>2, TextsFit, Widths
      <4>3. console.pos = row * NCol + (ValueCol + index)
        <5> DEFINE first == row * NCol
        <5>1. first \in Nat
          BY <1>2, RowStarts
        <5> HIDE DEF first
        <5>2. first + ValueCol + index = first + (ValueCol + index)
          BY <2>1, <5>1, TextsFit, Widths
        <5> QED
          BY <2>1, <5>2 DEF first
      <4> QED
        BY <3>3, <4>1, <4>2, <4>3
    <3>7. RowsHold(console'.cells)
      <4>1. /\ console'.cells \in [0..Mem - 1 -> Glyphs] /\ console.cells \in [0..Mem - 1 -> Glyphs]
            /\ RowsHold(console.cells) /\ row \in Nat
        BY <1>2, <3>5 DEF Screens, ScreenInv
      <4> QED
        BY <3>6, <4>1, OnRow
    <3>8. console'.pos = row * NCol + ValueCol + (index + 1)
      <4> DEFINE first == row * NCol
      <4>1. first \in Nat
        BY <1>2, RowStarts
      <4> HIDE DEF first
      <4>2. first + ValueCol + (index + 1) = first + ValueCol + index + 1
        BY <2>1, <4>1, TextsFit, Widths
      <4> QED
        BY <2>1, <3>5, <4>2 DEF first
    <3>9. TaskInv'
      BY <1>2, <1>9, <2>1, <3>1, <3>4, <3>8 DEF TaskInv, Readable, WriteCharacter
    <3> QED
      BY <1>1, <3>5, <3>7, <3>9 DEF ScreenInv
  <2> QED
    BY <2>3, <2>4
<1> QED
  BY <1>5, <1>6, <1>7, <1>8, <1>9 DEF DisplayStep

LEMMA DisplayInvSuffices == DisplayInv => RowsApart /\ TextLands
<1> SUFFICES ASSUME DisplayInv PROVE RowsApart /\ TextLands
  OBVIOUS
<1>1. TextLands
  BY AlignedLands DEF DisplayInv, ScreenInv
<1>2. ASSUME NEW f \in Fields, NEW c \in 0..NCol - 1
      PROVE  Cell(f, c) \in Letters[f]
  <2>1. \E r \in DOMAIN Rows : Rows[r] = f
    BY DEF Fields
  <2>2. Row[f] \in DOMAIN Rows /\ Rows[Row[f]] = f
    BY <2>1 DEF Row
  <2> QED
    BY <2>2 DEF Cell, DisplayInv, ScreenInv, RowsHold, InRow
<1> QED
  BY <1>1, <1>2 DEF RowsApart

-----------------------------------------------------------------------------
(* The keypad *)

(* A column gives a key; what the scan knows of the keys that are down.    *)
Gives(i) == Cardinality(Pressed(i)) = 1
Faithful == tempKey # NoKey <=> \E i \in 1..column - 1 : Gives(i)
NothingDown == down = {} /\ tempKey = NoKey

(* Since the last command was given nothing has moved: what the scan has   *)
(* found is what is down, and if the last poll has seen no key there is    *)
(* none.  A pad at rest gives no key.                                      *)
KeypadInv ==
  /\ column \in 1..Len(Columns) /\ down \subseteq Keys
  /\ keyPressedOld \in BOOLEAN /\ events \in Seq(Range(Command) \cup {NOTFOUND})
  /\ column = 1 => tempKey = NoKey
  /\ pad = "given" => Faithful /\ (keyPressedOld \/ \A i \in 1..Len(Columns) : ~Gives(i))
  /\ pad \in {"settling", "rest"} => NothingDown
  /\ pad \in {"moved", "owed", "given", "settling", "rest"}

(* A column with one pressed key gives a key, any other what was there.    *)
LEMMA ReadGives ==
  ASSUME NEW i \in 1..Len(Columns)
  PROVE  /\ Gives(i) => Read(i) # NoKey
         /\ ~Gives(i) => Read(i) = tempKey
         /\ down = {} => ~Gives(i)
<1>1. ASSUME Gives(i)
      PROVE  Read(i) # NoKey
  <2>1. Columns[i] \subseteq Keys /\ IsFiniteSet(Columns[i]) /\ NoKey \notin Keys
    BY KeyboardAssumption DEF Keys
  <2>2. IsFiniteSet(Pressed(i)) /\ Pressed(i) \subseteq Keys
    BY <2>1, FS_Subset DEF Pressed
  <2>3. \E k : Pressed(i) = {k}
    BY <1>1, <2>2, FS_Singleton DEF Gives
  <2>4. \E k \in Keys : Pressed(i) = {k}
    BY <2>2, <2>3
  <2>5. Read(i) \in Keys
    BY <1>1, <2>4 DEF Read, Gives
  <2> QED
    BY <2>1, <2>5
<1>2. down = {} => ~Gives(i)
  BY FS_EmptySet DEF Gives, Pressed
<1> QED
  BY <1>1, <1>2 DEF Read, Gives

LEMMA KeypadInvInit == KeyboardInit => KeypadInv
<1>1. Len(Columns) \in Nat /\ 1 \in 1..Len(Columns) /\ <<>> \in Seq(Range(Command) \cup {NOTFOUND})
  BY KeyboardAssumption
<1> QED
  BY <1>1 DEF KeyboardInit, KeypadInv, NothingDown

LEMMA FingerKeeps ==
  ASSUME KeypadInv, NEW k \in Keys, Finger(k)
  PROVE  KeypadInv'
BY DEF Finger, KeypadInv

(* A poll, column by column                                                *)
LEMMA ScanKeeps ==
  ASSUME KeypadInv, Scan
  PROVE  KeypadInv'
<1> USE DEF KeypadInv
<1> DEFINE key == Read(column)
<1>1. /\ column \in 1..Len(Columns) /\ Len(Columns) \in Nat /\ Len(Columns) > 1
      /\ down' = down /\ \A i \in 1..Len(Columns) : Gives(i)' <=> Gives(i)
  BY KeyboardAssumption DEF Scan, Gives, Pressed
<1>2. /\ Gives(column) => key # NoKey
      /\ ~Gives(column) => key = tempKey
      /\ down = {} => ~Gives(column)
  BY <1>1, ReadGives
<1>3. pad = "given" => (key # NoKey <=> \E i \in 1..column : Gives(i))
  BY <1>1, <1>2 DEF Faithful
<1>4. pad \in {"settling", "rest"} => key = NoKey
  BY <1>2 DEF NothingDown
<1> HIDE DEF key
<1>5. CASE column < Len(Columns)
  <2>1. /\ column' = column + 1 /\ tempKey' = key
        /\ pad' = IF column = 1 /\ down = {} /\ pad # "rest" THEN "settling" ELSE pad
        /\ UNCHANGED <<keyPressedOld, events>>
    BY <1>5 DEF Scan, key
  <2>2. column' \in 1..Len(Columns) /\ column' # 1 /\ column' - 1 = column
    BY <1>1, <1>5, <2>1
  <2>3. pad' = "given" => Faithful' /\ (keyPressedOld' \/ \A i \in 1..Len(Columns) : ~Gives(i)')
    BY <1>1, <1>3, <2>1, <2>2 DEF Faithful
  <2>4. pad' \in {"settling", "rest"} => NothingDown'
    BY <1>1, <1>2, <1>4, <2>1 DEF NothingDown
  <2> QED
    BY <1>1, <2>1, <2>2, <2>3, <2>4
<1>6. CASE ~(column < Len(Columns))
  <2>1. /\ column = Len(Columns) /\ column' = 1 /\ tempKey' = NoKey
        /\ keyPressedOld' = (key # NoKey)
        /\ IF key # NoKey /\ ~keyPressedOld
             THEN events' = Append(events, parseCmd(key)) /\ pad' = "given"
             ELSE UNCHANGED events /\ pad' = IF pad = "settling" THEN "rest" ELSE pad
    BY <1>1, <1>6 DEF Scan, checkPressedKey, Remember, NewKey, key
  <2>2. events' \in Seq(Range(Command) \cup {NOTFOUND})
    <3>1. parseCmd(key) \in Range(Command) \cup {NOTFOUND}
      BY DEF parseCmd, Range
    <3> QED
      BY <2>1, <3>1
  <2>3. Faithful'
    BY <2>1 DEF Faithful
  <2>4. pad' = "given" => keyPressedOld' \/ \A i \in 1..Len(Columns) : ~Gives(i)'
    BY <1>1, <1>3, <2>1
  <2>5. pad' \in {"settling", "rest"} => NothingDown'
    BY <1>1, <2>1 DEF NothingDown
  <2> QED
    BY <1>1, <2>1, <2>2, <2>3, <2>4, <2>5
<1> QED
  BY <1>5, <1>6

(* A command is given at the end of a poll only: a pad at rest has none to *)
(* give, and after the last command the keys are those it was given for.   *)
LEMMA ScanGives ==
  ASSUME KeypadInv, Scan
  PROVE  events' # events => pad \in {"moved", "owed"}
<1> SUFFICES ASSUME events' # events PROVE pad \in {"moved", "owed"}
  OBVIOUS
<1>1. column \in 1..Len(Columns) /\ Read(column) # NoKey /\ ~keyPressedOld
  BY DEF KeypadInv, Scan, checkPressedKey, NewKey
<1>2. /\ ~Gives(column) => Read(column) = tempKey
      /\ down = {} => ~Gives(column)
  BY <1>1, ReadGives
<1>3. pad \notin {"settling", "rest"}
  BY <1>1, <1>2 DEF KeypadInv, NothingDown
<1>4. pad # "given"
  BY <1>1, <1>2, KeyboardAssumption DEF KeypadInv, Faithful
<1> QED
  BY <1>3, <1>4 DEF KeypadInv

-----------------------------------------------------------------------------
(* The panel *)

(* The main task sets a field to a value that has a text.                  *)
LEMMA MainTaskKeeps ==
  ASSUME DisplayInv, HandleEvent \/ Finish
  PROVE  DisplayInv'
<1> DEFINE start(way) == [status |-> "Belt in Motion", direction |-> way]
           stop == [status |-> "Idle"]
           none == <<>>
<1>1. ASSUME NEW way
      PROVE  /\ DOMAIN start(way) = {"status", "direction"}
             /\ start(way)["status"] = "Belt in Motion" /\ start(way)["direction"] = way
  OBVIOUS
<1>2. DOMAIN stop = {"status"} /\ stop["status"] = "Idle"
  OBVIOUS
<1>3. DOMAIN none = {}
  OBVIOUS
<1> HIDE DEF start, stop, none
<1>4. ASSUME NEW new, SetAll(new),
             new = start("left") \/ new = start("right") \/ new = stop \/ new = none
      PROVE  DisplayInv'
  <2>1. ASSUME NEW f \in DOMAIN new
        PROVE  new[f] \in DOMAIN Shape[f]
    <3>1. ASSUME NEW way \in {"left", "right"}, new = start(way)
          PROVE  new[f] \in DOMAIN Shape[f]
      <4>1. \/ f = "status" /\ new[f] = "Belt in Motion"
            \/ f = "direction" /\ new[f] = way
        BY <1>1, <2>1, <3>1
      <4> QED
        BY <4>1, PanelAssumption
    <3>2. ASSUME new = stop
          PROVE  new[f] \in DOMAIN Shape[f]
      BY <1>2, <2>1, <3>2, PanelAssumption
    <3> QED
      BY <1>3, <1>4, <2>1, <3>1, <3>2
  <2> QED
    BY <1>4, <2>1, SetAllKeeps
<1>5. CASE HandleEvent
  <2>1. \E new : /\ SetAll(new)
                 /\ new = start("left") \/ new = start("right") \/ new = stop \/ new = none
    BY <1>5 DEF HandleEvent, start, stop, none
  <2> QED
    BY <1>4, <2>1
<1>6. CASE Finish
  BY <1>4, <1>6 DEF Finish, stop
<1> QED
  BY <1>5, <1>6

LEMMA DisplayInvHolds == Spec => []DisplayInv
<1>1. Init => DisplayInv
  BY DisplayInvInit DEF Init
<1>2. DisplayInv /\ [Next]_panelVars => DisplayInv'
  <2> SUFFICES ASSUME DisplayInv, [Next]_panelVars PROVE DisplayInv'
    OBVIOUS
  <2>1. CASE Fingers \/ Poll \/ UNCHANGED panelVars
    <3>1. UNCHANGED displayVars
      BY <2>1 DEF Fingers, Poll, panelVars
    <3> QED
      BY <3>1 DEF displayVars, DisplayInv, ScreenInv, ValuesInv, TaskInv
  <2>2. CASE HandleEvent \/ Finish
    BY <2>2, MainTaskKeeps
  <2>3. CASE Redraw
    BY <2>3, DisplayStepKeeps DEF Redraw
  <2> QED
    BY <2>1, <2>2, <2>3 DEF Next
<1> QED
  BY <1>1, <1>2, PTL DEF Spec

LEMMA KeypadInvHolds == Spec => []KeypadInv
<1>1. Init => KeypadInv
  BY KeypadInvInit DEF Init
<1>2. KeypadInv /\ [Next]_panelVars => KeypadInv'
  <2> SUFFICES ASSUME KeypadInv, [Next]_panelVars PROVE KeypadInv'
    OBVIOUS
  <2>1. CASE Fingers
    BY <2>1, FingerKeeps DEF Fingers
  <2>2. CASE Poll
    BY <2>2, ScanKeeps DEF Poll
  <2>3. CASE HandleEvent
    <3>1. events' = Tail(events) /\ events # <<>> /\ UNCHANGED <<down, column, tempKey, keyPressedOld, pad>>
      BY <2>3 DEF HandleEvent
    <3>2. events' \in Seq(Range(Command) \cup {NOTFOUND})
      BY <3>1 DEF KeypadInv
    <3> QED
      BY <3>1, <3>2 DEF KeypadInv, Faithful, NothingDown, Gives, Pressed
  <2>4. CASE Finish \/ Redraw \/ UNCHANGED panelVars
    <3>1. UNCHANGED keyboardVars
      BY <2>4 DEF Finish, Redraw, panelVars
    <3> QED
      BY <3>1 DEF keyboardVars, KeypadInv, Faithful, NothingDown, Gives, Pressed
  <2> QED
    BY <2>1, <2>2, <2>3, <2>4 DEF Next
<1> QED
  BY <1>1, <1>2, PTL DEF Spec

(* No row ever shows a character of another field, of the heading or of    *)
(* memory nobody wrote, although a text may be copied over while the       *)
(* display task reads it character by character (Display.cpp:57-163,       *)
(* writeToDisplay, dispWriteString).                                       *)
THEOREM RowsStayApart == Spec => []RowsApart
<1>1. DisplayInv => RowsApart
  BY DisplayInvSuffices
<1> QED
  BY <1>1, DisplayInvHolds, PTL

(* Wherever the cursor ever stands, a text fills the cells from there on   *)
(* and no others, and after every text and control code but DEL the        *)
(* address, the row and the column, which every branch of dispWriteString  *)
(* keeps up to date one by one, are the same place (disp.c:489-584).       *)
THEOREM TextsLand == Spec => []TextLands
<1>1. DisplayInv => TextLands
  BY DisplayInvSuffices
<1> QED
  BY <1>1, DisplayInvHolds, PTL

(* The keypad gives a command only if a finger has moved since the last    *)
(* one: neither a held key nor a poll that sees the pad half changed       *)
(* repeats it (keyPressedOld, keyboard.cpp:41-58; getKey in kbd.c).        *)
THEOREM NoKeyRepeats == Spec => NoCommandByItself
<1> DEFINE Taken == events' # events /\ Len(events') > Len(events) => pad \in {"moved", "owed"}
<1>1. KeypadInv /\ [Next]_panelVars => [Taken]_keyboardVars
  <2> SUFFICES ASSUME KeypadInv, Next PROVE Taken \/ UNCHANGED events
    BY DEF panelVars, keyboardVars
  <2>1. CASE Fingers \/ Finish \/ Redraw
    BY <2>1 DEF Fingers, Finger, Finish, Redraw, keyboardVars
  <2>2. CASE Poll
    BY <2>2, ScanGives DEF Poll
  <2>3. CASE HandleEvent
    <3>1. events' = Tail(events) /\ events # <<>> /\ events \in Seq(Range(Command) \cup {NOTFOUND})
      BY <2>3 DEF HandleEvent, KeypadInv
    <3>2. Len(Tail(events)) = Len(events) - 1 /\ Len(events) \in Nat
      BY <3>1, HeadTailProperties
    <3>3. ~(Len(events') > Len(events))
      BY <3>1, <3>2
    <3> QED
      BY <3>3
  <2> QED
    BY <2>1, <2>2, <2>3 DEF Next
<1> QED
  BY <1>1, KeypadInvHolds, PTL DEF Spec, NoCommandByItself
=============================================================================
