------------------------------ MODULE Display ------------------------------
(***************************************************************************)
(* The display task (Display.cpp): it redraws every row, label then value, *)
(* each time from the first row on.  Texts the other tasks set are read    *)
(* where they lie, character by character, and the tasks that set them run *)
(* at a higher priority: a text may change under the reader.  The other    *)
(* values are formatted into a local string first.  The time on the first  *)
(* row does not change here.                                               *)
(***************************************************************************)
EXTENDS Console

CONSTANTS Rows,     \* the fields in the order of their rows, the first below the heading
          InPlace,  \* the fields that are arrays read in place
          Heading,  \* the characters of the first row
          Label,    \* the label of a field, with the blanks that follow it
          Shape,    \* the characters of each value of a field
          Initial,  \* the value of each field after initTask
          ValueCol, \* the column of the values
          Size      \* the size of the arrays

End == "0"          \* the terminating zero
Fields == {Rows[i] : i \in DOMAIN Rows}
LabelCol == 1

\* A text as the code has them: without control codes
Plain(t) == t \in Seq(Range(t) \ Control)

ASSUME DisplayAssumption ==
  /\ Rows \in Seq(Fields) /\ Rows # <<>> /\ InPlace \subseteq Fields
  /\ {LabelCol, ValueCol} \subseteq 0..NCol - 1 /\ Size \in Nat
  /\ Plain(Heading) /\ LabelCol + Len(Heading) <= NCol
  /\ DOMAIN Shape = Fields /\ DOMAIN Label = Fields
  /\ \A f \in Fields :
       /\ Initial[f] \in DOMAIN Shape[f]
       /\ Plain(Label[f]) /\ LabelCol + Len(Label[f]) <= NCol
       /\ \A v \in DOMAIN Shape[f] : /\ Plain(Shape[f][v]) /\ Len(Shape[f][v]) < Size
                                     /\ ValueCol + Len(Shape[f][v]) <= LabelCol + Len(Label[f])
  /\ Mem >= NCol * (Len(Rows) + 2)

VARIABLES value,   \* the value last set of a field
          array,   \* the characters of the fields read in place
          console, \* the screen
          row,     \* rowCounter
          at,      \* what the task writes next: "heading", "label", "value", "character"
          index    \* the next character of the array it is reading

displayVars == <<value, array, console, row, at, index>>

\* Mutant: the copy is not terminated.
CopyBare(a, text) == [i \in DOMAIN a |-> IF i < Len(text) THEN text[i + 1] ELSE a[i]]

\* sprintf(a, "%s", text): what lies behind the zero stays.  The display task
\* cannot run meanwhile.
Copy(a, text) ==
  [i \in DOMAIN a |-> IF i < Len(text) THEN text[i + 1] ELSE IF i = Len(text) THEN End ELSE a[i]]

DisplayInit ==
  /\ value = Initial
  /\ array = [f \in InPlace |-> Copy([i \in 0..Size - 1 |-> "?"], Shape[f][Initial[f]])]
  /\ console = Fresh
  /\ row = 0
  /\ at = "heading"
  /\ index = 0

\* The setters, called by the main task, a worker or the tick
SetAll(new) ==
  /\ value' = [f \in Fields |-> IF f \in DOMAIN new THEN new[f] ELSE value[f]]
  /\ array' = [f \in InPlace |-> IF f \in DOMAIN new THEN Copy(array[f], Shape[f][new[f]]) ELSE array[f]]
  /\ UNCHANGED <<console, row, at, index>>

\* writeToDisplay
writeToDisplay(r, c, text) == WriteString(CharPos(console, c + NCol * r), text)

\* update: the first row, from rowCounter = 0
WriteHeading ==
  /\ at = "heading"
  /\ console' = writeToDisplay(0, LabelCol, Heading)
  /\ row' = 1
  /\ at' = "label"
  /\ UNCHANGED <<value, array, index>>

\* Mutant: the label is not followed by blanks.
LabelTextBare(f) == SelectSeq(Label[f], LAMBDA ch : ch # Blank)

LabelText(f) == Label[f]

WriteLabel ==
  /\ at = "label"
  /\ console' = writeToDisplay(row, LabelCol, LabelText(Rows[row]))
  /\ at' = "value"
  /\ UNCHANGED <<value, array, row, index>>

NextRow ==
  IF row < Len(Rows) THEN row' = row + 1 /\ at' = "label" ELSE row' = 0 /\ at' = "heading"

\* A value that is formatted into a string of the task's own
WriteFormatted ==
  /\ at = "value"
  /\ Rows[row] \notin InPlace
  /\ console' = writeToDisplay(row, ValueCol, Shape[Rows[row]][value[Rows[row]]])
  /\ NextRow
  /\ UNCHANGED <<value, array, index>>

\* A value that is read in place: dispCharPos, then character by character.
StartInPlace ==
  /\ at = "value"
  /\ Rows[row] \in InPlace
  /\ console' = writeToDisplay(row, ValueCol, <<>>)
  /\ at' = "character"
  /\ UNCHANGED <<value, array, row, index>>

WriteCharacter ==
  /\ at = "character"
  /\ LET ch == array[Rows[row]][index]
     IN  IF ch = End
           THEN NextRow /\ index' = 0 /\ UNCHANGED console
           ELSE console' = Put(console, ch) /\ index' = index + 1 /\ UNCHANGED <<row, at>>
  /\ UNCHANGED <<value, array>>

DisplayStep == WriteHeading \/ WriteLabel \/ WriteFormatted \/ StartInPlace \/ WriteCharacter

----------------------------------------------------------------------------
Row == [f \in Fields |-> CHOOSE r \in DOMAIN Rows : Rows[r] = f]
Cell(f, c) == console.cells[Row[f] * NCol + c]

\* The characters that belong on the row of a field
Letters ==
  [f \in Fields |-> {Blank} \cup Range(Label[f]) \cup UNION {Range(Shape[f][v]) : v \in DOMAIN Shape[f]}]

\* The row of a field as it should look for each of its values
Wanted ==
  [f \in Fields |-> [v \in DOMAIN Shape[f] |-> [c \in 0..NCol - 1 |->
     IF c - ValueCol + 1 \in DOMAIN Shape[f][v] THEN Shape[f][v][c - ValueCol + 1]
     ELSE IF c - LabelCol + 1 \in DOMAIN Label[f] THEN Label[f][c - LabelCol + 1] ELSE Blank]]]

\* Wherever the cursor stands, a text fills the cells from there on, over the
\* end of its row, and leaves every other cell as it was; and after a text or a
\* control code the address the next character goes to is the one of the
\* cursor's row and column.  (curChrPos, row and col are kept up to date one by
\* one in every branch of disp.c.  DEL in the first column is the exception: it
\* leaves the column at -1; no text has control codes.)
TextLands ==
  /\ \A n \in 0..NCol :
       LET t == [i \in 1..n |-> IF i % 2 = 0 THEN "x" ELSE "y"]
       IN  WriteString(console, t)
             = CharPos([console EXCEPT !.cells =
                         [p \in DOMAIN @ |-> IF p - console.pos + 1 \in DOMAIN t THEN t[p - console.pos + 1] ELSE @[p]]],
                       console.pos + n)
  /\ \A ch \in Control \ {"DEL"} :
       LET c == Put(console, ch) IN c.pos = c.row * NCol + c.col

\* No row ever shows a character of another field, of the heading, or of
\* storage nobody wrote: not even a text that changes while it is read runs over
\* the end of its row, and no value comes under the label of another field.
RowsApart == \A f \in Fields : \A c \in 0..NCol - 1 : Cell(f, c) \in Letters[f]

\* A value that is not set any more is shown, again and again, with nothing of an
\* earlier longer text behind it and no mixture of two texts: the label's
\* trailing blanks wipe what was there, and the redraw mends a text that
\* changed while it was read.
ShowsCurrent ==
  \A f \in Fields : \A v \in DOMAIN Shape[f] :
    <>[](value[f] = v) => []<>(\A c \in 0..NCol - 1 : Cell(f, c) = Wanted[f][v][c])
=============================================================================
