SPECIFICATION Spec
CONSTANTS
  Columns <- MCColumns
  Command <- MCCommand
  NoKey = NoKey
  NOTFOUND = NOTFOUND
  MaxEvents = 1
  NCol = 7
  Mem = 28
  TabWidth = 3
  Rows <- MCRows
  InPlace = {"status"}
  Heading <- MCHeading
  Label <- MCLabel
  Shape <- MCShape
  Initial <- MCInitial
  ValueCol = 3
  Size = 5
INVARIANTS RowsApart TextLands
PROPERTIES NoCommandByItself PressIsTaken ShowsCurrent
CHECK_DEADLOCK FALSE
