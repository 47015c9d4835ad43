------------------------------ MODULE Keyboard ------------------------------
(***************************************************************************)
(* The keypad (kbd.c) and the task that polls it (keyboard.cpp).  getKey   *)
(* drives one column after the other and the fingers move meanwhile; a     *)
(* column with exactly one pressed key gives that key, any other pattern   *)
(* gives none, and a later column overrides an earlier one.  A command is  *)
(* parsed and requested only on the change from no key to a key.           *)
(***************************************************************************)
EXTENDS Naturals, Sequences, FiniteSets

CONSTANTS Columns,  \* the columns of the pad in the order they are driven: sets of keys
          Command,  \* the KEYBOARD rows of the parser's table, a function of some keys
          NoKey, NOTFOUND,
          MaxEvents \* bound: the fingers move only while fewer commands wait

Keys == UNION {Columns[i] : i \in DOMAIN Columns}

ASSUME KeyboardAssumption ==
  /\ Columns \in Seq(SUBSET Keys) /\ Len(Columns) > 1
  /\ \A i \in DOMAIN Columns : IsFiniteSet(Columns[i])
  /\ \A i, j \in DOMAIN Columns : i # j => Columns[i] \cap Columns[j] = {}
  /\ DOMAIN Command \subseteq Keys
  /\ NoKey \notin Keys

VARIABLES down,          \* the keys that are pressed
          column,        \* the column getKey drives next
          tempKey,       \* what getKey has found so far
          keyPressedOld, \* the last poll saw a key
          events,        \* the commands handed to requestEvent, not yet handled
          pad            \* history: what the fingers did since the last command

keyboardVars == <<down, column, tempKey, keyPressedOld, events, pad>>

KeyboardInit ==
  /\ down = {} /\ column = 1 /\ tempKey = NoKey
  /\ keyPressedOld = FALSE
  /\ events = <<>>
  /\ pad = "moved"

\* pad is "rest" when no key was down during a whole poll, "owed" when one key
\* has been pressed after that, "moved" after any other change and "given" when
\* a command has been taken and no finger has moved since.
Finger(k) ==
  /\ Len(events) < MaxEvents
  /\ down' = IF k \in down THEN down \ {k} ELSE down \cup {k}
  /\ pad' = IF pad = "rest" THEN "owed" ELSE "moved"
  /\ UNCHANGED <<column, tempKey, keyPressedOld, events>>

Pressed(i) == Columns[i] \cap down

\* The switch over the input bits of a column
Read(i) == IF Cardinality(Pressed(i)) = 1 THEN CHOOSE k \in Keys : Pressed(i) = {k} ELSE tempKey

\* Mutant: a key counts again as long as it is held.
NewKeyHeld(key) == key # NoKey

NewKey(key) == key # NoKey /\ ~keyPressedOld

\* Mutant: the release is not noted.
RememberForEver(key) == keyPressedOld' = (keyPressedOld \/ key # NoKey)

Remember(key) == keyPressedOld' = (key # NoKey)

\* Parser::parseCmd over the KEYBOARD rows
parseCmd(key) == IF key \in DOMAIN Command THEN Command[key] ELSE NOTFOUND

\* The end of getKey and checkPressedKey
checkPressedKey(key) ==
  /\ Remember(key)
  /\ IF NewKey(key)
       THEN events' = Append(events, parseCmd(key)) /\ pad' = "given"
       ELSE /\ UNCHANGED events
            /\ pad' = IF pad = "settling" THEN "rest" ELSE pad

\* One column of getKey; the beLazy(80) of run is the wait before the first one.
Scan ==
  /\ IF column < Len(Columns)
       THEN /\ column' = column + 1
            /\ tempKey' = Read(column)
            /\ pad' = IF column = 1 /\ down = {} /\ pad # "rest" THEN "settling" ELSE pad
            /\ UNCHANGED <<keyPressedOld, events>>
       ELSE /\ column' = 1
            /\ tempKey' = NoKey
            /\ checkPressedKey(Read(column))
  /\ UNCHANGED down

----------------------------------------------------------------------------
\* A command is taken only if a finger has moved since the last one: neither a
\* held key nor a poll that saw the pad half changed repeats a command
\* (keyPressedOld, keyboard.cpp:51-58).
NoCommandByItself == [][events' # events /\ Len(events') > Len(events) => pad \in {"moved", "owed"}]_keyboardVars

\* A key that is pressed after the pad was at rest during a whole poll, and
\* stays alone, gives its command.  (Without the rest it may be lost: a key
\* pressed before the other one is up never sees the pad released.)
PressIsTaken == pad = "owed" ~> pad # "owed"
=============================================================================
