------------------------------- MODULE Panel -------------------------------
(***************************************************************************)
(* Keypad, display and the main task between them in Local-Mode: a command *)
(* from the keypad is an event of the state machine, whose action sets     *)
(* what the display shows; the drive ends the motion by itself.  The queue *)
(* and the other diagrams are in EventQueue and Belt.                      *)
(***************************************************************************)
EXTENDS Keyboard, Display

ASSUME PanelAssumption ==
  /\ {"status", "direction"} \subseteq Fields
  /\ {"Idle", "Belt in Motion"} \subseteq DOMAIN Shape["status"]
  /\ {"left", "right"} \subseteq DOMAIN Shape["direction"]

panelVars == <<keyboardVars, displayVars>>

Init == KeyboardInit /\ DisplayInit

InMotion == value["status"] = "Belt in Motion"

\* The main task takes an event: transitions 5 and 6 (left, right), 7 (stop);
\* every other event finds no row in this state.
HandleEvent ==
  /\ events # <<>>
  /\ events' = Tail(events)
  /\ LET cmd == Head(events)
     IN  SetAll(IF cmd \in {"LEFT", "RIGHT"} /\ ~InMotion
                  THEN [status |-> "Belt in Motion", direction |-> IF cmd = "LEFT" THEN "left" ELSE "right"]
                ELSE IF cmd = "STOP" /\ InMotion THEN [status |-> "Idle"]
                ELSE <<>>)
  /\ UNCHANGED <<down, column, tempKey, keyPressedOld, pad>>

\* The drive has finished its profile (FINISHED, the same transition as STOP).
Finish == InMotion /\ SetAll([status |-> "Idle"]) /\ UNCHANGED keyboardVars

Fingers == (\E k \in Keys : Finger(k)) /\ UNCHANGED displayVars

Poll == Scan /\ UNCHANGED displayVars

Redraw == DisplayStep /\ UNCHANGED keyboardVars

Next == Fingers \/ Poll \/ HandleEvent \/ Finish \/ Redraw

Spec ==
  /\ Init /\ [][Next]_panelVars
  /\ WF_column(Poll) /\ WF_<<row, at, index>>(Redraw) /\ WF_events(HandleEvent)
=============================================================================
