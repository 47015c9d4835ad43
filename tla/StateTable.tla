----------------------------- MODULE StateTable -----------------------------
(***************************************************************************)
(* The state table that the constructor of SystemManager fills             *)
(* (Statemachine/systemManager.cpp:28-85): five diagrams, each a set of    *)
(* rows.  No row names a timer event, so the diagrams' timers play no part.*)
(* The numbers of the transition actions are those of the code.            *)
(***************************************************************************)
EXTENDS Naturals

LocalM == 0
ChainM == 1
SwitchM == 2
BeltInMotionM == 3
PerformingM == 4
Diagrams == 0 .. 4

(* A row: in actState, on myEvent and when the condition holds, go to      *)
(* nextState and run the action.  The condition is "True", "LocalM"        *)
(* (localMode) or "ChainM" (chainMode).                                    *)
TableEntry(actState, nextState, myEvent, action, condition) ==
  [actState |-> actState, nextState |-> nextState, myEvent |-> myEvent,
   action |-> action, condition |-> condition]

LocalRows ==
  { TableEntry("SelectLocalMode", "Idle", "LocalModeS", 0, "True"),
    TableEntry("Idle", "Idle", "SetSpeedLocalP", 1, "LocalM"),
    TableEntry("Idle", "Idle", "SetSpeedLocalM", 2, "LocalM"),
    TableEntry("Idle", "BeltInMotion", "BeltInMotionL", 3, "LocalM"),
    TableEntry("Idle", "BeltInMotion", "BeltInMotionR", 4, "LocalM"),
    TableEntry("BeltInMotion", "Idle", "StopBelt", 5, "LocalM"),
    TableEntry("Idle", "SelectLocalMode", "ChainMode", 6, "LocalM") }

ChainRows ==
  { TableEntry("SelectChainMode", "Idle", "ChainModeS", 10, "True"),
    TableEntry("Idle", "SelectChainMode", "LocalMode", 11, "ChainM"),
    TableEntry("Idle", "HandingOverL", "request", 12, "ChainM"),
    TableEntry("HandingOverL", "BeltInMotion", "constf", 13, "ChainM"),
    TableEntry("BeltInMotion", "Waiting", "StopBelt", 14, "ChainM"),
    TableEntry("Waiting", "Waiting", "wait", 15, "ChainM"),
    TableEntry("Waiting", "Idle", "CancelOrder", 19, "ChainM"),
    TableEntry("Waiting", "HandingOverR", "ready", 16, "ChainM"),
    TableEntry("HandingOverR", "HandingOverR", "constf", 17, "ChainM"),
    TableEntry("HandingOverR", "Idle", "release", 18, "ChainM") }

SwitchRows ==
  { TableEntry("startSystem", "Init", "InitSystem", 20, "True"),
    TableEntry("Init", "Init", "Error", 21, "True"),
    TableEntry("Init", "ChainMode", "ChainMode", 22, "True"),
    TableEntry("Init", "LocalMode", "LocalMode", 23, "True"),
    TableEntry("LocalMode", "ChainMode", "ChainModeL", 24, "True"),
    TableEntry("ChainMode", "LocalMode", "LocalModeC", 25, "True") }

BeltRows ==
  { TableEntry("startBelt", "RampUp", "BeltInMotionL", 30, "True"),
    TableEntry("startBelt", "RampUp", "BeltInMotionR", 30, "True"),
    TableEntry("RampUp", "startBelt", "StopBelt", 31, "True"),
    TableEntry("RampUp", "ConstantVelocity", "rampupf", 32, "True"),
    TableEntry("ConstantVelocity", "startBelt", "StopBelt", 33, "True"),
    TableEntry("ConstantVelocity", "RampDown", "constf", 34, "True"),
    TableEntry("RampDown", "startBelt", "StopBelt", 35, "True"),
    TableEntry("RampDown", "startBelt", "rampdownf", 36, "True") }

(* Mutant: the diagram stays in Performing. *)
PerformingRowsStay ==
  { TableEntry("startPerforming", "Performing", "request", 40, "ChainM"),
    TableEntry("Performing", "Performing", "request", 41, "ChainM"),
    TableEntry("Performing", "Performing", "release", 42, "ChainM") }

PerformingRows ==
  { TableEntry("startPerforming", "Performing", "request", 40, "ChainM"),
    TableEntry("Performing", "Performing", "request", 41, "ChainM"),
    TableEntry("Performing", "startPerforming", "release", 42, "ChainM") }

tab == [d \in Diagrams |-> CASE d = LocalM -> LocalRows
                             [] d = ChainM -> ChainRows
                             [] d = SwitchM -> SwitchRows
                             [] d = BeltInMotionM -> BeltRows
                             [] d = PerformingM -> PerformingRows]

FirstState == [d \in Diagrams |-> CASE d = LocalM -> "SelectLocalMode"
                                    [] d = ChainM -> "SelectChainMode"
                                    [] d = SwitchM -> "startSystem"
                                    [] d = BeltInMotionM -> "startBelt"
                                    [] d = PerformingM -> "startPerforming"]

StatesOf(d) == {r.actState : r \in tab[d]} \cup {r.nextState : r \in tab[d]}

(* runToCompletion takes the first matching row of a diagram; at most one  *)
(* row of a diagram matches a state and an event, so the order of the rows *)
(* does not matter.                                                        *)
ASSUME TableDeterministic ==
  \A d \in Diagrams : \A r, s \in tab[d] :
    r.actState = s.actState /\ r.myEvent = s.myEvent => r = s
=============================================================================
