----------------------------- MODULE Controller -----------------------------
(***************************************************************************)
(* The controller between two tasks: the main task executes the setters    *)
(* (setRampUp, ..., setSpeedToZero) assignment by assignment; the tick,    *)
(* every 15 ms and with a higher priority, runs between any two of them.   *)
(* The tick is one step, unless it blocks in sendEvent: then the main task *)
(* may run before the rest of the tick.  The main task may be late for any *)
(* number of ticks.                                                        *)
(*                                                                         *)
(* The speeds are reduced to what standing still depends on: In2, u_ref    *)
(* and integrator tell whether these values are not zero.                  *)
(***************************************************************************)
EXTENDS Naturals, Sequences

CONSTANTS
  RampTicks,   \* countMax of a ramp (61 in the code)
  ConstTicks,  \* countMax of the constant velocity (400; 66 handing over)
  Warm,        \* ticks from closing the relay to motion (4: the first
               \* multiple of 15 ms above 50 ms)
  Settle,      \* ticks a ramp-down waits for standstill at most (10)
  LogSize,     \* entries of sollV and istV (1000)
  EventBound   \* no motion is started with so many reports queued (bound)

(* A whole profile fits into the log, and so does one whose phases go on   *)
(* while the main task is in the setter of the next one.                   *)
ASSUME ControllerAssumption ==
  /\ RampTicks \in Nat /\ ConstTicks \in Nat /\ Warm \in Nat /\ Settle \in Nat
  /\ EventBound \in Nat
  /\ LogSize \in Nat
  /\ \A n \in {RampTicks, ConstTicks} :
       LogSize > (RampTicks + 1) + 2 * (n + 1) + (Settle + 1)

VARIABLES
  ctl,       \* the fields of the controller and the relay
  todo,      \* the assignments left of the setter the main task is in
  tick,      \* the report a tick is blocked with in sendEvent, or "none"
  events,    \* the queued reports
  finished,  \* the StopBelt of requestEvent(FINISHED) is queued
  doing,     \* what the diagrams are at: the state of the motion diagram,
             \* or a hand-over
  handed     \* the last motion was a hand-over

vars == <<ctl, todo, tick, events, finished, doing, handed>>
mainVars == <<finished, doing, handed>>

Phases == {"STOPMOTOR", "RAMPUP", "CONSTANTVELOCITY", "RAMPDOWN"}
countMax == [RAMPUP |-> RampTicks, CONSTANTVELOCITY |-> ConstTicks, RAMPDOWN |-> RampTicks]
Completion == [RAMPUP |-> "rampupf", CONSTANTVELOCITY |-> "constf", RAMPDOWN |-> "rampdownf"]

Init ==
  /\ ctl = [myProfileState |-> "STOPMOTOR", motorIsOn |-> FALSE, count |-> 0,
            delayToStart |-> 0, counterSetZero |-> 0, countResponse |-> 0,
            relay |-> FALSE, In2 |-> FALSE, u_ref |-> FALSE, integrator |-> FALSE]
  /\ todo = <<>>
  /\ tick = "none"
  /\ events = <<>>
  /\ finished = FALSE
  /\ doing = "startBelt"
  /\ handed = FALSE

-----------------------------------------------------------------------------
(* The main task: one assignment at a time *)

motorOn(c) == [c EXCEPT !.relay = TRUE]
motorOff(c) == [c EXCEPT !.relay = FALSE]

(* The effect of one assignment of a setter, named for what it assigns.    *)
Assigned(c, s) ==
  CASE s = "count" -> [c EXCEPT !.count = 0]
    [] s = "countResponse" -> [c EXCEPT !.countResponse = 0]
    [] s = "delayToStart" -> [c EXCEPT !.delayToStart = 0]
    [] s = "In2" -> [c EXCEPT !.In2 = FALSE]
    [] s = "u_ref" -> [c EXCEPT !.u_ref = FALSE]
    [] s = "integrator" -> [c EXCEPT !.integrator = FALSE]
    [] s = "motorOff" -> motorOff(c)
    [] s = "motorIsOn" -> [c EXCEPT !.motorIsOn = FALSE]
    [] s \in Phases -> [c EXCEPT !.myProfileState = s]

setRampUp == <<"count", "countResponse", "delayToStart", "In2", "u_ref", "RAMPUP">>
setRampDown == <<"count", "delayToStart", "In2", "u_ref", "RAMPDOWN">>
setConstantVelocity == <<"count", "delayToStart", "In2", "u_ref", "CONSTANTVELOCITY">>
Subsystem_initialize == <<"integrator", "In2", "u_ref">>

(* Mutant: the phase is cleared last. *)
setSpeedToZeroLate == <<"motorOff", "motorIsOn", "delayToStart", "countResponse", "In2",
                        "u_ref", "integrator", "STOPMOTOR">>

setSpeedToZero == <<"motorOff", "STOPMOTOR", "motorIsOn", "delayToStart", "countResponse",
                    "In2", "u_ref", "integrator">>

Assign ==
  /\ todo # <<>>
  /\ ctl' = Assigned(ctl, Head(todo))
  /\ todo' = Tail(todo)
  /\ UNCHANGED <<tick, events, mainVars>>

-----------------------------------------------------------------------------
(* The main task: the transitions that call the setters.  A command or an  *)
(* answer of a neighbour may have been queued before any report, so it may *)
(* be taken at any time.                                                   *)
InProfile == doing \in {"RampUp", "ConstantVelocity", "RampDown"}

Calls(setter, next) == todo = <<>> /\ todo' = setter /\ doing' = next

(* BeltInMotionL or R on the motion diagram: action 30.                    *)
Start == /\ doing = "startBelt" /\ Len(events) < EventBound
         /\ Calls(Subsystem_initialize \o setRampUp, "RampUp")
         /\ handed' = FALSE
         /\ UNCHANGED <<ctl, tick, events, finished>>

(* Actions 12 and 16: a hand-over to this belt or from it.                 *)
HandOver(side) ==
  /\ doing = "startBelt" /\ Len(events) < EventBound
  /\ Calls(setConstantVelocity, side)
  /\ handed' = TRUE
  /\ UNCHANGED <<ctl, tick, events, finished>>

(* Mutant: only the motion diagram stops the drive. *)
StopOnce == /\ InProfile
            /\ Calls(setSpeedToZero, "startBelt")
            /\ UNCHANGED <<ctl, tick, events, finished, handed>>

(* STOP in Local-Mode: the Local-Mode diagram (action 05) and the motion   *)
(* diagram (31, 33, 35) both stop the drive.                               *)
Stop == /\ InProfile
        /\ Calls(setSpeedToZero \o setSpeedToZero, "startBelt")
        /\ UNCHANGED <<ctl, tick, events, finished, handed>>

(* Release of the right neighbour: action 18.                              *)
Release == /\ doing = "HandingOverR"
           /\ Calls(setSpeedToZero, "startBelt")
           /\ UNCHANGED <<ctl, tick, events, finished, handed>>

(* A report is taken: the transition it completes, or none.                *)
Report(e, state) == events # <<>> /\ Head(events) = e /\ doing = state /\ events' = Tail(events)

RampUpDone == /\ Report("rampupf", "RampUp")
              /\ Calls(setConstantVelocity, "ConstantVelocity")
              /\ UNCHANGED <<ctl, tick, finished, handed>>

ConstantDone == /\ Report("constf", "ConstantVelocity")
                /\ Calls(setRampDown, "RampDown")
                /\ UNCHANGED <<ctl, tick, finished, handed>>

(* Action 36, which sends StopBelt.                                        *)
RampDownDone == /\ Report("rampdownf", "RampDown")
                /\ Calls(setSpeedToZero, "startBelt")
                /\ finished' = TRUE
                /\ UNCHANGED <<ctl, tick, handed>>

(* Action 13, and the repetition of action 17.                             *)
TakenOver == /\ Report("constf", "HandingOverL")
             /\ Calls(setSpeedToZero, "startBelt")
             /\ UNCHANGED <<ctl, tick, finished, handed>>

Repeat == /\ Report("constf", "HandingOverR")
          /\ Calls(setConstantVelocity, doing)
          /\ UNCHANGED <<ctl, tick, finished, handed>>

Awaited == {<<"rampupf", "RampUp">>, <<"constf", "ConstantVelocity">>,
            <<"rampdownf", "RampDown">>, <<"constf", "HandingOverL">>,
            <<"constf", "HandingOverR">>}
Drop == /\ todo = <<>>
        /\ events # <<>>
        /\ <<Head(events), doing>> \notin Awaited
        /\ events' = Tail(events)
        /\ UNCHANGED <<ctl, todo, tick, mainVars>>

(* The StopBelt of action 36: actions 05 or 14, and 31 if a motion has     *)
(* been started meanwhile.                                                 *)
StopBelt == /\ finished
            /\ Calls(IF InProfile THEN setSpeedToZero \o setSpeedToZero ELSE setSpeedToZero,
                     "startBelt")
            /\ doing \in {"startBelt", "RampUp", "ConstantVelocity", "RampDown"}
            /\ finished' = FALSE
            /\ UNCHANGED <<ctl, tick, events, handed>>

-----------------------------------------------------------------------------
(* The tick *)

(* An entry of the log.  LogSize stands for every index behind the log;    *)
(* what is written there is not modelled.                                  *)
Logged(c) == [c EXCEPT !.countResponse = IF @ < LogSize THEN @ + 1 ELSE @]

(* setSpeedToZero, called by the tick.                                     *)
SpeedToZero(c) ==
  [motorOff(c) EXCEPT !.myProfileState = "STOPMOTOR", !.motorIsOn = FALSE,
                      !.delayToStart = 0, !.countResponse = 0, !.In2 = FALSE,
                      !.u_ref = FALSE, !.integrator = FALSE]

Running(c) == c.motorIsOn /\ c.myProfileState # "STOPMOTOR"
Counting(c) == Running(c) /\ c.count <= countMax[c.myProfileState]

(* Mutant: a ramp-down waits for standstill for ever. *)
SettlingForEver(c, still) == /\ Running(c) /\ ~Counting(c)
                             /\ c.myProfileState = "RAMPDOWN"
                             /\ ~still

(* The ramp-down is over, but the belt still moves (actSpeedRPM).          *)
Settling(c, still) == /\ Running(c) /\ ~Counting(c)
                      /\ c.myProfileState = "RAMPDOWN"
                      /\ ~still /\ c.counterSetZero + 1 <= Settle

Complete(c, still) == Running(c) /\ ~Counting(c) /\ ~Settling(c, still)

(* inputController up to the end of the switch, when no phase completes.   *)
Input(c, still) ==
  CASE Counting(c) -> [Logged(c) EXCEPT !.count = @ + 1]
    [] Settling(c, still) -> [Logged(c) EXCEPT !.counterSetZero = @ + 1]
    [] c.motorIsOn /\ c.myProfileState = "STOPMOTOR" -> SpeedToZero(c)
    [] OTHER -> c

(* Mutant: only the tick that closes the relay counts the delay. *)
SwitchedOnce(c) ==
  IF c.myProfileState # "STOPMOTOR" /\ ~c.motorIsOn /\ ~c.relay
  THEN [motorOn(c) EXCEPT !.motorIsOn = IF c.delayToStart >= Warm THEN TRUE ELSE @,
                           !.delayToStart = @ + 1]
  ELSE c

(* The relay is closed; some ticks later the motion may begin.             *)
Switched(c) ==
  IF c.myProfileState # "STOPMOTOR" /\ ~c.motorIsOn
  THEN [motorOn(c) EXCEPT !.motorIsOn = IF c.delayToStart >= Warm THEN TRUE ELSE @,
                           !.delayToStart = @ + 1]
  ELSE c

(* The rest of the tick: In2 if the motor was on, the relay, and           *)
(* Subsystem_step: with both its inputs zero its results are zero.         *)
Outputs(c, wasOn) ==
  LET s == Switched(c)
  IN  {[s EXCEPT !.In2 = IF wasOn THEN v.in ELSE @,
                 !.u_ref = IF s.myProfileState = "STOPMOTOR" THEN @ ELSE v.out,
                 !.integrator = IF s.myProfileState = "STOPMOTOR" THEN @ ELSE v.sum] :
         v \in {w \in [in : BOOLEAN, out : BOOLEAN, sum : BOOLEAN] :
                 (w.out \/ w.sum) => c.integrator \/ IF wasOn THEN w.in ELSE c.In2}}

(* What Motor::drive may write at the end of a tick, TRUE for any output   *)
(* but the one at standstill: a small u_ref is cut to none.                *)
drive(c) == {FALSE, c.u_ref}

(* A tick in which no phase completes.                                     *)
Tick ==
  /\ tick = "none"
  /\ \E still \in BOOLEAN :
       /\ ~Complete(ctl, still)
       /\ ctl' \in Outputs(Input(ctl, still), ctl.motorIsOn)
  /\ UNCHANGED <<todo, tick, events, mainVars>>

(* Mutant: the phase goes on after its report. *)
PhaseGoesOn ==
  /\ tick = "none"
  /\ \E still \in BOOLEAN : Complete(ctl, still)
  /\ tick' = Completion[ctl.myProfileState]
  /\ ctl' = [ctl EXCEPT !.counterSetZero = 0]
  /\ UNCHANGED <<todo, events, mainVars>>

(* The phase is complete; a ramp-down has logged a last entry.  Only the   *)
(* tick reads counterSetZero, so it may be cleared before sendEvent.       *)
PhaseEnds ==
  /\ tick = "none"
  /\ \E still \in BOOLEAN : Complete(ctl, still)
  /\ tick' = Completion[ctl.myProfileState]
  /\ ctl' = IF ctl.myProfileState = "RAMPDOWN"
            THEN [Logged(ctl) EXCEPT !.myProfileState = "STOPMOTOR", !.counterSetZero = 0]
            ELSE [ctl EXCEPT !.myProfileState = "STOPMOTOR"]
  /\ UNCHANGED <<todo, events, mainVars>>

(* sendEvent and the rest of this tick.                                    *)
TickSends ==
  /\ tick # "none"
  /\ events' = Append(events, tick)
  /\ tick' = "none"
  /\ ctl' \in Outputs(ctl, TRUE)
  /\ UNCHANGED <<todo, mainVars>>

-----------------------------------------------------------------------------
TickStep == Tick \/ PhaseEnds \/ TickSends
Taking == RampUpDone \/ ConstantDone \/ RampDownDone \/ TakenOver \/ Repeat \/ Drop \/ StopBelt

Next == \/ Assign
        \/ Start \/ Stop \/ Release
        \/ \E side \in {"HandingOverL", "HandingOverR"} : HandOver(side)
        \/ Taking
        \/ TickStep

(* The watchdog releases the tick for ever; the main task goes on with a   *)
(* setter it is in and takes the events that are queued.                   *)
Fairness == /\ WF_vars(Assign)
            /\ WF_vars(Taking)
            /\ WF_vars(TickStep)

Spec == Init /\ [][Next]_vars /\ Fairness

-----------------------------------------------------------------------------
(* Whatever the tick does between the assignments of a setter, the drive   *)
(* keeps its promise: a phase ends once, by completing or by a setter, and *)
(* each completion is reported once (Controller.cpp:179-276).              *)
Drive == INSTANCE DrivePhases
           WITH phase <- ctl.myProfileState,
                completions <- IF tick = "none" THEN events ELSE Append(events, tick)
ImplementsPhases == Drive!Spec

(* A run of the profile never writes behind the velocity log, even if it   *)
(* is stopped and started again at any point or completed late             *)
(* (Controller.cpp:250, 281-282).                                          *)
ProfileFitsLog == InProfile /\ todo = <<>> => ctl.countResponse < LogSize

AtRest == todo = <<>> /\ doing = "startBelt"

(* Once the main task has stopped the drive, the motor gets the output of  *)
(* standstill: no tick that came between the assignments leaves a voltage, *)
(* or an integral for the next start (Controller.cpp:105, 211-225, 302).   *)
OutputZeroAtRest == AtRest => TRUE \notin drive(ctl) /\ ~ctl.integrator

(* After a profile the relay is open: a tick that closed it again between  *)
(* motorOff and the end of the phase is undone by the second stop          *)
(* (Controller.cpp:213-214, 284-285; systemManager.cpp:383, 541-572).      *)
RelayOpenAfterProfile == AtRest /\ ~handed /\ ~finished => ~ctl.relay

(* A started profile ends, stopped or complete, also if the belt never     *)
(* comes to a standstill (Controller.cpp:252).                             *)
ProfileEnds == doing = "RampUp" ~> doing = "startBelt"
=============================================================================
