------------------------------- MODULE Motor --------------------------------
(***************************************************************************)
(* Motor::setZero, which looks for the output at which the motor stands    *)
(* while the belt is free to move, with the pulse counter it polls and the *)
(* encoder, whose interrupt each pulse raises as well, with the filter of  *)
(* the measured speed.  The output is counted from faktorStop, where the   *)
(* search begins; it goes upwards only, so that the motor must stand there *)
(* or further up, be it at one output only.                                *)
(***************************************************************************)
EXTENDS PulseCounter, Speedometer

CONSTANTS
  Zeros,        \* the lowest outputs at which a motor may stand
  Width,        \* of the range of outputs above it at which it stands too
  Toleranz,     \* pulses of a fast motor, and the step for it; 20
  Patience      \* polls without a pulse that end the search; 100

ASSUME MotorAssumption ==
  /\ Zeros \subseteq Int /\ Width \in Nat
  /\ \A z \in Zeros : z + Width >= 0
  /\ {Toleranz, Patience} \subseteq Nat \ {0}

VARIABLES
  zero,                 \* the lowest output at which this motor stands
  analogueValueatZero,
  counter,              \* polls since the last pulse
  found,                \* the search has ended
  idle                  \* polls since the motor last turned; see Turn

motorVars == <<zero, analogueValueatZero, counter, found, idle>>
searchVars == <<counterVars, encoderVars, speedVars, motorVars>>

SearchInit == /\ CounterInit /\ EncoderInit /\ SpeedometerInit
              /\ zero \in Zeros
              /\ analogueValueatZero = 0
              /\ counter = 0
              /\ found = FALSE
              /\ idle = 0

Standing == analogueValueatZero \in zero .. zero + Width
Distance == IF analogueValueatZero < zero THEN zero - analogueValueatZero
            ELSE analogueValueatZero - zero - Width

(* The first output, of those the search goes through, at which it stands. *)
FirstStanding == IF zero > 0 THEN zero ELSE 0

-----------------------------------------------------------------------------
(* No task runs while the interrupt routine does.                          *)

(* The motor turns by a pulse, not by more of them between two polls than  *)
(* its output is away from standstill; setZero leaves it switched off.     *)
Turn ==
  /\ ~found /\ ~Standing
  /\ pulses + lost < Distance
  /\ ~latching /\ "pulse" \notin pending
  /\ Pulse
  /\ pending' = pending \cup {"pulse"}
  /\ idle' = 0
  /\ UNCHANGED <<latching, isrCountOverflow, filterCount, reported, overwritten,
                 speedVars, zero, analogueValueatZero, counter, found>>

Call == ~found /\ ~latching /\ Latch /\ UNCHANGED <<encoderVars, speedVars, motorVars>>

(* Mutant: the polls without a pulse are not counted from the beginning.   *)
PollOn ==
  /\ ~found /\ called /\ ~latching
  /\ Write
  /\ Standing \/ idle < Patience
  /\ IF temp > 0
     THEN /\ analogueValueatZero' =
               analogueValueatZero + (IF temp > Toleranz THEN Toleranz ELSE 1)
          /\ counter' = counter + 1
          /\ UNCHANGED found
     ELSE /\ found' = (counter > Patience)
          /\ analogueValueatZero' = analogueValueatZero + (IF found' THEN 1 ELSE 0)
          /\ counter' = counter + 1
  /\ idle' = IF Standing THEN 0 ELSE idle + 1
  /\ UNCHANGED <<encoderVars, speedVars, zero>>

(* The rest of a turn of setZero's loop.  The pulses are unsigned, so that *)
(* the case of less than none never occurs, nor does minusPlus become true.*)
(* A motor that does not stand turns by a pulse in Patience polls.         *)
Poll ==
  /\ ~found /\ called /\ ~latching
  /\ Write
  /\ Standing \/ idle < Patience
  /\ IF temp > 0
     THEN /\ analogueValueatZero' =
               analogueValueatZero + (IF temp > Toleranz THEN Toleranz ELSE 1)
          /\ counter' = 1
          /\ UNCHANGED found
     ELSE /\ found' = (counter > Patience)
          /\ analogueValueatZero' = analogueValueatZero + (IF found' THEN 1 ELSE 0)
          /\ counter' = counter + 1
  /\ idle' = IF Standing THEN 0 ELSE idle + 1
  /\ UNCHANGED <<encoderVars, speedVars, zero>>

(* The first call, by the constructor. *)
FirstCall == ~called /\ ~latching /\ Write /\ UNCHANGED <<encoderVars, speedVars, motorVars>>

Encode == EncoderStep /\ UNCHANGED <<counterVars, speedVars, motorVars>>

Measure == ~latching /\ Filter /\ UNCHANGED <<counterVars, encoderVars, motorVars>>

Search == Turn \/ Call \/ FirstCall \/ Poll \/ Encode \/ Measure

-----------------------------------------------------------------------------
(* The search ends one above the first output at which the motor stands:   *)
(* it neither stops while the motor creeps nor steps over that output, and *)
(* what it adds at its end leaves the range of standstill only if the range*)
(* ends there (Motor.cpp:17-58).                                           *)
FoundAboveStandstill == found => analogueValueatZero = FirstStanding + 1

(* A belt that has come to rest is seen to be at rest, and stays so: no    *)
(* interval of the time it moved in hides it, although no pulse ends the   *)
(* last one (encoder.cpp:95, 56-59; read by Controller.cpp:251).           *)
StandstillShown == <>[](found => still)
=============================================================================
