---------------------------- MODULE Speedometer -----------------------------
(***************************************************************************)
(* The task tEncoder, which filters the interval the interrupt routine     *)
(* has left in counterOneValue every 5 ms, and what the controller reads:  *)
(* whether the speed is below 1 rpm.  The filter is a low-pass that takes  *)
(* some intervals to cross that limit, up or down: only how far from it the*)
(* value is, in short intervals above it or long ones below it, is kept.   *)
(***************************************************************************)
EXTENDS Encoder

CONSTANTS
  StillWraps,   \* an interval of so many wraps is below 1 rpm; 15
  Lag,          \* short intervals after the longest one, 6
  Rise          \* bound on the long intervals after short ones

ASSUME SpeedometerAssumption == {StillWraps, Lag} \subseteq Nat \ {0} /\ Rise \in Nat

VARIABLES
  kalman,       \* the filter: how far the interval is above that of 1 rpm
  sampled,      \* a filtered value waits to be stored
  still         \* kalmanValue is a speed below 1 rpm

speedVars == <<kalman, sampled, still>>

(* The value begins at 0.                                                  *)
SpeedometerInit == kalman = -Rise /\ sampled = FALSE /\ still = FALSE

-----------------------------------------------------------------------------
Slow == reported = Long \/ reported >= StillWraps

(* getFilteredValue: a long interval takes the value up, above the limit at*)
(* once or not, and a short one takes it down; by how much depends on the  *)
(* gain and on the length of the interval.                                 *)
getFilteredValue ==
  kalman' \in IF Slow THEN {Lag} \cup (kalman + 1 .. Lag)
                      ELSE {-Rise} \cup (-Rise .. kalman - 1)

(* The watchdog has given sem; the interrupt may come before the value is  *)
(* stored under semKalman.                                                 *)
Sample ==
  /\ ~sampled
  /\ sampled' = TRUE
  /\ getFilteredValue
  /\ UNCHANGED still

Store ==
  /\ sampled
  /\ sampled' = FALSE
  /\ still' = (kalman > 0)
  /\ UNCHANGED kalman

Filter == Sample \/ Store
=============================================================================
