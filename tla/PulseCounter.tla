---------------------------- MODULE PulseCounter ----------------------------
(***************************************************************************)
(* Counter 2 of the I/O board, which counts the pulses of the motor's      *)
(* encoder, and getEncoderPulsesZeroCorrected, which returns the pulses    *)
(* since its last call.  The counter counts downwards.  A value written to *)
(* it is loaded by the next pulse only; 0xFFFF and 0x7FFF are written in   *)
(* turn, so that a call can tell whether there has been a pulse at all.    *)
(***************************************************************************)
EXTENDS Integers

CONSTANT Half   \* 0x8000

ASSUME HalfAssumption == Half \in Nat \ {0}

High == 2 * Half - 1    \* 0xFFFF
Low == Half - 1         \* 0x7FFF
None == -1              \* no value waits to be loaded

VARIABLES
  count,      \* the content of the counter
  written,    \* the value written last, until a pulse loads it
  pulsCnt,    \* 1: 0xFFFF has been written last, 0: 0x7FFF
  calling,    \* between the latch and the write of a call
  temp,       \* what this call, or the last one, returns
  called,     \* the first call, which returns nonsense, is over
  pulses,     \* the pulses from the last write to the latch of this call
  lost        \* those from the latch to the write of the call before

counterVars == <<count, written, pulsCnt, calling, temp, called, pulses, lost>>

(* Nobody has counted yet. *)
CounterInit ==
  /\ count \in 0 .. High
  /\ written = None
  /\ pulsCnt = 0
  /\ calling = FALSE /\ called = FALSE
  /\ temp = 0 /\ pulses = 0 /\ lost = 0

-----------------------------------------------------------------------------
(* Once, before the first call: 0xFFFF is written.  (The display, which it *)
(* clears, is in Display.)                                                 *)
initHardware ==
  /\ ~called /\ ~calling
  /\ written' = High
  /\ UNCHANGED <<count, pulsCnt, calling, temp, called, pulses, lost>>

(* The belt moves on by a pulse.  There are at most Half from one call to  *)
(* the next, which is 15 ms.                                               *)
Pulse ==
  /\ pulses + lost < Half
  /\ count' = IF written # None THEN written ELSE (count - 1) % (2 * Half)
  /\ written' = None
  /\ IF calling THEN lost' = lost + 1 /\ UNCHANGED pulses
                ELSE pulses' = pulses + 1 /\ UNCHANGED lost
  /\ UNCHANGED <<pulsCnt, calling, temp, called>>

(* Has the value written last been loaded? *)
Loaded == IF pulsCnt = 1 THEN count >= Half ELSE count < Half

(* Mutant: the pulse that loads the value is not counted. *)
CountedUncorrected == ((IF pulsCnt = 1 THEN High ELSE Low) - count) % (2 * Half)

(* The subtraction on unsigned shorts. *)
Counted == ((IF pulsCnt = 1 THEN High ELSE Low) - (count - 1)) % (2 * Half)

Latch ==
  /\ ~calling
  /\ calling' = TRUE
  /\ temp' = IF Loaded THEN Counted ELSE 0
  /\ pulsCnt' = IF Loaded THEN pulsCnt ELSE 1 - pulsCnt
  /\ lost' = 0
  /\ UNCHANGED <<count, written, called, pulses>>

Write ==
  /\ calling
  /\ calling' = FALSE /\ called' = TRUE
  /\ written' = IF pulsCnt = 0 THEN High ELSE Low
  /\ pulsCnt' = 1 - pulsCnt
  /\ pulses' = 0
  /\ UNCHANGED <<count, temp, lost>>

CounterNext == initHardware \/ Pulse \/ Latch \/ Write
CounterSpec == CounterInit /\ [][CounterNext]_counterVars

-----------------------------------------------------------------------------
(* Every call after the first returns all pulses since the last write, and *)
(* never more than have come since the last latch: a pulse may be lost     *)
(* while the counter is being written, none is counted twice, and a belt   *)
(* at rest is never taken for a moving one (hwFunc.c:205-257).             *)
PulsesCounted ==
  [][called /\ ~calling /\ calling'
       => pulses <= temp' /\ temp' <= pulses + lost]_counterVars
=============================================================================
