------------------------------ MODULE Encoder ------------------------------
(***************************************************************************)
(* The interrupt service routine of the encoder.  Counter 1 measures the   *)
(* time from one pulse to the next; when it wraps it raises an interrupt   *)
(* too, and the routine counts the wraps.  Each interval is logged in      *)
(* counterArray, which the object's filterCount, filtervalue and tickSet   *)
(* follow in memory.  The routine runs long before the next pulse; only a  *)
(* wrap can come between two of its steps.                                 *)
(***************************************************************************)
EXTENDS Integers

CONSTANTS
  LogSize,      \* the entries of counterArray, 10
  WrapLimit     \* wraps after which the belt is taken to stand, 100

ASSUME EncoderAssumption == LogSize \in Nat \ {0} /\ WrapLimit \in Nat

VARIABLES
  pending,            \* the interrupts that wait: "pulse", "wrap"
  latching,           \* the routine has read the status and found a pulse
  isrCountOverflow,
  filterCount,
  reported,           \* wraps in counterOneValue, or Long: 100 * maxCounterValue
  overwritten         \* the fields behind counterArray that were written to

encoderVars == <<pending, latching, isrCountOverflow, filterCount, reported,
                 overwritten>>

Long == -1

EncoderInit ==
  /\ pending = {}
  /\ latching = FALSE
  /\ isrCountOverflow = 0
  /\ filterCount = 0
  /\ reported = Long
  /\ overwritten = {}

-----------------------------------------------------------------------------
(* Counter 1 wraps; it does so again only after it has been served, as a   *)
(* wrap takes 65 ms. *)
Wrap ==
  /\ "wrap" \notin pending
  /\ pending' = pending \cup {"wrap"}
  /\ UNCHANGED <<latching, isrCountOverflow, filterCount, reported, overwritten>>

(* Mutant: a wrap leaves the interval as it is. *)
InterruptKeeps ==
  /\ pending # {} /\ ~latching
  /\ reported' = reported
  /\ isrCountOverflow' =
       IF "wrap" \notin pending THEN isrCountOverflow
       ELSE IF isrCountOverflow + 1 > WrapLimit THEN 0 ELSE isrCountOverflow + 1
  /\ latching' = ("pulse" \in pending)
  /\ pending' = pending \ {"wrap"}
  /\ UNCHANGED <<filterCount, overwritten>>

(* An interrupt: the status is read, a wrap is counted. *)
Interrupt ==
  /\ pending # {} /\ ~latching
  /\ reported' = Long
  /\ isrCountOverflow' =
       IF "wrap" \notin pending THEN isrCountOverflow
       ELSE IF isrCountOverflow + 1 > WrapLimit THEN 0 ELSE isrCountOverflow + 1
  /\ latching' = ("pulse" \in pending)
  /\ pending' = pending \ {"wrap"}
  /\ UNCHANGED <<filterCount, overwritten>>

Field(i) == IF i = LogSize THEN {"filterCount"}
            ELSE IF i = LogSize + 1 THEN {"filtervalue"}
            ELSE IF i > LogSize + 1 THEN {"tickSet"} ELSE {}

(* The index after an entry was written at i.  Entry LogSize is filterCount*)
(* itself: the test may see the interval there, or what a register holds.  *)
(* Mutant: the index is reset one entry later still.                       *)
NextIndexLater(i) ==
  LET after(k) == IF k > LogSize + 1 THEN 0 ELSE k + 1
  IN  {after(i)} \cup IF i = LogSize THEN {after(k) : k \in 0 .. LogSize + 2} ELSE {}

NextIndex(i) ==
  LET after(k) == IF k > LogSize THEN 0 ELSE k + 1
  IN  {after(i)} \cup IF i = LogSize THEN {after(k) : k \in 0 .. LogSize + 1} ELSE {}

(* The counter is latched, the interval logged, the counter set anew. *)
LogPulse ==
  /\ latching
  /\ latching' = FALSE
  /\ reported' = isrCountOverflow
  /\ pending' = pending \ {"pulse"}
  /\ isrCountOverflow' = 0
  /\ overwritten' = overwritten \cup Field(filterCount)
  /\ filterCount' \in NextIndex(filterCount)

EncoderStep == Wrap \/ Interrupt \/ LogPulse

-----------------------------------------------------------------------------
(* The log runs two entries over its end, but never as far as the rate of  *)
(* the watchdog that drives the filter (encoder.cpp:127-132, encoder.h:46).*)
LogSparesWatchdog == "tickSet" \notin overwritten
=============================================================================
