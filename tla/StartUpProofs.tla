--------------------------- MODULE StartUpProofs ----------------------------
(***************************************************************************)
(* Proofs about StartUp and the modules it is made of: that every call of  *)
(* getEncoderPulsesZeroCorrected returns the pulses there were, for a      *)
(* counter of any width; that the log of the encoder spares the watchdog's *)
(* rate, for a log of any size; that the search for the standstill ends    *)
(* one above the first output at which the motor stands, for any motor;    *)
(* and that no task of the network runs before the belt has its own        *)
(* address, for any table of boards.                                       *)
(***************************************************************************)
EXTENDS StartUp, TLAPS

-----------------------------------------------------------------------------
(* The pulse counter (PulseCounter)                                        *)

CounterTypeOK ==
  /\ count \in 0 .. High
  /\ written \in {None, High, Low}
  /\ pulsCnt \in {0, 1}
  /\ calling \in BOOLEAN /\ called \in BOOLEAN
  /\ temp \in Int
  /\ pulses \in Nat /\ lost \in Nat /\ pulses + lost <= Half

(* The value written last, and the one that is written next. *)
Last == IF pulsCnt = 1 THEN High ELSE Low
Coming == IF pulsCnt = 1 THEN Low ELSE High

(* v would not be taken for a value that has been loaded, except for       *)
(* pulses that came while it was being written.                            *)
Distinct(v) ==
  \/ v = High /\ count < Half
  \/ v = Low /\ count >= Half
  \/ v - count + 1 \in 1 .. lost

(* Between two calls either the value written last waits for a pulse, or   *)
(* the counter has counted down from it.                                   *)
Between ==
  IF written = None
  THEN pulses >= 1 /\ count = Last - pulses + 1
  ELSE pulses = 0 /\ written = Last /\ Distinct(Last)

CounterInv ==
  /\ CounterTypeOK
  /\ calling => Distinct(Coming)
  /\ called /\ ~calling => Between

-----------------------------------------------------------------------------
(* A number below the modulus is its own remainder, and minus one leaves   *)
(* the largest.                                                            *)
LEMMA Remainder ==
  ASSUME NEW m \in Nat \ {0}
  PROVE  /\ \A x \in 0 .. m - 1 : x % m = x
         /\ (-1) % m = m - 1
  OBVIOUS

(* What a pulse makes of a counter that has nothing to load. *)
LEMMA CountsDown ==
  ASSUME NEW c \in 0 .. High
  PROVE  (c - 1) % (2 * Half) = IF c = 0 THEN High ELSE c - 1
  <1>1. 2 * Half \in Nat \ {0}
    BY HalfAssumption
  <1>2. c = 0 \/ c - 1 \in 0 .. 2 * Half - 1
    BY HalfAssumption DEF High
  <1> QED BY <1>1, <1>2, Remainder DEF High

(* Loaded tells the halves of the counter apart; a value that waits, and   *)
(* is distinct, is not taken for loaded unless pulses have come.           *)
LEMMA CallCounts ==
  ASSUME CounterInv, called, ~calling
  PROVE  /\ Loaded => Counted = Last - count + 1
         /\ (IF Loaded THEN Counted ELSE 0) \in pulses .. pulses + lost
  <1> DEFINE d == Last - count + 1
  <1>1. /\ Between /\ CounterTypeOK
        /\ Half \in Nat \ {0} /\ High = 2 * Half - 1 /\ Low = Half - 1 /\ None = -1
    BY HalfAssumption DEF CounterInv, High, Low, None
  <1>2. Loaded => d \in 1 .. Half
    BY <1>1 DEF Loaded, Last, CounterTypeOK
  <1>3. Loaded => d % (2 * Half) = d
    BY <1>1, <1>2, Remainder
  <1>4. Loaded => Counted = d
    <2>1. Last - (count - 1) = d
      BY <1>1 DEF CounterTypeOK, Last
    <2> QED BY <1>3, <2>1 DEF Counted, Last
  <1>5. CASE written = None
    <2>1. pulses \in 1 .. Half /\ count = Last - pulses + 1
      BY <1>1, <1>5 DEF Between, CounterTypeOK
    <2>2. Loaded
      BY <1>1, <2>1 DEF Loaded, Last
    <2>3. d = pulses
      BY <1>1, <2>1 DEF Last, CounterTypeOK
    <2> QED BY <1>1, <1>4, <2>2, <2>3 DEF CounterTypeOK
  <1>6. CASE written # None
    <2>1. pulses = 0 /\ Distinct(Last)
      BY <1>1, <1>6 DEF Between
    <2>2. Loaded => d \in 1 .. lost
      BY <1>1, <2>1 DEF Distinct, Loaded, Last, CounterTypeOK
    <2> QED BY <1>1, <1>4, <2>1, <2>2 DEF CounterTypeOK
  <1> QED BY <1>4, <1>5, <1>6

-----------------------------------------------------------------------------
(* The invariant holds at the beginning and is kept by every step.         *)
LEMMA CounterInvInit == CounterInit => CounterInv
  <1> SUFFICES ASSUME CounterInit
               PROVE  CounterInv
    OBVIOUS
  <1>1. calling \in BOOLEAN /\ called \in BOOLEAN /\ ~calling /\ ~called
    BY Zenon DEF CounterInit
  <1>2. /\ count \in 0 .. High /\ written \in {None, High, Low} /\ pulsCnt \in {0, 1}
        /\ temp \in Int /\ pulses \in Nat /\ lost \in Nat /\ pulses + lost <= Half
    BY HalfAssumption DEF CounterInit
  <1> QED BY <1>1, <1>2 DEF CounterInv, CounterTypeOK

LEMMA CounterInvStep == CounterInv /\ [CounterNext]_counterVars => CounterInv'
  <1> SUFFICES ASSUME CounterInv, [CounterNext]_counterVars
               PROVE  CounterInv'
    OBVIOUS
  <1>0. /\ CounterTypeOK
        /\ Half \in Nat \ {0} /\ High = 2 * Half - 1 /\ Low = Half - 1 /\ None = -1
    BY HalfAssumption DEF CounterInv, High, Low, None
  <1>1. CASE initHardware
    BY <1>0, <1>1 DEF initHardware, CounterInv, CounterTypeOK
  <1>2. CASE Pulse
    <2>1. count' = IF written # None THEN written ELSE IF count = 0 THEN High ELSE count - 1
      BY <1>0, <1>2, CountsDown DEF Pulse, CounterTypeOK
    <2>2. CounterTypeOK'
      BY <1>0, <1>2, <2>1 DEF Pulse, CounterTypeOK
    <2>3. calling' => Distinct(Coming)'
      <3>1. CASE calling
        <4>1. Distinct(Coming) /\ lost' = lost + 1 /\ pulsCnt' = pulsCnt
          BY <1>2, <3>1 DEF CounterInv, Pulse
        <4>2. lost \in Nat /\ lost < Half
          BY <1>0, <1>2 DEF Pulse, CounterTypeOK
        <4> QED BY <1>0, <2>1, <4>1, <4>2 DEF Distinct, Coming, CounterTypeOK
      <3>2. CASE ~calling
        BY <1>2, <3>2 DEF Pulse
      <3> QED BY <3>1, <3>2
    <2>4. called' /\ ~calling' => Between'
      <3> SUFFICES ASSUME called, ~calling
                   PROVE  Between'
        BY <1>2 DEF Pulse
      <3>1. /\ Between /\ written' = None /\ pulses' = pulses + 1 /\ pulsCnt' = pulsCnt
            /\ pulses \in Nat /\ pulses < Half
        BY <1>0, <1>2 DEF CounterInv, Pulse, CounterTypeOK
      <3> QED BY <1>0, <2>1, <3>1 DEF Between, Last, CounterTypeOK
    <2> QED BY <2>2, <2>3, <2>4 DEF CounterInv
  <1>3. CASE Latch
    <2>1. (IF Loaded THEN Counted ELSE 0) \in Int
      <3>1. (IF pulsCnt = 1 THEN High ELSE Low) - (count - 1) \in Int
        BY <1>0 DEF CounterTypeOK
      <3>2. Counted \in Int
        BY <1>0, <3>1 DEF Counted
      <3> QED BY <3>2
    <2>2. CounterTypeOK'
      BY <1>0, <1>3, <2>1 DEF Latch, CounterTypeOK
    <2>3. Distinct(Coming)'
      BY <1>0, <1>3 DEF Latch, Loaded, Distinct, Coming, CounterTypeOK
    <2> QED BY <1>3, <2>2, <2>3 DEF Latch, CounterInv
  <1>4. CASE Write
    <2>1. CounterTypeOK'
      <3>1. calling' \in BOOLEAN /\ called' \in BOOLEAN
        BY <1>4, Zenon DEF Write
      <3>2. /\ count' \in 0 .. High /\ written' \in {None, High, Low} /\ pulsCnt' \in {0, 1}
            /\ temp' \in Int /\ pulses' \in Nat /\ lost' \in Nat /\ pulses' + lost' <= Half
        BY <1>0, <1>4 DEF Write, CounterTypeOK
      <3> QED BY <3>1, <3>2 DEF CounterTypeOK
    <2>2. Distinct(Coming)
      BY <1>4 DEF Write, CounterInv
    <2>3. Last' = Coming /\ written' = Coming /\ Coming # None
      BY <1>0, <1>4 DEF Write, Last, Coming, CounterTypeOK
    <2>4. Distinct(Last)'
      BY <1>4, <2>2, <2>3 DEF Distinct, Write
    <2> QED BY <1>4, <2>1, <2>3, <2>4 DEF CounterInv, Between, Write, None
  <1>5. CASE UNCHANGED counterVars
    BY <1>5 DEF counterVars, CounterInv, CounterTypeOK, Distinct, Coming, Between, Last
  <1> QED BY <1>1, <1>2, <1>3, <1>4, <1>5 DEF CounterNext

(* A pulse counter of any width returns, with every call but the first,    *)
(* all pulses since the last write and none twice (hwFunc.c:205-257).      *)
THEOREM EveryPulseCounted == CounterSpec => PulsesCounted
  <1>1. CounterInv /\ [CounterNext]_counterVars
          => [called /\ ~calling /\ calling'
                => pulses <= temp' /\ temp' <= pulses + lost]_counterVars
    <2> SUFFICES ASSUME CounterInv, CounterNext, called, ~calling, calling'
                 PROVE  pulses <= temp' /\ temp' <= pulses + lost
      OBVIOUS
    <2>1. Latch
      BY DEF CounterNext, initHardware, Pulse, Write
    <2>2. temp' \in pulses .. pulses + lost
      BY <2>1, CallCounts DEF Latch
    <2>3. pulses \in Nat /\ lost \in Nat
      BY DEF CounterInv, CounterTypeOK
    <2> QED BY <2>2, <2>3
  <1> QED BY <1>1, CounterInvInit, CounterInvStep, PTL DEF CounterSpec, PulsesCounted

-----------------------------------------------------------------------------
(* The search for the standstill (Motor)                                   *)

(* The counter once it has been set up, exactly: what was written last     *)
(* waits and is not taken for loaded, or all pulses since then are in the  *)
(* counter; only what has been loaded since the latch is written again.    *)
Fresh(v) == IF v = High THEN count < Half ELSE count >= Half

Idling ==       \* between two calls
  IF called
  THEN IF written = None THEN pulses >= 1 /\ count = Last - pulses + 1
       ELSE /\ pulses = 0 /\ written = Last
            /\ Fresh(Last) \/ (lost >= 1 /\ count = Last - lost + 1)
  ELSE /\ pulsCnt = 0 /\ lost = 0
       /\ IF written = None THEN pulses >= 1 /\ count = High - pulses + 1
          ELSE pulses = 0 /\ written = High

NothingRead ==  \* within a call, nothing was loaded before the latch
  /\ pulses = 0
  /\ IF written = None THEN lost >= 1 /\ count = Coming - lost + 1
     ELSE lost = 0 /\ written = Coming /\ Fresh(Coming)

SomethingRead ==
  IF written = None THEN pulses + lost >= 1 /\ count = Last - (pulses + lost) + 1
  ELSE pulses = 0 /\ lost = 0 /\ written = Last /\ Fresh(Coming)

InCall ==
  IF called THEN temp \in Nat /\ IF temp = 0 THEN NothingRead ELSE SomethingRead
  ELSE NothingRead \/ SomethingRead

Exact == IF calling THEN InCall ELSE Idling

ExactCount ==
  IF made = 0 THEN /\ ~called /\ ~calling /\ pulsCnt = 0
                   /\ pulses = 0 /\ lost = 0 /\ written \in {None, High}
  ELSE Exact

(* What the next latch would return. *)
Due == IF written = None THEN pulses ELSE IF Fresh(Last) THEN 0 ELSE lost

(* The search: the output rises to the first one at which the motor        *)
(* stands.  There no pulse is on its way; below it there are never more    *)
(* than the output is away, and the polls without a pulse are counted from *)
(* the last one, unless one is on its way.                                 *)
AtRest ==
  /\ analogueValueatZero = FirstStanding
  /\ pulses = 0
  /\ IF calling THEN lost = 0 /\ (called => temp = 0) ELSE called => Due = 0

Creeping ==
  /\ 0 <= analogueValueatZero /\ analogueValueatZero < zero
  /\ pulses <= Distance
  /\ IF calling THEN pulses + lost <= Distance /\ (called => temp <= Distance)
     ELSE called => Due <= Distance
  /\ IF ~called THEN counter = 0
     ELSE IF ~calling THEN Due > 0 \/ counter <= idle
     ELSE temp > 0 \/ counter <= idle \/ (counter <= Patience /\ lost > 0)

MotorInv ==
  /\ zero \in Zeros /\ {analogueValueatZero, counter} \subseteq Int
  /\ idle \in 0 .. Patience /\ found \in BOOLEAN
  /\ IF found THEN analogueValueatZero = FirstStanding + 1 /\ ~calling ELSE AtRest \/ Creeping

LEMMA Halves ==
  /\ Half \in Nat \ {0} /\ High = 2 * Half - 1 /\ Low = Half - 1 /\ None = -1
  /\ High # Low /\ High # None /\ Low # None
  BY HalfAssumption DEF High, Low, None

LEMMA PulseExact ==
  ASSUME CounterTypeOK, Exact, Pulse
  PROVE  Exact'
  <1>0. /\ count \in 0 .. High /\ pulses \in Nat /\ lost \in Nat /\ pulses + lost < Half
        /\ pulsCnt \in {0, 1} /\ temp \in Int
    BY DEF CounterTypeOK, Pulse
  <1>1. /\ count' = IF written # None THEN written ELSE IF count = 0 THEN High ELSE count - 1
        /\ written' = None /\ UNCHANGED <<pulsCnt, calling, temp, called>>
    BY CountsDown DEF Pulse, CounterTypeOK
  <1>2. Last' = Last /\ Coming' = Coming
    BY <1>1 DEF Last, Coming
  <1>3. /\ Last \in {High, Low} /\ Coming \in {High, Low} /\ Last # Coming
    BY Halves DEF Last, Coming
  <1>4. CASE ~calling
    <2>1. Idling /\ pulses' = pulses + 1 /\ lost' = lost
      BY <1>4 DEF Exact, Pulse
    <2>2. Idling'
      BY <1>0, <1>1, <1>2, <1>3, <2>1, Halves DEF Idling
    <2> QED BY <1>1, <1>4, <2>2 DEF Exact
  <1>5. CASE calling
    <2>1. InCall /\ pulses' = pulses /\ lost' = lost + 1
      BY <1>5 DEF Exact, Pulse
    <2>2. NothingRead => NothingRead'
      BY <1>0, <1>1, <1>2, <1>3, <2>1, Halves DEF NothingRead
    <2>3. SomethingRead => SomethingRead'
      BY <1>0, <1>1, <1>2, <1>3, <2>1, Halves DEF SomethingRead
    <2>4. InCall'
      BY <1>1, <2>1, <2>2, <2>3 DEF InCall
    <2> QED BY <1>1, <1>5, <2>4 DEF Exact
  <1> QED BY <1>4, <1>5

(* A latch returns what is due.                                            *)
LEMMA LatchExact ==
  ASSUME CounterTypeOK, Exact, Latch
  PROVE  /\ Exact'
         /\ called => temp' = Due /\ Due \in Nat
  <1>0. /\ count \in 0 .. High /\ pulses \in Nat /\ lost \in Nat /\ pulses + lost <= Half
        /\ pulsCnt \in {0, 1} /\ temp \in Int
    BY DEF CounterTypeOK
  <1>1. /\ ~calling /\ Idling /\ calling' = TRUE
        /\ temp' = IF Loaded THEN Counted ELSE 0
        /\ pulsCnt' = IF Loaded THEN pulsCnt ELSE 1 - pulsCnt
        /\ lost' = 0 /\ UNCHANGED <<count, written, called, pulses>>
    BY DEF Latch, Exact
  <1>2. Loaded <=> ~Fresh(Last)
    BY <1>0, Halves DEF Loaded, Fresh, Last
  <1>3. IF Loaded THEN Coming' = Coming /\ Last' = Last ELSE Coming' = Last /\ Last' = Coming
    BY <1>0, <1>1 DEF Coming, Last
  <1>4. /\ Last \in {High, Low} /\ Coming \in {High, Low} /\ Last # Coming
    BY Halves DEF Last, Coming
  <1>5. Fresh(Coming) <=> ~Fresh(Last)
    BY <1>0, <1>4, Halves DEF Fresh
  <1>6. \A v : Fresh(v)' <=> Fresh(v)
    BY <1>1 DEF Fresh
  <1>7. CASE called
    <2>1. written = None => ~Fresh(Last)
      BY <1>0, <1>1, <1>4, <1>7, Halves DEF Idling, Fresh
    <2>2. Loaded => Last - count + 1 \in 1 .. Half /\ Last - count + 1 = Due
      BY <1>0, <1>1, <1>2, <1>4, <1>7, <2>1, Halves DEF Idling, Due, Fresh
    <2>3. Loaded => Counted = Due
      <3>1. ASSUME Loaded
            PROVE  (Last - count + 1) % (2 * Half) = Last - count + 1
        BY <2>2, <3>1, Halves, Remainder
      <3>2. Last - (count - 1) = Last - count + 1
        BY <1>0, <1>4, Halves
      <3> QED BY <2>2, <3>1, <3>2 DEF Counted, Last
    <2>4. ~Loaded => Due = 0
      BY <1>2, <2>1 DEF Due
    <2>5. temp' = Due /\ Due \in Nat
      BY <1>1, <2>2, <2>3, <2>4, Halves
    <2>6. CASE Loaded
      <3>1. temp' >= 1
        BY <2>2, <2>5, <2>6, Halves
      <3>2. SomethingRead'
        <4>1. Fresh(Coming)' /\ Last' = Last /\ lost' = 0 /\ written' = written
              /\ pulses' = pulses /\ count' = count
          BY <1>1, <1>2, <1>3, <1>5, <1>6, <2>6
        <4> QED BY <1>0, <1>1, <1>7, <4>1 DEF Idling, SomethingRead
      <3> QED BY <1>1, <1>7, <2>5, <3>1, <3>2 DEF Exact, InCall
    <2>7. CASE ~Loaded
      <3>1. NothingRead'
        <4>1. Fresh(Coming)' /\ Coming' = Last /\ written # None
          BY <1>1, <1>2, <1>3, <1>5, <1>6, <2>1, <2>7
        <4> QED BY <1>0, <1>1, <1>7, <4>1 DEF Idling, NothingRead
      <3>2. temp' = 0
        BY <1>1, <2>7
      <3> QED BY <1>1, <1>7, <2>5, <3>1, <3>2 DEF Exact, InCall
    <2> QED BY <2>5, <2>6, <2>7
  <1>8. CASE ~called
    <2>1. Last = Low /\ Coming = High
      BY <1>1, <1>8 DEF Idling, Last, Coming
    <2>2. CASE written = None
      <3>1. ~Loaded /\ pulses >= 1 /\ count = High - pulses + 1
        BY <1>0, <1>1, <1>8, <2>1, <2>2, Halves DEF Idling, Loaded
      <3>2. SomethingRead'
        BY <1>0, <1>1, <1>3, <2>1, <2>2, <3>1 DEF SomethingRead
      <3> QED BY <1>1, <1>8, <3>2 DEF Exact, InCall
    <2>3. CASE written # None
      <3>1. pulses = 0 /\ written = High
        BY <1>1, <1>8, <2>3 DEF Idling
      <3>2. CASE Loaded
        <4>1. Coming' = High /\ Fresh(High)'
          BY <1>2, <1>3, <1>5, <1>6, <2>1, <3>2
        <4>2. NothingRead'
          BY <1>1, <2>3, <3>1, <4>1 DEF NothingRead
        <4> QED BY <1>1, <1>8, <4>2 DEF Exact, InCall
      <3>3. CASE ~Loaded
        <4>1. Last' = High /\ Coming' = Low /\ Fresh(Low)'
          BY <1>2, <1>3, <1>6, <2>1, <3>3
        <4>2. SomethingRead'
          BY <1>1, <2>3, <3>1, <4>1 DEF SomethingRead
        <4> QED BY <1>1, <1>8, <4>2 DEF Exact, InCall
      <3> QED BY <3>2, <3>3
    <2> QED BY <1>8, <2>2, <2>3
  <1> QED BY <1>7, <1>8

(* After a call that has returned pulses none is due, after another one    *)
(* those that came while it was being written.                             *)
LEMMA WriteExact ==
  ASSUME CounterTypeOK, Exact, Write
  PROVE  /\ Exact' /\ called' /\ pulses' = 0 /\ lost' = lost
         /\ Due' \in {0, lost}
         /\ called => Due' = IF temp = 0 THEN lost ELSE 0
  <1>0. /\ count \in 0 .. High /\ pulses \in Nat /\ lost \in Nat /\ pulses + lost <= Half
        /\ pulsCnt \in {0, 1} /\ temp \in Int
    BY DEF CounterTypeOK
  <1>1. /\ calling /\ InCall /\ calling' = FALSE /\ called' = TRUE /\ pulses' = 0
        /\ pulsCnt' = 1 - pulsCnt /\ UNCHANGED <<count, temp, lost>>
        /\ written' = IF pulsCnt = 0 THEN High ELSE Low
    BY DEF Write, Exact
  <1>2. /\ written' = Coming /\ Last' = Coming /\ Coming \in {High, Low}
        /\ Last \in {High, Low} /\ Last # Coming /\ written' # None
    BY <1>0, <1>1, Halves DEF Coming, Last
  <1>3. Fresh(Last)' <=> Fresh(Coming)
    BY <1>1, <1>2 DEF Fresh
  <1>4. SomethingRead => Fresh(Coming)
    BY <1>0, <1>2, Halves DEF SomethingRead, Fresh
  <1>5. NothingRead /\ lost # 0 => ~Fresh(Coming) /\ count = Coming - lost + 1
    BY <1>0, <1>2, Halves DEF NothingRead, Fresh
  <1>6. NothingRead /\ lost = 0 => Fresh(Coming)
    BY DEF NothingRead
  <1>7. Due' = IF Fresh(Coming) THEN 0 ELSE lost
    BY <1>1, <1>2, <1>3 DEF Due
  <1>8. Idling'
    BY <1>0, <1>1, <1>2, <1>3, <1>4, <1>5, <1>6 DEF Idling, InCall
  <1> QED BY <1>0, <1>1, <1>4, <1>5, <1>6, <1>7, <1>8 DEF Exact, InCall

LEMMA MotorTypes ==
  ASSUME CounterTypeOK, MotorInv
  PROVE  /\ zero \in Int /\ analogueValueatZero \in Int /\ counter \in Int /\ idle \in Nat
         /\ idle <= Patience /\ Patience \in Nat
         /\ Toleranz \in Nat /\ Toleranz >= 1
         /\ pulses \in Nat /\ lost \in Nat /\ zero \in Zeros
         /\ FirstStanding \in Int /\ FirstStanding = IF zero > 0 THEN zero ELSE 0
         /\ analogueValueatZero = FirstStanding => Standing
         /\ Standing <=> zero <= analogueValueatZero /\ analogueValueatZero <= zero + Width
         /\ analogueValueatZero < zero => Distance = zero - analogueValueatZero
  BY MotorAssumption DEF CounterTypeOK, MotorInv, Standing, Distance, FirstStanding

(* No pulse comes where the motor stands; below, one that comes is counted *)
(* by this call or by the next one, or this one has counted some already.  *)
LEMMA TurnKeeps ==
  ASSUME CounterTypeOK, Exact, MotorInv, Turn
  PROVE  MotorInv'
  <1>0. /\ zero \in Int /\ analogueValueatZero \in Int /\ counter \in Int /\ idle \in Nat
        /\ idle <= Patience /\ Patience \in Nat
        /\ pulses \in Nat /\ lost \in Nat /\ zero \in Zeros
        /\ analogueValueatZero = FirstStanding => Standing
        /\ Standing <=> zero <= analogueValueatZero /\ analogueValueatZero <= zero + Width
        /\ analogueValueatZero < zero => Distance = zero - analogueValueatZero
    BY MotorTypes
  <1>1. /\ ~found /\ ~Standing /\ pulses + lost < Distance /\ Pulse /\ idle' = 0
        /\ UNCHANGED <<zero, analogueValueatZero, counter, found>>
    BY DEF Turn
  <1>2. ~found /\ Creeping
    BY <1>0, <1>1 DEF MotorInv, AtRest
  <1>3. /\ written' = None /\ UNCHANGED <<calling, temp, called>>
        /\ IF calling THEN lost' = lost + 1 /\ pulses' = pulses
                      ELSE pulses' = pulses + 1 /\ lost' = lost
    BY <1>1 DEF Pulse
  <1>4. Distance' = Distance /\ Due' = pulses' /\ Distance \in Int
    BY <1>0, <1>1, <1>2, <1>3 DEF Distance, Due, Creeping
  <1>5. Creeping'
    <2>1. 0 <= analogueValueatZero' /\ analogueValueatZero' < zero' /\ pulses' <= Distance'
      BY <1>0, <1>1, <1>2, <1>3, <1>4 DEF Creeping
    <2>2. CASE calling
      <3>1. pulses' + lost' <= Distance' /\ (called => temp' <= Distance') /\ lost' > 0
        BY <1>0, <1>1, <1>2, <1>3, <1>4, <2>2 DEF Creeping
      <3>2. called => temp' > 0 \/ counter' <= idle' \/ (counter' <= Patience /\ lost' > 0)
        BY <1>0, <1>1, <1>2, <1>3, <2>2, <3>1 DEF Creeping
      <3> QED BY <1>1, <1>2, <1>3, <2>1, <2>2, <3>1, <3>2 DEF Creeping
    <2>3. CASE ~calling
      <3>1. Due' <= Distance' /\ Due' > 0
        BY <1>0, <1>1, <1>3, <1>4, <2>3
      <3> QED BY <1>1, <1>2, <1>3, <2>1, <2>3, <3>1 DEF Creeping
    <2> QED BY <2>2, <2>3
  <1>6. zero' \in Zeros /\ {analogueValueatZero, counter}' \subseteq Int /\ idle' \in 0 .. Patience
    BY <1>0, <1>1
  <1> QED BY <1>1, <1>2, <1>5, <1>6 DEF MotorInv

LEMMA LatchKeeps ==
  ASSUME CounterTypeOK, Exact, MotorInv, Call
  PROVE  MotorInv'
  <1>0. /\ zero \in Int /\ analogueValueatZero \in Int /\ counter \in Int /\ idle \in Nat
        /\ pulses \in Nat /\ lost \in Nat
        /\ analogueValueatZero < zero => Distance = zero - analogueValueatZero
    BY MotorTypes
  <1>1. /\ ~found /\ Latch /\ ~calling /\ calling' = TRUE /\ lost' = 0
        /\ UNCHANGED <<zero, analogueValueatZero, counter, found, idle>>
        /\ UNCHANGED <<called, pulses>>
    BY DEF Call, Latch, motorVars
  <1>2. called => temp' = Due /\ Due \in Nat
    BY <1>1, LatchExact
  <1>3. AtRest => AtRest'
    BY <1>1, <1>2 DEF AtRest, FirstStanding
  <1>4. Creeping => Creeping'
    <2> SUFFICES ASSUME Creeping PROVE Creeping'
      OBVIOUS
    <2>1. Distance' = Distance /\ Distance \in Int
      BY <1>0, <1>1 DEF Distance, Creeping
    <2>2. pulses' + lost' <= Distance'
      BY <1>0, <1>1, <2>1 DEF Creeping
    <2>3. called => temp' <= Distance' /\ (temp' > 0 \/ counter' <= idle')
      BY <1>1, <1>2, <2>1 DEF Creeping
    <2> QED BY <1>1, <2>1, <2>2, <2>3 DEF Creeping
  <1>5. MotorInv /\ (AtRest \/ Creeping)
    BY <1>1 DEF MotorInv
  <1> QED BY <1>1, <1>3, <1>4, <1>5 DEF MotorInv

LEMMA FirstCallKeeps ==
  ASSUME CounterTypeOK, Exact, MotorInv, FirstCall
  PROVE  MotorInv'
  <1>0. /\ zero \in Int /\ analogueValueatZero \in Int /\ counter \in Int /\ idle \in Nat
        /\ pulses \in Nat /\ lost \in Nat
        /\ analogueValueatZero < zero => Distance = zero - analogueValueatZero
    BY MotorTypes
  <1>1. /\ ~called /\ Write /\ calling /\ calling' = FALSE
        /\ UNCHANGED <<zero, analogueValueatZero, counter, found, idle>>
    BY DEF FirstCall, Write, motorVars
  <1>2. called' /\ pulses' = 0 /\ lost' = lost /\ Due' \in {0, lost}
    BY <1>1, WriteExact
  <1>3. ~found /\ (AtRest \/ Creeping)
    BY <1>1 DEF MotorInv
  <1>4. AtRest => AtRest'
    BY <1>1, <1>2 DEF AtRest, FirstStanding
  <1>5. Creeping => Creeping'
    <2> SUFFICES ASSUME Creeping PROVE Creeping'
      OBVIOUS
    <2>1. Distance' = Distance /\ Distance \in Int /\ Distance > 0
      BY <1>0, <1>1 DEF Distance, Creeping
    <2>2. Due' <= Distance'
      BY <1>0, <1>1, <1>2, <2>1 DEF Creeping
    <2> QED BY <1>0, <1>1, <1>2, <2>1, <2>2 DEF Creeping
  <1> QED BY <1>1, <1>3, <1>4, <1>5 DEF MotorInv

(* A poll that has counted pulses takes the output no further than to the  *)
(* range; one that has not ends the search only where the motor stands.    *)
LEMMA PollKeeps ==
  ASSUME CounterTypeOK, Exact, MotorInv, Poll
  PROVE  MotorInv'
  <1> DEFINE o == analogueValueatZero
  <1>0. /\ zero \in Int /\ o \in Int /\ counter \in Int /\ idle \in Nat
        /\ idle <= Patience /\ Patience \in Nat
        /\ Toleranz \in Nat /\ Toleranz >= 1
        /\ pulses \in Nat /\ lost \in Nat /\ zero \in Zeros
        /\ FirstStanding \in Int /\ FirstStanding = IF zero > 0 THEN zero ELSE 0
        /\ o = FirstStanding => Standing
        /\ Standing <=> zero <= o /\ o <= zero + Width
        /\ o < zero => Distance = zero - o
    BY MotorTypes
  <1>1. /\ ~found /\ called /\ calling /\ calling' = FALSE /\ Write /\ zero' = zero
        /\ Standing \/ idle < Patience
        /\ idle' = IF Standing THEN 0 ELSE idle + 1
    BY DEF Poll, Write
  <1>2. /\ called' /\ pulses' = 0 /\ lost' = lost
        /\ Due' = IF temp = 0 THEN lost ELSE 0
    BY <1>1, WriteExact
  <1>3. temp \in Nat
    BY <1>1 DEF Exact, InCall
  <1>4. idle' \in 0 .. Patience
    BY <1>0, <1>1, MotorAssumption
  <1>a. temp = 0 => /\ found' <=> counter > Patience
                    /\ found' \in BOOLEAN /\ counter' = counter + 1
                    /\ o' = o + (IF found' THEN 1 ELSE 0)
    <2>1. ~(0 > 0)
      OBVIOUS
    <2>2. temp = 0 => /\ found' = (counter > Patience) /\ counter' = counter + 1
                      /\ o' = o + (IF found' THEN 1 ELSE 0)
      BY <2>1, Zenon DEF Poll
    <2>3. (counter > Patience) \in BOOLEAN
      OBVIOUS
    <2> QED BY <2>2, <2>3, Zenon
  <1>b. temp > 0 => /\ ~found' /\ found' \in BOOLEAN /\ counter' = 1
                    /\ o' = o + (IF temp > Toleranz THEN Toleranz ELSE 1)
    BY <1>1, Zenon DEF Poll, MotorInv
  <1>5. CASE AtRest
    <2>1. temp = 0 /\ lost = 0 /\ o = FirstStanding /\ Standing
      BY <1>0, <1>1, <1>5 DEF AtRest
    <2>2. CASE counter > Patience
      <3>1. o' = o + 1 /\ found' /\ found' \in BOOLEAN /\ counter' = counter + 1
        BY <1>a, <2>1, <2>2, Zenon
      <3>2. o' = FirstStanding' + 1
        BY <1>1, <2>1, <3>1 DEF FirstStanding
      <3> QED BY <1>0, <1>1, <1>4, <3>1, <3>2 DEF MotorInv
    <2>3. CASE ~(counter > Patience)
      <3>1. o' = o + 0 /\ ~found' /\ found' \in BOOLEAN /\ counter' = counter + 1
        BY <1>a, <2>1, <2>3, Zenon
      <3>2. AtRest'
        BY <1>0, <1>1, <1>2, <1>5, <2>1, <3>1 DEF AtRest, FirstStanding
      <3> QED BY <1>0, <1>1, <1>4, <3>1, <3>2 DEF MotorInv
    <2> QED BY <2>2, <2>3
  <1>6. CASE Creeping
    <2>1. ~Standing /\ idle' = idle + 1 /\ idle < Patience /\ temp <= zero - o /\ 0 <= o /\ o < zero
      BY <1>0, <1>1, <1>6 DEF Creeping
    <2>2. CASE temp > 0
      <3>1. PICK p \in Int : o' = p /\ o < p /\ p <= zero
        BY <1>0, <1>3, <1>b, <2>1, <2>2
      <3>2. counter' = 1 /\ ~found' /\ found' \in BOOLEAN /\ Due' = 0
        BY <1>2, <1>b, <2>2
      <3>3. p = zero => AtRest'
        BY <1>0, <1>1, <1>2, <2>1, <3>1, <3>2 DEF AtRest, FirstStanding
      <3>4. p < zero => Creeping'
        <4> SUFFICES ASSUME p < zero PROVE Creeping'
          OBVIOUS
        <4>1. Distance' = zero - p
          BY <1>0, <1>1, <3>1 DEF Distance
        <4> QED BY <1>0, <1>1, <1>2, <2>1, <3>1, <3>2, <4>1 DEF Creeping
      <3>5. zero' \in Zeros /\ {o, counter}' \subseteq Int
        BY <1>0, <1>1, <3>1, <3>2
      <3>6. AtRest' \/ Creeping'
        BY <1>0, <3>1, <3>3, <3>4
      <3> QED BY <1>4, <3>2, <3>5, <3>6 DEF MotorInv
    <2>3. CASE temp = 0
      <3>1. counter <= Patience /\ (counter <= idle \/ lost > 0)
        BY <1>0, <1>1, <1>6, <2>1, <2>3 DEF Creeping
      <3>a. ~(counter > Patience)
        BY <1>0, <3>1
      <3>2. ~found' /\ found' \in BOOLEAN /\ o' = o + 0 /\ counter' = counter + 1 /\ Due' = lost
        BY <1>2, <1>a, <2>3, <3>a, Zenon
      <3>3. Distance' = zero - o
        BY <1>0, <1>1, <2>1, <3>2 DEF Distance
      <3>4. lost <= zero - o
        BY <1>0, <1>1, <1>6, <2>1 DEF Creeping
      <3>5. Creeping'
        BY <1>0, <1>1, <1>2, <2>1, <3>1, <3>2, <3>3, <3>4 DEF Creeping
      <3> QED BY <1>0, <1>1, <1>4, <3>2, <3>5 DEF MotorInv
    <2> QED BY <1>3, <2>2, <2>3
  <1> QED BY <1>1, <1>5, <1>6 DEF MotorInv

-----------------------------------------------------------------------------
(* The start (StartUp)                                                     *)

(* Before a row of the table has matched, the rows compared do not; after  *)
(* the last one the address is the board's own.                            *)
Comparing ==
  row <= Rows => ip = 0 /\ \A r \in DOMAIN Table : r < row => Table[r] # board

StartInv ==
  /\ row \in 1 .. Rows + 1
  /\ made \in 0 .. 8
  /\ made > 0 => row > Rows
  /\ made < 8 => board \in Boards /\ Comparing /\ (row > Rows => AddressIsOwn)
  /\ made = 8 => AddressIsOwn

-----------------------------------------------------------------------------
LEMMA OrderOfParts == Len(Order) = 8
  BY DEF Order

(* The comparison byte by byte tells whether the row is the board's.       *)
LEMMA SameBytes ==
  ASSUME board \in Boards, NEW r \in DOMAIN Table, NEW same \in Identical(r)
  PROVE  same <=> Table[r] = board
  <1>1. board \in [1 .. Bytes -> Nat] /\ Table[r] \in [1 .. Bytes -> Nat]
    BY StartUpAssumption
  <1>2. same <=> \A j \in 1 .. Bytes : board[j] = Table[r][j]
    BY DEF Identical
  <1>3. (\A j \in 1 .. Bytes : board[j] = Table[r][j]) => Table[r] = board
    <2> DEFINE b == board
               t == Table[r]
    <2>1. b = [j \in 1 .. Bytes |-> b[j]] /\ t = [j \in 1 .. Bytes |-> t[j]]
      BY <1>1, Zenon
    <2> HIDE DEF b, t
    <2>2. (\A j \in 1 .. Bytes : b[j] = t[j]) => t = b
      BY <2>1, Zenon
    <2> QED BY <2>2 DEF b, t
  <1>4. same \in BOOLEAN
    BY DEF Identical
  <1> QED BY <1>2, <1>3, <1>4

-----------------------------------------------------------------------------
LEMMA StartInvInit == Init => StartInv
  BY StartUpAssumption DEF Init, StartInv, Comparing

LEMMA StartInvStep == StartInv /\ [Next]_vars => StartInv'
  <1> SUFFICES ASSUME StartInv, [Next]_vars
               PROVE  StartInv'
    OBVIOUS
  <1>0. Rows \in Nat \ {0} /\ DOMAIN Table = 1 .. Rows - 1
    BY StartUpAssumption
  <1>1. CASE CompareRow
    <2>1. /\ row \in 1 .. Rows /\ made = 0 /\ made' = 0
          /\ board \in Boards /\ board' = board /\ Comparing
      BY <1>0, <1>1 DEF CompareRow, StartInv
    <2>2. PICK same \in Identical(row) : /\ ip' = IF same THEN row ELSE ip
                                         /\ row' = IF same THEN Rows + 1 ELSE row + 1
      BY <1>1 DEF CompareRow
    <2>3. row \in DOMAIN Table => (same <=> Table[row] = board)
      BY <2>1, <2>2, SameBytes
    <2>4. same \in BOOLEAN
      BY <2>2 DEF Identical
    <2>5. ip = 0 /\ \A r \in DOMAIN Table : r < row => Table[r] # board
      BY <2>1 DEF Comparing
    <2>6. CASE same
      <3>1. ip' = row /\ row' = Rows + 1
        BY <2>2, <2>6
      <3>2. AddressIsOwn'
        <4> SUFFICES ASSUME NEW r \in DOMAIN Table
                     PROVE  Table[r] = board <=> row = r
          BY <2>1, <3>1 DEF AddressIsOwn
        <4>1. CASE row \in DOMAIN Table
          BY <2>3, <2>6, <4>1, StartUpAssumption
        <4>2. CASE row \notin DOMAIN Table
          BY <1>0, <2>1, <2>5, <4>2
        <4> QED BY <4>1, <4>2
      <3> QED BY <1>0, <2>1, <3>1, <3>2 DEF StartInv, Comparing
    <2>7. CASE ~same
      <3>1. ip' = 0 /\ row' = row + 1
        BY <2>2, <2>5, <2>7
      <3>2. \A r \in DOMAIN Table : r < row + 1 => Table[r] # board
        BY <1>0, <2>1, <2>3, <2>5, <2>7
      <3>3. row + 1 > Rows => AddressIsOwn'
        BY <1>0, <2>1, <3>1, <3>2 DEF AddressIsOwn
      <3> QED BY <1>0, <2>1, <3>1, <3>2, <3>3 DEF StartInv, Comparing
    <2> QED BY <2>4, <2>6, <2>7
  <1>2. CASE InitHardware
    BY <1>0, <1>2 DEF InitHardware, StartInv, Comparing, AddressIsOwn
  <1>3. CASE Make
    <2>1. /\ made \in 1 .. 7 /\ made' = made + 1 /\ row' = row /\ row > Rows
          /\ IF made' = 8 THEN board' = <<>> /\ ip' = 0 ELSE board' = board /\ ip' = ip
      BY <1>3, OrderOfParts DEF Make, StartInv
    <2>2. CASE made' = 8
      <3>1. \A r \in DOMAIN Table : Table[r] # <<>> /\ r # 0
        BY StartUpAssumption, <1>0
      <3>2. AddressIsOwn'
        BY <2>1, <2>2, <3>1 DEF AddressIsOwn
      <3> QED BY <2>1, <2>2, <3>2 DEF StartInv
    <2>3. CASE made' # 8
      BY <1>0, <2>1, <2>3 DEF StartInv, Comparing, AddressIsOwn
    <2> QED BY <2>2, <2>3
  <1>4. CASE UNCHANGED startVars
    BY <1>4 DEF startVars, StartInv, Comparing, AddressIsOwn
  <1> QED BY <1>1, <1>2, <1>3, <1>4 DEF Next, Searching, vars

(* What the invariant says of the address the network finds.               *)
LEMMA StartInvSuffices == StartInv => NetworkHasOwnAddress
  <1> SUFFICES ASSUME StartInv, Made # {}
               PROVE  AddressIsOwn
    BY DEF NetworkHasOwnAddress
  <1>1. made \in 1 .. 8
    BY DEF Made, StartInv
  <1> QED BY <1>1 DEF StartInv

(* With any table and on any board, whatever is compared behind the table: *)
(* the tasks of the network, which run before initSystem has ended, find   *)
(* the board's own address set (setMyIP.cpp:47-65,                         *)
(* systemManager.cpp:261-301).                                             *)
THEOREM OwnAddressBeforeNetwork == Spec => []NetworkHasOwnAddress
  BY StartInvInit, StartInvStep, StartInvSuffices, PTL DEF Spec

-----------------------------------------------------------------------------
(* All parts together                                                      *)

(* Whatever the parts of a belt do, the counter makes its own steps.       *)
LEMMA CounterSteps == [Next]_vars => [CounterNext]_counterVars
  <1>1. Search => [CounterNext]_counterVars
    BY DEF Search, Turn, Call, FirstCall, Poll, Encode, Measure, CounterNext
  <1>2. CompareRow \/ InitHardware \/ Make => [CounterNext]_counterVars
    BY DEF CompareRow, InitHardware, Make, searchVars, CounterNext
  <1>3. UNCHANGED vars => UNCHANGED counterVars
    BY DEF vars, searchVars
  <1> QED BY <1>1, <1>2, <1>3 DEF Next, Searching

(* At the start-up too every call but the first returns all pulses and     *)
(* none twice, while the search for the standstill polls the counter and   *)
(* the encoder's interrupts come in between (hwFunc.c:205-257).            *)
THEOREM SearchCountsEveryPulse == Spec => PulsesCounted
  <1>1. Spec => CounterSpec
    BY CounterSteps, PTL DEF Spec, Init, SearchInit, CounterSpec
  <1> QED BY <1>1, EveryPulseCounted

-----------------------------------------------------------------------------
(* The log runs over its end by two entries.                               *)
LogInv ==
  /\ filterCount \in 0 .. LogSize + 1
  /\ overwritten \subseteq {"filterCount", "filtervalue"}

LEMMA LogStep == LogInv /\ [Next]_vars => LogInv'
  <1> SUFFICES ASSUME LogInv, [Next]_vars
               PROVE  LogInv'
    OBVIOUS
  <1>1. CASE LogPulse
    <2>1. LogSize \in Nat \ {0}
      BY EncoderAssumption
    <2>2. NextIndex(filterCount) \subseteq 0 .. LogSize + 1
      BY <2>1 DEF LogInv, NextIndex
    <2>3. Field(filterCount) \subseteq {"filterCount", "filtervalue"}
      BY <2>1 DEF LogInv, Field
    <2> QED BY <1>1, <2>2, <2>3 DEF LogPulse, LogInv
  <1>2. CASE UNCHANGED <<filterCount, overwritten>>
    BY <1>2 DEF LogInv
  <1>3. Search => LogPulse \/ UNCHANGED <<filterCount, overwritten>>
    BY DEF Search, Turn, Call, FirstCall, Poll, Encode, Measure, EncoderStep, Wrap, Interrupt,
           encoderVars
  <1>4. CompareRow \/ InitHardware \/ Make \/ UNCHANGED vars => UNCHANGED <<filterCount, overwritten>>
    BY DEF CompareRow, InitHardware, Make, vars, searchVars, encoderVars
  <1> QED BY <1>1, <1>2, <1>3, <1>4 DEF Next, Searching

(* For a log of any size: the interrupt routine overwrites the index and   *)
(* the filtered value behind the log, but never the rate of the watchdog   *)
(* that drives the filter, although the test of the index reads a cell     *)
(* that has been overwritten itself (encoder.cpp:127-132, encoder.h:46).   *)
THEOREM LogStopsBeforeWatchdog == Spec => []LogSparesWatchdog
  <1>1. Init => LogInv
    BY EncoderAssumption DEF Init, SearchInit, EncoderInit, LogInv
  <1>2. LogInv => LogSparesWatchdog
    BY DEF LogInv, LogSparesWatchdog
  <1> QED BY <1>1, <1>2, LogStep, PTL DEF Spec

-----------------------------------------------------------------------------
(* Until the hardware has been initialised nothing polls the counter.      *)
SearchInv ==
  /\ made \in 0 .. 8
  /\ CounterInv /\ ExactCount /\ MotorInv
  /\ made < 8 => ~called /\ ~calling

LEMMA SearchInvInit == Init => SearchInv
  <1> SUFFICES ASSUME Init PROVE SearchInv
    OBVIOUS
  <1>1. CounterInit /\ made = 0 /\ zero \in Zeros /\ counter = 0 /\ idle = 0
        /\ found = FALSE /\ analogueValueatZero = 0
    BY DEF Init, SearchInit
  <1>2. CounterInv
    BY <1>1, CounterInvInit
  <1>3. calling = FALSE /\ called = FALSE /\ pulses = 0 /\ lost = 0 /\ pulsCnt = 0 /\ written = None
    BY <1>1 DEF CounterInit
  <1>4. ExactCount
    BY <1>1, <1>3 DEF ExactCount
  <1>5. zero \in Int /\ Patience \in Nat
    BY <1>1, MotorAssumption
  <1>6. zero > 0 => Creeping
    BY <1>1, <1>3, <1>5 DEF Creeping, Distance
  <1>7. ~(zero > 0) => AtRest
    BY <1>1, <1>3, <1>5 DEF AtRest, FirstStanding
  <1>8. MotorInv
    <2>1. found \in BOOLEAN /\ ~found /\ (AtRest \/ Creeping)
      BY <1>1, <1>6, <1>7, Zenon
    <2>2. zero \in Zeros /\ {analogueValueatZero, counter} \subseteq Int /\ idle \in 0 .. Patience
      BY <1>1, <1>5
    <2> QED BY <2>1, <2>2 DEF MotorInv
  <1> QED BY <1>1, <1>2, <1>3, <1>4, <1>8 DEF SearchInv

LEMMA SameMotor ==
  ASSUME MotorInv, UNCHANGED <<counterVars, motorVars>>
  PROVE  MotorInv'
  BY DEF MotorInv, AtRest, Creeping, FirstStanding, Distance, Due, Fresh, Last, counterVars, motorVars

LEMMA SameCount ==
  ASSUME Exact, UNCHANGED counterVars
  PROVE  Exact'
  BY DEF Exact, InCall, Idling, NothingRead, SomethingRead, Fresh, Last, Coming, counterVars

LEMMA SearchInvStep == SearchInv /\ [Next]_vars => SearchInv'
  <1> SUFFICES ASSUME SearchInv, [Next]_vars
               PROVE  SearchInv'
    OBVIOUS
  <1>1. CounterInv'
    BY CounterInvStep, CounterSteps DEF SearchInv
  <1>2. CounterTypeOK /\ MotorInv /\ made \in 0 .. 8 /\ Len(Order) = 8
    BY OrderOfParts DEF SearchInv, CounterInv
  <1>3. CASE Searching
    <2>1. made = 8 /\ made' = 8 /\ Search /\ Exact
      BY <1>2, <1>3 DEF Searching, startVars, SearchInv, ExactCount
    <2>2. CASE Encode \/ Measure
      <3>1. UNCHANGED <<counterVars, motorVars>>
        BY <2>2 DEF Encode, Measure
      <3> QED BY <1>1, <1>2, <2>1, <3>1, SameMotor, SameCount DEF SearchInv, ExactCount
    <2>3. CASE Turn \/ Call \/ FirstCall \/ Poll
      <3>1. Exact'
        BY <1>2, <2>1, <2>3, PulseExact, LatchExact, WriteExact DEF Turn, Call, FirstCall, Poll
      <3>2. MotorInv'
        BY <1>2, <2>1, <2>3, TurnKeeps, LatchKeeps, FirstCallKeeps, PollKeeps
      <3> QED BY <1>1, <2>1, <3>1, <3>2 DEF SearchInv, ExactCount
    <2> QED BY <2>1, <2>2, <2>3 DEF Search
  <1>4. CASE InitHardware
    <2>1. /\ made = 0 /\ made' = 1 /\ written' = High
          /\ UNCHANGED <<count, pulsCnt, calling, temp, called, pulses, lost, motorVars>>
      BY <1>4 DEF InitHardware, initHardware
    <2>2. ~called /\ ~calling /\ pulsCnt = 0 /\ pulses = 0 /\ lost = 0
      BY <2>1 DEF SearchInv, ExactCount
    <2>3. Exact'
      BY <2>1, <2>2, Halves DEF Exact, Idling
    <2>4. MotorInv'
      BY <1>2, <2>1, <2>2 DEF MotorInv, AtRest, Creeping, FirstStanding, Distance, motorVars
    <2> QED BY <1>1, <2>1, <2>2, <2>3, <2>4 DEF SearchInv, ExactCount
  <1>5. CASE CompareRow \/ Make \/ UNCHANGED vars
    <2>1. UNCHANGED <<counterVars, motorVars>> /\ (made' = made \/ (made >= 1 /\ made < 8 /\ made' = made + 1))
      BY <1>2, <1>5 DEF CompareRow, Make, vars, searchVars, startVars
    <2>2. MotorInv'
      BY <1>2, <2>1, SameMotor
    <2>3. called' = called /\ calling' = calling
      BY <2>1 DEF counterVars
    <2>4. ExactCount'
      <3>1. CASE made = 0
        BY <1>2, <2>1, <3>1 DEF SearchInv, ExactCount, counterVars
      <3>2. CASE made # 0
        BY <1>2, <2>1, <3>2, SameCount DEF SearchInv, ExactCount
      <3> QED BY <3>1, <3>2
    <2> QED BY <1>1, <1>2, <2>1, <2>2, <2>3, <2>4 DEF SearchInv
  <1> QED BY <1>3, <1>4, <1>5 DEF Next

(* For every motor, every step and every patience: the search for the      *)
(* standstill ends one above the first output at which the motor stands.   *)
(* It does not step over that output, since no call returns more pulses    *)
(* than the output is away from it, and does not end while the motor       *)
(* creeps, since no pulse that comes while the counter is written is lost  *)
(* to a search that has seen none (Motor.cpp:17-58).                       *)
THEOREM SearchEndsAboveStandstill == Spec => []FoundAboveStandstill
  <1>1. SearchInv => FoundAboveStandstill
    BY DEF SearchInv, MotorInv, FoundAboveStandstill
  <1> QED BY <1>1, SearchInvInit, SearchInvStep, PTL DEF Spec

(* Hence the motor stands at the output that was found if it stands at two *)
(* outputs, or more, that the search goes through; one that stands at the  *)
(* last output of its range only is left creeping (Motor.cpp:44-52).       *)
FoundStandsUnlessNarrow ==
  found => (Standing <=> FirstStanding < zero + Width)

THEOREM SearchEndsAtStandstill == Spec => []FoundStandsUnlessNarrow
  <1>1. SearchInv => FoundStandsUnlessNarrow
    <2> SUFFICES ASSUME SearchInv, found PROVE Standing <=> FirstStanding < zero + Width
      BY DEF FoundStandsUnlessNarrow
    <2>1. analogueValueatZero = FirstStanding + 1 /\ zero \in Int /\ Width \in Nat
      BY MotorAssumption DEF SearchInv, MotorInv
    <2> QED BY <2>1 DEF Standing, FirstStanding
  <1> QED BY <1>1, SearchInvInit, SearchInvStep, PTL DEF Spec
=============================================================================
