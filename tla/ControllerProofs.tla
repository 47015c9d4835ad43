-------------------------- MODULE ControllerProofs --------------------------
(***************************************************************************)
(* Proofs about Controller, for phases of any length and any number of     *)
(* reports: the output at rest, the relay after a profile, the velocity    *)
(* log, and the refinement of DrivePhases.                                 *)
(***************************************************************************)
EXTENDS Controller, SequenceTheorems, TLAPS

(* What the setters assign, and what a tick reports. *)
Assignments == Phases \cup {"count", "countResponse", "delayToStart", "In2", "u_ref",
                            "integrator", "motorOff", "motorIsOn"}
Reports == {"rampupf", "constf", "rampdownf"}

(* The longest setter a diagram can be in, by what the diagrams are at.    *)
Starting == Subsystem_initialize \o setRampUp
Stopping == setSpeedToZero \o setSpeedToZero
Setter(d) == CASE d = "RampUp" -> Starting
               [] d = "startBelt" -> Stopping
               [] d = "RampDown" -> setRampDown
               [] OTHER -> setConstantVelocity

(* What is left of a setter are its last assignments.                      *)
SetterLeft ==
  /\ todo \in Seq(Assignments)
  /\ Len(todo) <= Len(Setter(doing))
  /\ \A i \in 1 .. Len(todo) : todo[i] = Setter(doing)[Len(Setter(doing)) - Len(todo) + i]

Fields == [myProfileState : Phases, motorIsOn : BOOLEAN, count : Nat, delayToStart : Nat,
           counterSetZero : Nat, countResponse : Nat, relay : BOOLEAN, In2 : BOOLEAN,
           u_ref : BOOLEAN, integrator : BOOLEAN]

Doings == {"startBelt", "RampUp", "ConstantVelocity", "RampDown", "HandingOverL",
           "HandingOverR"}

ControllerTypeOK ==
  /\ ctl \in Fields
  /\ tick \in Reports \cup {"none"}
  /\ events \in Seq(Reports)
  /\ finished \in BOOLEAN /\ handed \in BOOLEAN
  /\ doing \in Doings
  /\ SetterLeft

(* The drive is stopped by the second assignment of setSpeedToZero; its    *)
(* output and the integral are cleared by the last ones.                   *)
Stopped ==
  doing = "startBelt" =>
    /\ Len(todo) <= 6 => ctl.myProfileState = "STOPMOTOR"
    /\ Len(todo) <= 1 => ~ctl.u_ref
    /\ Len(todo) = 0 => ~ctl.integrator

(* Once the drive is stopped the relay is not closed again, and the second *)
(* setSpeedToZero opens it.                                                *)
Relay ==
  /\ doing \in {"HandingOverL", "HandingOverR"} => handed
  /\ doing = "startBelt" /\ ~handed /\ ~finished =>
       /\ Len(todo) <= 14 => ctl.myProfileState = "STOPMOTOR"
       /\ Len(todo) < 8 => ~ctl.relay

Longest == IF RampTicks > ConstTicks THEN RampTicks + 1 ELSE ConstTicks + 1

(* The entries of the log, by the assignments that have set count to zero  *)
(* since the profile began; only a ramp-down waits for standstill.         *)
InRampUp ==
  /\ ctl.myProfileState \in {"STOPMOTOR", "RAMPUP"}
  /\ Len(todo) > 0 => ctl.myProfileState = "STOPMOTOR"
  /\ Len(todo) \in 1 .. 5 => ctl.count = 0
  /\ Len(todo) <= 4 => ctl.countResponse <= ctl.count /\ ctl.count <= RampTicks + 1

InConstant ==
  /\ ctl.myProfileState # "RAMPDOWN"
  /\ Len(todo) = 5 => /\ ctl.myProfileState \in {"STOPMOTOR", "RAMPUP"}
                      /\ ctl.countResponse <= ctl.count /\ ctl.count <= RampTicks + 1
  /\ Len(todo) <= 4 => ctl.countResponse <= RampTicks + 1 + ctl.count

InRampDown ==
  /\ Len(todo) > 0 => ctl.myProfileState # "RAMPDOWN"
  /\ Len(todo) = 5 => ctl.countResponse <= RampTicks + 1 + ctl.count
  /\ Len(todo) \in 1 .. 4 => ctl.countResponse <= RampTicks + 1 + Longest + ctl.count
  /\ Len(todo) = 0 => ctl.myProfileState \in {"STOPMOTOR", "RAMPDOWN"}
  /\ Len(todo) = 0 =>
       ctl.countResponse <= RampTicks + 1 + Longest +
         (IF ctl.myProfileState = "RAMPDOWN" THEN ctl.count + ctl.counterSetZero
                                             ELSE Longest + Settle + 1)

Entries ==
  /\ ctl.count <= Longest /\ ctl.counterSetZero <= Settle
  /\ doing = "RampUp" => InRampUp
  /\ doing = "ConstantVelocity" => InConstant
  /\ doing = "RampDown" => InRampDown

ControllerInv == ControllerTypeOK /\ Stopped /\ Relay /\ Entries

(* What a tick that completes no phase does to the fields.                 *)
TickEffect(c, d) ==
  /\ d \in Fields
  /\ d.myProfileState = c.myProfileState
  /\ c.myProfileState = "STOPMOTOR" =>
       /\ d.relay => c.relay
       /\ d.u_ref => c.u_ref
       /\ d.integrator => c.integrator
       /\ d.count = c.count /\ d.counterSetZero = c.counterSetZero
       /\ d.countResponse <= c.countResponse
  /\ c.myProfileState # "STOPMOTOR" =>
       \/ /\ d.count = c.count /\ d.counterSetZero = c.counterSetZero
          /\ d.countResponse = c.countResponse
       \/ /\ c.count <= countMax[c.myProfileState] /\ d.count = c.count + 1
          /\ d.counterSetZero = c.counterSetZero
          /\ d.countResponse <= c.countResponse + 1
       \/ /\ c.myProfileState = "RAMPDOWN"
          /\ d.counterSetZero = c.counterSetZero + 1 /\ d.counterSetZero <= Settle
          /\ d.count = c.count
          /\ d.countResponse <= c.countResponse + 1

-----------------------------------------------------------------------------
LEMMA OutputsKeep ==
  ASSUME NEW c \in Fields, NEW wasOn \in BOOLEAN, NEW d \in Outputs(c, wasOn)
  PROVE  /\ d \in Fields
         /\ d.myProfileState = c.myProfileState
         /\ d.count = c.count /\ d.counterSetZero = c.counterSetZero
         /\ d.countResponse = c.countResponse
         /\ c.myProfileState = "STOPMOTOR" =>
              d.relay = c.relay /\ d.u_ref = c.u_ref /\ d.integrator = c.integrator
  <1> DEFINE s == Switched(c)
  <1>1. /\ s \in Fields
        /\ s.myProfileState = c.myProfileState
        /\ s.count = c.count /\ s.counterSetZero = c.counterSetZero
        /\ s.countResponse = c.countResponse
        /\ c.myProfileState = "STOPMOTOR" => s = c
    <2> DEFINE r == motorOn(c)
    <2>1. /\ r \in Fields /\ r.myProfileState = c.myProfileState
          /\ r.count = c.count /\ r.counterSetZero = c.counterSetZero
          /\ r.countResponse = c.countResponse
      BY DEF motorOn, Fields
    <2>2. s = IF c.myProfileState # "STOPMOTOR" /\ ~c.motorIsOn
              THEN [r EXCEPT !.motorIsOn = IF c.delayToStart >= Warm THEN TRUE ELSE @,
                             !.delayToStart = @ + 1]
              ELSE c
      BY DEF Switched
    <2> HIDE DEF r, s
    <2>3. \A m \in BOOLEAN, n \in Nat :
            LET t == [r EXCEPT !.motorIsOn = m, !.delayToStart = n]
            IN  /\ t \in Fields /\ t.myProfileState = r.myProfileState
                /\ t.count = r.count /\ t.counterSetZero = r.counterSetZero
                /\ t.countResponse = r.countResponse
      BY <2>1 DEF Fields
    <2>4. r.motorIsOn \in BOOLEAN /\ r.delayToStart + 1 \in Nat
      BY <2>1 DEF Fields
    <2>5. (IF c.delayToStart >= Warm THEN TRUE ELSE r.motorIsOn) \in BOOLEAN
      BY <2>4
    <2> QED BY <2>1, <2>2, <2>3, <2>4, <2>5
  <1>2. PICK v \in [in : BOOLEAN, out : BOOLEAN, sum : BOOLEAN] :
          d = [s EXCEPT !.In2 = IF wasOn THEN v.in ELSE @,
                        !.u_ref = IF s.myProfileState = "STOPMOTOR" THEN @ ELSE v.out,
                        !.integrator = IF s.myProfileState = "STOPMOTOR" THEN @ ELSE v.sum]
    BY DEF Outputs
  <1> HIDE DEF s
  <1>3. v.in \in BOOLEAN /\ v.out \in BOOLEAN /\ v.sum \in BOOLEAN
    OBVIOUS
  <1> QED BY <1>1, <1>2, <1>3 DEF Fields

LEMMA LoggedKeeps ==
  ASSUME NEW c \in Fields
  PROVE  LET l == Logged(c)
         IN  /\ l \in Fields /\ l.myProfileState = c.myProfileState
             /\ l.count = c.count /\ l.counterSetZero = c.counterSetZero
             /\ l.countResponse <= c.countResponse + 1
  <1>1. \A n \in Nat : LET l == [c EXCEPT !.countResponse = n]
                       IN  /\ l \in Fields /\ l.myProfileState = c.myProfileState
                           /\ l.count = c.count /\ l.counterSetZero = c.counterSetZero
                           /\ l.countResponse = n
    BY DEF Fields
  <1>2. c.countResponse \in Nat
    BY DEF Fields
  <1> QED BY <1>1, <1>2, ControllerAssumption DEF Logged

LEMMA InputEffect ==
  ASSUME NEW c \in Fields, NEW still \in BOOLEAN, ~Complete(c, still)
  PROVE  TickEffect(c, Input(c, still))
  <1> DEFINE l == Logged(c)
  <1>1. /\ l \in Fields /\ l.myProfileState = c.myProfileState
        /\ l.count = c.count /\ l.counterSetZero = c.counterSetZero
        /\ l.countResponse <= c.countResponse + 1
    BY LoggedKeeps
  <1>2. c.count \in Nat /\ c.counterSetZero \in Nat /\ c.countResponse \in Nat
    BY DEF Fields
  <1>3. CASE Counting(c)
    <2>1. Input(c, still) = [l EXCEPT !.count = @ + 1]
      BY <1>3 DEF Input, Counting, Running, Settling
    <2>2. c.myProfileState # "STOPMOTOR" /\ c.count <= countMax[c.myProfileState]
      BY <1>3 DEF Counting, Running
    <2> HIDE DEF l
    <2>3. LET d == [l EXCEPT !.count = @ + 1]
          IN  /\ d \in Fields /\ d.myProfileState = l.myProfileState
              /\ d.count = l.count + 1 /\ d.counterSetZero = l.counterSetZero
              /\ d.countResponse = l.countResponse
      BY <1>1 DEF Fields
    <2> QED BY <1>1, <2>1, <2>2, <2>3 DEF TickEffect
  <1>4. CASE Settling(c, still)
    <2>1. Input(c, still) = [l EXCEPT !.counterSetZero = @ + 1]
      BY <1>4 DEF Input, Counting, Running, Settling
    <2>2. c.myProfileState = "RAMPDOWN" /\ c.counterSetZero + 1 <= Settle
      BY <1>4 DEF Settling
    <2> HIDE DEF l
    <2>3. LET d == [l EXCEPT !.counterSetZero = @ + 1]
          IN  /\ d \in Fields /\ d.myProfileState = l.myProfileState
              /\ d.count = l.count /\ d.counterSetZero = l.counterSetZero + 1
              /\ d.countResponse = l.countResponse
      BY <1>1 DEF Fields
    <2> QED BY <1>1, <2>1, <2>2, <2>3 DEF TickEffect
  <1>5. CASE c.motorIsOn /\ c.myProfileState = "STOPMOTOR"
    <2>1. Input(c, still) = SpeedToZero(c)
      BY <1>5 DEF Input, Counting, Running, Settling
    <2> DEFINE r == motorOff(c)
               q == [r EXCEPT !.myProfileState = "STOPMOTOR", !.motorIsOn = FALSE,
                              !.delayToStart = 0]
               p == [q EXCEPT !.countResponse = 0, !.In2 = FALSE]
    <2>2. /\ r \in Fields /\ r.relay = FALSE /\ r.count = c.count
          /\ r.counterSetZero = c.counterSetZero
      BY DEF motorOff, Fields
    <2>3. SpeedToZero(c) = [p EXCEPT !.u_ref = FALSE, !.integrator = FALSE]
      BY DEF SpeedToZero
    <2> HIDE DEF r
    <2>4. /\ q \in Fields /\ q.myProfileState = "STOPMOTOR" /\ q.relay = FALSE
          /\ q.count = r.count /\ q.counterSetZero = r.counterSetZero
      BY <2>2 DEF Fields, Phases
    <2> HIDE DEF q
    <2>5. /\ p \in Fields /\ p.myProfileState = "STOPMOTOR" /\ p.relay = FALSE
          /\ p.count = q.count /\ p.counterSetZero = q.counterSetZero
          /\ p.countResponse = 0
      BY <2>4 DEF Fields
    <2> HIDE DEF p
    <2>6. LET d == SpeedToZero(c)
          IN  /\ d \in Fields /\ d.myProfileState = "STOPMOTOR"
              /\ d.relay = FALSE /\ d.u_ref = FALSE /\ d.integrator = FALSE
              /\ d.count = p.count /\ d.counterSetZero = p.counterSetZero
              /\ d.countResponse = 0
      BY <2>3, <2>5 DEF Fields
    <2> QED BY <1>2, <1>5, <2>1, <2>2, <2>4, <2>5, <2>6 DEF TickEffect
  <1>6. CASE /\ ~Counting(c) /\ ~Settling(c, still)
             /\ ~(c.motorIsOn /\ c.myProfileState = "STOPMOTOR")
    <2>1. Input(c, still) = c
      BY <1>6 DEF Input
    <2> QED BY <1>2, <2>1 DEF TickEffect
  <1> QED BY <1>3, <1>4, <1>5, <1>6

(* A tick that completes no phase, and the rest of one that did.           *)
LEMMA TickKeeps ==
  ASSUME ctl \in Fields, Tick \/ TickSends
  PROVE  TickEffect(ctl, ctl')
  <1>1. CASE Tick
    <2>1. PICK still \in BOOLEAN :
            ~Complete(ctl, still) /\ ctl' \in Outputs(Input(ctl, still), ctl.motorIsOn)
      BY <1>1 DEF Tick
    <2> DEFINE i == Input(ctl, still)
    <2>2. TickEffect(ctl, i)
      BY <2>1, InputEffect
    <2>3. i \in Fields /\ ctl.motorIsOn \in BOOLEAN
      BY <2>2 DEF TickEffect, Fields
    <2> HIDE DEF i
    <2>4. /\ ctl' \in Fields /\ ctl'.myProfileState = i.myProfileState
          /\ ctl'.count = i.count /\ ctl'.counterSetZero = i.counterSetZero
          /\ ctl'.countResponse = i.countResponse
          /\ i.myProfileState = "STOPMOTOR" =>
               ctl'.relay = i.relay /\ ctl'.u_ref = i.u_ref /\ ctl'.integrator = i.integrator
      BY <2>1, <2>3, OutputsKeep DEF i
    <2> QED BY <2>2, <2>4 DEF TickEffect
  <1>2. CASE TickSends
    <2>1. ctl' \in Outputs(ctl, TRUE)
      BY <1>2 DEF TickSends
    <2>2. /\ ctl' \in Fields /\ ctl'.myProfileState = ctl.myProfileState
          /\ ctl'.count = ctl.count /\ ctl'.counterSetZero = ctl.counterSetZero
          /\ ctl'.countResponse = ctl.countResponse
          /\ ctl.myProfileState = "STOPMOTOR" =>
               ctl'.relay = ctl.relay /\ ctl'.u_ref = ctl.u_ref /\ ctl'.integrator = ctl.integrator
      BY <2>1, OutputsKeep
    <2>3. ctl.countResponse \in Nat
      BY DEF Fields
    <2> QED BY <2>2, <2>3 DEF TickEffect
  <1> QED BY <1>1, <1>2

-----------------------------------------------------------------------------
(* The setters, assignment by assignment.                                  *)
LEMMA TheSetters ==
  /\ Len(Starting) = 9 /\ Starting[1] = "integrator" /\ Starting[2] = "In2"
  /\ Starting[3] = "u_ref" /\ Starting[4] = "count" /\ Starting[5] = "countResponse"
  /\ Starting[6] = "delayToStart" /\ Starting[7] = "In2" /\ Starting[8] = "u_ref"
  /\ Starting[9] = "RAMPUP"
  /\ Len(Stopping) = 16
  /\ \A i \in 1 .. 8 : Stopping[i] = setSpeedToZero[i] /\ Stopping[8 + i] = setSpeedToZero[i]
  <1>1. Len(Subsystem_initialize) = 3 /\ Len(setRampUp) = 6 /\ Len(setSpeedToZero) = 8
    BY DEF Subsystem_initialize, setRampUp, setSpeedToZero
  <1>2. Subsystem_initialize \in Seq(Assignments)
    BY DEF Subsystem_initialize, Assignments, Phases
  <1>3. setRampUp \in Seq(Assignments)
    BY DEF setRampUp, Assignments, Phases
  <1>4. setSpeedToZero \in Seq(Assignments)
    BY DEF setSpeedToZero, Assignments, Phases
  <1>5. /\ Len(Starting) = 9 /\ \A i \in 1 .. 3 : Starting[i] = Subsystem_initialize[i]
        /\ \A i \in 4 .. 9 : Starting[i] = setRampUp[i - 3]
    <2>1. /\ Len(Starting) = Len(Subsystem_initialize) + Len(setRampUp)
          /\ \A i \in 1 .. Len(Subsystem_initialize) + Len(setRampUp) :
               Starting[i] = IF i <= Len(Subsystem_initialize) THEN Subsystem_initialize[i]
                             ELSE setRampUp[i - Len(Subsystem_initialize)]
      BY <1>2, <1>3, ConcatProperties, Zenon DEF Starting
    <2> QED BY <1>1, <2>1
  <1>6. /\ Len(Stopping) = 16
        /\ \A i \in 1 .. 8 : Stopping[i] = setSpeedToZero[i]
        /\ \A i \in 9 .. 16 : Stopping[i] = setSpeedToZero[i - 8]
    <2>1. /\ Len(Stopping) = Len(setSpeedToZero) + Len(setSpeedToZero)
          /\ \A i \in 1 .. Len(setSpeedToZero) + Len(setSpeedToZero) :
               Stopping[i] = IF i <= Len(setSpeedToZero) THEN setSpeedToZero[i]
                             ELSE setSpeedToZero[i - Len(setSpeedToZero)]
      BY <1>4, ConcatProperties, Zenon DEF Stopping
    <2> QED BY <1>1, <2>1
  <1>7. /\ Starting[1] = "integrator" /\ Starting[2] = "In2" /\ Starting[3] = "u_ref"
    BY <1>5 DEF Subsystem_initialize
  <1>8. /\ Starting[4] = "count" /\ Starting[5] = "countResponse"
        /\ Starting[6] = "delayToStart" /\ Starting[7] = "In2" /\ Starting[8] = "u_ref"
        /\ Starting[9] = "RAMPUP"
    BY <1>5 DEF setRampUp
  <1> QED BY <1>5, <1>6, <1>7, <1>8

LEMMA AssignedEffect ==
  ASSUME NEW c \in Fields, NEW s \in Assignments
  PROVE  LET d == Assigned(c, s)
         IN  /\ d \in Fields
             /\ d.myProfileState = IF s \in Phases THEN s ELSE c.myProfileState
             /\ d.count = IF s = "count" THEN 0 ELSE c.count
             /\ d.countResponse = IF s = "countResponse" THEN 0 ELSE c.countResponse
             /\ d.counterSetZero = c.counterSetZero
             /\ d.relay = IF s = "motorOff" THEN FALSE ELSE c.relay
             /\ d.u_ref = IF s = "u_ref" THEN FALSE ELSE c.u_ref
             /\ d.integrator = IF s = "integrator" THEN FALSE ELSE c.integrator
  <1>1. CASE s \in Phases
    <2>1. Assigned(c, s) = [c EXCEPT !.myProfileState = s]
      BY <1>1 DEF Assigned, Phases
    <2> QED BY <1>1, <2>1 DEF Fields, Phases
  <1>2. CASE s = "count"
    BY <1>2 DEF Assigned, Phases, Fields
  <1>3. CASE s = "countResponse"
    BY <1>3 DEF Assigned, Phases, Fields
  <1>4. CASE s = "delayToStart"
    BY <1>4 DEF Assigned, Phases, Fields
  <1>5. CASE s = "In2"
    BY <1>5 DEF Assigned, Phases, Fields
  <1>6. CASE s = "u_ref"
    BY <1>6 DEF Assigned, Phases, Fields
  <1>7. CASE s = "integrator"
    BY <1>7 DEF Assigned, Phases, Fields
  <1>8. CASE s = "motorOff"
    BY <1>8 DEF Assigned, Phases, Fields, motorOff
  <1>9. CASE s = "motorIsOn"
    BY <1>9 DEF Assigned, Phases, Fields
  <1> QED BY <1>1, <1>2, <1>3, <1>4, <1>5, <1>6, <1>7, <1>8, <1>9 DEF Assignments

(* What an assignment takes from the setter, and what it leaves.           *)
LEMMA HeadOfSetter ==
  ASSUME SetterLeft, todo # <<>>, todo' = Tail(todo), doing' = doing
  PROVE  /\ Len(todo) \in 1 .. Len(Setter(doing))
         /\ Head(todo) = Setter(doing)[Len(Setter(doing)) - Len(todo) + 1]
         /\ Len(todo') = Len(todo) - 1
         /\ SetterLeft'
  <1>1. Len(todo) \in Nat \ {0} /\ Len(todo) <= Len(Setter(doing))
    BY DEF SetterLeft
  <1>2. Len(Setter(doing)) \in Nat
    BY TheSetters DEF Setter, setConstantVelocity, setRampDown
  <1>3. /\ Len(todo') = Len(todo) - 1 /\ todo' \in Seq(Assignments)
        /\ \A i \in 1 .. Len(todo') : todo'[i] = todo[i + 1]
    BY DEF SetterLeft
  <1>4. Head(todo) = todo[1]
    BY DEF SetterLeft
  <1> HIDE DEF Setter
  <1>5. SetterLeft'
    <2> SUFFICES ASSUME NEW i \in 1 .. Len(todo')
                 PROVE  todo'[i] = Setter(doing)[Len(Setter(doing)) - Len(todo') + i]
      BY <1>1, <1>2, <1>3 DEF SetterLeft
    <2>1. todo'[i] = todo[i + 1] /\ i + 1 \in 1 .. Len(todo)
      BY <1>1, <1>3
    <2>2. todo[i + 1] = Setter(doing)[Len(Setter(doing)) - Len(todo) + (i + 1)]
      BY <2>1 DEF SetterLeft
    <2>3. Len(Setter(doing)) - Len(todo) + (i + 1) = Len(Setter(doing)) - Len(todo') + i
      BY <1>1, <1>2, <1>3
    <2> QED BY <2>1, <2>2, <2>3
  <1> QED BY <1>1, <1>2, <1>3, <1>4, <1>5 DEF SetterLeft

(* A transition's call of a setter.                                        *)
LEMMA NewSetter ==
  ASSUME NEW next \in Doings, doing' = next,
         todo' = Setter(next) \/ (next = "startBelt" /\ todo' = setSpeedToZero)
  PROVE  /\ SetterLeft'
         /\ Len(todo') = CASE next = "RampUp" -> 9
                           [] next = "startBelt" -> IF todo' = setSpeedToZero THEN 8 ELSE 16
                           [] OTHER -> 5
  <1>1. Starting \in Seq(Assignments) /\ Stopping \in Seq(Assignments)
    <2>1. /\ Subsystem_initialize \in Seq(Assignments) /\ setRampUp \in Seq(Assignments)
          /\ setSpeedToZero \in Seq(Assignments)
      BY DEF Subsystem_initialize, setRampUp, setSpeedToZero, Assignments, Phases
    <2> QED BY <2>1, ConcatProperties, Zenon DEF Starting, Stopping
  <1>2. /\ setSpeedToZero \in Seq(Assignments) /\ Len(setSpeedToZero) = 8
        /\ setRampDown \in Seq(Assignments) /\ Len(setRampDown) = 5
        /\ setConstantVelocity \in Seq(Assignments) /\ Len(setConstantVelocity) = 5
    BY DEF setSpeedToZero, setRampDown, setConstantVelocity, Assignments, Phases
  <1>3. /\ Len(Starting) = 9 /\ Len(Stopping) = 16
        /\ \A i \in 1 .. 8 : Stopping[8 + i] = setSpeedToZero[i]
    BY TheSetters
  <1>4. CASE todo' = Setter(next)
    <2>1. Setter(next) \in Seq(Assignments) /\ Len(Setter(next)) \in Nat
      BY <1>1, <1>2, <1>3 DEF Setter
    <2>2. SetterLeft'
      BY <1>4, <2>1 DEF SetterLeft
    <2>3. setSpeedToZero # Stopping
      <3>1. Len(setSpeedToZero) # Len(Stopping)
        BY <1>2, <1>3
      <3> QED BY <3>1, Zenon
    <2>4. Len(Setter(next)) = CASE next = "RampUp" -> 9 [] next = "startBelt" -> 16
                                [] OTHER -> 5
      BY <1>2, <1>3 DEF Setter, Doings
    <2> QED BY <1>4, <2>2, <2>3, <2>4 DEF Setter
  <1>5. CASE next = "startBelt" /\ todo' = setSpeedToZero
    <2>1. Setter(doing') = Stopping
      BY <1>5 DEF Setter
    <2>2. \A i \in 1 .. 8 : todo'[i] = Stopping[(16 - 8) + i]
      BY <1>3, <1>5
    <2>3. SetterLeft'
      <3>1. todo' \in Seq(Assignments) /\ Len(todo') = 8 /\ Len(Setter(doing')) = 16
        BY <1>2, <1>3, <1>5, <2>1
      <3>2. \A i \in 1 .. Len(todo') :
              todo'[i] = Setter(doing')[Len(Setter(doing')) - Len(todo') + i]
        <4> SUFFICES ASSUME NEW i \in 1 .. 8
                     PROVE  todo'[i] = Setter(doing')[Len(Setter(doing')) - Len(todo') + i]
          BY <3>1
        <4>1. Len(Setter(doing')) - Len(todo') + i = (16 - 8) + i
          BY <3>1
        <4> QED BY <2>1, <2>2, <4>1
      <3> QED BY <3>1, <3>2 DEF SetterLeft
    <2> QED BY <1>2, <1>5, <2>3
  <1> QED BY <1>4, <1>5

-----------------------------------------------------------------------------
LEMMA ControllerInvInit == Init => ControllerInv
  <1> SUFFICES ASSUME Init
               PROVE  ControllerInv
    OBVIOUS
  <1>1. ctl \in Fields
    BY DEF Init, Fields, Phases
  <1>2. SetterLeft
    <2>1. todo = <<>> /\ Len(todo) = 0 /\ todo \in Seq(Assignments)
      BY DEF Init
    <2>2. Setter(doing) = Stopping
      BY DEF Init, Setter
    <2> QED BY <2>1, <2>2, TheSetters DEF SetterLeft
  <1>3. ControllerTypeOK
    <2>1. finished \in BOOLEAN /\ handed \in BOOLEAN
      BY Zenon DEF Init
    <2>2. tick \in Reports \cup {"none"} /\ events \in Seq(Reports) /\ doing \in Doings
      BY DEF Init, Doings
    <2> QED BY <1>1, <1>2, <2>1, <2>2 DEF ControllerTypeOK
  <1>4. Stopped /\ Relay
    BY DEF Init, Stopped, Relay
  <1>5. Entries
    BY ControllerAssumption DEF Init, Entries, Longest
  <1> QED BY <1>3, <1>4, <1>5 DEF ControllerInv

-----------------------------------------------------------------------------
LEMMA AssignKeeps ==
  ASSUME ControllerInv, Assign
  PROVE  ControllerInv'
  <1> DEFINE n == Len(todo)
             s == Head(todo)
  <1>1. /\ ctl \in Fields /\ ctl' = Assigned(ctl, s)
        /\ todo # <<>> /\ todo \in Seq(Assignments) /\ todo' = Tail(todo)
        /\ doing \in Doings /\ doing' = doing
        /\ finished' = finished /\ handed' = handed /\ tick' = tick /\ events' = events
    BY DEF ControllerInv, ControllerTypeOK, SetterLeft, Assign, mainVars
  <1>2. /\ n \in 1 .. Len(Setter(doing)) /\ s = Setter(doing)[Len(Setter(doing)) - n + 1]
        /\ Len(todo') = n - 1 /\ SetterLeft'
    BY <1>1, HeadOfSetter DEF ControllerInv, ControllerTypeOK
  <1>3. s \in Assignments
    BY <1>1
  <1>4. /\ ctl' \in Fields
        /\ ctl'.myProfileState = IF s \in Phases THEN s ELSE ctl.myProfileState
        /\ ctl'.count = IF s = "count" THEN 0 ELSE ctl.count
        /\ ctl'.countResponse = IF s = "countResponse" THEN 0 ELSE ctl.countResponse
        /\ ctl'.counterSetZero = ctl.counterSetZero
        /\ ctl'.relay = IF s = "motorOff" THEN FALSE ELSE ctl.relay
        /\ ctl'.u_ref = IF s = "u_ref" THEN FALSE ELSE ctl.u_ref
        /\ ctl'.integrator = IF s = "integrator" THEN FALSE ELSE ctl.integrator
    BY <1>1, <1>3, AssignedEffect
  <1>5. ctl.count \in Nat /\ ctl.countResponse \in Nat /\ ctl.counterSetZero \in Nat
    BY <1>1 DEF Fields
  <1>6. n \in Nat \ {0} /\ Len(todo) = n
    BY <1>2
  <1>7. ControllerTypeOK'
    BY <1>1, <1>2, <1>4 DEF ControllerInv, ControllerTypeOK
  <1> HIDE DEF n, s
  <1>8. CASE doing = "startBelt"
    <2>1. n \in 1 .. 16 /\ s = Stopping[17 - n]
      <3>1. Setter(doing) = Stopping
        BY <1>8 DEF Setter
      <3>2. 16 - n + 1 = 17 - n
        BY <1>6
      <3> QED BY <1>2, <3>1, <3>2, TheSetters
    <2>2. s = setSpeedToZero[IF n <= 8 THEN 9 - n ELSE 17 - n]
      <3>1. CASE n <= 8
        <4>1. 17 - n = 8 + (9 - n) /\ 9 - n \in 1 .. 8
          BY <2>1, <3>1
        <4> QED BY <2>1, <3>1, <4>1, TheSetters
      <3>2. CASE n > 8
        <4>1. 17 - n \in 1 .. 8
          BY <2>1, <3>2
        <4> QED BY <2>1, <3>2, <4>1, TheSetters
      <3> QED BY <2>1, <3>1, <3>2
    <2>3. /\ n = 15 \/ n = 7 => s = "STOPMOTOR"
          /\ n # 15 /\ n # 7 => s \notin Phases
          /\ n = 8 => s = "motorOff"
          /\ n = 2 => s = "u_ref"
          /\ n = 1 => s = "integrator"
      BY <2>1, <2>2 DEF setSpeedToZero, Phases
    <2>4. Stopped /\ Relay
      BY DEF ControllerInv
    <2>5. Stopped'
      <3>1. n - 1 <= 6 => ctl'.myProfileState = "STOPMOTOR"
        BY <1>4, <1>6, <1>8, <2>1, <2>3, <2>4 DEF Stopped, Phases
      <3>2. n - 1 <= 1 => ~ctl'.u_ref
        BY <1>4, <1>6, <1>8, <2>1, <2>3, <2>4 DEF Stopped
      <3>3. n - 1 = 0 => ~ctl'.integrator
        BY <1>4, <1>6, <1>8, <2>1, <2>3, <2>4 DEF Stopped
      <3> QED BY <1>1, <1>2, <3>1, <3>2, <3>3 DEF Stopped
    <2>6. Relay'
      <3> SUFFICES ASSUME ~handed, ~finished
                   PROVE  /\ n - 1 <= 14 => ctl'.myProfileState = "STOPMOTOR"
                          /\ n - 1 < 8 => ~ctl'.relay
        BY <1>1, <1>2, <1>8 DEF Relay
      <3>1. n - 1 <= 14 => ctl'.myProfileState = "STOPMOTOR"
        BY <1>4, <1>6, <1>8, <2>1, <2>3, <2>4 DEF Relay, Phases
      <3>2. n - 1 < 8 => ~ctl'.relay
        BY <1>4, <1>6, <1>8, <2>1, <2>3, <2>4 DEF Relay
      <3> QED BY <3>1, <3>2
    <2>7. Entries'
      BY <1>1, <1>4, <1>5, <1>8, ControllerAssumption DEF ControllerInv, Entries, Longest
    <2> QED BY <1>7, <2>5, <2>6, <2>7 DEF ControllerInv
  <1>9. CASE doing # "startBelt"
    <2>1. Stopped'
      BY <1>1, <1>9 DEF Stopped
    <2>2. Relay'
      BY <1>1, <1>9 DEF ControllerInv, Relay
    <2>3. ctl'.count <= Longest /\ ctl'.counterSetZero <= Settle
      BY <1>4, <1>5, ControllerAssumption DEF ControllerInv, Entries, Longest
    <2>4. CASE doing = "RampUp"
      <3>1. n \in 1 .. 9 /\ s = Starting[10 - n]
        <4>1. Setter(doing) = Starting
          BY <2>4 DEF Setter
        <4>2. 9 - n + 1 = 10 - n
          BY <1>6
        <4> QED BY <1>2, <4>1, <4>2, TheSetters
      <3>2. /\ n = 1 => s = "RAMPUP"
            /\ n # 1 => s \notin Phases
            /\ n = 6 => s = "count"
            /\ n = 5 => s = "countResponse"
            /\ s = "count" => n = 6
        BY <3>1, TheSetters DEF Phases
      <3>3. InRampUp
        BY <2>4 DEF ControllerInv, Entries
      <3>4. n - 1 > 0 => ctl'.myProfileState = "STOPMOTOR"
        BY <1>4, <1>5, <1>6, <2>3, <3>1, <3>2, <3>3, ControllerAssumption
           DEF InRampUp, Phases, Longest
      <3>5. n - 1 \in 1 .. 5 => ctl'.count = 0
        BY <1>4, <1>5, <1>6, <2>3, <3>1, <3>2, <3>3, ControllerAssumption
           DEF InRampUp, Phases, Longest
      <3>6. n - 1 <= 4 => ctl'.countResponse <= ctl'.count /\ ctl'.count <= RampTicks + 1
        BY <1>4, <1>5, <1>6, <2>3, <3>1, <3>2, <3>3, ControllerAssumption
           DEF InRampUp, Phases, Longest
      <3>7. ctl'.myProfileState \in {"STOPMOTOR", "RAMPUP"}
        BY <1>4, <1>5, <1>6, <2>3, <3>1, <3>2, <3>3, ControllerAssumption
           DEF InRampUp, Phases, Longest
      <3>8. InRampUp'
        BY <1>2, <1>4, <1>5, <1>6, <2>3, <3>1, <3>4, <3>5, <3>6, <3>7, ControllerAssumption
           DEF InRampUp, Longest
      <3> QED BY <1>1, <1>7, <2>1, <2>2, <2>3, <2>4, <3>8 DEF ControllerInv, Entries
    <2>5. CASE doing = "ConstantVelocity"
      <3>1. n \in 1 .. 5 /\ s = setConstantVelocity[6 - n]
        BY <1>2, <2>5 DEF Setter, setConstantVelocity
      <3>2. /\ n = 1 => s = "CONSTANTVELOCITY"
            /\ n # 1 => s \notin Phases
            /\ n = 5 <=> s = "count"
            /\ s # "countResponse"
        BY <3>1 DEF setConstantVelocity, Phases
      <3>3. InConstant
        BY <2>5 DEF ControllerInv, Entries
      <3>4. ctl'.myProfileState # "RAMPDOWN"
        BY <1>4, <1>5, <1>6, <2>3, <3>1, <3>2, <3>3, ControllerAssumption
           DEF InConstant, Phases, Longest
      <3>5. n - 1 <= 4 => ctl'.countResponse <= RampTicks + 1 + ctl'.count
        BY <1>4, <1>5, <1>6, <2>3, <3>1, <3>2, <3>3, ControllerAssumption
           DEF InConstant, Phases, Longest
      <3>6. InConstant'
        BY <1>2, <1>4, <1>5, <1>6, <2>3, <3>1, <3>4, <3>5, ControllerAssumption
           DEF InConstant, Longest
      <3> QED BY <1>1, <1>7, <2>1, <2>2, <2>3, <2>5, <3>6 DEF ControllerInv, Entries
    <2>6. CASE doing = "RampDown"
      <3>1. n \in 1 .. 5 /\ s = setRampDown[6 - n]
        BY <1>2, <2>6 DEF Setter, setRampDown
      <3>2. /\ n = 1 => s = "RAMPDOWN"
            /\ n # 1 => s \notin Phases
            /\ n = 5 <=> s = "count"
            /\ s # "countResponse"
        BY <3>1 DEF setRampDown, Phases
      <3>3. InRampDown /\ ctl.count <= Longest
        BY <2>6 DEF ControllerInv, Entries
      <3>4. n - 1 > 0 => ctl'.myProfileState # "RAMPDOWN"
        BY <1>4, <1>5, <1>6, <2>3, <3>1, <3>2, <3>3, ControllerAssumption
           DEF InRampDown, Phases, Longest
      <3>5. n - 1 \in 1 .. 4 => ctl'.countResponse <= RampTicks + 1 + Longest + ctl'.count
        BY <1>4, <1>5, <1>6, <2>3, <3>1, <3>2, <3>3, ControllerAssumption
           DEF InRampDown, Phases, Longest
      <3>6. n - 1 = 0 => ctl'.myProfileState = "RAMPDOWN" /\ ctl'.countResponse <= RampTicks + 1 + Longest + ctl'.count
        BY <1>4, <1>5, <1>6, <2>3, <3>1, <3>2, <3>3, ControllerAssumption
           DEF InRampDown, Phases, Longest
      <3>7. InRampDown'
        BY <1>2, <1>4, <1>5, <1>6, <2>3, <3>1, <3>4, <3>5, <3>6, ControllerAssumption
           DEF InRampDown, Longest
      <3> QED BY <1>1, <1>7, <2>1, <2>2, <2>3, <2>6, <3>7 DEF ControllerInv, Entries
    <2>7. CASE doing \in {"HandingOverL", "HandingOverR"}
      BY <1>1, <1>7, <2>1, <2>2, <2>3, <2>7 DEF ControllerInv, Entries
    <2> QED BY <1>1, <1>9, <2>4, <2>5, <2>6, <2>7 DEF Doings
  <1> QED BY <1>8, <1>9

(* The tick, as long as no phase is complete.                              *)
LEMMA TicksKeep ==
  ASSUME ControllerInv, TickEffect(ctl, ctl'), UNCHANGED <<todo, mainVars>>,
         tick' \in Reports \cup {"none"}, events' \in Seq(Reports)
  PROVE  ControllerInv'
  <1>1. /\ ctl \in Fields /\ ctl' \in Fields /\ doing \in Doings
        /\ todo' = todo /\ doing' = doing /\ finished' = finished /\ handed' = handed
    BY DEF ControllerInv, ControllerTypeOK, TickEffect, mainVars
  <1>2. /\ ctl.count \in Nat /\ ctl.countResponse \in Nat /\ ctl.counterSetZero \in Nat
        /\ ctl'.count \in Nat /\ ctl'.countResponse \in Nat /\ ctl'.counterSetZero \in Nat
        /\ Len(todo) \in Nat /\ ctl.myProfileState \in Phases
    BY <1>1 DEF Fields, ControllerInv, ControllerTypeOK, SetterLeft
  <1>3. ControllerTypeOK'
    BY <1>1 DEF ControllerInv, ControllerTypeOK, SetterLeft
  <1>4. Stopped'
    BY <1>1 DEF ControllerInv, Stopped, TickEffect
  <1>5. Relay'
    BY <1>1 DEF ControllerInv, Relay, TickEffect
  <1>6. /\ countMax["RAMPUP"] = RampTicks /\ countMax["CONSTANTVELOCITY"] = ConstTicks
        /\ countMax["RAMPDOWN"] = RampTicks
    BY DEF countMax
  <1>7. Longest \in Nat /\ RampTicks + 1 <= Longest /\ ConstTicks + 1 <= Longest
    BY ControllerAssumption DEF Longest
  <1> DEFINE p == ctl.myProfileState
             c == ctl.count
             z == ctl.counterSetZero
             r == ctl.countResponse
             c2 == ctl'.count
             z2 == ctl'.counterSetZero
             r2 == ctl'.countResponse
             n == Len(todo)
  <1>8. /\ c \in Nat /\ z \in Nat /\ r \in Nat /\ c2 \in Nat /\ z2 \in Nat /\ r2 \in Nat
        /\ n \in Nat
    BY <1>2
  <1>9. \/ c2 = c /\ z2 = z /\ r2 <= r
        \/ /\ c2 = c + 1 /\ z2 = z /\ r2 <= r + 1 /\ p # "STOPMOTOR"
           /\ c2 <= Longest /\ (p = "RAMPUP" => c2 <= RampTicks + 1)
        \/ c2 = c /\ z2 = z + 1 /\ z2 <= Settle /\ r2 <= r + 1 /\ p = "RAMPDOWN"
    <2>1. CASE p = "STOPMOTOR"
      BY <2>1 DEF TickEffect
    <2>2. CASE p # "STOPMOTOR"
      <3>1. p \in {"RAMPUP", "CONSTANTVELOCITY", "RAMPDOWN"}
        BY <1>2, <2>2 DEF Phases
      <3>2. \/ c2 = c /\ z2 = z /\ r2 = r
            \/ c <= countMax[p] /\ c2 = c + 1 /\ z2 = z /\ r2 <= r + 1
            \/ p = "RAMPDOWN" /\ z2 = z + 1 /\ z2 <= Settle /\ c2 = c /\ r2 <= r + 1
        BY <2>2 DEF TickEffect
      <3>3. CASE p = "RAMPUP"
        BY <1>6, <1>7, <1>8, <2>2, <3>2, <3>3, ControllerAssumption
      <3>4. CASE p = "CONSTANTVELOCITY"
        BY <1>6, <1>7, <1>8, <2>2, <3>2, <3>4, ControllerAssumption
      <3>5. CASE p = "RAMPDOWN"
        BY <1>6, <1>7, <1>8, <2>2, <3>2, <3>5, ControllerAssumption
      <3> QED BY <3>1, <3>3, <3>4, <3>5
    <2> QED BY <2>1, <2>2
  <1>10. ctl'.myProfileState = p /\ Len(todo') = n
    BY <1>1 DEF TickEffect
  <1>11. c2 <= Longest /\ z2 <= Settle
    <2>1. c <= Longest /\ z <= Settle
      BY DEF ControllerInv, Entries
    <2> HIDE DEF p, c, z, r, c2, z2, r2, n
    <2> QED BY <1>8, <1>9, <2>1
  <1>12. ASSUME doing = "RampUp" PROVE InRampUp'
    <2>1. /\ p \in {"STOPMOTOR", "RAMPUP"}
          /\ n > 0 => p = "STOPMOTOR"
          /\ n \in 1 .. 5 => c = 0
          /\ n <= 4 => r <= c /\ c <= RampTicks + 1
      BY <1>12 DEF ControllerInv, Entries, InRampUp
    <2> HIDE DEF p, c, z, r, c2, z2, r2, n
    <2>2. /\ n \in 1 .. 5 => c2 = 0
          /\ n <= 4 => r2 <= c2 /\ c2 <= RampTicks + 1
      BY <1>8, <1>9, <2>1, ControllerAssumption
    <2> QED BY <1>10, <2>1, <2>2 DEF InRampUp, c2, r2
  <1>13. ASSUME doing = "ConstantVelocity" PROVE InConstant'
    <2>1. /\ p # "RAMPDOWN"
          /\ n = 5 => p \in {"STOPMOTOR", "RAMPUP"} /\ r <= c /\ c <= RampTicks + 1
          /\ n <= 4 => r <= RampTicks + 1 + c
      BY <1>13 DEF ControllerInv, Entries, InConstant
    <2> HIDE DEF p, c, z, r, c2, z2, r2, n
    <2>2. /\ n = 5 => r2 <= c2 /\ c2 <= RampTicks + 1
          /\ n <= 4 => r2 <= RampTicks + 1 + c2
      BY <1>8, <1>9, <2>1, ControllerAssumption
    <2> QED BY <1>10, <2>1, <2>2 DEF InConstant, c2, r2
  <1>14. ASSUME doing = "RampDown" PROVE InRampDown'
    <2>1. /\ n > 0 => p # "RAMPDOWN"
          /\ n = 5 => r <= RampTicks + 1 + c
          /\ n \in 1 .. 4 => r <= RampTicks + 1 + Longest + c
          /\ n = 0 => r <= RampTicks + 1 + Longest +
                            (IF p = "RAMPDOWN" THEN c + z ELSE Longest + Settle + 1)
      BY <1>14 DEF ControllerInv, Entries, InRampDown
    <2>2. n = 0 /\ p # "RAMPDOWN" => p = "STOPMOTOR"
      BY <1>14 DEF ControllerInv, Entries, InRampDown
    <2> HIDE DEF p, c, z, r, c2, z2, r2, n
    <2>3. /\ n = 5 => r2 <= RampTicks + 1 + c2
          /\ n \in 1 .. 4 => r2 <= RampTicks + 1 + Longest + c2
          /\ n = 0 => r2 <= RampTicks + 1 + Longest +
                            (IF p = "RAMPDOWN" THEN c2 + z2 ELSE Longest + Settle + 1)
      BY <1>7, <1>8, <1>9, <2>1, <2>2, ControllerAssumption
    <2> QED BY <1>10, <2>1, <2>2, <2>3 DEF InRampDown, c2, r2, z2
  <1> QED BY <1>1, <1>3, <1>4, <1>5, <1>11, <1>12, <1>13, <1>14 DEF ControllerInv, Entries

(* The tick in which a phase completes.                                    *)
LEMMA PhaseEndsKeeps ==
  ASSUME ControllerInv, PhaseEnds
  PROVE  ControllerInv'
  <1> DEFINE p == ctl.myProfileState
             l == IF p = "RAMPDOWN" THEN Logged(ctl) ELSE ctl
             z == IF p = "RAMPDOWN" THEN 0 ELSE ctl.counterSetZero
  <1>1. /\ ctl \in Fields /\ doing \in Doings /\ tick' \in Reports
        /\ todo' = todo /\ doing' = doing /\ finished' = finished /\ handed' = handed
        /\ events' = events
        /\ p \in {"RAMPUP", "CONSTANTVELOCITY", "RAMPDOWN"}
    <2>1. PICK still \in BOOLEAN : Complete(ctl, still)
      BY DEF PhaseEnds
    <2>2. ctl \in Fields /\ p \in {"RAMPUP", "CONSTANTVELOCITY", "RAMPDOWN"}
      BY <2>1 DEF ControllerInv, ControllerTypeOK, Complete, Running, Fields, Phases
    <2>3. tick' = Completion[p] /\ Completion[p] \in Reports
      BY <2>2 DEF PhaseEnds, Completion, Reports
    <2> QED BY <2>2, <2>3 DEF PhaseEnds, mainVars, ControllerInv, ControllerTypeOK
  <1>2. /\ l \in Fields /\ l.count = ctl.count /\ l.counterSetZero = ctl.counterSetZero
        /\ l.countResponse <= ctl.countResponse + 1
        /\ p # "RAMPDOWN" => l.countResponse = ctl.countResponse
    <2>1. ctl.countResponse \in Nat
      BY <1>1 DEF Fields
    <2>2. CASE p = "RAMPDOWN"
      BY <1>1, <2>2, LoggedKeeps
    <2>3. CASE p # "RAMPDOWN"
      BY <1>1, <2>1, <2>3
    <2> QED BY <2>2, <2>3
  <1>3. ctl' = IF p = "RAMPDOWN"
               THEN [l EXCEPT !.myProfileState = "STOPMOTOR", !.counterSetZero = 0]
               ELSE [l EXCEPT !.myProfileState = "STOPMOTOR"]
    BY DEF PhaseEnds
  <1> HIDE DEF l
  <1>4. /\ ctl' \in Fields /\ ctl'.myProfileState = "STOPMOTOR"
        /\ ctl'.count = ctl.count /\ ctl'.counterSetZero = z
        /\ ctl'.countResponse = l.countResponse
    BY <1>2, <1>3 DEF Fields, Phases
  <1>5. /\ ctl.count \in Nat /\ ctl.countResponse \in Nat /\ ctl.counterSetZero \in Nat
        /\ l.countResponse \in Nat /\ Len(todo) \in Nat
    BY <1>1, <1>2 DEF Fields, ControllerInv, ControllerTypeOK, SetterLeft
  <1>6. ControllerTypeOK'
    BY <1>1, <1>4 DEF ControllerInv, ControllerTypeOK, SetterLeft
  <1>7. ASSUME doing = "startBelt" PROVE Len(todo) > 6 /\ ~(~handed /\ ~finished /\ Len(todo) <= 14)
    BY <1>1, <1>5, <1>7 DEF ControllerInv, Stopped, Relay
  <1>8. Stopped' /\ Relay'
    BY <1>1, <1>5, <1>7, <1>4 DEF ControllerInv, Stopped, Relay
  <1>9. ctl'.count <= Longest /\ ctl'.counterSetZero <= Settle
    BY <1>4, <1>5, ControllerAssumption DEF ControllerInv, Entries
  <1>10. ASSUME doing = "RampUp" PROVE InRampUp'
    <2>1. InRampUp
      BY <1>10 DEF ControllerInv, Entries
    <2>2. p # "RAMPDOWN"
      BY <2>1 DEF InRampUp
    <2> QED BY <1>1, <1>2, <1>4, <2>1, <2>2 DEF InRampUp
  <1>11. ASSUME doing = "ConstantVelocity" PROVE InConstant'
    <2>1. InConstant
      BY <1>11 DEF ControllerInv, Entries
    <2>2. p # "RAMPDOWN"
      BY <2>1 DEF InConstant
    <2> QED BY <1>1, <1>2, <1>4, <2>1, <2>2 DEF InConstant
  <1>12. ASSUME doing = "RampDown" PROVE InRampDown'
    <2>1. InRampDown /\ ctl.count <= Longest /\ ctl.counterSetZero <= Settle
      BY <1>12 DEF ControllerInv, Entries
    <2>2. CASE Len(todo) > 0
      <3>1. p # "RAMPDOWN"
        BY <2>1, <2>2 DEF InRampDown
      <3> QED BY <1>1, <1>2, <1>4, <1>5, <2>1, <2>2, <3>1 DEF InRampDown
    <2>3. CASE Len(todo) = 0
      <3>1. /\ p = "RAMPDOWN"
            /\ ctl.countResponse <= RampTicks + 1 + Longest + (ctl.count + ctl.counterSetZero)
        BY <1>1, <2>1, <2>3 DEF InRampDown
      <3>2. l.countResponse <= RampTicks + 1 + Longest + (Longest + Settle + 1)
        <4> DEFINE c == ctl.count
                   s == ctl.counterSetZero
                   r == ctl.countResponse
                   e == l.countResponse
        <4>1. /\ c \in Nat /\ s \in Nat /\ r \in Nat /\ e \in Nat /\ Longest \in Nat
              /\ c <= Longest /\ s <= Settle /\ e <= r + 1
              /\ r <= RampTicks + 1 + Longest + (c + s)
          BY <1>2, <1>5, <2>1, <3>1, ControllerAssumption DEF Longest
        <4> HIDE DEF c, s, r, e
        <4>2. e <= RampTicks + 1 + Longest + (Longest + Settle + 1)
          BY <4>1, ControllerAssumption
        <4> QED BY <4>2 DEF e
      <3> QED BY <1>1, <1>4, <2>3, <3>2 DEF InRampDown
    <2> QED BY <1>5, <2>2, <2>3
  <1> QED BY <1>1, <1>6, <1>8, <1>9, <1>10, <1>11, <1>12 DEF ControllerInv, Entries

(* The transitions that call a setter, or take a report without one.       *)
LEMMA CallsKeep ==
  ASSUME ControllerInv,
         \/ Start \/ Stop \/ Release \/ Taking
         \/ \E side \in {"HandingOverL", "HandingOverR"} : HandOver(side)
  PROVE  ControllerInv'
  <1>1. /\ ctl \in Fields /\ tick \in Reports \cup {"none"} /\ events \in Seq(Reports)
        /\ finished \in BOOLEAN /\ handed \in BOOLEAN /\ doing \in Doings /\ SetterLeft
        /\ Stopped /\ Relay
        /\ ctl.count <= Longest /\ ctl.counterSetZero <= Settle
    BY DEF ControllerInv, ControllerTypeOK, Entries
  <1>2. ctl' = ctl /\ tick' = tick /\ todo = <<>> /\ Len(todo) = 0
    BY DEF Start, Stop, Release, HandOver, Taking, RampUpDone, ConstantDone, RampDownDone,
           TakenOver, Repeat, Drop, StopBelt, Calls
  <1>3. events' \in Seq(Reports)
    <2>1. events' = events \/ (events # <<>> /\ events' = Tail(events))
      BY DEF Start, Stop, Release, HandOver, Taking, RampUpDone, ConstantDone, RampDownDone,
             TakenOver, Repeat, Drop, StopBelt, Report
    <2> QED BY <1>1, <2>1
  <1>4. doing = "startBelt" => ctl.myProfileState = "STOPMOTOR"
    BY <1>1, <1>2 DEF Stopped
  <1>5. ctl.count \in Nat /\ ctl.countResponse \in Nat
    BY <1>1 DEF Fields
  <1> USE DEF Calls
  <1>6. CASE Start
    <2>1. todo' = Setter("RampUp") /\ doing' = "RampUp" /\ handed' = FALSE /\ finished' = finished
      BY <1>6 DEF Start, Setter, Starting
    <2>2. SetterLeft' /\ Len(todo') = 9
      BY <2>1, NewSetter DEF Doings
    <2>3. InRampUp'
      BY <1>2, <1>4, <1>6, <2>2 DEF Start, InRampUp
    <2>4. handed' \in BOOLEAN
      BY <2>1
    <2> QED BY <1>1, <1>2, <1>3, <2>1, <2>2, <2>3, <2>4
            DEF ControllerInv, ControllerTypeOK, Stopped, Relay, Entries, Doings
  <1>7. CASE \E side \in {"HandingOverL", "HandingOverR"} : HandOver(side)
    <2>1. PICK side \in {"HandingOverL", "HandingOverR"} : HandOver(side)
      BY <1>7
    <2>2. /\ todo' = Setter(side) /\ doing' = side /\ handed' = TRUE /\ finished' = finished
          /\ side \in Doings
      BY <2>1 DEF HandOver, Setter, Doings
    <2>3. SetterLeft'
      BY <2>2, NewSetter
    <2>4. handed' \in BOOLEAN
      BY <2>2
    <2> QED BY <1>1, <1>2, <1>3, <2>1, <2>2, <2>3, <2>4
            DEF ControllerInv, ControllerTypeOK, Stopped, Relay, Entries
  <1>8. CASE Repeat
    <2>1. /\ todo' = Setter("HandingOverR") /\ doing = "HandingOverR" /\ doing' = "HandingOverR"
          /\ handed' = handed /\ finished' = finished
      BY <1>8 DEF Repeat, Report, Setter
    <2>2. SetterLeft'
      BY <2>1, NewSetter DEF Doings
    <2> QED BY <1>1, <1>2, <1>3, <2>1, <2>2
            DEF ControllerInv, ControllerTypeOK, Stopped, Relay, Entries
  <1>9. CASE RampUpDone
    <2>1. /\ todo' = Setter("ConstantVelocity") /\ doing = "RampUp"
          /\ doing' = "ConstantVelocity" /\ handed' = handed /\ finished' = finished
      BY <1>9 DEF RampUpDone, Report, Setter
    <2>2. SetterLeft' /\ Len(todo') = 5
      BY <2>1, NewSetter DEF Doings
    <2>3. InRampUp
      BY <2>1 DEF ControllerInv, Entries
    <2>4. InConstant'
      BY <1>2, <2>2, <2>3 DEF InRampUp, InConstant
    <2> QED BY <1>1, <1>2, <1>3, <2>1, <2>2, <2>4
            DEF ControllerInv, ControllerTypeOK, Stopped, Relay, Entries, Doings
  <1>10. CASE ConstantDone
    <2>1. /\ todo' = Setter("RampDown") /\ doing = "ConstantVelocity"
          /\ doing' = "RampDown" /\ handed' = handed /\ finished' = finished
      BY <1>10 DEF ConstantDone, Report, Setter
    <2>2. SetterLeft' /\ Len(todo') = 5
      BY <2>1, NewSetter DEF Doings
    <2>3. InConstant
      BY <2>1 DEF ControllerInv, Entries
    <2>4. InRampDown'
      BY <1>2, <2>2, <2>3 DEF InRampDown, InConstant
    <2> QED BY <1>1, <1>2, <1>3, <2>1, <2>2, <2>4
            DEF ControllerInv, ControllerTypeOK, Stopped, Relay, Entries, Doings
  <1>11. CASE Stop \/ Release \/ RampDownDone \/ TakenOver \/ StopBelt
    <2>1. /\ doing' = "startBelt"
          /\ todo' \in {setSpeedToZero, Setter("startBelt")}
      BY <1>11 DEF Stop, Release, RampDownDone, TakenOver, StopBelt, Setter, Stopping
    <2>2. SetterLeft' /\ Len(todo') = IF todo' = setSpeedToZero THEN 8 ELSE 16
      BY <2>1, NewSetter DEF Doings
    <2>3. finished' \in BOOLEAN /\ handed' = handed
      BY <1>1, <1>11 DEF Stop, Release, RampDownDone, TakenOver, StopBelt
    <2>4. todo' = setSpeedToZero /\ ~handed' /\ ~finished' => doing = "startBelt"
      <3>1. setSpeedToZero # setSpeedToZero \o setSpeedToZero
        <4>1. Len(setSpeedToZero) # Len(Stopping)
          BY TheSetters DEF setSpeedToZero
        <4> QED BY <4>1, Zenon DEF Stopping
      <3>2. CASE Stop
        BY <3>1, <3>2 DEF Stop
      <3>3. CASE Release \/ TakenOver
        BY <1>1, <2>3, <3>3 DEF Release, TakenOver, Report, Relay
      <3>4. CASE RampDownDone
        BY <3>4 DEF RampDownDone
      <3>5. CASE StopBelt
        BY <3>1, <3>5 DEF StopBelt, InProfile
      <3> QED BY <1>11, <3>2, <3>3, <3>4, <3>5
    <2>5. Stopped'
      BY <2>1, <2>2 DEF Stopped
    <2>6. Relay'
      BY <1>2, <1>4, <2>1, <2>2, <2>4 DEF Relay
    <2> QED BY <1>1, <1>2, <1>3, <2>1, <2>2, <2>3, <2>5, <2>6
            DEF ControllerInv, ControllerTypeOK, Entries, Doings
  <1>12. CASE Drop
    <2>1. todo' = todo /\ doing' = doing /\ handed' = handed /\ finished' = finished
      BY <1>12 DEF Drop, mainVars
    <2>2. SetterLeft'
      BY <1>1, <2>1 DEF SetterLeft
    <2> QED BY <1>1, <1>2, <1>3, <2>1, <2>2
            DEF ControllerInv, ControllerTypeOK, Stopped, Relay, Entries, InRampUp,
                InConstant, InRampDown
  <1> QED BY <1>6, <1>7, <1>8, <1>9, <1>10, <1>11, <1>12 DEF Taking

-----------------------------------------------------------------------------
LEMMA ControllerInvStep == ControllerInv /\ [Next]_vars => ControllerInv'
  <1> SUFFICES ASSUME ControllerInv, [Next]_vars
               PROVE  ControllerInv'
    OBVIOUS
  <1>1. CASE Assign
    BY <1>1, AssignKeeps
  <1>2. CASE \/ Start \/ Stop \/ Release \/ Taking
             \/ \E side \in {"HandingOverL", "HandingOverR"} : HandOver(side)
    BY <1>2, CallsKeep
  <1>3. CASE Tick \/ TickSends
    <2>1. /\ ctl \in Fields /\ tick \in Reports \cup {"none"} /\ events \in Seq(Reports)
      BY DEF ControllerInv, ControllerTypeOK
    <2>2. tick' \in Reports \cup {"none"} /\ events' \in Seq(Reports)
      <3>1. CASE Tick
        BY <2>1, <3>1 DEF Tick
      <3>2. CASE TickSends
        <4>1. tick \in Reports /\ tick' = "none" /\ events' = Append(events, tick)
          BY <2>1, <3>2 DEF TickSends
        <4> QED BY <2>1, <4>1, AppendProperties
      <3> QED BY <1>3, <3>1, <3>2
    <2>3. UNCHANGED <<todo, mainVars>>
      BY <1>3 DEF Tick, TickSends
    <2> QED BY <1>3, <2>1, <2>2, <2>3, TickKeeps, TicksKeep
  <1>4. CASE PhaseEnds
    BY <1>4, PhaseEndsKeeps
  <1>5. CASE UNCHANGED vars
    BY <1>5 DEF vars, mainVars, ControllerInv, ControllerTypeOK, SetterLeft, Stopped, Relay,
                Entries, InRampUp, InConstant, InRampDown
  <1> QED BY <1>1, <1>2, <1>3, <1>4, <1>5 DEF Next, TickStep

LEMMA ControllerInvAlways == Spec => []ControllerInv
  BY ControllerInvInit, ControllerInvStep, PTL DEF Spec

(* However the ticks fall between the assignments of setSpeedToZero, a     *)
(* stopped belt gets the output of standstill (Controller.cpp:211-225).    *)
THEOREM StoppedMeansZero == Spec => []OutputZeroAtRest
  <1>1. ControllerInv => OutputZeroAtRest
    <2> SUFFICES ASSUME ControllerInv, AtRest
                 PROVE  TRUE \notin drive(ctl) /\ ~ctl.integrator
      BY DEF OutputZeroAtRest
    <2>1. Stopped /\ doing = "startBelt" /\ Len(todo) = 0
      BY DEF ControllerInv, AtRest
    <2>2. ~ctl.u_ref /\ ~ctl.integrator
      BY <2>1 DEF Stopped
    <2> QED BY <2>2 DEF drive
  <1> QED BY <1>1, ControllerInvAlways, PTL

(* After a profile the relay is open, for any number of ticks that find    *)
(* the drive half stopped (Controller.cpp:213-214, 284-285).               *)
THEOREM RelayOpens == Spec => []RelayOpenAfterProfile
  <1>1. ControllerInv => RelayOpenAfterProfile
    <2> SUFFICES ASSUME ControllerInv, AtRest, ~handed, ~finished
                 PROVE  ~ctl.relay
      BY DEF RelayOpenAfterProfile
    <2>1. Relay /\ doing = "startBelt" /\ Len(todo) = 0
      BY DEF ControllerInv, AtRest
    <2> QED BY <2>1 DEF Relay
  <1> QED BY <1>1, ControllerInvAlways, PTL

(* A log that has room for a ramp-up, twice the longest phase and the time *)
(* to settle has room for every profile, whatever reports of earlier ones  *)
(* are still queued (Controller.cpp:281-282).                              *)
THEOREM ProfileNeverOutgrowsLog == Spec => []ProfileFitsLog
  <1>1. ControllerInv => ProfileFitsLog
    <2> SUFFICES ASSUME ControllerInv, InProfile, todo = <<>>
                 PROVE  ctl.countResponse < LogSize
      BY DEF ProfileFitsLog
    <2> DEFINE c == ctl.count
               s == ctl.counterSetZero
               r == ctl.countResponse
               l == Longest
    <2>1. /\ Len(todo) = 0
          /\ c \in Nat /\ s \in Nat /\ r \in Nat /\ c <= l /\ s <= Settle
      BY DEF ControllerInv, ControllerTypeOK, Fields, Entries
    <2>2. l \in Nat /\ RampTicks + 1 <= l /\ LogSize > (RampTicks + 1) + 2 * l + (Settle + 1)
      BY ControllerAssumption DEF Longest
    <2>3. CASE doing = "RampUp"
      <3>1. r <= c
        BY <2>1, <2>3 DEF ControllerInv, Entries, InRampUp
      <3> HIDE DEF c, s, r, l
      <3>2. r < LogSize
        BY <2>1, <2>2, <3>1, ControllerAssumption
      <3> QED BY <3>2 DEF r
    <2>4. CASE doing = "ConstantVelocity"
      <3>1. r <= RampTicks + 1 + c
        BY <2>1, <2>4 DEF ControllerInv, Entries, InConstant
      <3> HIDE DEF c, s, r, l
      <3>2. r < LogSize
        BY <2>1, <2>2, <3>1, ControllerAssumption
      <3> QED BY <3>2 DEF r
    <2>5. CASE doing = "RampDown"
      <3>1. r <= RampTicks + 1 + l +
                   (IF ctl.myProfileState = "RAMPDOWN" THEN c + s ELSE l + Settle + 1)
        BY <2>1, <2>5 DEF ControllerInv, Entries, InRampDown
      <3> HIDE DEF c, s, r, l
      <3>2. r < LogSize
        BY <2>1, <2>2, <3>1, ControllerAssumption
      <3> QED BY <3>2 DEF r
    <2> QED BY <2>3, <2>4, <2>5 DEF InProfile
  <1> QED BY <1>1, ControllerInvAlways, PTL

-----------------------------------------------------------------------------
(* Every behaviour of the controller, seen through the phase and the       *)
(* reports, is one of DrivePhases; what it must do at last is for TLC.     *)
THEOREM RefinesPhases == Spec => Drive!Init /\ [][Drive!Next]_Drive!vars
  <1>1. Init => Drive!Init
    BY DEF Init, Drive!Init
  <1>2. ControllerInv /\ [Next]_vars => [Drive!Next]_Drive!vars
    <2> SUFFICES ASSUME ControllerInv, [Next]_vars
                 PROVE  [Drive!Next]_Drive!vars
      OBVIOUS
    <2> DEFINE shown == IF tick = "none" THEN events ELSE Append(events, tick)
    <2>1. /\ ctl \in Fields /\ tick \in Reports \cup {"none"} /\ events \in Seq(Reports)
          /\ todo # <<>> => Head(todo) \in Assignments
      BY DEF ControllerInv, ControllerTypeOK, SetterLeft
    <2>2. DOMAIN Drive!Completion = {"RAMPUP", "CONSTANTVELOCITY", "RAMPDOWN"}
      BY DEF Drive!Completion
    <2>3. CASE Assign
      <3>1. /\ shown' = shown /\ Head(todo) \in Assignments
            /\ ctl' = Assigned(ctl, Head(todo))
        BY <2>1, <2>3 DEF Assign
      <3>2. ctl'.myProfileState = IF Head(todo) \in Phases THEN Head(todo) ELSE ctl.myProfileState
        BY <2>1, <3>1, AssignedEffect
      <3> HIDE DEF shown
      <3> QED BY <2>2, <3>1, <3>2 DEF Drive!Next, Drive!Begin, Drive!Halt, Drive!vars, Phases, shown
    <2>4. CASE Tick
      <3>1. ctl'.myProfileState = ctl.myProfileState
        BY <2>1, <2>4, TickKeeps DEF TickEffect
      <3> QED BY <2>4, <3>1 DEF Tick, Drive!vars
    <2>5. CASE TickSends
      <3>1. ctl'.myProfileState = ctl.myProfileState
        BY <2>1, <2>5, TickKeeps DEF TickEffect
      <3> QED BY <2>5, <3>1 DEF TickSends, Drive!vars
    <2>6. CASE PhaseEnds
      <3>1. /\ ctl.myProfileState \in {"RAMPUP", "CONSTANTVELOCITY", "RAMPDOWN"}
            /\ tick = "none" /\ tick' = Completion[ctl.myProfileState]
            /\ events' = events
        BY <2>1, <2>6 DEF PhaseEnds, Complete, Running, Fields, Phases
      <3>2. tick' # "none"
        BY <3>1 DEF Completion
      <3>3. ctl'.myProfileState = "STOPMOTOR"
        <4>1. Logged(ctl) \in Fields
          BY <2>1, LoggedKeeps
        <4> QED BY <2>1, <2>6, <4>1 DEF PhaseEnds, Fields
      <3>4. Drive!End
        BY <3>1, <3>2, <3>3 DEF Drive!End, Drive!Completion, Completion
      <3> QED BY <3>4 DEF Drive!Next
    <2>7. CASE \/ Start \/ Stop \/ Release \/ Taking
               \/ \E side \in {"HandingOverL", "HandingOverR"} : HandOver(side)
      <3>1. /\ ctl' = ctl /\ tick' = tick
            /\ events' = events \/ (events # <<>> /\ events' = Tail(events))
        BY <2>7 DEF Start, Stop, Release, HandOver, Taking, RampUpDone, ConstantDone,
               RampDownDone, TakenOver, Repeat, Drop, StopBelt, Report
      <3>2. CASE events' = events
        BY <3>1, <3>2 DEF Drive!vars
      <3>3. CASE events # <<>> /\ events' = Tail(events)
        <4>1. shown # <<>> /\ shown' = Tail(shown)
          <5>1. CASE tick = "none"
            BY <3>1, <3>3, <5>1
          <5>2. CASE tick # "none"
            <6>1. /\ tick \in Reports /\ events \in Seq(Reports)
                  /\ shown = Append(events, tick) /\ shown' = Append(Tail(events), tick)
              BY <2>1, <3>1, <3>3, <5>2
            <6> QED BY <3>3, <6>1, HeadTailAppend, AppendProperties
          <5> QED BY <5>1, <5>2
        <4> QED BY <3>1, <4>1 DEF Drive!Next, Drive!Take
      <3> QED BY <3>1, <3>2, <3>3
    <2>8. CASE UNCHANGED vars
      BY <2>8 DEF vars, Drive!vars
    <2> QED BY <2>3, <2>4, <2>5, <2>6, <2>7, <2>8 DEF Next, TickStep
  <1> QED BY <1>1, <1>2, ControllerInvAlways, PTL DEF Spec
=============================================================================
