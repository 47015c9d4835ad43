----------------------------- MODULE BeltProofs -----------------------------
(***************************************************************************)
(* Proofs about Belt, for every number of slots, every set of left         *)
(* neighbours and any number of commands: the types, the isolation of the  *)
(* two modes, and, for the operators described below (NobodyDrives,        *)
(* NobodyInterferes, NeverChain), that the drive follows the diagrams and  *)
(* the two diagrams of an order agree.                                     *)
(***************************************************************************)
EXTENDS Belt, SequenceTheorems, TLAPS

(* One of the events E is in the sequence q; it is so only once.           *)
Holds(q, E) == \E i \in 1 .. Len(q) : q[i] \in E
Once(q, E) == \A i, j \in 1 .. Len(q) : q[i] \in E /\ q[j] \in E => i = j

(* Every f in q has an e before it. *)
Behind(q, e, F) == \A j \in 1 .. Len(q) :
                     q[j] \in F => \E i \in 1 .. Len(q) : i < j /\ q[i] = e

(* Some task is about to send an event of E; one is queued or worked on.   *)
Called(E) == \E c \in Callers : call[c] \in E
Pending(E) == actualEvent \in E \/ Holds(queue, E)

-----------------------------------------------------------------------------
(* The modes.  The events that pass a mode from one diagram to the next    *)
(* are a token: there is one of them at most, and where it is tells which  *)
(* diagrams are inactive.                                                  *)
ModeTokens == {"ChainModeL", "LocalModeC", "ChainModeS", "LocalModeS"}

OneToken ==
  /\ ~Called(ModeTokens)
  /\ Once(queue, ModeTokens)
  /\ actualEvent \in ModeTokens => ~Holds(queue, ModeTokens)

BeforeModes ==
  /\ ~localMode /\ ~chainMode
  /\ actualState[LocalM] = "SelectLocalMode" /\ actualState[ChainM] = "SelectChainMode"
  /\ ~Pending(ModeTokens)

InLocalMode ==
  /\ localMode /\ ~chainMode
  /\ actualState[ChainM] = "SelectChainMode"
  /\ ~Pending({"LocalModeC", "ChainModeS"})
  /\ actualState[LocalM] # "SelectLocalMode" => ~Pending(ModeTokens)

InChainMode ==
  /\ chainMode /\ ~localMode
  /\ actualState[LocalM] = "SelectLocalMode"
  /\ ~Pending({"ChainModeL", "LocalModeS"})
  /\ actualState[ChainM] # "SelectChainMode" => ~Pending(ModeTokens)

ModeInv ==
  /\ OneToken
  /\ actualState[SwitchM] \in {"startSystem", "Init"} => BeforeModes
  /\ actualState[SwitchM] = "LocalMode" => InLocalMode
  /\ actualState[SwitchM] = "ChainMode" => InChainMode

-----------------------------------------------------------------------------
(* The drive, as long as nobody drives by hand. *)
NobodyDrives == "LOCALM" \notin Commands \/ {"LEFT", "RIGHT", "STOP"} \cap Commands = {}

Motion == {"BeltInMotionR", "StopBelt"}
ByHand == {"BeltInMotionL", "BeltInMotionR", "StopBelt"}
Ending == [RampUp |-> "rampupf", ConstantVelocity |-> "constf", RampDown |-> "rampdownf"]

(* The end of a phase is queued, or diagram d works on it. *)
Ended(e, d) == \/ actualEvent = e /\ diagram = d
               \/ Holds(queue, {e})

NoHand ==
  /\ ~Called(ByHand) /\ ~Pending({"BeltInMotionL"})
  /\ "LOCALM" \notin Commands =>
       ~localMode /\ ~Called({"LocalMode"}) /\ ~Pending({"LocalMode", "LocalModeC"})

BeltRests ==
  actualState[ChainM] # "BeltInMotion"
    => actualState[BeltInMotionM] = "startBelt" /\ ~Pending(Motion)

DriveRests ==
  actualState[ChainM] \in {"SelectChainMode", "Idle", "Waiting"} => phase = "STOPMOTOR"

DriveHandsOver ==
  actualState[ChainM] \in HandingOver =>
    \/ phase = "CONSTANTVELOCITY" /\ profile = "handingOver"
    \/ phase = "STOPMOTOR" /\ Ended("constf", ChainM)

DriveMoves ==
  actualState[ChainM] = "BeltInMotion" =>
    IF actualState[BeltInMotionM] = "startBelt"
    THEN /\ phase = "STOPMOTOR"
         /\ Once(queue, Motion)
         /\ actualEvent \in Motion => ~Holds(queue, Motion)
    ELSE /\ ~Pending(Motion)
         /\ \/ phase = PhaseOf[actualState[BeltInMotionM]]
            \/ /\ phase = "STOPMOTOR"
               /\ Ended(Ending[actualState[BeltInMotionM]], BeltInMotionM)

DriveInv == NoHand /\ BeltRests /\ DriveRests /\ DriveHandsOver /\ DriveMoves

-----------------------------------------------------------------------------
(* The orders, as long as nobody cancels or leaves Chain-Mode. *)
NobodyInterferes == {"LOCALM", "STOP"} \cap Commands = {} /\ ~EarlyOrders

ChainStays ==
  /\ ~Called({"LocalMode", "CancelOrder"}) /\ ~Pending({"LocalMode", "CancelOrder"})
  /\ actualState[ChainM] = "SelectChainMode"
       => ~Called({"request"}) /\ ~Pending({"request"})

(* Where the event of an order has passed the Chain-Mode diagram and not   *)
(* yet the Performing diagram.                                             *)
Starting == actualEvent = "request" /\ diagram = PerformingM
            /\ actualState[PerformingM] = "startPerforming"
Finishing == actualEvent = "release" /\ diagram = PerformingM

InStep ==
  /\ Finishing => actualState[ChainM] = "Idle" /\ actualState[PerformingM] = "Performing"
  /\ Starting => actualState[ChainM] = "HandingOverL"
  /\ ~Finishing /\ ~Starting =>
       (actualState[PerformingM] = "Performing" <=> actualState[ChainM] \in Transporting)

(* The right neighbour's answers. *)
OneAnswer(e) ==
  /\ Once(queue, {e})
  /\ actualEvent = e => ~Holds(queue, {e}) /\ ~Called({e})
  /\ Called({e}) => ~Holds(queue, {e})

OnlyReader ==
  \A c \in Callers : call[c] \in {"ready", "release"} => c = RightReader

NoneUnderWay(e) == ~Pending({e}) /\ ~Called({e})

Unasked ==
  actualState[ChainM] \notin {"Waiting", "HandingOverR"} =>
    /\ right = "idle" /\ NoneUnderWay("ready")
    /\ ~Called({"release"}) /\ ~Holds(queue, {"release"})
    /\ actualEvent = "release" => Finishing

Asked ==
  actualState[ChainM] = "Waiting" =>
    \/ right \in {"asked", "waited"} /\ NoneUnderWay("ready") /\ NoneUnderWay("release")
    \/ /\ right = "ready" /\ NoneUnderWay("release")
       /\ Pending({"ready"}) \/ Called({"ready"})
    \/ /\ right = "idle" /\ ~Called({"ready"}) /\ actualEvent # "release"
       /\ Pending({"ready"})
       /\ actualEvent = "ready" \/ Behind(queue, "ready", {"release"})

TakingOver ==
  actualState[ChainM] = "HandingOverR" =>
    /\ right \in {"idle", "ready"} /\ NoneUnderWay("ready")
    /\ right = "ready" => NoneUnderWay("release")
    /\ actualEvent = "release" => diagram = ChainM

OrderInv == /\ ChainStays /\ InStep
            /\ OneAnswer("ready") /\ OneAnswer("release") /\ OnlyReader
            /\ Unasked /\ Asked /\ TakingOver

-----------------------------------------------------------------------------
(* The drive in Local-Mode, as long as the belt is never in Chain-Mode. *)
NeverChain == "CHAIN" \notin Commands
ChainEvents == {"ChainMode", "ChainModeL", "ChainModeS"}
Starts == {"BeltInMotionL", "BeltInMotionR"}

LocalInv ==
  /\ ~Called(ChainEvents) /\ ~Pending(ChainEvents)
  /\ actualState[ChainM] = "SelectChainMode" /\ ~chainMode
  /\ ~localMode => ~Called(Starts) /\ ~Pending(Starts)
  /\ actualState[LocalM] = "SelectLocalMode" =>
       /\ phase = "STOPMOTOR" /\ actualState[BeltInMotionM] = "startBelt"
       /\ actualEvent \notin Starts
       /\ localMode => /\ Pending({"LocalModeS"})
                       /\ actualEvent = "LocalModeS" \/ Behind(queue, "LocalModeS", Starts)
  /\ actualState[LocalM] = "Idle" =>
       /\ phase = "STOPMOTOR"
       /\ \/ actualState[BeltInMotionM] = "startBelt"
          \/ actualEvent = "StopBelt" /\ diagram = BeltInMotionM
       /\ actualEvent \in Starts => diagram = LocalM

-----------------------------------------------------------------------------
(* The order buffer: what the transitions make of it is a buffer again.    *)

LEMMA NewIsBuffer == NewBuffers \subseteq Buffer
<1>1. \A i \in {NoIp, Junk} : [FreeSlot EXCEPT !.ip = i] \in Slot
  BY DEF FreeSlot, Slot, Ips
<1>2. FreeSlot \in Slot
  BY DEF FreeSlot, Slot, Ips
<1> QED
  BY <1>1, <1>2 DEF NewBuffers, Buffer

LEMMA InsertKeepsBuffer ==
  ASSUME NEW buf \in Buffer, NEW s \in Sfds
  PROVE  Insert(buf, s) \in Buffer
<1> DEFINE p == Place(buf, s)
           o == NewOrder(s, p)
<1>1. o \in Slot
  BY DEF NewOrder, Slot, Ips
<1>2. Insert(buf, s) \in {buf, [buf EXCEPT ![p] = o]}
  BY DEF Insert
<1> HIDE DEF o, p
<1> QED
  BY <1>1, <1>2 DEF Buffer

LEMMA ClearKeepsBuffer ==
  ASSUME NEW buf \in Buffer
  PROVE  ClearWaiting(buf) \in Buffer
<1> DEFINE f == FirstWaiting(buf)
<1>1. ClearWaiting(buf) \in {buf, [buf EXCEPT ![f] = [buf[f] EXCEPT !.wait = FALSE]]}
  BY DEF ClearWaiting
<1> HIDE DEF f
<1>2. f \in 0 .. N => [buf[f] EXCEPT !.wait = FALSE] \in Slot
  BY DEF Buffer, Slot
<1> QED
  BY <1>1, <1>2 DEF Buffer

LEMMA ShiftKeepsBuffer ==
  ASSUME NEW buf \in Buffer
  PROVE  Shift(buf) \in Buffer
<1> USE BufferAssumption
<1>1. \A e \in Slot : /\ [e EXCEPT !.sfd = Nobody, !.wait = FALSE] \in Slot
                      /\ [e EXCEPT !.ip = NoIp] \in Slot
  BY DEF Slot, Ips
<1>2. \A j \in 0 .. N : buf[j] \in Slot
  BY DEF Buffer
<1>3. buf[N] \in Slot /\ buf[0] \in Slot
  BY <1>2
<1>4. [buf[N] EXCEPT !.sfd = Nobody, !.wait = FALSE] \in Slot /\ [buf[0] EXCEPT !.ip = NoIp] \in Slot
  BY <1>1, <1>3, Zenon
<1> QED
  BY <1>2, <1>4 DEF Shift, Buffer

-----------------------------------------------------------------------------
(* The queue *)

LEMMA Appended ==
  ASSUME NEW S, NEW q \in Seq(S), NEW e \in S
  PROVE  /\ Append(q, e) \in Seq(S)
         /\ \A E : Holds(Append(q, e), E) <=> Holds(q, E) \/ e \in E
         /\ \A E : Once(q, E) /\ (e \in E => ~Holds(q, E)) => Once(Append(q, e), E)
         /\ \A h, F : Behind(q, h, F) /\ (e \in F => Holds(q, {h}))
                        => Behind(Append(q, e), h, F)
<1>1. /\ Append(q, e) \in Seq(S) /\ Len(Append(q, e)) = Len(q) + 1 /\ Len(q) \in Nat
      /\ \A i \in 1 .. Len(q) : Append(q, e)[i] = q[i]
      /\ Append(q, e)[Len(q) + 1] = e
  BY AppendProperties
<1>2. ASSUME NEW E
      PROVE  Holds(Append(q, e), E) <=> Holds(q, E) \/ e \in E
  BY <1>1 DEF Holds
<1>3. ASSUME NEW E, Once(q, E), e \in E => ~Holds(q, E)
      PROVE  Once(Append(q, e), E)
  BY <1>1, <1>3 DEF Holds, Once
<1>4. ASSUME NEW h, NEW F, Behind(q, h, F), e \in F => Holds(q, {h})
      PROVE  Behind(Append(q, e), h, F)
  <2> SUFFICES ASSUME NEW j \in 1 .. Len(q) + 1, Append(q, e)[j] \in F
               PROVE  \E i \in 1 .. Len(q) + 1 : i < j /\ Append(q, e)[i] = h
    BY <1>1 DEF Behind
  <2>1. \E i \in 1 .. Len(q) : i < j /\ q[i] = h
    BY <1>1, <1>4 DEF Holds, Behind
  <2> QED
    BY <1>1, <2>1
<1> QED
  BY <1>1, <1>2, <1>3, <1>4

LEMMA Taken ==
  ASSUME NEW S, NEW q \in Seq(S), q # <<>>
  PROVE  /\ Tail(q) \in Seq(S) /\ Head(q) \in S
         /\ \A E : Holds(q, E) <=> Head(q) \in E \/ Holds(Tail(q), E)
         /\ \A E : Once(q, E) => Once(Tail(q), E) /\ (Head(q) \in E => ~Holds(Tail(q), E))
         /\ \A h, F : Behind(q, h, F) =>
              Head(q) \notin F /\ (Head(q) # h => Behind(Tail(q), h, F))
<1>1. /\ Tail(q) \in Seq(S) /\ Head(q) \in S /\ Head(q) = q[1]
      /\ Len(Tail(q)) = Len(q) - 1 /\ Len(q) \in Nat \ {0}
      /\ \A i \in 1 .. Len(Tail(q)) : Tail(q)[i] = q[i + 1]
  BY HeadTailProperties, LenProperties, EmptySeq
<1>2. ASSUME NEW j \in 2 .. Len(q)
      PROVE  j - 1 \in 1 .. Len(Tail(q)) /\ Tail(q)[j - 1] = q[j]
  BY <1>1
<1>3. ASSUME NEW E
      PROVE  Holds(q, E) <=> Head(q) \in E \/ Holds(Tail(q), E)
  BY <1>1, <1>2 DEF Holds
<1>4. ASSUME NEW E, Once(q, E)
      PROVE  Once(Tail(q), E) /\ (Head(q) \in E => ~Holds(Tail(q), E))
  BY <1>1, <1>4 DEF Holds, Once
<1>5. ASSUME NEW h, NEW F, Behind(q, h, F)
      PROVE  Head(q) \notin F /\ (Head(q) # h => Behind(Tail(q), h, F))
  <2>1. Head(q) \notin F
    BY <1>1, <1>5 DEF Behind
  <2>2. ASSUME Head(q) # h, NEW j \in 1 .. Len(Tail(q)), Tail(q)[j] \in F
        PROVE  \E i \in 1 .. Len(Tail(q)) : i < j /\ Tail(q)[i] = h
    <3>1. PICK i \in 1 .. Len(q) : i < j + 1 /\ q[i] = h
      BY <1>1, <1>5, <2>2 DEF Behind
    <3>2. i \in 2 .. Len(q)
      BY <1>1, <2>2, <3>1
    <3>3. i - 1 \in 1 .. Len(Tail(q)) /\ i - 1 < j /\ Tail(q)[i - 1] = h
      BY <1>2, <3>1, <3>2
    <3> QED
      BY <3>3
  <2> QED
    BY <2>1, <2>2 DEF Behind
<1> QED
  BY <1>1, <1>3, <1>4, <1>5

-----------------------------------------------------------------------------
(* The table *)

LEMMA Tables ==
  /\ tab[LocalM] = LocalRows /\ tab[ChainM] = ChainRows /\ tab[SwitchM] = SwitchRows
  /\ tab[BeltInMotionM] = BeltRows /\ tab[PerformingM] = PerformingRows
  BY DEF tab, Diagrams, LocalM, ChainM, SwitchM, BeltInMotionM, PerformingM

LEMMA StatesAre ==
  /\ StatesOf(LocalM) = {"SelectLocalMode", "Idle", "BeltInMotion"}
  /\ StatesOf(ChainM) = {"SelectChainMode", "Idle", "HandingOverL", "BeltInMotion", "Waiting",
                         "HandingOverR"}
  /\ StatesOf(SwitchM) = {"startSystem", "Init", "LocalMode", "ChainMode"}
  /\ StatesOf(BeltInMotionM) = {"startBelt", "RampUp", "ConstantVelocity", "RampDown"}
  /\ StatesOf(PerformingM) = {"startPerforming", "Performing"}
<1>1. StatesOf(LocalM) = {"SelectLocalMode", "Idle", "BeltInMotion"}
  BY Tables DEF StatesOf, LocalRows, TableEntry
<1>2. StatesOf(ChainM) = {"SelectChainMode", "Idle", "HandingOverL", "BeltInMotion", "Waiting",
                         "HandingOverR"}
  BY Tables DEF StatesOf, ChainRows, TableEntry
<1>3. StatesOf(SwitchM) = {"startSystem", "Init", "LocalMode", "ChainMode"}
  BY Tables DEF StatesOf, SwitchRows, TableEntry
<1>4. StatesOf(BeltInMotionM) = {"startBelt", "RampUp", "ConstantVelocity", "RampDown"}
  BY Tables DEF StatesOf, BeltRows, TableEntry
<1>5. StatesOf(PerformingM) = {"startPerforming", "Performing"}
  BY Tables DEF StatesOf, PerformingRows, TableEntry
<1> QED
  BY <1>1, <1>2, <1>3, <1>4, <1>5

EventsOf(d) == {r.myEvent : r \in tab[d]}

LEMMA EventsAre ==
  /\ EventsOf(LocalM) = {"LocalModeS", "SetSpeedLocalP", "SetSpeedLocalM", "BeltInMotionL",
                         "BeltInMotionR", "StopBelt", "ChainMode"}
  /\ EventsOf(ChainM) = {"ChainModeS", "LocalMode", "request", "constf", "StopBelt", "wait",
                         "CancelOrder", "ready", "release"}
  /\ EventsOf(SwitchM) = {"InitSystem", "Error", "ChainMode", "LocalMode", "ChainModeL",
                          "LocalModeC"}
  /\ EventsOf(BeltInMotionM) = {"BeltInMotionL", "BeltInMotionR", "StopBelt", "rampupf",
                                "constf", "rampdownf"}
  /\ EventsOf(PerformingM) = {"request", "release"}
<1>1. EventsOf(LocalM) = {"LocalModeS", "SetSpeedLocalP", "SetSpeedLocalM", "BeltInMotionL",
                          "BeltInMotionR", "StopBelt", "ChainMode"}
  BY Tables DEF EventsOf, LocalRows, TableEntry
<1>2. EventsOf(ChainM) = {"ChainModeS", "LocalMode", "request", "constf", "StopBelt", "wait",
                          "CancelOrder", "ready", "release"}
  BY Tables DEF EventsOf, ChainRows, TableEntry
<1>3. EventsOf(SwitchM) = {"InitSystem", "Error", "ChainMode", "LocalMode", "ChainModeL",
                           "LocalModeC"}
  BY Tables DEF EventsOf, SwitchRows, TableEntry
<1>4. EventsOf(BeltInMotionM) = {"BeltInMotionL", "BeltInMotionR", "StopBelt", "rampupf",
                                 "constf", "rampdownf"}
  BY Tables DEF EventsOf, BeltRows, TableEntry
<1>5. EventsOf(PerformingM) = {"request", "release"}
  BY Tables DEF EventsOf, PerformingRows, TableEntry
<1> QED
  BY <1>1, <1>2, <1>3, <1>4, <1>5
-----------------------------------------------------------------------------
(* The transitions, row by row: diagram d, in state from, takes event e to *)
(* the state to.                                                           *)
Takes(d, from, e, to) ==
  /\ diagram = d /\ actualState[d] = from /\ actualEvent = e
  /\ actualState' = [actualState EXCEPT ![d] = to]

Drives == myAction0304(TRUE) \/ myAction0304(FALSE)
EntersChain == EnterMode(FALSE, "ChainModeS")
EntersLocal == EnterMode(TRUE, "LocalModeS")

LocalStep ==
  \/ Takes(LocalM, "SelectLocalMode", "LocalModeS", "Idle") /\ NoEffect
  \/ localMode /\ Takes(LocalM, "Idle", "SetSpeedLocalP", "Idle") /\ myAction01
  \/ localMode /\ Takes(LocalM, "Idle", "SetSpeedLocalM", "Idle") /\ myAction02
  \/ localMode /\ Takes(LocalM, "Idle", "BeltInMotionL", "BeltInMotion") /\ Drives
  \/ localMode /\ Takes(LocalM, "Idle", "BeltInMotionR", "BeltInMotion") /\ Drives
  \/ localMode /\ Takes(LocalM, "BeltInMotion", "StopBelt", "Idle") /\ Stop
  \/ localMode /\ Takes(LocalM, "Idle", "ChainMode", "SelectLocalMode")
               /\ LeaveMode("ChainModeL")

ChainStep ==
  \/ Takes(ChainM, "SelectChainMode", "ChainModeS", "Idle") /\ NoEffect
  \/ chainMode /\ Takes(ChainM, "Idle", "LocalMode", "SelectChainMode")
               /\ LeaveMode("LocalModeC")
  \/ chainMode /\ Takes(ChainM, "Idle", "request", "HandingOverL") /\ myAction12
  \/ chainMode /\ Takes(ChainM, "HandingOverL", "constf", "BeltInMotion") /\ myAction13
  \/ chainMode /\ Takes(ChainM, "BeltInMotion", "StopBelt", "Waiting") /\ myAction14
  \/ chainMode /\ Takes(ChainM, "Waiting", "wait", "Waiting") /\ NoEffect
  \/ chainMode /\ Takes(ChainM, "Waiting", "CancelOrder", "Idle") /\ myAction19
  \/ chainMode /\ Takes(ChainM, "Waiting", "ready", "HandingOverR") /\ myAction1617
  \/ chainMode /\ Takes(ChainM, "HandingOverR", "constf", "HandingOverR") /\ myAction1617
  \/ chainMode /\ Takes(ChainM, "HandingOverR", "release", "Idle") /\ myAction18

SwitchStep ==
  \/ Takes(SwitchM, "startSystem", "InitSystem", "Init") /\ NoEffect
  \/ Takes(SwitchM, "Init", "Error", "Init") /\ NoEffect
  \/ Takes(SwitchM, "Init", "ChainMode", "ChainMode") /\ EntersChain
  \/ Takes(SwitchM, "Init", "LocalMode", "LocalMode") /\ EntersLocal
  \/ Takes(SwitchM, "LocalMode", "ChainModeL", "ChainMode") /\ EntersChain
  \/ Takes(SwitchM, "ChainMode", "LocalModeC", "LocalMode") /\ EntersLocal

BeltStep ==
  \/ Takes(BeltInMotionM, "startBelt", "BeltInMotionL", "RampUp") /\ Phase("RAMPUP")
  \/ Takes(BeltInMotionM, "startBelt", "BeltInMotionR", "RampUp") /\ Phase("RAMPUP")
  \/ Takes(BeltInMotionM, "RampUp", "StopBelt", "startBelt") /\ Stop
  \/ Takes(BeltInMotionM, "RampUp", "rampupf", "ConstantVelocity") /\ Phase("CONSTANTVELOCITY")
  \/ Takes(BeltInMotionM, "ConstantVelocity", "StopBelt", "startBelt") /\ Stop
  \/ Takes(BeltInMotionM, "ConstantVelocity", "constf", "RampDown") /\ Phase("RAMPDOWN")
  \/ Takes(BeltInMotionM, "RampDown", "StopBelt", "startBelt") /\ Stop
  \/ Takes(BeltInMotionM, "RampDown", "rampdownf", "startBelt") /\ myAction36

PerformingStep ==
  \/ chainMode /\ Takes(PerformingM, "startPerforming", "request", "Performing") /\ NoEffect
  \/ chainMode /\ Takes(PerformingM, "Performing", "request", "Performing") /\ myAction41
  \/ chainMode /\ Takes(PerformingM, "Performing", "release", "startPerforming") /\ myAction42

LEMMA Performed ==
  ASSUME NEW k \in Nat, Perform(k)
  PROVE  /\ k \in {0, 10, 15, 20, 21, 40} => NoEffect
         /\ k \in {5, 31, 33, 35} => Stop
         /\ k \in {22, 24} => EntersChain
         /\ k \in {23, 25} => EntersLocal
         /\ k \in {16, 17} => myAction1617
         /\ k \in {3, 4} => Drives
         /\ (k = 1 => myAction01) /\ (k = 2 => myAction02)
         /\ (k = 6 => LeaveMode("ChainModeL")) /\ (k = 11 => LeaveMode("LocalModeC"))
         /\ (k = 12 => myAction12) /\ (k = 13 => myAction13)
         /\ (k = 14 => myAction14) /\ (k = 18 => myAction18)
         /\ (k = 19 => myAction19) /\ (k = 30 => Phase("RAMPUP"))
         /\ (k = 32 => Phase("CONSTANTVELOCITY")) /\ (k = 34 => Phase("RAMPDOWN"))
         /\ (k = 36 => myAction36) /\ (k = 41 => myAction41)
         /\ (k = 42 => myAction42)
  BY DEF Perform, Drives, EntersChain, EntersLocal, myAction0304, setDirection, EnterMode

(* A row with these fields is taken. *)
Fields(r, from, to, e, k, c) ==
  /\ r.actState = from /\ r.nextState = to /\ r.myEvent = e
  /\ r.action = k /\ r.condition = c

RowTaken(from, to, e, k, c) ==
  /\ Takes(diagram, from, e, to)
  /\ Perform(k)
  /\ c = "LocalM" => localMode
  /\ c = "ChainM" => chainMode

LEMMA LocalFields ==
  ASSUME NEW r \in LocalRows
  PROVE  \/ Fields(r, "SelectLocalMode", "Idle", "LocalModeS", 0, "True")
         \/ Fields(r, "Idle", "Idle", "SetSpeedLocalP", 1, "LocalM")
         \/ Fields(r, "Idle", "Idle", "SetSpeedLocalM", 2, "LocalM")
         \/ Fields(r, "Idle", "BeltInMotion", "BeltInMotionL", 3, "LocalM")
         \/ Fields(r, "Idle", "BeltInMotion", "BeltInMotionR", 4, "LocalM")
         \/ Fields(r, "BeltInMotion", "Idle", "StopBelt", 5, "LocalM")
         \/ Fields(r, "Idle", "SelectLocalMode", "ChainMode", 6, "LocalM")
  BY DEF LocalRows, TableEntry, Fields

LEMMA ChainFields ==
  ASSUME NEW r \in ChainRows
  PROVE  \/ Fields(r, "SelectChainMode", "Idle", "ChainModeS", 10, "True")
         \/ Fields(r, "Idle", "SelectChainMode", "LocalMode", 11, "ChainM")
         \/ Fields(r, "Idle", "HandingOverL", "request", 12, "ChainM")
         \/ Fields(r, "HandingOverL", "BeltInMotion", "constf", 13, "ChainM")
         \/ Fields(r, "BeltInMotion", "Waiting", "StopBelt", 14, "ChainM")
         \/ Fields(r, "Waiting", "Waiting", "wait", 15, "ChainM")
         \/ Fields(r, "Waiting", "Idle", "CancelOrder", 19, "ChainM")
         \/ Fields(r, "Waiting", "HandingOverR", "ready", 16, "ChainM")
         \/ Fields(r, "HandingOverR", "HandingOverR", "constf", 17, "ChainM")
         \/ Fields(r, "HandingOverR", "Idle", "release", 18, "ChainM")
  BY DEF ChainRows, TableEntry, Fields

LEMMA SwitchFields ==
  ASSUME NEW r \in SwitchRows
  PROVE  \/ Fields(r, "startSystem", "Init", "InitSystem", 20, "True")
         \/ Fields(r, "Init", "Init", "Error", 21, "True")
         \/ Fields(r, "Init", "ChainMode", "ChainMode", 22, "True")
         \/ Fields(r, "Init", "LocalMode", "LocalMode", 23, "True")
         \/ Fields(r, "LocalMode", "ChainMode", "ChainModeL", 24, "True")
         \/ Fields(r, "ChainMode", "LocalMode", "LocalModeC", 25, "True")
  BY DEF SwitchRows, TableEntry, Fields

LEMMA BeltFields ==
  ASSUME NEW r \in BeltRows
  PROVE  \/ Fields(r, "startBelt", "RampUp", "BeltInMotionL", 30, "True")
         \/ Fields(r, "startBelt", "RampUp", "BeltInMotionR", 30, "True")
         \/ Fields(r, "RampUp", "startBelt", "StopBelt", 31, "True")
         \/ Fields(r, "RampUp", "ConstantVelocity", "rampupf", 32, "True")
         \/ Fields(r, "ConstantVelocity", "startBelt", "StopBelt", 33, "True")
         \/ Fields(r, "ConstantVelocity", "RampDown", "constf", 34, "True")
         \/ Fields(r, "RampDown", "startBelt", "StopBelt", 35, "True")
         \/ Fields(r, "RampDown", "startBelt", "rampdownf", 36, "True")
  BY DEF BeltRows, TableEntry, Fields

LEMMA PerformingFields ==
  ASSUME NEW r \in PerformingRows
  PROVE  \/ Fields(r, "startPerforming", "Performing", "request", 40, "ChainM")
         \/ Fields(r, "Performing", "Performing", "request", 41, "ChainM")
         \/ Fields(r, "Performing", "startPerforming", "release", 42, "ChainM")
  BY DEF PerformingRows, TableEntry, Fields

(* A transition is one of a row of its diagram, and offers the event to    *)
(* the next diagrams.                                                      *)
LEMMA TransitionByRow ==
  ASSUME Transition, diagram \in Diagrams
  PROVE  /\ actualEvent # NoEvent
         /\ LocalStep \/ ChainStep \/ SwitchStep \/ BeltStep \/ PerformingStep
         /\ UNCHANGED <<call, commandsLeft>>
         /\ Goto(diagram + 1, actualEvent)
<1>1. PICK r \in tab[diagram] :
        /\ r.actState = actualState[diagram] /\ r.myEvent = actualEvent
        /\ Condition(r.condition, localMode, chainMode)
        /\ actualState' = [actualState EXCEPT ![diagram] = r.nextState]
        /\ Perform(r.action)
  BY DEF Transition, Matching
<1>2. ASSUME NEW from, NEW to, NEW e, NEW k, NEW c, Fields(r, from, to, e, k, c)
      PROVE  RowTaken(from, to, e, k, c)
  BY <1>1, <1>2 DEF Fields, RowTaken, Takes, Condition
<1>3. ASSUME diagram = LocalM PROVE LocalStep
  <2>1. r \in LocalRows
    BY <1>1, <1>3, Tables
  <2> QED
    BY <1>2, <1>3, <2>1, LocalFields, Performed DEF RowTaken, LocalStep
<1>4. ASSUME diagram = ChainM PROVE ChainStep
  <2>1. r \in ChainRows
    BY <1>1, <1>4, Tables
  <2> QED
    BY <1>2, <1>4, <2>1, ChainFields, Performed DEF RowTaken, ChainStep
<1>5. ASSUME diagram = SwitchM PROVE SwitchStep
  <2>1. r \in SwitchRows
    BY <1>1, <1>5, Tables
  <2> QED
    BY <1>2, <1>5, <2>1, SwitchFields, Performed DEF RowTaken, SwitchStep
<1>6. ASSUME diagram = BeltInMotionM PROVE BeltStep
  <2>1. r \in BeltRows
    BY <1>1, <1>6, Tables
  <2> QED
    BY <1>2, <1>6, <2>1, BeltFields, Performed DEF RowTaken, BeltStep
<1>7. ASSUME diagram = PerformingM PROVE PerformingStep
  <2>1. r \in PerformingRows
    BY <1>1, <1>7, Tables
  <2> QED
    BY <1>2, <1>7, <2>1, PerformingFields, Performed DEF RowTaken, PerformingStep
<1>8. diagram \in {LocalM, ChainM, SwitchM, BeltInMotionM, PerformingM}
  BY DEF Diagrams, LocalM, ChainM, SwitchM, BeltInMotionM, PerformingM
<1> QED
  BY <1>3, <1>4, <1>5, <1>6, <1>7, <1>8 DEF Transition
(* The diagram with which the main task goes on. *)
LEMMA GoneTo ==
  ASSUME NEW d \in 0 .. 5, NEW e, Goto(d, e)
  PROVE  /\ diagram' \in (d .. 4) \cup {5}
         /\ diagram' = 5 => actualEvent' = NoEvent
         /\ diagram' # 5 =>
              /\ actualEvent' = e
              /\ Matching(diagram', e, actualState', localMode', chainMode') # {}
         /\ \A k \in d .. 4 :
              k < diagram' => Matching(k, e, actualState', localMode', chainMode') = {}
  BY DEF Goto

-----------------------------------------------------------------------------
(* Type correctness *)
TypeInv == TypeOK /\ (diagram = 5 <=> actualEvent = NoEvent)

(* What a transition action may change. *)
EffectOK ==
  /\ queue \in Seq(AllEvents)
  /\ localMode \in BOOLEAN /\ chainMode \in BOOLEAN
  /\ myBufferSfd \in Buffer
  /\ profile \in {"none", "local", "chain", "handingOver"}
  /\ direction \in BOOLEAN
  /\ localA \in {100 * k : k \in 10 .. 22}
  /\ phase \in Phases
  /\ client \in [Sfds -> {"idle", "asked", "ready", "refused"}]
  /\ right \in {"idle", "asked", "waited", "ready"}

LEMMA AllEventsAre ==
  ASSUME NEW d \in Diagrams
  PROVE  EventsOf(d) \subseteq AllEvents
  BY DEF EventsOf, AllEvents

LEMMA EventNames ==
  {"ChainModeL", "LocalModeC", "ChainModeS", "LocalModeS", "InitSystem", "ChainMode",
   "LocalMode", "SetSpeedLocalP", "SetSpeedLocalM", "Error", "BeltInMotionL", "BeltInMotionR",
   "StopBelt", "CancelOrder", "request", "wait", "ready", "release", "rampupf", "constf",
   "rampdownf"} \subseteq AllEvents
<1>1. {LocalM, ChainM, SwitchM, BeltInMotionM} \subseteq Diagrams
  BY DEF Diagrams, LocalM, ChainM, SwitchM, BeltInMotionM
<1> QED
  BY <1>1, EventsAre, AllEventsAre

LEMMA SendTypes ==
  ASSUME TypeOK, NEW s, NEW answer \in {"READY", "RELEASE", "WAIT", "NOTFOUND"},
         Send(answer, s)
  PROVE  client' \in [Sfds -> {"idle", "asked", "ready", "refused"}]
<1>1. ASSUME s \in Sfds, <<answer, client[s]>> \in Awaited
      PROVE  After(answer, client[s]) \in {"idle", "asked", "ready", "refused"}
  BY <1>1 DEF Awaited, After, TypeOK
<1> QED
  BY <1>1 DEF Send, TypeOK, left

LEMMA SpeedTypes ==
  ASSUME TypeOK, myAction01 \/ myAction02
  PROVE  localA' \in {100 * k : k \in 10 .. 22}
<1>1. PICK k \in 10 .. 22 : localA = 100 * k
  BY DEF TypeOK
<1>2. CASE myAction01
  <2>1. k < 22 => k + 1 \in 10 .. 22 /\ localA + 100 = 100 * (k + 1)
    BY <1>1
  <2>2. localA' = IF localA + 100 > 2200 THEN 100 * 22 ELSE localA + 100
    BY <1>2 DEF myAction01, setA
  <2> QED
    BY <1>1, <2>1, <2>2
<1>3. CASE myAction02
  <2>1. k > 10 => k - 1 \in 10 .. 22 /\ localA - 100 = 100 * (k - 1)
    BY <1>1
  <2>2. localA' = IF localA - 100 < 1000 THEN 100 * 10 ELSE localA - 100
    BY <1>3 DEF myAction02, setA
  <2> QED
    BY <1>1, <2>1, <2>2
<1> QED
  BY <1>2, <1>3

LEMMA ActionTypes ==
  ASSUME TypeOK,
         \/ NoEffect \/ myAction01 \/ myAction02 \/ Drives \/ Stop
         \/ LeaveMode("ChainModeL") \/ LeaveMode("LocalModeC")
         \/ myAction12 \/ myAction13 \/ myAction14 \/ myAction1617 \/ myAction18 \/ myAction19
         \/ EntersChain \/ EntersLocal
         \/ Phase("RAMPUP") \/ Phase("CONSTANTVELOCITY") \/ Phase("RAMPDOWN")
         \/ myAction36 \/ myAction41 \/ myAction42
  PROVE  EffectOK'
<1> USE DEF EffectOK, sendEvent, NoSend, SetPhase, setSpeedToZero, Run, Outside, modes, drive, left
<1>0. EffectOK
  BY DEF TypeOK
<1>1. \A e \in {"ChainModeL", "LocalModeC", "ChainModeS", "LocalModeS", "BeltInMotionR",
                "release", "StopBelt", "request"} : Append(queue, e) \in Seq(AllEvents)
  BY EventNames, Appended DEF TypeOK
<1>2. CASE NoEffect
  BY <1>0, <1>2 DEF NoEffect
<1>3. CASE myAction01 \/ myAction02
  BY <1>0, <1>3, SpeedTypes DEF myAction01, myAction02, setA
<1>4. CASE Drives
  BY <1>0, <1>4 DEF Drives, myAction0304, setDirection
<1>5. CASE Stop \/ myAction18
  BY <1>0, <1>5 DEF Stop, myAction18, Phases
<1>6. CASE LeaveMode("ChainModeL") \/ LeaveMode("LocalModeC") \/ myAction19
  BY <1>0, <1>1, <1>6 DEF LeaveMode, myAction19
<1>7. CASE myAction12
  BY <1>0, <1>7, SendTypes DEF myAction12, Phases
<1>8. CASE myAction13
  BY <1>0, <1>1, <1>8, SendTypes DEF myAction13, Phases
<1>9. CASE myAction14
  BY <1>0, <1>9 DEF myAction14, AskRight, Phases
<1>10. CASE myAction1617
  BY <1>0, <1>10 DEF myAction1617, Phases
<1>11. CASE EntersChain \/ EntersLocal
  BY <1>0, <1>1, <1>11 DEF EntersChain, EntersLocal, EnterMode
<1>12. CASE Phase("RAMPUP") \/ Phase("CONSTANTVELOCITY") \/ Phase("RAMPDOWN")
  BY <1>0, <1>12 DEF Phase, Phases
<1>13. CASE myAction36
  BY <1>0, <1>1, <1>13 DEF myAction36, Phases
<1>14. CASE myAction41
  BY <1>0, <1>14, SendTypes, ClearKeepsBuffer DEF myAction41
<1>15. CASE myAction42
  BY <1>0, <1>1, <1>15, ShiftKeepsBuffer DEF myAction42
<1> QED
  BY <1>2, <1>3, <1>4, <1>5, <1>6, <1>7, <1>8, <1>9, <1>10, <1>11, <1>12, <1>13, <1>14, <1>15
LEMMA FirstStates ==
  /\ FirstState[LocalM] = "SelectLocalMode" /\ FirstState[ChainM] = "SelectChainMode"
  /\ FirstState[SwitchM] = "startSystem" /\ FirstState[BeltInMotionM] = "startBelt"
  /\ FirstState[PerformingM] = "startPerforming"
  BY DEF FirstState, Diagrams, LocalM, ChainM, SwitchM, BeltInMotionM, PerformingM

LEMMA TypesInit == Init => TypeInv
<1> SUFFICES ASSUME Init PROVE TypeInv
  OBVIOUS
<1>2. Diagrams = {LocalM, ChainM, SwitchM, BeltInMotionM, PerformingM}
  BY DEF Diagrams, LocalM, ChainM, SwitchM, BeltInMotionM, PerformingM
<1>3. \A d \in Diagrams : FirstState[d] \in StatesOf(d)
  BY <1>2, FirstStates, StatesAre
<1>4. FirstState \in [Diagrams -> UNION {StatesOf(d) : d \in Diagrams}]
  <2> DEFINE first(d) == CASE d = LocalM -> "SelectLocalMode"
                           [] d = ChainM -> "SelectChainMode"
                           [] d = SwitchM -> "startSystem"
                           [] d = BeltInMotionM -> "startBelt"
                           [] d = PerformingM -> "startPerforming"
  <2>1. FirstState = [d \in Diagrams |-> first(d)]
    BY DEF FirstState
  <2> HIDE DEF first
  <2> QED
    BY <1>3, <2>1
<1>5. queue \in Seq(AllEvents)
  <2>1. queue = <<"InitSystem">> /\ "InitSystem" \in AllEvents
    BY EventNames DEF Init
  <2> QED
    BY <2>1
<1>6. myBufferSfd \in Buffer
  BY NewIsBuffer DEF Init
<1>7. localA \in {100 * k : k \in 10 .. 22}
  <2>1. localA = 100 * 16 /\ 16 \in 10 .. 22
    BY DEF Init
  <2> QED
    BY <2>1
<1>8. localMode \in BOOLEAN /\ chainMode \in BOOLEAN /\ direction \in BOOLEAN
  BY DEF Init
<1>9. /\ actualEvent = NoEvent /\ diagram = 5 /\ diagram \in 0 .. 5
      /\ actualEvent \in AllEvents \cup {NoEvent}
      /\ actualState \in [Diagrams -> UNION {StatesOf(d) : d \in Diagrams}]
      /\ \A d \in Diagrams : actualState[d] \in StatesOf(d)
  BY <1>3, <1>4 DEF Init
<1>10. /\ call \in [Callers -> AllEvents \cup {NoEvent}]
       /\ profile \in {"none", "local", "chain", "handingOver"}
       /\ phase \in Phases /\ right \in {"idle", "asked", "waited", "ready"}
       /\ client \in [Sfds -> {"idle", "asked", "ready", "refused"}]
       /\ commandsLeft \in 0 .. MaxCommands
  BY BeltAssumption DEF Init, Phases
<1> QED
  BY <1>5, <1>6, <1>7, <1>8, <1>9, <1>10 DEF TypeInv, TypeOK

LEMMA DiagramTypes ==
  ASSUME NEW d \in 0 .. 5, NEW e \in AllEvents, Goto(d, e)
  PROVE  /\ diagram' \in 0 .. 5 /\ actualEvent' \in AllEvents \cup {NoEvent}
         /\ diagram' = 5 <=> actualEvent' = NoEvent
  BY GoneTo, NoEventAssumption

(* A transition moves a diagram to another of its states.                  *)
LEMMA Moves ==
  ASSUME TypeOK, LocalStep \/ ChainStep \/ SwitchStep \/ BeltStep \/ PerformingStep
  PROVE  \E d \in Diagrams : \E to \in StatesOf(d) : actualState' = [actualState EXCEPT ![d] = to]
<1>1. {LocalM, ChainM, SwitchM, BeltInMotionM, PerformingM} \subseteq Diagrams
  BY DEF Diagrams, LocalM, ChainM, SwitchM, BeltInMotionM, PerformingM
<1>2. CASE LocalStep
  BY <1>1, <1>2, StatesAre DEF LocalStep, Takes
<1>3. CASE ChainStep
  BY <1>1, <1>3, StatesAre DEF ChainStep, Takes
<1>4. CASE SwitchStep
  BY <1>1, <1>4, StatesAre DEF SwitchStep, Takes
<1>5. CASE BeltStep
  BY <1>1, <1>5, StatesAre DEF BeltStep, Takes
<1>6. CASE PerformingStep
  BY <1>1, <1>6, StatesAre DEF PerformingStep, Takes
<1> QED
  BY <1>2, <1>3, <1>4, <1>5, <1>6

LEMMA TransitionTypes ==
  ASSUME TypeInv, Transition
  PROVE  TypeInv'
<1>1. diagram \in Diagrams /\ actualEvent \in AllEvents
  BY DEF TypeInv, TypeOK, Transition, Diagrams
<1>2. /\ LocalStep \/ ChainStep \/ SwitchStep \/ BeltStep \/ PerformingStep
      /\ UNCHANGED <<call, commandsLeft>>
      /\ Goto(diagram + 1, actualEvent)
  BY <1>1, TransitionByRow
<1>3. EffectOK'
  BY <1>2, ActionTypes DEF TypeInv, LocalStep, ChainStep, SwitchStep, BeltStep, PerformingStep
<1>4. /\ actualState' \in [Diagrams -> UNION {StatesOf(d) : d \in Diagrams}]
      /\ \A d \in Diagrams : actualState'[d] \in StatesOf(d)
  <2>0. PICK d \in Diagrams :
          \E to \in StatesOf(d) : actualState' = [actualState EXCEPT ![d] = to]
    BY <1>2, Moves DEF TypeInv
  <2>1. PICK to \in StatesOf(d) : actualState' = [actualState EXCEPT ![d] = to]
    BY <2>0
  <2>2. to \in UNION {StatesOf(k) : k \in Diagrams}
    BY <2>1
  <2> QED
    BY <2>1, <2>2 DEF TypeInv, TypeOK
<1>5. /\ diagram' \in 0 .. 5 /\ actualEvent' \in AllEvents \cup {NoEvent}
      /\ diagram' = 5 <=> actualEvent' = NoEvent
  <2>1. diagram + 1 \in 0 .. 5
    BY <1>1 DEF Diagrams
  <2> QED
    BY <1>1, <1>2, <2>1, DiagramTypes
<1> QED
  BY <1>2, <1>3, <1>4, <1>5 DEF TypeInv, TypeOK, EffectOK

LEMMA TakeTypes ==
  ASSUME TypeInv, TakeEvent
  PROVE  TypeInv'
<1>1. Tail(queue) \in Seq(AllEvents) /\ Head(queue) \in AllEvents
  BY Taken DEF TypeInv, TypeOK, TakeEvent
<1>2. /\ diagram' \in 0 .. 5 /\ actualEvent' \in AllEvents \cup {NoEvent}
      /\ diagram' = 5 <=> actualEvent' = NoEvent
  BY <1>1, DiagramTypes DEF TakeEvent
<1> QED
  BY <1>1, <1>2 DEF TypeInv, TypeOK, TakeEvent, modes, drive, left

(* What the other tasks, the neighbours and the drive leave alone, and     *)
(* what they put into the queue.                                           *)
Asynchronous ==
  \/ \E command \in Commands : Command(command)
  \/ \E s \in Sfds : Request(s) \/ GiveUp(s)
  \/ RightWait \/ RightReady \/ RightRelease
  \/ \E c \in Callers : CallerSends(c)
  \/ PhaseEnds

LEMMA EventOfTypes ==
  ASSUME NEW command \in Commands
  PROVE  EventOf(command) \in {NoEvent, "ChainMode", "LocalMode", "SetSpeedLocalP",
           "SetSpeedLocalM", "Error", "BeltInMotionL", "BeltInMotionR", "StopBelt", "CancelOrder"}
  BY BeltAssumption DEF EventOf

LEMMA AsynchronousTypes ==
  ASSUME TypeInv, Asynchronous
  PROVE  TypeInv'
<1> USE DEF TypeInv, TypeOK, machine, modes, drive, left
<1>1. ASSUME NEW command \in Commands, Command(command)
      PROVE  TypeInv'
  <2>1. EventOf(command) \in AllEvents \cup {NoEvent} /\ Operator \in Callers
    BY EventOfTypes, EventNames DEF Callers
  <2>2. call' \in [Callers -> AllEvents \cup {NoEvent}]
    BY <1>1, <2>1 DEF Command, Calls
  <2>3. commandsLeft' \in 0 .. MaxCommands
    BY <1>1, BeltAssumption DEF Command
  <2> QED
    BY <1>1, <2>2, <2>3 DEF Command
<1>2. ASSUME NEW s \in Sfds, Request(s)
      PROVE  TypeInv'
  <2> DEFINE turnedAway == ~localMode /\ Refused(myBufferSfd, s)
  <2>1. /\ myBufferSfd' = IF localMode THEN myBufferSfd ELSE Insert(myBufferSfd, s)
        /\ client' = [client EXCEPT ![s] = IF turnedAway THEN "refused" ELSE "asked"]
        /\ Calls(s, IF turnedAway THEN NoEvent ELSE "request")
        /\ UNCHANGED <<machine, modes, drive, right, commandsLeft>>
    BY <1>2 DEF Request
  <2>2. myBufferSfd' \in Buffer
    BY <2>1, InsertKeepsBuffer
  <2>3. "request" \in AllEvents /\ s \in Callers
    BY EventNames DEF Callers
  <2>4. call' \in [Callers -> AllEvents \cup {NoEvent}]
    BY <2>1, <2>3 DEF Calls
  <2>5. client' \in [Sfds -> {"idle", "asked", "ready", "refused"}]
    BY <2>1
  <2> QED
    BY <2>1, <2>2, <2>4, <2>5
<1>3. ASSUME NEW s \in Sfds, GiveUp(s)
      PROVE  TypeInv'
  BY <1>3 DEF GiveUp
<1>4. CASE RightWait \/ RightReady \/ RightRelease
  <2>1. {"wait", "ready", "release"} \subseteq AllEvents /\ RightReader \in Callers
    BY EventNames DEF Callers
  <2> QED
    BY <1>4, <2>1 DEF RightWait, RightReady, RightRelease, RightAnswers, Calls
<1>5. ASSUME NEW c \in Callers, CallerSends(c)
      PROVE  TypeInv'
  <2>1. queue' \in Seq(AllEvents)
    BY <1>5, Appended DEF CallerSends
  <2> QED
    BY <1>5, <2>1 DEF CallerSends
<1>6. CASE PhaseEnds
  <2>1. Completion[phase] \in {"rampupf", "constf", "rampdownf"}
    BY <1>6 DEF PhaseEnds, Completion, Phases
  <2>2. queue' \in Seq(AllEvents)
    BY <1>6, <2>1, EventNames, Appended DEF PhaseEnds
  <2> QED
    BY <1>6, <2>2 DEF PhaseEnds, Phases
<1> QED
  BY <1>1, <1>2, <1>3, <1>4, <1>5, <1>6 DEF Asynchronous

LEMMA TypesStep == TypeInv /\ [Next]_vars => TypeInv'
<1>1. TypeInv /\ UNCHANGED vars => TypeInv'
  BY DEF TypeInv, TypeOK, vars, machine, modes, drive, left
<1>2. Next => TakeEvent \/ Transition \/ Asynchronous
  BY DEF Next, Asynchronous
<1> QED
  BY <1>1, <1>2, TakeTypes, TransitionTypes, AsynchronousTypes

(* Every event that is queued is one of the table's, the buffer is a       *)
(* buffer and the speed stays in its bounds, whatever the operator and the *)
(* neighbours do (systemManager.cpp:28-85, 330-350).                       *)
THEOREM TypeCorrect == Safety => []TypeOK
<1>1. TypeInv => TypeOK
  BY DEF TypeInv
<1> QED
  BY <1>1, TypesInit, TypesStep, PTL DEF Safety
-----------------------------------------------------------------------------
(* How the events of a set E come and go *)

LEMMA DiagramsAre ==
  /\ LocalM \in Diagrams /\ ChainM \in Diagrams /\ SwitchM \in Diagrams
  /\ BeltInMotionM \in Diagrams /\ PerformingM \in Diagrams
  /\ LocalM = 0 /\ ChainM = 1 /\ SwitchM = 2 /\ BeltInMotionM = 3 /\ PerformingM = 4
  BY DEF Diagrams, LocalM, ChainM, SwitchM, BeltInMotionM, PerformingM

LEMMA StatesTyped ==
  ASSUME TypeOK
  PROVE  /\ actualState[LocalM] \in {"SelectLocalMode", "Idle", "BeltInMotion"}
         /\ actualState[ChainM] \in {"SelectChainMode", "Idle", "HandingOverL", "BeltInMotion",
                                     "Waiting", "HandingOverR"}
         /\ actualState[SwitchM] \in {"startSystem", "Init", "LocalMode", "ChainMode"}
         /\ actualState[BeltInMotionM] \in {"startBelt", "RampUp", "ConstantVelocity",
                                            "RampDown"}
         /\ actualState[PerformingM] \in {"startPerforming", "Performing"}
  BY StatesAre, DiagramsAre DEF TypeOK

(* The other diagrams keep their states. *)
LEMMA Moved ==
  ASSUME TypeOK, NEW d \in Diagrams, NEW from, NEW e, NEW to, Takes(d, from, e, to)
  PROVE  /\ diagram = d /\ actualState[d] = from /\ actualEvent = e /\ actualState'[d] = to
         /\ \A k \in Diagrams \ {d} : actualState'[k] = actualState[k]
  BY DEF Takes, TypeOK

(* There is no row for an event the diagram does not know. *)
LEMMA NoRow ==
  ASSUME NEW k \in Diagrams, NEW e, e \notin EventsOf(k)
  PROVE  \A states, isLocal, isChain : Matching(k, e, states, isLocal, isChain) = {}
  BY DEF Matching, EventsOf

(* A transition hands its event on, or it was the last one. *)
LEMMA HandsOn ==
  ASSUME TypeInv, Transition
  PROVE  actualEvent' \in {actualEvent, NoEvent}
<1>1. diagram + 1 \in 0 .. 5
  BY DEF Transition, TypeInv, TypeOK
<1> QED
  BY <1>1, GoneTo DEF Transition

(* The next step puts no event of E into the queue. *)
Adds(e) == queue' = Append(queue, e)
Keeps(E) ==
  \/ /\ actualEvent' \in {actualEvent, NoEvent}
     /\ queue' = queue \/ \E e \in AllEvents \ E : Adds(e)
  \/ TakeEvent

(* At most one event of E is queued or worked on. *)
Single(E) == Once(queue, E) /\ (actualEvent \in E => ~Holds(queue, E))

(* The event that is taken is worked on, or no diagram knows it. *)
LEMMA HeadTaken ==
  ASSUME TypeOK, TakeEvent
  PROVE  actualEvent' \in {Head(queue), NoEvent}
  BY GoneTo DEF TakeEvent

LEMMA Kept ==
  ASSUME TypeOK, NEW E, E \subseteq AllEvents, Keeps(E)
  PROVE  /\ Pending(E)' => Pending(E)
         /\ Single(E) => Single(E)'
<1>0. queue \in Seq(AllEvents) /\ NoEvent \notin E
  BY NoEventAssumption DEF TypeOK
<1>1. CASE actualEvent' \in {actualEvent, NoEvent} /\ queue' = queue
  BY <1>0, <1>1 DEF Pending, Single
<1>2. CASE actualEvent' \in {actualEvent, NoEvent} /\ \E e \in AllEvents \ E : Adds(e)
  <2>1. PICK e \in AllEvents \ E : queue' = Append(queue, e)
    BY <1>2 DEF Adds
  <2>2. /\ Holds(queue', E) <=> Holds(queue, E)
        /\ Once(queue, E) => Once(queue', E)
    BY <1>0, <2>1, Appended
  <2> QED
    BY <1>0, <1>2, <2>2 DEF Pending, Single
<1>3. CASE TakeEvent
  <2>1. /\ actualEvent = NoEvent /\ queue # <<>> /\ queue' = Tail(queue)
        /\ actualEvent' \in {Head(queue), NoEvent}
    BY <1>3, HeadTaken DEF TakeEvent
  <2>2. /\ Holds(queue, E) <=> Head(queue) \in E \/ Holds(queue', E)
        /\ Once(queue, E) => Once(queue', E) /\ (Head(queue) \in E => ~Holds(queue', E))
    BY <1>0, <2>1, Taken
  <2> QED
    BY <1>0, <2>1, <2>2 DEF Pending, Single
<1> QED
  BY <1>1, <1>2, <1>3 DEF Keeps

(* What the steps of the other tasks leave alone. *)
LEMMA AsynchronousLeaves ==
  ASSUME TypeOK, Asynchronous
  PROVE  /\ UNCHANGED <<actualEvent, diagram, actualState, localMode, chainMode>>
         /\ \/ queue' = queue
            \/ \E c \in Callers : /\ call[c] # NoEvent /\ Adds(call[c])
                                  /\ call' = [call EXCEPT ![c] = NoEvent]
            \/ phase # "STOPMOTOR" /\ Adds(Completion[phase]) /\ call' = call
<1> USE DEF machine, modes
<1>1. CASE \E command \in Commands : Command(command)
  BY <1>1 DEF Command
<1>2. CASE \E s \in Sfds : Request(s) \/ GiveUp(s)
  BY <1>2 DEF Request, GiveUp
<1>3. CASE RightWait \/ RightReady \/ RightRelease
  BY <1>3 DEF RightWait, RightReady, RightRelease, RightAnswers
<1>4. CASE \E c \in Callers : CallerSends(c)
  BY <1>4 DEF CallerSends, Adds
<1>5. CASE PhaseEnds
  BY <1>5 DEF PhaseEnds, Adds
<1> QED
  BY <1>1, <1>2, <1>3, <1>4, <1>5 DEF Asynchronous

LEMMA AsynchronousKeeps ==
  ASSUME TypeOK, Asynchronous, NEW E, ~Called(E), E \cap {"rampupf", "constf", "rampdownf"} = {}
  PROVE  Keeps(E)
<1>1. actualEvent' = actualEvent
  BY AsynchronousLeaves
<1>2. CASE queue' = queue
  BY <1>1, <1>2 DEF Keeps
<1>3. ASSUME NEW c \in Callers, call[c] # NoEvent, Adds(call[c])
      PROVE  Keeps(E)
  <2>1. call[c] \in AllEvents \ E
    BY <1>3 DEF Called, TypeOK
  <2> QED
    BY <1>1, <1>3, <2>1 DEF Keeps
<1>4. CASE phase # "STOPMOTOR" /\ Adds(Completion[phase])
  <2>1. Completion[phase] \in {"rampupf", "constf", "rampdownf"}
    BY <1>4 DEF Completion, Phases, TypeOK
  <2>2. Completion[phase] \in AllEvents \ E
    BY <2>1, EventNames
  <2> QED
    BY <1>1, <1>4, <2>2 DEF Keeps
<1> QED
  BY <1>2, <1>3, <1>4, AsynchronousLeaves

(* What a task can be about to send after its step. *)
Requests == {"ChainMode", "LocalMode", "SetSpeedLocalP", "SetSpeedLocalM", "Error",
             "BeltInMotionL", "BeltInMotionR", "StopBelt", "CancelOrder", "request", "wait",
             "ready", "release"}

LEMMA AsynchronousCalls ==
  ASSUME TypeOK, Asynchronous
  PROVE  \A c \in Callers : call'[c] \in {call[c], NoEvent} \cup Requests
<1>1. ASSUME NEW command \in Commands, Command(command), NEW c \in Callers
      PROVE  call'[c] \in {call[c], NoEvent} \cup Requests
  <2>1. EventOf(command) \in {NoEvent} \cup Requests
    BY EventOfTypes DEF Requests
  <2> QED
    BY <1>1, <2>1 DEF Command, Calls, TypeOK
<1>2. ASSUME NEW s \in Sfds, Request(s), NEW c \in Callers
      PROVE  call'[c] \in {call[c], NoEvent} \cup Requests
  <2>1. \E e \in {NoEvent, "request"} : Calls(s, e)
    BY <1>2 DEF Request
  <2> QED
    BY <2>1 DEF Calls, TypeOK, Requests
<1>3. ASSUME NEW s \in Sfds, GiveUp(s), NEW c \in Callers
      PROVE  call'[c] \in {call[c], NoEvent} \cup Requests
  BY <1>3 DEF GiveUp
<1>4. ASSUME RightWait \/ RightReady \/ RightRelease, NEW c \in Callers
      PROVE  call'[c] \in {call[c], NoEvent} \cup Requests
  BY <1>4 DEF RightWait, RightReady, RightRelease, RightAnswers, Calls, TypeOK, Requests
<1>5. ASSUME NEW k \in Callers, CallerSends(k), NEW c \in Callers
      PROVE  call'[c] \in {call[c], NoEvent} \cup Requests
  BY <1>5 DEF CallerSends, TypeOK
<1>6. ASSUME PhaseEnds, NEW c \in Callers
      PROVE  call'[c] \in {call[c], NoEvent} \cup Requests
  BY <1>6 DEF PhaseEnds
<1> QED
  BY <1>1, <1>2, <1>3, <1>4, <1>5, <1>6 DEF Asynchronous
-----------------------------------------------------------------------------
(* The isolation of the modes *)

LEMMA ModeInit == Init => ModeInv
<1> SUFFICES ASSUME Init PROVE ModeInv
  OBVIOUS
<1>1. /\ queue = <<"InitSystem">> /\ actualEvent = NoEvent /\ \A c \in Callers : call[c] = NoEvent
      /\ NoEvent \notin ModeTokens
  BY EventNames, NoEventAssumption DEF Init, ModeTokens
<1>2. ~Holds(queue, ModeTokens) /\ Once(queue, ModeTokens) /\ ~Pending(ModeTokens)
  BY <1>1 DEF Holds, Once, Pending, ModeTokens
<1>3. ~Called(ModeTokens)
  BY <1>1 DEF Called
<1>4. /\ actualState[LocalM] = "SelectLocalMode" /\ actualState[ChainM] = "SelectChainMode"
      /\ actualState[SwitchM] = "startSystem"
  BY FirstStates DEF Init
<1>5. ~localMode /\ ~chainMode
  BY DEF Init
<1> QED
  BY <1>2, <1>3, <1>4, <1>5 DEF ModeInv, OneToken, BeforeModes

LEMMA TokensAreEvents == ModeTokens \subseteq AllEvents
  BY EventNames DEF ModeTokens

(* Steps that neither pass a token nor activate or leave a mode diagram.   *)
LEMMA ModeKept ==
  ASSUME TypeInv, ModeInv, Keeps(ModeTokens), call' = call \/ ~Called(ModeTokens)',
         UNCHANGED modes,
         actualState'[LocalM] = "SelectLocalMode" <=> actualState[LocalM] = "SelectLocalMode",
         actualState'[ChainM] = "SelectChainMode" <=> actualState[ChainM] = "SelectChainMode",
         \/ actualState'[SwitchM] = actualState[SwitchM]
         \/ actualState[SwitchM] = "startSystem" /\ actualState'[SwitchM] = "Init"
  PROVE  ModeInv'
<1>1. ~Called(ModeTokens)'
  BY DEF ModeInv, OneToken, Called
<1>2. Single(ModeTokens) /\ OneToken
  BY DEF ModeInv, OneToken, Single
<1>3. OneToken'
  BY <1>1, <1>2, Kept, TokensAreEvents DEF OneToken, Single, TypeInv
<1>4. Pending(ModeTokens)' => Pending(ModeTokens)
  BY Kept, TokensAreEvents DEF TypeInv
<1>5. ASSUME NEW E, E \subseteq ModeTokens
      PROVE  Pending(E)' => Pending(E)
  <2>1. Keeps(E)
    BY <1>5 DEF Keeps
  <2>2. E \subseteq AllEvents
    BY <1>5, TokensAreEvents
  <2> QED
    BY <2>1, <2>2, Kept DEF TypeInv
<1>6. /\ Pending({"LocalModeC", "ChainModeS"})' => Pending({"LocalModeC", "ChainModeS"})
      /\ Pending({"ChainModeL", "LocalModeS"})' => Pending({"ChainModeL", "LocalModeS"})
  <2>1. {"LocalModeC", "ChainModeS"} \subseteq ModeTokens /\ {"ChainModeL", "LocalModeS"} \subseteq ModeTokens
    BY DEF ModeTokens
  <2> QED
    BY <1>5, <2>1
<1>7. localMode' = localMode /\ chainMode' = chainMode
  BY DEF modes
<1>8. actualState'[SwitchM] \in {"startSystem", "Init"} => BeforeModes'
  BY <1>4, <1>7 DEF ModeInv, BeforeModes
<1>9. actualState'[SwitchM] = "LocalMode" => InLocalMode'
  BY <1>4, <1>6, <1>7 DEF ModeInv, InLocalMode
<1>10. actualState'[SwitchM] = "ChainMode" => InChainMode'
  BY <1>4, <1>6, <1>7 DEF ModeInv, InChainMode
<1> QED
  BY <1>3, <1>8, <1>9, <1>10 DEF ModeInv

(* A token that has been worked on is gone. *)
LEMMA TokenSpent ==
  ASSUME TypeInv, Transition,
         \/ actualEvent = "LocalModeS" /\ diagram = LocalM
         \/ actualEvent = "ChainModeS" /\ diagram = ChainM
         \/ actualEvent \in {"ChainModeL", "LocalModeC"} /\ diagram = SwitchM
  PROVE  actualEvent' = NoEvent
<1>1. ASSUME NEW k \in Diagrams, k > diagram
      PROVE  actualEvent \notin EventsOf(k)
  <2>1. k \in {LocalM, ChainM, SwitchM, BeltInMotionM, PerformingM} /\ LocalM = 0 /\ ChainM = 1
        /\ SwitchM = 2 /\ BeltInMotionM = 3 /\ PerformingM = 4
    BY DEF Diagrams, LocalM, ChainM, SwitchM, BeltInMotionM, PerformingM
  <2> QED
    BY <1>1, <2>1, EventsAre
<1>2. diagram + 1 \in 0 .. 5 /\ \A k \in (diagram + 1) .. 4 : k \in Diagrams /\ k > diagram
  BY DiagramsAre DEF Diagrams
<1>3. \A k \in (diagram + 1) .. 4 :
        Matching(k, actualEvent, actualState', localMode', chainMode') = {}
  BY <1>1, <1>2, NoRow
<1>4. diagram' = 5
  BY <1>2, <1>3, GoneTo DEF Transition
<1> QED
  BY <1>2, <1>4, GoneTo DEF Transition
LEMMA ModeAsynchronous ==
  ASSUME TypeInv, ModeInv, Asynchronous
  PROVE  ModeInv'
<1>1. ~Called(ModeTokens) /\ ModeTokens \cap {"rampupf", "constf", "rampdownf"} = {}
  BY DEF ModeInv, OneToken, ModeTokens
<1>2. Keeps(ModeTokens)
  BY <1>1, AsynchronousKeeps DEF TypeInv
<1>3. ~Called(ModeTokens)'
  <2>1. NoEvent \notin ModeTokens /\ ModeTokens \cap Requests = {}
    BY TokensAreEvents, NoEventAssumption DEF ModeTokens, Requests
  <2>2. \A c \in Callers : call[c] \notin ModeTokens
    BY <1>1 DEF Called
  <2>3. \A c \in Callers : call'[c] \notin ModeTokens
    BY <2>1, <2>2, AsynchronousCalls DEF TypeInv
  <2> QED
    BY <2>3 DEF Called
<1> QED
  BY <1>2, <1>3, AsynchronousLeaves, ModeKept DEF TypeInv, modes

LEMMA ModeTake ==
  ASSUME TypeInv, ModeInv, TakeEvent
  PROVE  ModeInv'
<1>1. Keeps(ModeTokens) /\ call' = call /\ UNCHANGED modes /\ actualState' = actualState
  BY DEF TakeEvent, Keeps
<1> QED
  BY <1>1, ModeKept

(* What the transition actions queue and which mode they set. *)
Quiet == \/ NoEffect \/ myAction01 \/ myAction02 \/ Drives \/ Stop \/ myAction12 \/ myAction14
         \/ myAction1617 \/ myAction18 \/ myAction41
         \/ Phase("RAMPUP") \/ Phase("CONSTANTVELOCITY") \/ Phase("RAMPDOWN")

LEMMA ActionsQueue ==
  /\ Quiet => queue' = queue /\ UNCHANGED modes
  /\ LeaveMode("ChainModeL") => Adds("ChainModeL") /\ UNCHANGED modes
  /\ LeaveMode("LocalModeC") => Adds("LocalModeC") /\ UNCHANGED modes
  /\ myAction13 => Adds("BeltInMotionR") /\ UNCHANGED modes
  /\ myAction19 => Adds("release") /\ UNCHANGED modes
  /\ myAction36 => Adds("StopBelt") /\ UNCHANGED modes
  /\ myAction42 => (queue' = queue \/ Adds("request")) /\ UNCHANGED modes
  /\ EntersChain => Adds("ChainModeS") /\ ~localMode' /\ chainMode'
  /\ EntersLocal => Adds("LocalModeS") /\ localMode' /\ ~chainMode'
<1> USE DEF NoSend, sendEvent, Adds
<1>1. Quiet => queue' = queue /\ UNCHANGED modes
  BY DEF Quiet, NoEffect, myAction01, myAction02, Drives, Stop, myAction12, myAction14,
         myAction1617, myAction18, myAction41, Phase, myAction0304
<1>2. /\ LeaveMode("ChainModeL") => Adds("ChainModeL") /\ UNCHANGED modes
      /\ LeaveMode("LocalModeC") => Adds("LocalModeC") /\ UNCHANGED modes
      /\ myAction13 => Adds("BeltInMotionR") /\ UNCHANGED modes
      /\ myAction19 => Adds("release") /\ UNCHANGED modes
      /\ myAction36 => Adds("StopBelt") /\ UNCHANGED modes
      /\ myAction42 => (queue' = queue \/ Adds("request")) /\ UNCHANGED modes
  BY DEF LeaveMode, myAction13, myAction19, myAction36, myAction42
<1>3. /\ EntersChain => Adds("ChainModeS") /\ ~localMode' /\ chainMode'
      /\ EntersLocal => Adds("LocalModeS") /\ localMode' /\ ~chainMode'
  BY DEF EntersChain, EntersLocal, EnterMode
<1> QED
  BY <1>1, <1>2, <1>3

(* A transition action that passes no token. *)
LEMMA NoTokenPassed ==
  ASSUME TypeInv, Transition,
         Quiet \/ myAction13 \/ myAction19 \/ myAction36 \/ myAction42
  PROVE  Keeps(ModeTokens) /\ UNCHANGED modes
<1>1. {"BeltInMotionR", "release", "StopBelt", "request"} \subseteq AllEvents \ ModeTokens
  BY EventNames DEF ModeTokens
<1> QED
  BY <1>1, HandsOn, ActionsQueue DEF Keeps

LEMMA ModeTransition ==
  ASSUME TypeInv, ModeInv, Transition
  PROVE  ModeInv'
<1>0. /\ TypeOK /\ queue \in Seq(AllEvents) /\ diagram \in Diagrams
      /\ NoEvent \notin ModeTokens
  BY TokensAreEvents, NoEventAssumption DEF TypeInv, TypeOK, Transition, Diagrams
<1>1. /\ LocalStep \/ ChainStep \/ SwitchStep \/ BeltStep \/ PerformingStep
      /\ call' = call /\ actualEvent' \in {actualEvent, NoEvent}
  BY <1>0, TransitionByRow, HandsOn
<1>2. /\ OneToken
      /\ actualState[SwitchM] \in {"startSystem", "Init"} => BeforeModes
      /\ actualState[SwitchM] = "LocalMode" => InLocalMode
      /\ actualState[SwitchM] = "ChainMode" => InChainMode
      /\ actualState[SwitchM] \in {"startSystem", "Init", "LocalMode", "ChainMode"}
  BY <1>0, StatesTyped DEF ModeInv
<1>3. ~Called(ModeTokens)'
  BY <1>1, <1>2 DEF OneToken, Called
(* A token passed on is the only one. *)
<1>4. ASSUME NEW e \in ModeTokens, Adds(e), ~Holds(queue, ModeTokens),
             actualEvent' \notin ModeTokens
      PROVE  OneToken' /\ \A E : E \subseteq ModeTokens /\ e \notin E => ~Pending(E)'
  <2>1. /\ \A E : Holds(queue', E) <=> Holds(queue, E) \/ e \in E
        /\ Once(queue, ModeTokens) => Once(queue', ModeTokens)
    BY <1>0, <1>4, Appended, TokensAreEvents DEF Adds
  <2>2. \A E : E \subseteq ModeTokens => ~Holds(queue, E) /\ actualEvent' \notin E
    BY <1>4 DEF Holds
  <2> QED
    BY <1>2, <1>3, <1>4, <2>1, <2>2 DEF OneToken, Pending
<1>5. CASE LocalStep
  <2>1. CASE Takes(LocalM, "SelectLocalMode", "LocalModeS", "Idle") /\ NoEffect
    <3>1. /\ diagram = LocalM /\ actualEvent = "LocalModeS" /\ actualState'[LocalM] = "Idle"
          /\ actualState'[ChainM] = actualState[ChainM]
          /\ actualState'[SwitchM] = actualState[SwitchM]
      BY <1>0, <2>1, Moved, DiagramsAre
    <3>2. queue' = queue /\ localMode' = localMode /\ chainMode' = chainMode
      BY <2>1, ActionsQueue DEF Quiet, modes
    <3>3. actualEvent' = NoEvent
      BY <3>1, TokenSpent
    <3>4. /\ Pending({"LocalModeS"}) /\ Pending(ModeTokens)
          /\ Pending({"ChainModeL", "LocalModeS"})
          /\ \A E : E \subseteq ModeTokens => ~Pending(E)'
      BY <1>0, <1>2, <3>1, <3>2, <3>3 DEF Pending, ModeTokens, OneToken, Holds
    <3>5. actualState[SwitchM] = "LocalMode"
      BY <1>2, <3>4 DEF BeforeModes, InChainMode
    <3>6. OneToken'
      BY <1>0, <1>2, <1>3, <3>2, <3>3 DEF OneToken
    <3>7. ~Pending(ModeTokens)' /\ ~Pending({"LocalModeC", "ChainModeS"})'
      BY <3>4 DEF ModeTokens
    <3> QED
      BY <1>2, <3>1, <3>2, <3>5, <3>6, <3>7 DEF ModeInv, InLocalMode
  <2>2. CASE /\ localMode
             /\ \/ Takes(LocalM, "Idle", "SetSpeedLocalP", "Idle") /\ myAction01
                \/ Takes(LocalM, "Idle", "SetSpeedLocalM", "Idle") /\ myAction02
                \/ Takes(LocalM, "Idle", "BeltInMotionL", "BeltInMotion") /\ Drives
                \/ Takes(LocalM, "Idle", "BeltInMotionR", "BeltInMotion") /\ Drives
                \/ Takes(LocalM, "BeltInMotion", "StopBelt", "Idle") /\ Stop
    <3>1. /\ actualState[LocalM] # "SelectLocalMode" /\ actualState'[LocalM] # "SelectLocalMode"
          /\ actualState'[ChainM] = actualState[ChainM]
          /\ actualState'[SwitchM] = actualState[SwitchM]
      BY <1>0, <2>2, Moved, DiagramsAre
    <3>2. Keeps(ModeTokens) /\ UNCHANGED modes
      BY <2>2, NoTokenPassed DEF Quiet
    <3> QED
      BY <1>1, <3>1, <3>2, ModeKept
  <2>3. CASE localMode /\ Takes(LocalM, "Idle", "ChainMode", "SelectLocalMode")
             /\ LeaveMode("ChainModeL")
    <3>1. /\ actualState[LocalM] = "Idle" /\ actualState'[LocalM] = "SelectLocalMode"
          /\ actualEvent = "ChainMode"
          /\ actualState'[ChainM] = actualState[ChainM]
          /\ actualState'[SwitchM] = actualState[SwitchM]
      BY <1>0, <2>3, Moved, DiagramsAre
    <3>2. Adds("ChainModeL") /\ localMode' = localMode /\ chainMode' = chainMode
      BY <2>3, ActionsQueue DEF modes
    <3>3. actualState[SwitchM] = "LocalMode" /\ ~Pending(ModeTokens)
      BY <1>2, <2>3, <3>1 DEF BeforeModes, InLocalMode, InChainMode
    <3>4. ~Holds(queue, ModeTokens) /\ actualEvent' \notin ModeTokens
      BY <1>0, <1>1, <3>1, <3>3 DEF Pending, ModeTokens
    <3>5. "ChainModeL" \in ModeTokens /\ {"LocalModeC", "ChainModeS"} \subseteq ModeTokens
      BY DEF ModeTokens
    <3>6. OneToken' /\ ~Pending({"LocalModeC", "ChainModeS"})'
      BY <1>4, <3>2, <3>4, <3>5
    <3> QED
      BY <1>2, <3>1, <3>2, <3>3, <3>6 DEF ModeInv, InLocalMode
  <2> QED
    BY <1>5, <2>1, <2>2, <2>3 DEF LocalStep
<1>6. CASE ChainStep
  <2>1. CASE Takes(ChainM, "SelectChainMode", "ChainModeS", "Idle") /\ NoEffect
    <3>1. /\ diagram = ChainM /\ actualEvent = "ChainModeS" /\ actualState'[ChainM] = "Idle"
          /\ actualState'[LocalM] = actualState[LocalM]
          /\ actualState'[SwitchM] = actualState[SwitchM]
      BY <1>0, <2>1, Moved, DiagramsAre
    <3>2. queue' = queue /\ localMode' = localMode /\ chainMode' = chainMode
      BY <2>1, ActionsQueue DEF Quiet, modes
    <3>3. actualEvent' = NoEvent
      BY <3>1, TokenSpent
    <3>4. /\ Pending(ModeTokens) /\ Pending({"LocalModeC", "ChainModeS"})
          /\ \A E : E \subseteq ModeTokens => ~Pending(E)'
      BY <1>0, <1>2, <3>1, <3>2, <3>3 DEF Pending, ModeTokens, OneToken, Holds
    <3>5. actualState[SwitchM] = "ChainMode"
      BY <1>2, <3>4 DEF BeforeModes, InLocalMode
    <3>6. OneToken'
      BY <1>0, <1>2, <1>3, <3>2, <3>3 DEF OneToken
    <3>7. ~Pending(ModeTokens)' /\ ~Pending({"ChainModeL", "LocalModeS"})'
      BY <3>4 DEF ModeTokens
    <3> QED
      BY <1>2, <3>1, <3>2, <3>5, <3>6, <3>7 DEF ModeInv, InChainMode
  <2>2. CASE chainMode /\ Takes(ChainM, "Idle", "LocalMode", "SelectChainMode")
             /\ LeaveMode("LocalModeC")
    <3>1. /\ actualState[ChainM] = "Idle" /\ actualState'[ChainM] = "SelectChainMode"
          /\ actualEvent = "LocalMode"
          /\ actualState'[LocalM] = actualState[LocalM]
          /\ actualState'[SwitchM] = actualState[SwitchM]
      BY <1>0, <2>2, Moved, DiagramsAre
    <3>2. Adds("LocalModeC") /\ localMode' = localMode /\ chainMode' = chainMode
      BY <2>2, ActionsQueue DEF modes
    <3>3. actualState[SwitchM] = "ChainMode" /\ ~Pending(ModeTokens)
      BY <1>2, <2>2, <3>1 DEF BeforeModes, InLocalMode, InChainMode
    <3>4. ~Holds(queue, ModeTokens) /\ actualEvent' \notin ModeTokens
      BY <1>0, <1>1, <3>1, <3>3 DEF Pending, ModeTokens
    <3>5. "LocalModeC" \in ModeTokens /\ {"ChainModeL", "LocalModeS"} \subseteq ModeTokens
      BY DEF ModeTokens
    <3>6. OneToken' /\ ~Pending({"ChainModeL", "LocalModeS"})'
      BY <1>4, <3>2, <3>4, <3>5
    <3> QED
      BY <1>2, <3>1, <3>2, <3>3, <3>6 DEF ModeInv, InChainMode
  <2>3. CASE /\ actualState[ChainM] # "SelectChainMode" /\ actualState'[ChainM] # "SelectChainMode"
             /\ Quiet \/ myAction13 \/ myAction19
    <3>1. /\ actualState'[LocalM] = actualState[LocalM]
          /\ actualState'[SwitchM] = actualState[SwitchM]
      <4>1. \E from, e, to : Takes(ChainM, from, e, to)
        BY <1>6 DEF ChainStep
      <4> QED
        BY <1>0, <4>1, Moved, DiagramsAre
    <3>2. Keeps(ModeTokens) /\ UNCHANGED modes
      BY <2>3, NoTokenPassed
    <3> QED
      BY <1>1, <2>3, <3>1, <3>2, ModeKept
  <2> QED
    BY <1>0, <1>6, <2>1, <2>2, <2>3, Moved, DiagramsAre DEF ChainStep, Quiet
<1>7. CASE SwitchStep
  <2>1. /\ diagram = SwitchM
        /\ actualState'[LocalM] = actualState[LocalM]
        /\ actualState'[ChainM] = actualState[ChainM]
    <3>1. \E from, e, to : Takes(SwitchM, from, e, to)
      BY <1>7 DEF SwitchStep
    <3> QED
      BY <1>0, <3>1, Moved, DiagramsAre
  <2>2. CASE \/ Takes(SwitchM, "startSystem", "InitSystem", "Init") /\ NoEffect
             \/ Takes(SwitchM, "Init", "Error", "Init") /\ NoEffect
    <3>1. \/ actualState'[SwitchM] = actualState[SwitchM]
          \/ actualState[SwitchM] = "startSystem" /\ actualState'[SwitchM] = "Init"
      BY <1>0, <2>2, Moved, DiagramsAre
    <3>2. Keeps(ModeTokens) /\ UNCHANGED modes
      BY <2>2, NoTokenPassed DEF Quiet
    <3> QED
      BY <1>1, <2>1, <3>1, <3>2, ModeKept
  <2>3. CASE \/ Takes(SwitchM, "Init", "ChainMode", "ChainMode") /\ EntersChain
             \/ Takes(SwitchM, "LocalMode", "ChainModeL", "ChainMode") /\ EntersChain
    <3>1. /\ actualState'[SwitchM] = "ChainMode" /\ actualState[SwitchM] \in {"Init", "LocalMode"}
          /\ actualState[SwitchM] = "LocalMode" => actualEvent = "ChainModeL"
          /\ actualEvent \in {"ChainMode", "ChainModeL"}
      BY <1>0, <2>3, Moved, DiagramsAre
    <3>2. Adds("ChainModeS") /\ ~localMode' /\ chainMode'
      BY <2>3, ActionsQueue
    <3>3. actualState[LocalM] = "SelectLocalMode" /\ actualState[ChainM] = "SelectChainMode"
      BY <1>2, <3>1 DEF BeforeModes, InLocalMode, Pending, ModeTokens
    <3>4. ~Holds(queue, ModeTokens) /\ actualEvent' \notin ModeTokens
      <4>1. CASE actualEvent = "ChainModeL"
        BY <1>0, <1>2, <2>1, <4>1, TokenSpent DEF OneToken, ModeTokens
      <4>2. CASE actualEvent = "ChainMode"
        BY <1>0, <1>1, <1>2, <3>1, <4>2 DEF BeforeModes, Pending, ModeTokens
      <4> QED
        BY <3>1, <4>1, <4>2
    <3>5. "ChainModeS" \in ModeTokens /\ {"ChainModeL", "LocalModeS"} \subseteq ModeTokens
      BY DEF ModeTokens
    <3>6. OneToken' /\ ~Pending({"ChainModeL", "LocalModeS"})'
      BY <1>4, <3>2, <3>4, <3>5
    <3> QED
      BY <2>1, <3>1, <3>2, <3>3, <3>6 DEF ModeInv, InChainMode
  <2>4. CASE \/ Takes(SwitchM, "Init", "LocalMode", "LocalMode") /\ EntersLocal
             \/ Takes(SwitchM, "ChainMode", "LocalModeC", "LocalMode") /\ EntersLocal
    <3>1. /\ actualState'[SwitchM] = "LocalMode" /\ actualState[SwitchM] \in {"Init", "ChainMode"}
          /\ actualState[SwitchM] = "ChainMode" => actualEvent = "LocalModeC"
          /\ actualEvent \in {"LocalMode", "LocalModeC"}
      BY <1>0, <2>4, Moved, DiagramsAre
    <3>2. Adds("LocalModeS") /\ localMode' /\ ~chainMode'
      BY <2>4, ActionsQueue
    <3>3. actualState[LocalM] = "SelectLocalMode" /\ actualState[ChainM] = "SelectChainMode"
      BY <1>2, <3>1 DEF BeforeModes, InChainMode, Pending, ModeTokens
    <3>4. ~Holds(queue, ModeTokens) /\ actualEvent' \notin ModeTokens
      <4>1. CASE actualEvent = "LocalModeC"
        BY <1>0, <1>2, <2>1, <4>1, TokenSpent DEF OneToken, ModeTokens
      <4>2. CASE actualEvent = "LocalMode"
        BY <1>0, <1>1, <1>2, <3>1, <4>2 DEF BeforeModes, Pending, ModeTokens
      <4> QED
        BY <3>1, <4>1, <4>2
    <3>5. "LocalModeS" \in ModeTokens /\ {"LocalModeC", "ChainModeS"} \subseteq ModeTokens
      BY DEF ModeTokens
    <3>6. OneToken' /\ ~Pending({"LocalModeC", "ChainModeS"})'
      BY <1>4, <3>2, <3>4, <3>5
    <3> QED
      BY <2>1, <3>1, <3>2, <3>3, <3>6 DEF ModeInv, InLocalMode
  <2> QED
    BY <1>7, <2>2, <2>3, <2>4 DEF SwitchStep
<1>8. CASE BeltStep \/ PerformingStep
  <2>1. /\ actualState'[LocalM] = actualState[LocalM]
        /\ actualState'[ChainM] = actualState[ChainM]
        /\ actualState'[SwitchM] = actualState[SwitchM]
    <3>1. \E from, e, to : Takes(BeltInMotionM, from, e, to) \/ Takes(PerformingM, from, e, to)
      BY <1>8 DEF BeltStep, PerformingStep
    <3> QED
      BY <1>0, <3>1, Moved, DiagramsAre
  <2>2. Quiet \/ myAction36 \/ myAction42
    BY <1>8 DEF BeltStep, PerformingStep, Quiet
  <2>3. Keeps(ModeTokens) /\ UNCHANGED modes
    BY <2>2, NoTokenPassed
  <2> QED
    BY <1>1, <2>1, <2>3, ModeKept
<1> QED
  BY <1>1, <1>5, <1>6, <1>7, <1>8

LEMMA ModeStep == TypeInv /\ ModeInv /\ [Next]_vars => ModeInv'
<1>1. ModeInv /\ UNCHANGED vars => ModeInv'
  BY DEF ModeInv, OneToken, BeforeModes, InLocalMode, InChainMode, Called, Pending,
         vars, machine, modes
<1>2. Next => TakeEvent \/ Transition \/ Asynchronous
  BY DEF Next, Asynchronous
<1> QED
  BY <1>1, <1>2, ModeTake, ModeTransition, ModeAsynchronous

LEMMA ModeInvSuffices == TypeInv /\ ModeInv => ModeIsolation
  BY StatesTyped DEF TypeInv, ModeInv, BeforeModes, InLocalMode, InChainMode, ModeIsolation

(* Whatever the operator and the neighbours do, the two mode diagrams are  *)
(* never active together, and each is active only while its mode is set    *)
(* (systemManager.cpp:29-46, 389-408, 506-533).                            *)
THEOREM ModesAreIsolated == Safety => []ModeIsolation
  BY TypesInit, TypesStep, ModeInit, ModeStep, ModeInvSuffices, PTL DEF Safety
-----------------------------------------------------------------------------
(* Which rows there are for the events that matter below *)

LEMMA HasRow ==
  ASSUME NEW d \in Diagrams, NEW e, NEW states, NEW isLocal, NEW isChain
  PROVE  Matching(d, e, states, isLocal, isChain) # {}
           <=> \E r \in tab[d] : /\ r.actState = states[d] /\ r.myEvent = e
                                 /\ Condition(r.condition, isLocal, isChain)
  BY DEF Matching

LEMMA LocalHears ==
  ASSUME NEW e, NEW states, NEW isLocal, NEW isChain
  PROVE  Matching(LocalM, e, states, isLocal, isChain) # {}
           <=> \/ states[LocalM] = "SelectLocalMode" /\ e = "LocalModeS"
               \/ /\ Condition("LocalM", isLocal, isChain)
                  /\ \/ /\ states[LocalM] = "Idle"
                        /\ e \in {"SetSpeedLocalP", "SetSpeedLocalM", "BeltInMotionL",
                                  "BeltInMotionR", "ChainMode"}
                     \/ states[LocalM] = "BeltInMotion" /\ e = "StopBelt"
<1>1. Matching(LocalM, e, states, isLocal, isChain) # {}
        <=> \E r \in LocalRows : /\ r.actState = states[LocalM] /\ r.myEvent = e
                             /\ Condition(r.condition, isLocal, isChain)
  BY HasRow, DiagramsAre, Tables
<1>2. ASSUME NEW r \in LocalRows, r.actState = states[LocalM], r.myEvent = e,
             Condition(r.condition, isLocal, isChain)
      PROVE  \/ states[LocalM] = "SelectLocalMode" /\ e = "LocalModeS"
             \/ /\ Condition("LocalM", isLocal, isChain)
                /\ \/ /\ states[LocalM] = "Idle"
                      /\ e \in {"SetSpeedLocalP", "SetSpeedLocalM", "BeltInMotionL",
                                "BeltInMotionR", "ChainMode"}
                   \/ states[LocalM] = "BeltInMotion" /\ e = "StopBelt"
  BY <1>2, LocalFields DEF Fields
<1>3. /\ \E r \in LocalRows : /\ r.actState = "SelectLocalMode" /\ r.myEvent = "LocalModeS"
                           /\ r.condition = "True"
      /\ \E r \in LocalRows : /\ r.actState = "Idle" /\ r.myEvent = "SetSpeedLocalP"
                           /\ r.condition = "LocalM"
      /\ \E r \in LocalRows : /\ r.actState = "Idle" /\ r.myEvent = "SetSpeedLocalM"
                           /\ r.condition = "LocalM"
      /\ \E r \in LocalRows : /\ r.actState = "Idle" /\ r.myEvent = "BeltInMotionL"
                           /\ r.condition = "LocalM"
      /\ \E r \in LocalRows : /\ r.actState = "Idle" /\ r.myEvent = "BeltInMotionR"
                           /\ r.condition = "LocalM"
      /\ \E r \in LocalRows : /\ r.actState = "BeltInMotion" /\ r.myEvent = "StopBelt"
                           /\ r.condition = "LocalM"
      /\ \E r \in LocalRows : /\ r.actState = "Idle" /\ r.myEvent = "ChainMode"
                           /\ r.condition = "LocalM"
  BY DEF LocalRows, TableEntry
<1>4. Condition("True", isLocal, isChain)
  BY DEF Condition
<1> QED
  BY <1>1, <1>2, <1>3, <1>4

LEMMA ChainHears ==
  ASSUME NEW e, NEW states, NEW isLocal, NEW isChain
  PROVE  Matching(ChainM, e, states, isLocal, isChain) # {}
           <=> \/ states[ChainM] = "SelectChainMode" /\ e = "ChainModeS"
               \/ /\ Condition("ChainM", isLocal, isChain)
                  /\ \/ states[ChainM] = "Idle" /\ e \in {"LocalMode", "request"}
                     \/ states[ChainM] = "HandingOverL" /\ e = "constf"
                     \/ states[ChainM] = "BeltInMotion" /\ e = "StopBelt"
                     \/ states[ChainM] = "Waiting" /\ e \in {"wait", "CancelOrder", "ready"}
                     \/ states[ChainM] = "HandingOverR" /\ e \in {"constf", "release"}
<1>1. Matching(ChainM, e, states, isLocal, isChain) # {}
        <=> \E r \in ChainRows : /\ r.actState = states[ChainM] /\ r.myEvent = e
                             /\ Condition(r.condition, isLocal, isChain)
  BY HasRow, DiagramsAre, Tables
<1>2. ASSUME NEW r \in ChainRows, r.actState = states[ChainM], r.myEvent = e,
             Condition(r.condition, isLocal, isChain)
      PROVE  \/ states[ChainM] = "SelectChainMode" /\ e = "ChainModeS"
             \/ /\ Condition("ChainM", isLocal, isChain)
                /\ \/ states[ChainM] = "Idle" /\ e \in {"LocalMode", "request"}
                   \/ states[ChainM] = "HandingOverL" /\ e = "constf"
                   \/ states[ChainM] = "BeltInMotion" /\ e = "StopBelt"
                   \/ states[ChainM] = "Waiting" /\ e \in {"wait", "CancelOrder", "ready"}
                   \/ states[ChainM] = "HandingOverR" /\ e \in {"constf", "release"}
  BY <1>2, ChainFields DEF Fields
<1>3. /\ \E r \in ChainRows : /\ r.actState = "SelectChainMode" /\ r.myEvent = "ChainModeS"
                           /\ r.condition = "True"
      /\ \E r \in ChainRows : /\ r.actState = "Idle" /\ r.myEvent = "LocalMode"
                           /\ r.condition = "ChainM"
      /\ \E r \in ChainRows : /\ r.actState = "Idle" /\ r.myEvent = "request"
                           /\ r.condition = "ChainM"
      /\ \E r \in ChainRows : /\ r.actState = "HandingOverL" /\ r.myEvent = "constf"
                           /\ r.condition = "ChainM"
      /\ \E r \in ChainRows : /\ r.actState = "BeltInMotion" /\ r.myEvent = "StopBelt"
                           /\ r.condition = "ChainM"
      /\ \E r \in ChainRows : /\ r.actState = "Waiting" /\ r.myEvent = "wait"
                           /\ r.condition = "ChainM"
      /\ \E r \in ChainRows : /\ r.actState = "Waiting" /\ r.myEvent = "CancelOrder"
                           /\ r.condition = "ChainM"
      /\ \E r \in ChainRows : /\ r.actState = "Waiting" /\ r.myEvent = "ready"
                           /\ r.condition = "ChainM"
      /\ \E r \in ChainRows : /\ r.actState = "HandingOverR" /\ r.myEvent = "constf"
                           /\ r.condition = "ChainM"
      /\ \E r \in ChainRows : /\ r.actState = "HandingOverR" /\ r.myEvent = "release"
                           /\ r.condition = "ChainM"
  BY DEF ChainRows, TableEntry
<1>4. Condition("True", isLocal, isChain)
  BY DEF Condition
<1> QED
  BY <1>1, <1>2, <1>3, <1>4

LEMMA BeltHears ==
  ASSUME NEW e, NEW states, NEW isLocal, NEW isChain
  PROVE  Matching(BeltInMotionM, e, states, isLocal, isChain) # {}
           <=> \/ /\ states[BeltInMotionM] = "startBelt"
                  /\ e \in {"BeltInMotionL", "BeltInMotionR"}
               \/ states[BeltInMotionM] = "RampUp" /\ e \in {"StopBelt", "rampupf"}
               \/ states[BeltInMotionM] = "ConstantVelocity" /\ e \in {"StopBelt", "constf"}
               \/ states[BeltInMotionM] = "RampDown" /\ e \in {"StopBelt", "rampdownf"}
<1>1. Matching(BeltInMotionM, e, states, isLocal, isChain) # {}
        <=> \E r \in BeltRows : /\ r.actState = states[BeltInMotionM] /\ r.myEvent = e
                             /\ Condition(r.condition, isLocal, isChain)
  BY HasRow, DiagramsAre, Tables
<1>2. ASSUME NEW r \in BeltRows, r.actState = states[BeltInMotionM], r.myEvent = e,
             Condition(r.condition, isLocal, isChain)
      PROVE  \/ /\ states[BeltInMotionM] = "startBelt"
                /\ e \in {"BeltInMotionL", "BeltInMotionR"}
             \/ states[BeltInMotionM] = "RampUp" /\ e \in {"StopBelt", "rampupf"}
             \/ states[BeltInMotionM] = "ConstantVelocity" /\ e \in {"StopBelt", "constf"}
             \/ states[BeltInMotionM] = "RampDown" /\ e \in {"StopBelt", "rampdownf"}
  BY <1>2, BeltFields DEF Fields
<1>3. /\ \E r \in BeltRows : /\ r.actState = "startBelt" /\ r.myEvent = "BeltInMotionL"
                           /\ r.condition = "True"
      /\ \E r \in BeltRows : /\ r.actState = "startBelt" /\ r.myEvent = "BeltInMotionR"
                           /\ r.condition = "True"
      /\ \E r \in BeltRows : /\ r.actState = "RampUp" /\ r.myEvent = "StopBelt"
                           /\ r.condition = "True"
      /\ \E r \in BeltRows : /\ r.actState = "RampUp" /\ r.myEvent = "rampupf"
                           /\ r.condition = "True"
      /\ \E r \in BeltRows : /\ r.actState = "ConstantVelocity" /\ r.myEvent = "StopBelt"
                           /\ r.condition = "True"
      /\ \E r \in BeltRows : /\ r.actState = "ConstantVelocity" /\ r.myEvent = "constf"
                           /\ r.condition = "True"
      /\ \E r \in BeltRows : /\ r.actState = "RampDown" /\ r.myEvent = "StopBelt"
                           /\ r.condition = "True"
      /\ \E r \in BeltRows : /\ r.actState = "RampDown" /\ r.myEvent = "rampdownf"
                           /\ r.condition = "True"
  BY DEF BeltRows, TableEntry
<1>4. Condition("True", isLocal, isChain)
  BY DEF Condition
<1> QED
  BY <1>1, <1>2, <1>3, <1>4

LEMMA PerformingHears ==
  ASSUME NEW e, NEW states, NEW isLocal, NEW isChain
  PROVE  Matching(PerformingM, e, states, isLocal, isChain) # {}
           <=> /\ Condition("ChainM", isLocal, isChain)
               /\ \/ states[PerformingM] = "startPerforming" /\ e = "request"
                  \/ states[PerformingM] = "Performing" /\ e \in {"request", "release"}
<1>1. Matching(PerformingM, e, states, isLocal, isChain) # {}
        <=> \E r \in PerformingRows : /\ r.actState = states[PerformingM] /\ r.myEvent = e
                             /\ Condition(r.condition, isLocal, isChain)
  BY HasRow, DiagramsAre, Tables
<1>2. ASSUME NEW r \in PerformingRows, r.actState = states[PerformingM], r.myEvent = e,
             Condition(r.condition, isLocal, isChain)
      PROVE  /\ Condition("ChainM", isLocal, isChain)
             /\ \/ states[PerformingM] = "startPerforming" /\ e = "request"
                \/ states[PerformingM] = "Performing" /\ e \in {"request", "release"}
  BY <1>2, PerformingFields DEF Fields
<1>3. /\ \E r \in PerformingRows : /\ r.actState = "startPerforming" /\ r.myEvent = "request"
                           /\ r.condition = "ChainM"
      /\ \E r \in PerformingRows : /\ r.actState = "Performing" /\ r.myEvent = "request"
                           /\ r.condition = "ChainM"
      /\ \E r \in PerformingRows : /\ r.actState = "Performing" /\ r.myEvent = "release"
                           /\ r.condition = "ChainM"
  BY DEF PerformingRows, TableEntry
<1>4. Condition("True", isLocal, isChain)
  BY DEF Condition
<1> QED
  BY <1>1, <1>2, <1>3, <1>4
(* An event that no later diagram knows is done with. *)
LEMMA LastDiagram ==
  ASSUME TypeInv, Transition,
         \A k \in Diagrams :
           k > diagram => Matching(k, actualEvent, actualState', localMode', chainMode') = {}
  PROVE  actualEvent' = NoEvent
<1>1. diagram + 1 \in 0 .. 5 /\ \A k \in (diagram + 1) .. 4 : k \in Diagrams /\ k > diagram
  BY DEF Transition, TypeInv, TypeOK, Diagrams
<1>2. diagram' = 5
  BY <1>1, GoneTo DEF Transition
<1> QED
  BY <1>1, <1>2, GoneTo DEF Transition

(* The diagram that works first on an event that is taken. *)
LEMMA FirstDiagram ==
  ASSUME TypeOK, TakeEvent, NEW d \in Diagrams,
         Matching(d, Head(queue), actualState, localMode, chainMode) # {},
         \A k \in Diagrams :
           k < d => Matching(k, Head(queue), actualState, localMode, chainMode) = {}
  PROVE  diagram' = d /\ actualEvent' = Head(queue)
<1>1. Goto(0, Head(queue)) /\ UNCHANGED <<actualState, localMode, chainMode>>
  BY DEF TakeEvent, modes
<1>2. d \in 0 .. 4 /\ d \in Nat
  BY DEF Diagrams
<1>3. /\ diagram' \in (0 .. 4) \cup {5}
      /\ diagram' # 5 => /\ actualEvent' = Head(queue)
                         /\ Matching(diagram', Head(queue), actualState, localMode, chainMode) # {}
      /\ \A k \in 0 .. 4 :
           k < diagram' => Matching(k, Head(queue), actualState, localMode, chainMode) = {}
  BY <1>1, GoneTo
<1>4. diagram' <= d
  BY <1>2, <1>3
<1>5. diagram' \in Diagrams /\ diagram' # 5 /\ ~(diagram' < d)
  BY <1>2, <1>3, <1>4 DEF Diagrams
<1> QED
  BY <1>2, <1>3, <1>4, <1>5

(* The steps that a transition can be. *)
LEMMA TransitionIs ==
  ASSUME TypeInv, Transition
  PROVE  /\ diagram \in Diagrams
         /\ LocalStep \/ ChainStep \/ SwitchStep \/ BeltStep \/ PerformingStep
         /\ call' = call /\ commandsLeft' = commandsLeft
<1>1. diagram \in Diagrams
  BY DEF TypeInv, TypeOK, Transition, Diagrams
<1> QED
  BY <1>1, TransitionByRow

(* What the transitions put into the queue. *)
LEMMA TransitionAdds ==
  ASSUME TypeInv, Transition
  PROVE  \/ queue' = queue
         \/ \E e \in {"ChainModeL", "LocalModeC", "ChainModeS", "LocalModeS", "BeltInMotionR",
                      "release", "StopBelt", "request"} : Adds(e)
<1>1. LocalStep \/ ChainStep \/ SwitchStep \/ BeltStep \/ PerformingStep
  BY TransitionIs
<1> QED
  BY <1>1, ActionsQueue DEF LocalStep, ChainStep, SwitchStep, BeltStep, PerformingStep, Quiet

LEMMA TransitionKeeps ==
  ASSUME TypeInv, Transition, NEW E,
         E \cap {"ChainModeL", "LocalModeC", "ChainModeS", "LocalModeS", "BeltInMotionR",
                 "release", "StopBelt", "request"} = {}
  PROVE  Keeps(E)
<1>1. {"ChainModeL", "LocalModeC", "ChainModeS", "LocalModeS", "BeltInMotionR",
       "release", "StopBelt", "request"} \subseteq AllEvents \ E
  BY EventNames
<1> QED
  BY <1>1, HandsOn, TransitionAdds DEF Keeps

(* What is queued stays queued until it is taken. *)
LEMMA StaysQueued ==
  ASSUME TypeInv, Transition \/ Asynchronous, NEW E, Holds(queue, E)
  PROVE  Holds(queue, E)'
<1>1. queue' = queue \/ \E e \in AllEvents : Adds(e)
  <2>1. ASSUME Transition
        PROVE  queue' = queue \/ \E e \in AllEvents : Adds(e)
    BY <2>1, TransitionAdds, EventNames
  <2>2. ASSUME Asynchronous, phase # "STOPMOTOR"
        PROVE  Completion[phase] \in AllEvents
    BY <2>2, EventNames DEF TypeInv, TypeOK, Phases, Completion
  <2>3. ASSUME NEW c \in Callers, call[c] # NoEvent
        PROVE  call[c] \in AllEvents
    BY <2>3 DEF TypeInv, TypeOK
  <2>4. ASSUME Asynchronous
        PROVE  queue' = queue \/ \E e \in AllEvents : Adds(e)
    BY <2>2, <2>3, <2>4, AsynchronousLeaves DEF TypeInv
  <2> QED
    BY <2>1, <2>4
<1>2. CASE queue' = queue
  BY <1>2
<1>3. CASE \E e \in AllEvents : Adds(e)
  BY <1>3, Appended DEF Adds, TypeInv, TypeOK
<1> QED
  BY <1>1, <1>2, <1>3

(* The events that a task can be about to send. *)
LEMMA CallsAre ==
  ASSUME TypeOK, Asynchronous
  PROVE  \A c \in Callers :
           \/ call'[c] \in {call[c], NoEvent, "request", "wait", "ready", "release"}
           \/ \E command \in Commands : call'[c] = EventOf(command)
<1> USE DEF TypeOK, Calls
<1>1. ASSUME NEW command \in Commands, Command(command), NEW c \in Callers
      PROVE  call'[c] \in {call[c], EventOf(command)}
  BY <1>1 DEF Command
<1>2. ASSUME NEW s \in Sfds, Request(s), NEW c \in Callers
      PROVE  call'[c] \in {call[c], NoEvent, "request"}
  <2>1. \E e \in {NoEvent, "request"} : Calls(s, e)
    BY <1>2 DEF Request
  <2> QED
    BY <2>1
<1>3. ASSUME NEW s \in Sfds, GiveUp(s), NEW c \in Callers
      PROVE  call'[c] = call[c]
  BY <1>3 DEF GiveUp
<1>4. ASSUME RightWait \/ RightReady \/ RightRelease, NEW c \in Callers
      PROVE  call'[c] \in {call[c], "wait", "ready", "release"}
  BY <1>4 DEF RightWait, RightReady, RightRelease, RightAnswers
<1>5. ASSUME NEW k \in Callers, CallerSends(k), NEW c \in Callers
      PROVE  call'[c] \in {call[c], NoEvent}
  BY <1>5 DEF CallerSends
<1>6. ASSUME PhaseEnds, NEW c \in Callers
      PROVE  call'[c] = call[c]
  BY <1>6 DEF PhaseEnds
<1> QED
  BY <1>1, <1>2, <1>3, <1>4, <1>5, <1>6 DEF Asynchronous

(* What the transition actions do to the drive. *)
Driveless == \/ NoEffect \/ LeaveMode("ChainModeL") \/ LeaveMode("LocalModeC") \/ myAction01
             \/ myAction02 \/ myAction19 \/ myAction41 \/ myAction42
             \/ EntersChain \/ EntersLocal

LEMMA ActionsDrive ==
  /\ Driveless => phase' = phase /\ profile' = profile
  /\ Stop \/ myAction13 \/ myAction14 \/ myAction18 \/ myAction36 => phase' = "STOPMOTOR"
  /\ myAction12 \/ myAction1617 => phase' = "CONSTANTVELOCITY" /\ profile' = "handingOver"
  /\ Phase("RAMPUP") => phase' = "RAMPUP"
  /\ Phase("CONSTANTVELOCITY") => phase' = "CONSTANTVELOCITY"
  /\ Phase("RAMPDOWN") => phase' = "RAMPDOWN"
<1> USE DEF drive, SetPhase, Run, setSpeedToZero
<1>1. Driveless => phase' = phase /\ profile' = profile
  BY DEF Driveless, NoEffect, LeaveMode, myAction01, myAction02, setA, myAction19, myAction41,
         myAction42, EntersChain, EntersLocal, EnterMode
<1>2. Stop \/ myAction13 \/ myAction14 \/ myAction18 \/ myAction36 => phase' = "STOPMOTOR"
  BY DEF Stop, myAction13, myAction14, myAction18, myAction36
<1>3. myAction12 \/ myAction1617 => phase' = "CONSTANTVELOCITY" /\ profile' = "handingOver"
  BY DEF myAction12, myAction1617
<1>4. /\ Phase("RAMPUP") => phase' = "RAMPUP"
      /\ Phase("CONSTANTVELOCITY") => phase' = "CONSTANTVELOCITY"
      /\ Phase("RAMPDOWN") => phase' = "RAMPDOWN"
  BY DEF Phase
<1> QED
  BY <1>1, <1>2, <1>3, <1>4
-----------------------------------------------------------------------------
(* The drive follows the Chain-Mode diagram *)

LEMMA DriveInit == Init => DriveInv
<1> SUFFICES ASSUME Init PROVE DriveInv
  OBVIOUS
<1>1. /\ queue = <<"InitSystem">> /\ actualEvent = NoEvent /\ \A c \in Callers : call[c] = NoEvent
      /\ NoEvent \notin {"BeltInMotionL", "BeltInMotionR", "StopBelt", "LocalMode", "LocalModeC"}
  BY EventNames, NoEventAssumption DEF Init
<1>2. \A E : ~Pending(E) <=> NoEvent \notin E /\ "InitSystem" \notin E
  BY <1>1 DEF Pending, Holds
<1>3. ~Called(ByHand) /\ ~Called({"LocalMode"})
  BY <1>1 DEF Called, ByHand
<1>4. /\ actualState[ChainM] = "SelectChainMode" /\ actualState[BeltInMotionM] = "startBelt"
      /\ phase = "STOPMOTOR" /\ ~localMode
  BY FirstStates DEF Init
<1>5. NoHand
  BY <1>1, <1>2, <1>3, <1>4 DEF NoHand
<1>6. ~Pending(Motion)
  BY <1>1, <1>2 DEF Motion
<1> QED
  BY <1>4, <1>5, <1>6 DEF DriveInv, BeltRests, DriveRests, DriveHandsOver, DriveMoves, HandingOver

(* The hand stays off: no step starts or stops the drive for the operator. *)
LEMMA NoHandCalls ==
  ASSUME NobodyDrives, TypeInv, NoHand, Asynchronous
  PROVE  /\ ~Called(ByHand)'
         /\ "LOCALM" \notin Commands => ~Called({"LocalMode"})'
<1>1. NoEvent \notin ByHand \cup {"LocalMode"}
  BY EventNames, NoEventAssumption DEF ByHand
<1>2. ASSUME NEW command \in Commands
      PROVE  /\ EventOf(command) \notin ByHand
             /\ "LOCALM" \notin Commands => EventOf(command) # "LocalMode"
  <2>1. CASE command \in {"LEFT", "RIGHT", "STOP"}
    <3>1. ~localMode
      BY <1>2, <2>1 DEF NobodyDrives, NoHand
    <3>2. EventOf(command) \in {NoEvent, "CancelOrder"}
      BY <2>1, <3>1 DEF EventOf
    <3> QED
      BY <1>1, <3>2 DEF ByHand
  <2>2. CASE command \in {"CHAIN", "LOCALM", "PLUS", "MINUS", "NOTFOUND"}
    BY <1>2, <2>2 DEF EventOf, ByHand
  <2> QED
    BY <2>1, <2>2, BeltAssumption
<1>3. ~Called(ByHand) /\ ("LOCALM" \notin Commands => ~Called({"LocalMode"}))
  BY DEF NoHand
<1> QED
  BY <1>1, <1>2, <1>3, CallsAre DEF Called, ByHand, TypeInv

LEMMA NoHandStep ==
  ASSUME NobodyDrives, TypeInv, ModeInv, NoHand, Next
  PROVE  NoHand'
<1>1. TypeOK /\ queue \in Seq(AllEvents)
  BY DEF TypeInv, TypeOK
<1>2. CASE Asynchronous
  <2>1. Keeps({"BeltInMotionL"})
    BY <1>1, <1>2, AsynchronousKeeps DEF NoHand, Called, ByHand
  <2>2. ASSUME "LOCALM" \notin Commands
        PROVE  Keeps({"LocalMode", "LocalModeC"})
    <3>1. ~Called({"LocalMode", "LocalModeC"})
      BY <2>2 DEF NoHand, ModeInv, OneToken, Called, ModeTokens
    <3> QED
      BY <1>1, <1>2, <3>1, AsynchronousKeeps
  <2>3. localMode' = localMode
    BY <1>1, <1>2, AsynchronousLeaves
  <2>4. {"BeltInMotionL"} \subseteq AllEvents /\ {"LocalMode", "LocalModeC"} \subseteq AllEvents
    BY EventNames
  <2>5. ~Pending({"BeltInMotionL"})'
    BY <1>1, <2>1, <2>4, Kept DEF NoHand
  <2>6. "LOCALM" \notin Commands => ~Pending({"LocalMode", "LocalModeC"})'
    BY <1>1, <2>2, <2>4, Kept DEF NoHand
  <2>7. "LOCALM" \notin Commands => ~localMode'
    BY <2>3 DEF NoHand
  <2> QED
    BY <1>2, <2>5, <2>6, <2>7, NoHandCalls DEF NoHand
<1>3. CASE TakeEvent
  <2>1. Keeps({"BeltInMotionL"}) /\ Keeps({"LocalMode", "LocalModeC"})
    BY <1>3 DEF Keeps
  <2>2. call' = call /\ localMode' = localMode
    BY <1>3 DEF TakeEvent, modes
  <2>3. {"BeltInMotionL"} \subseteq AllEvents /\ {"LocalMode", "LocalModeC"} \subseteq AllEvents
    BY EventNames
  <2>4. ~Called(ByHand)' /\ ("LOCALM" \notin Commands => ~Called({"LocalMode"})')
    BY <2>2 DEF NoHand, Called
  <2>5. /\ ~Pending({"BeltInMotionL"})'
        /\ "LOCALM" \notin Commands => ~Pending({"LocalMode", "LocalModeC"})'
    BY <1>1, <2>1, <2>3, Kept DEF NoHand
  <2> QED
    BY <2>2, <2>4, <2>5 DEF NoHand
<1>4. CASE Transition
  <2>1. Keeps({"BeltInMotionL"})
    BY <1>4, TransitionKeeps
  <2>2. /\ LocalStep \/ ChainStep \/ SwitchStep \/ BeltStep \/ PerformingStep
        /\ call' = call
    BY <1>4, TransitionIs
  <2>3. ASSUME "LOCALM" \notin Commands
        PROVE  ~localMode' /\ Keeps({"LocalMode", "LocalModeC"})
    <3>1. ~localMode /\ actualEvent \notin {"LocalMode", "LocalModeC"}
      BY <2>3 DEF NoHand, Pending
    <3>2. \/ Quiet \/ LeaveMode("ChainModeL") \/ myAction13 \/ myAction19 \/ myAction36
          \/ myAction42 \/ EntersChain
      BY <2>2, <3>1 DEF LocalStep, ChainStep, SwitchStep, BeltStep, PerformingStep, Quiet, Takes
    <3>3. {"ChainModeL", "BeltInMotionR", "release", "StopBelt", "request", "ChainModeS"}
            \subseteq AllEvents \ {"LocalMode", "LocalModeC"}
      BY EventNames
    <3>4. localMode' = localMode \/ ~localMode'
      BY <3>2, ActionsQueue DEF modes
    <3>5. queue' = queue \/ \E e \in AllEvents \ {"LocalMode", "LocalModeC"} : Adds(e)
      BY <3>2, <3>3, ActionsQueue
    <3> QED
      BY <1>4, <3>1, <3>4, <3>5, HandsOn DEF Keeps
  <2>4. {"BeltInMotionL"} \subseteq AllEvents /\ {"LocalMode", "LocalModeC"} \subseteq AllEvents
    BY EventNames
  <2>5. ~Called(ByHand)' /\ ("LOCALM" \notin Commands => ~Called({"LocalMode"})')
    BY <2>2 DEF NoHand, Called
  <2>6. /\ ~Pending({"BeltInMotionL"})'
        /\ "LOCALM" \notin Commands => ~Pending({"LocalMode", "LocalModeC"})'
    BY <1>1, <2>1, <2>3, <2>4, Kept DEF NoHand
  <2> QED
    BY <2>3, <2>5, <2>6 DEF NoHand
<1> QED
  BY <1>2, <1>3, <1>4 DEF Next, Asynchronous

(* The end of a phase is not lost before its diagram works on it. *)
LEMMA EndedKept ==
  ASSUME TypeInv, NEW e, NEW d, Ended(e, d), Asynchronous \/ (Transition /\ diagram # d)
  PROVE  Ended(e, d)'
<1>1. ASSUME Asynchronous
      PROVE  actualEvent' = actualEvent /\ diagram' = diagram
  BY <1>1, AsynchronousLeaves DEF TypeInv
<1> QED
  BY <1>1, StaysQueued DEF Ended

(* A step that leaves both diagrams and the drive alone. *)
LEMMA DriveKept ==
  ASSUME TypeInv, DriveInv, NoHand', Keeps(Motion),
         actualState'[ChainM] = actualState[ChainM],
         actualState'[BeltInMotionM] = actualState[BeltInMotionM],
         phase' = phase, profile' = profile,
         actualState[ChainM] \in HandingOver /\ Ended("constf", ChainM)
           => Ended("constf", ChainM)',
         \A e \in {"rampupf", "constf", "rampdownf"} :
           (/\ actualState[ChainM] = "BeltInMotion" /\ actualState[BeltInMotionM] # "startBelt"
            /\ e = Ending[actualState[BeltInMotionM]] /\ Ended(e, BeltInMotionM))
             => Ended(e, BeltInMotionM)'
  PROVE  DriveInv'
<1>1. Motion \subseteq AllEvents
  BY EventNames DEF Motion
<1>2. /\ ~Pending(Motion) => ~Pending(Motion)'
      /\ Once(queue, Motion) /\ (actualEvent \in Motion => ~Holds(queue, Motion))
           => Once(queue, Motion)' /\ (actualEvent' \in Motion => ~Holds(queue', Motion))
  BY <1>1, Kept DEF Single, TypeInv
<1>3. BeltRests'
  BY <1>2 DEF DriveInv, BeltRests
<1>4. DriveRests'
  BY DEF DriveInv, DriveRests
<1>5. DriveHandsOver'
  BY DEF DriveInv, DriveHandsOver, Ended
<1>6. DriveMoves'
  <2> SUFFICES ASSUME actualState'[ChainM] = "BeltInMotion"
               PROVE  DriveMoves'
    BY DEF DriveMoves
  <2>1. CASE actualState[BeltInMotionM] = "startBelt"
    BY <1>2, <2>1 DEF DriveInv, DriveMoves
  <2>2. CASE actualState[BeltInMotionM] # "startBelt"
    <3>1. /\ Ending[actualState[BeltInMotionM]] \in {"rampupf", "constf", "rampdownf"}
          /\ Ending[actualState[BeltInMotionM]]' = Ending[actualState[BeltInMotionM]]
      BY <2>2, StatesTyped DEF Ending, TypeInv
    <3>2. \/ phase = PhaseOf[actualState[BeltInMotionM]]
          \/ phase = "STOPMOTOR" /\ Ended(Ending[actualState[BeltInMotionM]], BeltInMotionM)
      BY <2>2 DEF DriveInv, DriveMoves
    <3>3. \/ phase' = PhaseOf[actualState'[BeltInMotionM]]
          \/ /\ phase' = "STOPMOTOR"
             /\ \E e \in {"rampupf", "constf", "rampdownf"} :
                  e = Ending[actualState[BeltInMotionM]] /\ Ended(e, BeltInMotionM)'
      BY <2>2, <3>1, <3>2
    <3> QED
      BY <1>2, <2>2, <3>1, <3>3 DEF DriveInv, DriveMoves, Ended
  <2> QED
    BY <2>1, <2>2
<1> QED
  BY <1>3, <1>4, <1>5, <1>6 DEF DriveInv
LEMMA ChainActive ==
  ASSUME TypeInv, ModeInv, actualState[ChainM] # "SelectChainMode"
  PROVE  /\ chainMode /\ ~localMode /\ actualState[LocalM] = "SelectLocalMode"
         /\ actualState[SwitchM] = "ChainMode" /\ ~Pending(ModeTokens)
  BY StatesTyped DEF TypeInv, ModeInv, BeforeModes, InLocalMode, InChainMode

LEMMA DriveAsynchronous ==
  ASSUME TypeInv, DriveInv, NoHand', Asynchronous
  PROVE  DriveInv'
<1>1. TypeOK /\ queue \in Seq(AllEvents) /\ actualState' = actualState
  BY AsynchronousLeaves DEF TypeInv, TypeOK
<1>2. Keeps(Motion)
  BY <1>1, AsynchronousKeeps DEF DriveInv, NoHand, Called, ByHand, Motion
<1>3. CASE phase' = phase /\ profile' = profile
  <2>1. \A e, d : Ended(e, d) => Ended(e, d)'
    BY EndedKept
  <2> QED
    BY <1>1, <1>2, <1>3, <2>1, DriveKept
<1>4. CASE PhaseEnds
  <2>1. /\ phase # "STOPMOTOR" /\ phase' = "STOPMOTOR" /\ profile' = profile
        /\ Adds(Completion[phase])
    BY <1>4 DEF PhaseEnds, Adds
  <2>2. Motion \subseteq AllEvents
    BY EventNames DEF Motion
  <2>3. ~Pending(Motion) => ~Pending(Motion)'
    BY <1>1, <1>2, <2>2, Kept
  <2>4. Holds(queue', {Completion[phase]})
    <3>1. Completion[phase] \in AllEvents
      BY <1>1, <2>1, EventNames DEF TypeOK, Phases, Completion
    <3> QED
      BY <1>1, <2>1, <3>1, Appended DEF Adds
  <2>5. BeltRests'
    BY <1>1, <2>3 DEF DriveInv, BeltRests
  <2>6. DriveRests'
    BY <2>1 DEF DriveRests
  <2>7. DriveHandsOver'
    <3>1. actualState[ChainM] \in HandingOver => Completion[phase] = "constf"
      BY <2>1 DEF DriveInv, DriveHandsOver, Completion
    <3> QED
      BY <1>1, <2>1, <2>4, <3>1 DEF DriveHandsOver, Ended
  <2>8. DriveMoves'
    <3> SUFFICES ASSUME actualState'[ChainM] = "BeltInMotion"
                 PROVE  DriveMoves'
      BY DEF DriveMoves
    <3>1. /\ actualState[BeltInMotionM] # "startBelt" /\ ~Pending(Motion)
          /\ phase = PhaseOf[actualState[BeltInMotionM]]
      BY <1>1, <2>1 DEF DriveInv, DriveMoves
    <3>2. Completion[phase] = Ending[actualState[BeltInMotionM]]
      BY <1>1, <3>1, StatesTyped DEF Completion, Ending, PhaseOf
    <3> QED
      BY <1>1, <2>1, <2>3, <2>4, <3>1, <3>2 DEF DriveMoves, Ended
  <2> QED
    BY <2>5, <2>6, <2>7, <2>8 DEF DriveInv
<1>5. PhaseEnds \/ UNCHANGED drive
  BY DEF Asynchronous, Command, Request, GiveUp, RightWait, RightReady, RightRelease,
         RightAnswers, CallerSends
<1> QED
  BY <1>3, <1>4, <1>5 DEF drive

LEMMA DriveTake ==
  ASSUME TypeInv, ModeInv, DriveInv, NoHand', TakeEvent
  PROVE  DriveInv'
<1>1. /\ TypeOK /\ actualState' = actualState /\ phase' = phase /\ profile' = profile
      /\ actualEvent = NoEvent /\ queue # <<>> /\ queue' = Tail(queue) /\ queue \in Seq(AllEvents)
  BY DEF TypeInv, TypeOK, TakeEvent, drive
<1>2. Keeps(Motion)
  BY DEF Keeps
<1>3. ASSUME NEW e \in AllEvents, NEW d, Ended(e, d),
             Head(queue) = e => diagram' = d /\ actualEvent' = Head(queue)
      PROVE  Ended(e, d)'
  <2>1. Holds(queue, {e})
    BY <1>1, <1>3, NoEventAssumption DEF Ended
  <2>2. Head(queue) = e \/ Holds(queue', {e})
    BY <1>1, <2>1, Taken
  <2> QED
    BY <1>3, <2>2 DEF Ended
<1>4. ASSUME actualState[ChainM] \in HandingOver, Ended("constf", ChainM)
      PROVE  Ended("constf", ChainM)'
  <2>1. Condition("ChainM", localMode, chainMode)
    BY <1>4, ChainActive DEF HandingOver, Condition
  <2>2. Matching(ChainM, "constf", actualState, localMode, chainMode) # {}
    BY <1>4, <2>1, ChainHears DEF HandingOver
  <2>3. ASSUME NEW k \in Diagrams, k < ChainM
        PROVE  Matching(k, "constf", actualState, localMode, chainMode) = {}
    <3>1. k = LocalM
      BY <2>3, DiagramsAre DEF Diagrams
    <3> QED
      BY <3>1, DiagramsAre, EventsAre, NoRow
  <2>4. Head(queue) = "constf" => diagram' = ChainM /\ actualEvent' = Head(queue)
    BY <1>1, <2>2, <2>3, FirstDiagram, DiagramsAre
  <2> QED
    BY <1>3, <1>4, <2>4, EventNames
<1>5. ASSUME actualState[ChainM] = "BeltInMotion", actualState[BeltInMotionM] # "startBelt",
             NEW e \in {"rampupf", "constf", "rampdownf"},
             e = Ending[actualState[BeltInMotionM]], Ended(e, BeltInMotionM)
      PROVE  Ended(e, BeltInMotionM)'
  <2>1. Matching(BeltInMotionM, e, actualState, localMode, chainMode) # {}
    BY <1>1, <1>5, StatesTyped, BeltHears DEF Ending
  <2>2. ASSUME NEW k \in Diagrams, k < BeltInMotionM
        PROVE  Matching(k, e, actualState, localMode, chainMode) = {}
    <3>1. k \in {LocalM, ChainM, SwitchM}
      BY <2>2, DiagramsAre DEF Diagrams
    <3>2. Matching(ChainM, e, actualState, localMode, chainMode) = {}
      BY <1>5, <2>1, ChainHears
    <3>3. e \notin EventsOf(LocalM) /\ e \notin EventsOf(SwitchM)
      BY <2>1, EventsAre
    <3> QED
      BY <3>1, <3>2, <3>3, DiagramsAre, NoRow
  <2>3. Head(queue) = e => diagram' = BeltInMotionM /\ actualEvent' = Head(queue)
    BY <1>1, <2>1, <2>2, FirstDiagram, DiagramsAre
  <2>4. e \in AllEvents
    BY <2>1, EventNames
  <2> QED
    BY <1>3, <1>5, <2>3, <2>4
<1> QED
  BY <1>1, <1>2, <1>4, <1>5, DriveKept
LEMMA DriveTransition ==
  ASSUME TypeInv, ModeInv, DriveInv, NoHand', Transition
  PROVE  DriveInv'
<1>1. /\ TypeOK /\ queue \in Seq(AllEvents) /\ diagram \in Diagrams
      /\ actualEvent' \in {actualEvent, NoEvent} /\ NoEvent \notin Motion
  BY TransitionIs, HandsOn, EventNames, NoEventAssumption DEF TypeInv, TypeOK, Motion
<1>2. LocalStep \/ ChainStep \/ SwitchStep \/ BeltStep \/ PerformingStep
  BY TransitionIs
<1>3. /\ NoHand /\ BeltRests /\ DriveRests /\ DriveHandsOver /\ DriveMoves
      /\ actualEvent # "BeltInMotionL"
      /\ ~Pending(Motion) <=> actualEvent \notin Motion /\ ~Holds(queue, Motion)
  BY DEF DriveInv, NoHand, Pending
<1>4. ASSUME diagram \notin {ChainM, BeltInMotionM},
             actualState'[ChainM] = actualState[ChainM],
             actualState'[BeltInMotionM] = actualState[BeltInMotionM],
             phase' = phase, profile' = profile, Keeps(Motion)
      PROVE  DriveInv'
  <2>1. \A e : \A d \in {ChainM, BeltInMotionM} : Ended(e, d) => Ended(e, d)'
    BY <1>4, EndedKept
  <2> QED
    BY <1>4, <2>1, DriveKept
<1>5. CASE LocalStep
  <2>1. /\ diagram = LocalM
        /\ actualState'[ChainM] = actualState[ChainM]
        /\ actualState'[BeltInMotionM] = actualState[BeltInMotionM]
    <3>1. \E from, e, to : Takes(LocalM, from, e, to)
      BY <1>5 DEF LocalStep
    <3> QED
      BY <1>1, <3>1, Moved, DiagramsAre
  <2>2. localMode => actualEvent \notin Motion
    BY <1>3, ChainActive DEF BeltRests
  <2>3. NoEffect \/ myAction01 \/ myAction02 \/ LeaveMode("ChainModeL")
    BY <1>3, <1>5, <2>2 DEF LocalStep, Takes, Motion
  <2>4. phase' = phase /\ profile' = profile
    BY <2>3, ActionsDrive DEF Driveless
  <2>5. Keeps(Motion)
    <3>1. queue' = queue \/ Adds("ChainModeL")
      BY <2>3, ActionsQueue DEF Quiet
    <3> QED
      BY <1>1, <3>1, EventNames DEF Keeps, Motion
  <2> QED
    BY <1>4, <2>1, <2>4, <2>5, DiagramsAre
<1>6. CASE SwitchStep \/ PerformingStep
  <2>1. /\ diagram \in {SwitchM, PerformingM}
        /\ actualState'[ChainM] = actualState[ChainM]
        /\ actualState'[BeltInMotionM] = actualState[BeltInMotionM]
    <3>1. \E from, e, to : Takes(SwitchM, from, e, to) \/ Takes(PerformingM, from, e, to)
      BY <1>6 DEF SwitchStep, PerformingStep
    <3> QED
      BY <1>1, <3>1, Moved, DiagramsAre
  <2>2. NoEffect \/ EntersChain \/ EntersLocal \/ myAction41 \/ myAction42
    BY <1>6 DEF SwitchStep, PerformingStep
  <2>3. phase' = phase /\ profile' = profile
    BY <2>2, ActionsDrive DEF Driveless
  <2>4. Keeps(Motion)
    <3>1. queue' = queue \/ \E e \in {"ChainModeS", "LocalModeS", "request"} : Adds(e)
      BY <2>2, ActionsQueue DEF Quiet
    <3> QED
      BY <1>1, <3>1, EventNames DEF Keeps, Motion
  <2> QED
    BY <1>4, <2>1, <2>3, <2>4, DiagramsAre
<1>7. CASE ChainStep
  <2>0. /\ diagram = ChainM /\ actualState'[BeltInMotionM] = actualState[BeltInMotionM]
    <3>1. \E from, e, to : Takes(ChainM, from, e, to)
      BY <1>7 DEF ChainStep
    <3> QED
      BY <1>1, <3>1, Moved, DiagramsAre
(* To a state in which the belt rests. *)
  <2>1. ASSUME actualState'[ChainM] # "BeltInMotion",
               actualState[ChainM] # "BeltInMotion",
               actualEvent \notin Motion, Keeps(Motion),
               \/ phase' = "STOPMOTOR" /\ actualState'[ChainM] \notin HandingOver
               \/ /\ phase' = "CONSTANTVELOCITY" /\ profile' = "handingOver"
                  /\ actualState'[ChainM] \in HandingOver
        PROVE  DriveInv'
    <3>1. Motion \subseteq AllEvents
      BY EventNames DEF Motion
    <3>2. ~Pending(Motion)'
      BY <1>1, <1>3, <2>1, <3>1, Kept DEF BeltRests
    <3>3. BeltRests'
      BY <1>3, <2>0, <2>1, <3>2 DEF BeltRests
    <3>4. DriveRests' /\ DriveHandsOver'
      BY <2>1 DEF DriveRests, DriveHandsOver, HandingOver
    <3> QED
      BY <2>1, <3>3, <3>4 DEF DriveInv, DriveMoves
  <2>2. CASE \/ Takes(ChainM, "SelectChainMode", "ChainModeS", "Idle") /\ NoEffect
             \/ Takes(ChainM, "Idle", "LocalMode", "SelectChainMode") /\ LeaveMode("LocalModeC")
             \/ Takes(ChainM, "Waiting", "wait", "Waiting") /\ NoEffect
             \/ Takes(ChainM, "Waiting", "CancelOrder", "Idle") /\ myAction19
    <3>1. /\ actualState[ChainM] \in {"SelectChainMode", "Idle", "Waiting"}
          /\ actualState'[ChainM] \in {"SelectChainMode", "Idle", "Waiting"}
          /\ actualEvent \in {"ChainModeS", "LocalMode", "wait", "CancelOrder"}
      BY <1>1, <2>2, Moved, DiagramsAre
    <3>2. phase' = phase
      BY <2>2, ActionsDrive DEF Driveless
    <3>3. Keeps(Motion)
      <4>1. queue' = queue \/ Adds("LocalModeC") \/ Adds("release")
        BY <2>2, ActionsQueue DEF Quiet
      <4> QED
        BY <1>1, <4>1, EventNames DEF Keeps, Motion
    <3> QED
      BY <1>3, <2>1, <3>1, <3>2, <3>3 DEF DriveRests, HandingOver, Motion
  <2>3. CASE \/ Takes(ChainM, "Idle", "request", "HandingOverL") /\ myAction12
             \/ Takes(ChainM, "Waiting", "ready", "HandingOverR") /\ myAction1617
             \/ Takes(ChainM, "HandingOverR", "constf", "HandingOverR") /\ myAction1617
             \/ Takes(ChainM, "HandingOverR", "release", "Idle") /\ myAction18
    <3>1. /\ actualState[ChainM] # "BeltInMotion"
          /\ actualEvent \in {"request", "ready", "constf", "release"}
          /\ \/ actualState'[ChainM] = "Idle" /\ myAction18
             \/ actualState'[ChainM] \in HandingOver /\ (myAction12 \/ myAction1617)
      BY <1>1, <2>3, Moved, DiagramsAre DEF HandingOver
    <3>2. Keeps(Motion)
      BY <1>1, <3>1, ActionsQueue DEF Keeps, Quiet
    <3> QED
      BY <2>1, <3>1, <3>2, ActionsDrive DEF HandingOver, Motion
  <2>4. CASE Takes(ChainM, "HandingOverL", "constf", "BeltInMotion") /\ myAction13
    <3>1. /\ actualState[ChainM] = "HandingOverL" /\ actualState'[ChainM] = "BeltInMotion"
          /\ actualEvent = "constf"
      BY <1>1, <2>4, Moved, DiagramsAre
    <3>2. actualState'[BeltInMotionM] = "startBelt" /\ ~Holds(queue, Motion)
      BY <1>3, <2>0, <3>1 DEF BeltRests
    <3>3. phase' = "STOPMOTOR" /\ Adds("BeltInMotionR")
      BY <2>4, ActionsDrive, ActionsQueue
    <3>4. Once(queue', Motion) /\ actualEvent' \notin Motion
      <4>1. Once(queue, Motion)
        BY <3>2 DEF Holds, Once
      <4>2. Once(queue', Motion)
        BY <1>1, <3>2, <3>3, <4>1, Appended, EventNames DEF Adds
      <4> QED
        BY <1>1, <3>1, <4>2 DEF Motion
    <3>5. BeltRests' /\ DriveRests' /\ DriveHandsOver'
      BY <3>1 DEF BeltRests, DriveRests, DriveHandsOver, HandingOver
    <3> QED
      BY <3>2, <3>3, <3>4, <3>5 DEF DriveInv, DriveMoves
  <2>5. CASE Takes(ChainM, "BeltInMotion", "StopBelt", "Waiting") /\ myAction14
    <3>1. /\ actualState[ChainM] = "BeltInMotion" /\ actualState'[ChainM] = "Waiting"
          /\ actualEvent = "StopBelt" /\ actualEvent \in Motion
      BY <1>1, <2>5, Moved, DiagramsAre DEF Motion
    <3>2. actualState[BeltInMotionM] = "startBelt" /\ ~Holds(queue, Motion)
      BY <1>3, <3>1 DEF DriveMoves
    <3>3. phase' = "STOPMOTOR" /\ queue' = queue
      BY <2>5, ActionsDrive, ActionsQueue DEF Quiet
    <3>4. actualEvent' = NoEvent
      <4>1. ASSUME NEW k \in Diagrams, k > diagram
            PROVE  Matching(k, actualEvent, actualState', localMode', chainMode') = {}
        <5>1. k \in {SwitchM, BeltInMotionM, PerformingM}
          BY <2>0, <4>1, DiagramsAre DEF Diagrams
        <5>2. Matching(BeltInMotionM, actualEvent, actualState', localMode', chainMode') = {}
          BY <2>0, <3>1, <3>2, BeltHears
        <5>3. actualEvent \notin EventsOf(SwitchM) /\ actualEvent \notin EventsOf(PerformingM)
          BY <3>1, EventsAre
        <5> QED
          BY <5>1, <5>2, <5>3, DiagramsAre, NoRow
      <4> QED
        BY <4>1, LastDiagram
    <3>5. BeltRests'
      BY <1>1, <2>0, <3>2, <3>3, <3>4 DEF BeltRests, Pending
    <3>6. DriveRests' /\ DriveHandsOver' /\ DriveMoves'
      BY <3>1, <3>3 DEF DriveRests, DriveHandsOver, DriveMoves, HandingOver
    <3> QED
      BY <3>5, <3>6 DEF DriveInv
  <2> QED
    BY <1>7, <2>2, <2>3, <2>4, <2>5 DEF ChainStep
<1>8. CASE BeltStep
  <2>0. /\ diagram = BeltInMotionM /\ actualState'[ChainM] = actualState[ChainM]
        /\ actualEvent # "BeltInMotionL"
    <3>1. \E from, e, to : Takes(BeltInMotionM, from, e, to)
      BY <1>8 DEF BeltStep
    <3> QED
      BY <1>1, <1>3, <3>1, Moved, DiagramsAre
(* The event comes from the transport. *)
  <2>1. /\ actualState[ChainM] = "BeltInMotion"
        /\ actualState[BeltInMotionM] # "startBelt" => actualEvent # "StopBelt"
    <3>1. actualState[BeltInMotionM] # "startBelt" \/ actualEvent \in Motion
      <4>1. \/ actualState[BeltInMotionM] # "startBelt"
            \/ actualEvent \in {"BeltInMotionL", "BeltInMotionR"}
        BY <1>8 DEF BeltStep, Takes
      <4> QED
        BY <2>0, <4>1 DEF Motion
    <3>2. actualState[ChainM] = "BeltInMotion"
      BY <1>3, <3>1 DEF BeltRests
    <3> QED
      BY <1>3, <3>2 DEF DriveMoves, Motion
  <2>2. BeltRests' /\ DriveRests' /\ DriveHandsOver'
    BY <2>0, <2>1 DEF BeltRests, DriveRests, DriveHandsOver, HandingOver
  <2>3. ASSUME actualState'[BeltInMotionM] # "startBelt", queue' = queue,
               ~Holds(queue, Motion), actualEvent' \notin Motion,
               phase' = PhaseOf[actualState'[BeltInMotionM]]
        PROVE  DriveInv'
    BY <2>2, <2>3 DEF DriveInv, DriveMoves, Pending
  <2>4. CASE Takes(BeltInMotionM, "startBelt", "BeltInMotionR", "RampUp") /\ Phase("RAMPUP")
    <3>1. /\ actualState[BeltInMotionM] = "startBelt" /\ actualState'[BeltInMotionM] = "RampUp"
          /\ actualEvent = "BeltInMotionR" /\ actualEvent \in Motion
      BY <1>1, <2>4, Moved, DiagramsAre DEF Motion
    <3>2. ~Holds(queue, Motion)
      BY <1>3, <2>1, <3>1 DEF DriveMoves
    <3>3. actualEvent' = NoEvent
      <4>1. ASSUME NEW k \in Diagrams, k > diagram
            PROVE  Matching(k, actualEvent, actualState', localMode', chainMode') = {}
        <5>1. k = PerformingM
          BY <2>0, <4>1, DiagramsAre DEF Diagrams
        <5> QED
          BY <3>1, <5>1, DiagramsAre, EventsAre, NoRow
      <4> QED
        BY <4>1, LastDiagram
    <3>4. queue' = queue /\ phase' = "RAMPUP"
      BY <2>4, ActionsQueue, ActionsDrive DEF Quiet
    <3> QED
      BY <1>1, <2>3, <3>1, <3>2, <3>3, <3>4 DEF PhaseOf
  <2>5. CASE \/ /\ Takes(BeltInMotionM, "RampUp", "rampupf", "ConstantVelocity")
                /\ Phase("CONSTANTVELOCITY")
             \/ /\ Takes(BeltInMotionM, "ConstantVelocity", "constf", "RampDown")
                /\ Phase("RAMPDOWN")
    <3>1. /\ actualState[BeltInMotionM] # "startBelt"
          /\ \/ actualState'[BeltInMotionM] = "ConstantVelocity" /\ Phase("CONSTANTVELOCITY")
             \/ actualState'[BeltInMotionM] = "RampDown" /\ Phase("RAMPDOWN")
          /\ actualEvent \in {"rampupf", "constf"}
      BY <1>1, <2>5, Moved, DiagramsAre
    <3>2. ~Holds(queue, Motion)
      BY <1>3, <2>1, <3>1 DEF DriveMoves
    <3>3. queue' = queue /\ phase' = PhaseOf[actualState'[BeltInMotionM]]
      BY <3>1, ActionsQueue, ActionsDrive DEF Quiet, PhaseOf
    <3> QED
      BY <1>1, <2>3, <3>1, <3>2, <3>3 DEF Motion
  <2>6. CASE Takes(BeltInMotionM, "RampDown", "rampdownf", "startBelt") /\ myAction36
    <3>1. /\ actualState[BeltInMotionM] # "startBelt"
          /\ actualState'[BeltInMotionM] = "startBelt" /\ actualEvent = "rampdownf"
      BY <1>1, <2>6, Moved, DiagramsAre
    <3>2. ~Holds(queue, Motion)
      BY <1>3, <2>1, <3>1 DEF DriveMoves
    <3>3. phase' = "STOPMOTOR" /\ Adds("StopBelt")
      BY <2>6, ActionsDrive, ActionsQueue
    <3>4. Once(queue', Motion) /\ actualEvent' \notin Motion
      <4>1. Once(queue, Motion)
        BY <3>2 DEF Holds, Once
      <4>2. Once(queue', Motion)
        BY <1>1, <3>2, <3>3, <4>1, Appended, EventNames DEF Adds
      <4> QED
        BY <1>1, <3>1, <4>2 DEF Motion
    <3> QED
      BY <2>2, <3>1, <3>3, <3>4 DEF DriveInv, DriveMoves
  <2> QED
    <3>1. \/ Takes(BeltInMotionM, "startBelt", "BeltInMotionR", "RampUp") /\ Phase("RAMPUP")
          \/ /\ Takes(BeltInMotionM, "RampUp", "rampupf", "ConstantVelocity")
             /\ Phase("CONSTANTVELOCITY")
          \/ /\ Takes(BeltInMotionM, "ConstantVelocity", "constf", "RampDown")
             /\ Phase("RAMPDOWN")
          \/ Takes(BeltInMotionM, "RampDown", "rampdownf", "startBelt") /\ myAction36
      BY <1>8, <2>0, <2>1 DEF BeltStep, Takes
    <3> QED
      BY <2>4, <2>5, <2>6, <3>1
<1> QED
  BY <1>2, <1>5, <1>6, <1>7, <1>8

LEMMA DriveStep ==
  ASSUME NobodyDrives
  PROVE  TypeInv /\ ModeInv /\ DriveInv /\ [Next]_vars => DriveInv'
<1>1. TypeInv /\ DriveInv /\ UNCHANGED vars => DriveInv'
  BY StatesTyped DEF DriveInv, NoHand, BeltRests, DriveRests, DriveHandsOver, DriveMoves, Called,
     Pending, Ended, vars, machine, modes, drive, TypeInv
<1>2. Next => TakeEvent \/ Transition \/ Asynchronous
  BY DEF Next, Asynchronous
<1>3. TypeInv /\ ModeInv /\ DriveInv /\ Next => NoHand'
  BY NoHandStep DEF DriveInv
<1> QED
  BY <1>1, <1>2, <1>3, DriveTake, DriveTransition, DriveAsynchronous

LEMMA DriveInvSuffices ==
  ASSUME TypeInv, DriveInv
  PROVE  StillUnlessTransporting /\ SlowWhenHandingOver /\ DriveFollowsDiagram
<1>1. StillUnlessTransporting
  BY DEF DriveInv, DriveRests, StillUnlessTransporting
<1>2. SlowWhenHandingOver
  BY DEF DriveInv, DriveHandsOver, SlowWhenHandingOver
<1>3. ASSUME Quiescent
      PROVE  phase = IF actualState[ChainM] \in HandingOver
                     THEN "CONSTANTVELOCITY" ELSE PhaseOf[actualState[BeltInMotionM]]
  <2>1. ASSUME NEW e \in {"rampupf", "constf", "rampdownf"}, NEW d
        PROVE  ~Ended(e, d)
    BY <1>3, EventNames, NoEventAssumption DEF Quiescent, Ended, Holds
  <2>2. CASE actualState[ChainM] \in HandingOver
    BY <2>1, <2>2 DEF DriveInv, DriveHandsOver
  <2>3. CASE actualState[ChainM] = "BeltInMotion"
    <3>1. CASE actualState[BeltInMotionM] = "startBelt"
      BY <2>3, <3>1 DEF DriveInv, DriveMoves, PhaseOf, HandingOver
    <3>2. CASE actualState[BeltInMotionM] # "startBelt"
      <4>1. Ending[actualState[BeltInMotionM]] \in {"rampupf", "constf", "rampdownf"}
        BY <3>2, StatesTyped DEF Ending, TypeInv
      <4> QED
        BY <2>1, <2>3, <3>2, <4>1 DEF DriveInv, DriveMoves, HandingOver
    <3> QED
      BY <3>1, <3>2
  <2>4. CASE actualState[ChainM] \in {"SelectChainMode", "Idle", "Waiting"}
    BY <2>4 DEF DriveInv, BeltRests, DriveRests, PhaseOf, HandingOver
  <2> QED
    BY <2>2, <2>3, <2>4, StatesTyped DEF HandingOver, TypeInv
<1> QED
  BY <1>1, <1>2, <1>3 DEF DriveFollowsDiagram

LEMMA DriveInvariant ==
  ASSUME NobodyDrives
  PROVE  Safety => [](TypeInv /\ DriveInv)
<1>1. Init => TypeInv /\ ModeInv /\ DriveInv
  BY TypesInit, ModeInit, DriveInit
<1>2. (TypeInv /\ ModeInv /\ DriveInv) /\ [Next]_vars => (TypeInv /\ ModeInv /\ DriveInv)'
  BY TypesStep, ModeStep, DriveStep
<1> QED
  BY <1>1, <1>2, PTL DEF Safety

(* As long as nobody drives by hand, the belt in Chain-Mode stands still   *)
(* unless it moves its package or hands one over, however the left         *)
(* neighbours' orders and the right neighbour's answers fall between the   *)
(* transitions (Controller.cpp:211-225, systemManager.cpp:413-472).        *)
THEOREM StandsStill ==
  ASSUME NobodyDrives
  PROVE  Safety => []StillUnlessTransporting
<1>1. TypeInv /\ DriveInv => StillUnlessTransporting
  BY DriveInvSuffices
<1> QED
  BY <1>1, DriveInvariant, PTL

(* As long as nobody drives by hand, packages are handed over at the slow  *)
(* speed, from the left as well as to the right, whatever profile the      *)
(* drive used before (systemManager.cpp:416-417, 448-449, 458-459).        *)
THEOREM HandsOverSlowly ==
  ASSUME NobodyDrives
  PROVE  Safety => []SlowWhenHandingOver
<1>1. TypeInv /\ DriveInv => SlowWhenHandingOver
  BY DriveInvSuffices
<1> QED
  BY <1>1, DriveInvariant, PTL

(* As long as nobody drives by hand, the completion that a diagram waits   *)
(* for is still to come: with all events handled the drive is in the phase *)
(* of its diagram (Controller.cpp:227-274, systemManager.cpp:550-572).     *)
THEOREM DriveKeepsPace ==
  ASSUME NobodyDrives
  PROVE  Safety => []DriveFollowsDiagram
<1>1. TypeInv /\ DriveInv => DriveFollowsDiagram
  BY DriveInvSuffices
<1> QED
  BY <1>1, DriveInvariant, PTL
-----------------------------------------------------------------------------
(* The Performing diagram follows the Chain-Mode diagram *)

(* The events that the argument follows. *)
Tracked == {"ready", "request", "release"}
Leaving == {"LocalMode", "CancelOrder"}

LEMMA TrackedAreEvents ==
  /\ Tracked \subseteq AllEvents /\ Leaving \subseteq AllEvents
  /\ NoEvent \notin Tracked \cup Leaving
  BY EventNames, NoEventAssumption DEF Tracked, Leaving

LEMMA OrderInit == Init => OrderInv
<1> SUFFICES ASSUME Init PROVE OrderInv
  OBVIOUS
<1>1. /\ queue = <<"InitSystem">> /\ actualEvent = NoEvent /\ \A c \in Callers : call[c] = NoEvent
      /\ NoEvent \notin Tracked \cup Leaving
  BY TrackedAreEvents DEF Init
<1>2. \A E : E \subseteq Tracked \cup Leaving => ~Called(E) /\ ~Holds(queue, E) /\ ~Pending(E)
  <2> SUFFICES ASSUME NEW E, E \subseteq Tracked \cup Leaving
               PROVE  ~Called(E) /\ ~Holds(queue, E) /\ ~Pending(E)
    OBVIOUS
  <2>1. NoEvent \notin E /\ "InitSystem" \notin E
    BY <1>1 DEF Tracked, Leaving
  <2>2. ~Called(E)
    BY <1>1, <2>1 DEF Called
  <2>3. ~Holds(queue, E)
    BY <1>1, <2>1 DEF Holds
  <2> QED
    BY <1>1, <2>1, <2>2, <2>3 DEF Pending
<1>3. /\ {"ready"} \subseteq Tracked \cup Leaving /\ {"release"} \subseteq Tracked \cup Leaving
      /\ {"request"} \subseteq Tracked \cup Leaving
      /\ {"LocalMode", "CancelOrder"} \subseteq Tracked \cup Leaving
  BY DEF Tracked, Leaving
<1>4. /\ actualState[ChainM] = "SelectChainMode" /\ actualState[PerformingM] = "startPerforming"
      /\ right = "idle"
  BY FirstStates DEF Init
<1>5. ChainStays
  BY <1>2, <1>3 DEF ChainStays
<1>6. InStep
  BY <1>1, <1>4 DEF InStep, Starting, Finishing, Transporting, Tracked
<1>7. OneAnswer("ready") /\ OneAnswer("release")
  BY <1>1, <1>2, <1>3 DEF OneAnswer, Once, Holds, Tracked
<1>8. OnlyReader
  BY <1>1 DEF OnlyReader, Tracked
<1>9. Unasked /\ Asked /\ TakingOver
  BY <1>1, <1>2, <1>3, <1>4 DEF Unasked, Asked, TakingOver, NoneUnderWay, Tracked
<1> QED
  BY <1>5, <1>6, <1>7, <1>8, <1>9 DEF OrderInv

(* A step that puts no answer e into the queue. *)
LEMMA AnswerKept ==
  ASSUME TypeInv, NEW e \in Tracked, OneAnswer(e), Keeps({e}), Called({e})' => Called({e})
  PROVE  OneAnswer(e)'
<1>1. /\ TypeOK /\ {e} \subseteq AllEvents /\ e # NoEvent /\ queue \in Seq(AllEvents)
  BY TrackedAreEvents DEF TypeInv, TypeOK
<1>2. Pending({e})' => Pending({e})
  BY <1>1, Kept
<1>3. Single({e}) => Single({e})'
  BY <1>1, Kept
<1>4. Called({e})' => ~Holds(queue', {e}) /\ actualEvent' # e
  <2> SUFFICES ASSUME Called({e}) PROVE ~Holds(queue', {e}) /\ actualEvent' # e
    OBVIOUS
  <2>1. ~Pending({e})
    BY DEF OneAnswer, Pending
  <2> QED
    BY <1>2, <2>1 DEF Pending
<1> QED
  BY <1>3, <1>4 DEF OneAnswer, Single

LEMMA NoneKept ==
  ASSUME TypeInv, NEW e \in Tracked, NoneUnderWay(e), Keeps({e}), Called({e})' => Called({e})
  PROVE  NoneUnderWay(e)'
<1>1. TypeOK /\ {e} \subseteq AllEvents
  BY TrackedAreEvents DEF TypeInv
<1>2. Pending({e})' => Pending({e})
  BY <1>1, Kept
<1> QED
  BY <1>2 DEF NoneUnderWay

(* ChainStays, when Chain-Mode is entered or goes on. *)
LEMMA StaysKept ==
  ASSUME TypeInv, ChainStays, Keeps(Leaving), Called(Leaving)' => Called(Leaving),
         \/ actualState'[ChainM] # "SelectChainMode"
         \/ /\ actualState[ChainM] = "SelectChainMode" /\ Keeps({"request"})
            /\ Called({"request"})' => Called({"request"})
  PROVE  ChainStays'
<1>1. TypeOK /\ Leaving \subseteq AllEvents /\ {"request"} \subseteq AllEvents
  BY TrackedAreEvents DEF TypeInv, Tracked
<1>2. ~Called(Leaving)' /\ ~Pending(Leaving)'
  BY <1>1, Kept DEF ChainStays, Leaving
<1>3. actualState'[ChainM] = "SelectChainMode" => ~Called({"request"})' /\ ~Pending({"request"})'
  BY <1>1, Kept DEF ChainStays
<1> QED
  BY <1>2, <1>3 DEF ChainStays, Leaving

(* A step that has nothing to do with orders. *)
LEMMA OrderKept ==
  ASSUME TypeInv, OrderInv,
         actualState'[ChainM] = actualState[ChainM],
         actualState'[PerformingM] = actualState[PerformingM],
         right' = right \/ (right = "asked" /\ right' = "waited"),
         \/ actualEvent' = actualEvent /\ diagram' = diagram
         \/ actualEvent' \in {actualEvent, NoEvent} /\ actualEvent \notin Tracked,
         \/ queue' = queue
         \/ \E e \in AllEvents \ ({"ready", "release"} \cup Leaving) :
              Adds(e) /\ (e = "request" => actualState[ChainM] # "SelectChainMode"),
         \A E \in {{"ready"}, {"release"}, Leaving} : Called(E)' <=> Called(E),
         actualState[ChainM] = "SelectChainMode" => (Called({"request"})' => Called({"request"})),
         OnlyReader'
  PROVE  OrderInv'
<1>1. /\ TypeOK /\ queue \in Seq(AllEvents) /\ NoEvent \notin Tracked
      /\ ChainStays /\ InStep /\ OneAnswer("ready") /\ OneAnswer("release") /\ OnlyReader
      /\ Unasked /\ Asked /\ TakingOver
      /\ "ready" \in Tracked /\ "release" \in Tracked /\ "request" \in Tracked
  BY TrackedAreEvents DEF TypeInv, TypeOK, OrderInv, Tracked
<1>2. /\ Keeps({"ready"}) /\ Keeps({"release"}) /\ Keeps(Leaving)
      /\ actualState[ChainM] = "SelectChainMode" => Keeps({"request"})
  BY DEF Keeps
<1>3. ChainStays'
  BY <1>1, <1>2, StaysKept
<1>4. OneAnswer("ready")' /\ OneAnswer("release")'
  BY <1>1, <1>2, AnswerKept
<1>5. \A e \in {"ready", "release"} : NoneUnderWay(e) => NoneUnderWay(e)'
  BY <1>1, <1>2, NoneKept
<1>6. /\ \A e \in Tracked : actualEvent' = e <=> actualEvent = e
      /\ actualEvent' \in Tracked => diagram' = diagram
  BY <1>1
<1>7. Starting' <=> Starting
  BY <1>1, <1>6 DEF Starting
<1>8. Finishing' <=> Finishing
  BY <1>1, <1>6 DEF Finishing
<1>9. InStep'
  BY <1>1, <1>7, <1>8 DEF InStep
<1>10. /\ \A E : Holds(queue, E) => Holds(queue', E)
       /\ \A E \in {{"ready"}, {"release"}} : Holds(queue', E) => Holds(queue, E)
       /\ Behind(queue, "ready", {"release"}) => Behind(queue', "ready", {"release"})
  <2>1. CASE queue' = queue
    BY <2>1
  <2>2. ASSUME NEW e \in AllEvents \ {"ready", "release"}, Adds(e)
        PROVE  /\ \A E : Holds(queue, E) => Holds(queue', E)
               /\ \A E \in {{"ready"}, {"release"}} : Holds(queue', E) => Holds(queue, E)
               /\ Behind(queue, "ready", {"release"}) => Behind(queue', "ready", {"release"})
    BY <1>1, <2>2, Appended DEF Adds
  <2> QED
    BY <2>1, <2>2
<1>11. Unasked'
  <2> SUFFICES ASSUME actualState[ChainM] \notin {"Waiting", "HandingOverR"}
               PROVE  /\ right' = "idle" /\ NoneUnderWay("ready")'
                      /\ ~Called({"release"})' /\ ~Holds(queue', {"release"})
                      /\ actualEvent' = "release" => Finishing'
    BY DEF Unasked
  <2> QED
    BY <1>1, <1>5, <1>6, <1>8, <1>10 DEF Unasked
<1>12. Asked'
  <2> SUFFICES ASSUME actualState[ChainM] = "Waiting"
               PROVE  Asked'
    BY DEF Asked
  <2>1. CASE right \in {"asked", "waited"} /\ NoneUnderWay("ready") /\ NoneUnderWay("release")
    BY <1>5, <2>1 DEF Asked
  <2>2. CASE /\ right = "ready" /\ NoneUnderWay("release")
             /\ Pending({"ready"}) \/ Called({"ready"})
    <3>1. Pending({"ready"})' \/ Called({"ready"})'
      BY <1>1, <1>6, <1>10, <2>2 DEF Pending
    <3> QED
      BY <1>5, <2>2, <3>1 DEF Asked
  <2>3. CASE /\ right = "idle" /\ ~Called({"ready"}) /\ actualEvent # "release"
             /\ Pending({"ready"})
             /\ actualEvent = "ready" \/ Behind(queue, "ready", {"release"})
    BY <1>1, <1>6, <1>10, <2>3 DEF Asked, Pending
  <2> QED
    BY <1>1, <2>1, <2>2, <2>3 DEF Asked
<1>13. TakingOver'
  BY <1>1, <1>5, <1>6 DEF TakingOver
<1> QED
  BY <1>3, <1>4, <1>9, <1>11, <1>12, <1>13 DEF OrderInv
(* A task that decides on an event, or has sent it, is about to send none  *)
(* of E before and after.                                                  *)
LEMMA CallsOthers ==
  ASSUME TypeOK, NEW c \in Callers, NEW e, call' = [call EXCEPT ![c] = e],
         NEW E, call[c] \notin E, e \notin E
  PROVE  Called(E)' <=> Called(E)
  BY DEF Called, TypeOK

LEMMA OrderAsynchronous ==
  ASSUME NobodyInterferes, TypeInv, OrderInv, Asynchronous
  PROVE  OrderInv'
<1>1. /\ TypeOK /\ queue \in Seq(AllEvents) /\ NoEvent \notin Tracked \cup Leaving
      /\ actualEvent' = actualEvent /\ diagram' = diagram /\ actualState' = actualState
      /\ call \in [Callers -> AllEvents \cup {NoEvent}]
  BY TrackedAreEvents, AsynchronousLeaves DEF TypeInv, TypeOK
<1>2. /\ ChainStays /\ InStep /\ OneAnswer("ready") /\ OneAnswer("release") /\ OnlyReader
      /\ Unasked /\ Asked /\ TakingOver
      /\ "ready" \in Tracked /\ "release" \in Tracked /\ "request" \in Tracked
      /\ Operator # RightReader /\ RightReader \in Callers /\ Operator \in Callers
      /\ Sfds \subseteq Callers /\ RightReader \notin Sfds
  BY BeltAssumption DEF OrderInv, Tracked, Callers
<1>3. CASE \E command \in Commands : Command(command)
  <2>1. PICK command \in Commands : Command(command)
    BY <1>3
  <2>2. /\ call[Operator] = NoEvent /\ call' = [call EXCEPT ![Operator] = EventOf(command)]
        /\ queue' = queue /\ right' = right
    BY <2>1 DEF Command, Calls, machine
  <2>3. EventOf(command) \notin Tracked \cup Leaving
    <3>1. command \in {"CHAIN", "PLUS", "MINUS", "LEFT", "RIGHT", "NOTFOUND"}
      BY <2>1, BeltAssumption DEF NobodyInterferes
    <3> QED
      BY <1>1, <3>1 DEF EventOf, Tracked, Leaving
  <2>4. ASSUME NEW E, E \subseteq Tracked \cup Leaving
        PROVE  Called(E)' <=> Called(E)
    <3>1. call[Operator] \notin E /\ EventOf(command) \notin E
      BY <1>1, <2>2, <2>3, <2>4
    <3> QED
      BY <1>1, <1>2, <2>2, <3>1, CallsOthers
  <2>5. /\ \A E \in {{"ready"}, {"release"}, Leaving} : Called(E)' <=> Called(E)
        /\ Called({"request"})' <=> Called({"request"})
    BY <2>4 DEF Tracked
  <2>6. OnlyReader'
    BY <1>1, <1>2, <2>2, <2>3 DEF OnlyReader, Tracked
  <2> QED
    BY <1>1, <2>2, <2>5, <2>6, OrderKept
<1>4. ASSUME NEW s \in Sfds, Request(s)
      PROVE  OrderInv'
  <2>1. PICK e \in {NoEvent, "request"} : Calls(s, e)
    BY <1>4 DEF Request
  <2>2. /\ call[s] = NoEvent /\ call' = [call EXCEPT ![s] = e]
        /\ queue' = queue /\ right' = right /\ actualState[ChainM] # "SelectChainMode"
    BY <1>4, <2>1 DEF Request, Calls, machine, NobodyInterferes
  <2>3. ASSUME NEW E \in {{"ready"}, {"release"}, Leaving}
        PROVE  Called(E)' <=> Called(E)
    <3>1. call[s] \notin E /\ e \notin E
      BY <1>1, <2>2 DEF Tracked, Leaving
    <3> QED
      BY <1>1, <1>2, <2>2, <3>1, CallsOthers
  <2>4. OnlyReader'
    BY <1>1, <1>2, <2>2 DEF OnlyReader, Tracked
  <2> QED
    BY <1>1, <2>2, <2>3, <2>4, OrderKept
<1>5. ASSUME NEW s \in Sfds, GiveUp(s)
      PROVE  OrderInv'
  <2>1. queue' = queue /\ right' = right /\ call' = call
    BY <1>5 DEF GiveUp, machine
  <2>2. OnlyReader' /\ \A E : Called(E)' <=> Called(E)
    BY <1>2, <2>1 DEF OnlyReader, Called
  <2> QED
    BY <1>1, <2>1, <2>2, OrderKept
<1>6. CASE PhaseEnds
  <2>1. right' = right /\ call' = call /\ Adds(Completion[phase])
    BY <1>6 DEF PhaseEnds, Adds
  <2>2. /\ Completion[phase] \in AllEvents \ ({"ready", "release"} \cup Leaving)
        /\ Completion[phase] # "request"
    <3>1. Completion[phase] \in {"rampupf", "constf", "rampdownf"}
      BY <1>1, <1>6 DEF PhaseEnds, Completion, Phases, TypeOK
    <3> QED
      BY <3>1, EventNames DEF Leaving
  <2>3. OnlyReader' /\ \A E : Called(E)' <=> Called(E)
    BY <1>2, <2>1 DEF OnlyReader, Called
  <2> QED
    BY <1>1, <2>1, <2>2, <2>3, OrderKept
<1>7. CASE RightWait
  <2>1. /\ right = "asked" /\ right' = "waited" /\ queue' = queue
        /\ call[RightReader] = NoEvent /\ call' = [call EXCEPT ![RightReader] = "wait"]
    BY <1>7 DEF RightWait, RightAnswers, Calls, machine
  <2>2. ASSUME NEW E, E \subseteq Tracked \cup Leaving
        PROVE  Called(E)' <=> Called(E)
    <3>1. call[RightReader] \notin E /\ "wait" \notin E
      BY <1>1, <2>1, <2>2 DEF Tracked, Leaving
    <3> QED
      BY <1>1, <1>2, <2>1, <3>1, CallsOthers
  <2>3. /\ \A E \in {{"ready"}, {"release"}, Leaving} : Called(E)' <=> Called(E)
        /\ Called({"request"})' <=> Called({"request"})
    BY <2>2 DEF Tracked
  <2>4. OnlyReader'
    BY <1>1, <1>2, <2>1 DEF OnlyReader
  <2> QED
    BY <1>1, <2>1, <2>3, <2>4, OrderKept
<1>8. CASE RightReady \/ RightRelease
  <2>1. PICK e \in {"ready", "release"} :
          /\ \/ RightReady /\ e = "ready" /\ right \in {"asked", "waited"} /\ right' = "ready"
             \/ RightRelease /\ e = "release" /\ right = "ready" /\ right' = "idle"
          /\ call[RightReader] = NoEvent /\ call' = [call EXCEPT ![RightReader] = e]
          /\ queue' = queue
    BY <1>8 DEF RightReady, RightRelease, RightAnswers, Calls, machine
(* Nobody else is about to send an answer. *)
  <2>2. /\ ~Called({"ready"}) /\ ~Called({"release"})
        /\ Called({e})' /\ \A k \in {"ready", "release"} \ {e} : ~Called({k})'
    BY <1>1, <1>2, <2>1 DEF Called, OnlyReader, Tracked
  <2>3. \A E : (Holds(queue, E)' <=> Holds(queue, E)) /\ (Pending(E)' <=> Pending(E))
    BY <1>1, <2>1 DEF Pending
  <2>4. InStep'
    BY <1>1, <1>2 DEF InStep, Starting, Finishing
  <2>5. ChainStays'
    <3>1. ASSUME NEW E \in {Leaving, {"request"}}
          PROVE  Called(E)' <=> Called(E)
      <4>1. call[RightReader] \notin E /\ e \notin E
        BY <1>1, <2>1 DEF Leaving, Tracked
      <4> QED
        BY <1>1, <1>2, <2>1, <4>1, CallsOthers
    <3> QED
      BY <1>1, <1>2, <2>3, <3>1 DEF ChainStays, Leaving
  <2>6. OnlyReader'
    BY <1>1, <1>2, <2>1 DEF OnlyReader
  <2>7. actualState[ChainM] \in {"Waiting", "HandingOverR"}
    BY <1>2, <2>1 DEF Unasked
  <2>8. CASE e = "ready"
    <3>1. /\ actualState[ChainM] = "Waiting" /\ right' = "ready"
          /\ NoneUnderWay("ready") /\ NoneUnderWay("release")
      BY <1>2, <2>1, <2>7, <2>8 DEF Asked, TakingOver
    <3>2. OneAnswer("ready")' /\ OneAnswer("release")'
      BY <1>1, <1>2, <2>1, <2>2, <2>3, <2>8, <3>1 DEF OneAnswer, NoneUnderWay, Pending
    <3>3. Asked'
      BY <2>2, <2>3, <2>8, <3>1 DEF Asked, NoneUnderWay
    <3>4. Unasked' /\ TakingOver'
      BY <1>1, <3>1 DEF Unasked, TakingOver
    <3> QED
      BY <2>4, <2>5, <2>6, <3>2, <3>3, <3>4 DEF OrderInv
  <2>9. CASE e = "release"
    <3>1. /\ right' = "idle" /\ NoneUnderWay("release")
          /\ actualState[ChainM] = "Waiting" => Pending({"ready"})
          /\ actualState[ChainM] = "HandingOverR" => NoneUnderWay("ready")
      BY <1>2, <2>1, <2>2, <2>7, <2>9 DEF Asked, TakingOver
    <3>2. OneAnswer("ready")' /\ OneAnswer("release")'
      BY <1>1, <1>2, <2>1, <2>2, <2>3, <2>9, <3>1 DEF OneAnswer, NoneUnderWay, Pending
    <3>3. Asked'
      <4>1. Behind(queue', "ready", {"release"})
        BY <2>1, <3>1 DEF Behind, NoneUnderWay, Pending, Holds
      <4> QED
        BY <1>1, <2>2, <2>3, <2>9, <3>1, <4>1 DEF Asked, NoneUnderWay, Pending
    <3>4. Unasked'
      BY <1>1, <2>7 DEF Unasked
    <3>5. TakingOver'
      BY <1>1, <2>2, <2>3, <2>9, <3>1 DEF TakingOver, NoneUnderWay, Pending
    <3> QED
      BY <2>4, <2>5, <2>6, <3>2, <3>3, <3>4, <3>5 DEF OrderInv
  <2> QED
    BY <2>1, <2>8, <2>9
<1>9. ASSUME NEW c \in Callers, CallerSends(c)
      PROVE  OrderInv'
  <2>1. /\ call[c] # NoEvent /\ call[c] \in AllEvents /\ Adds(call[c])
        /\ call' = [call EXCEPT ![c] = NoEvent] /\ right' = right
    BY <1>1, <1>9 DEF CallerSends, Adds
  <2>2. /\ call[c] \notin Leaving
        /\ call[c] = "request" => actualState[ChainM] # "SelectChainMode"
        /\ call[c] \in {"ready", "release"} => c = RightReader
    BY <1>2 DEF ChainStays, Called, OnlyReader, Leaving
  <2>3. OnlyReader'
    BY <1>1, <1>2, <2>1 DEF OnlyReader, Tracked
  <2>4. ASSUME NEW E, E \subseteq Tracked \cup Leaving, call[c] \notin E
        PROVE  Called(E)' <=> Called(E)
    BY <1>1, <2>1, <2>4, CallsOthers
  <2>5. CASE call[c] \notin {"ready", "release"}
    <3>1. /\ \A E \in {{"ready"}, {"release"}, Leaving} : Called(E)' <=> Called(E)
          /\ Called({"request"})' => Called({"request"})
      <4>1. Called({"request"})' => Called({"request"})
        BY <1>1, <2>1 DEF Called, Tracked
      <4> QED
        BY <2>2, <2>4, <2>5, <4>1 DEF Tracked, Leaving
    <3> QED
      BY <1>1, <2>1, <2>2, <2>3, <2>5, <3>1, OrderKept
  <2>6. CASE call[c] \in {"ready", "release"}
    <3>1. /\ c = RightReader /\ Called({call[c]})
          /\ ~Called({"ready"})' /\ ~Called({"release"})'
      BY <1>1, <1>2, <2>1, <2>2, <2>6 DEF Called, OnlyReader, Tracked
    <3>2. /\ \A E : Holds(queue', E) <=> Holds(queue, E) \/ call[c] \in E
          /\ \A E : Once(queue, E) /\ (call[c] \in E => ~Holds(queue, E)) => Once(queue', E)
          /\ \A h, F : Behind(queue, h, F) /\ (call[c] \in F => Holds(queue, {h}))
                        => Behind(queue', h, F)
      <4>1. PICK e \in AllEvents : e = call[c] /\ queue' = Append(queue, e)
        BY <2>1 DEF Adds
      <4>2. \A E : Holds(queue', E) <=> Holds(queue, E) \/ e \in E
        BY <1>1, <4>1, Appended
      <4>3. \A E : Once(queue, E) /\ (e \in E => ~Holds(queue, E)) => Once(queue', E)
        BY <1>1, <4>1, Appended
      <4>4. \A h, F : Behind(queue, h, F) /\ (e \in F => Holds(queue, {h}))
                      => Behind(queue', h, F)
        BY <1>1, <4>1, Appended
      <4> QED
        BY <4>1, <4>2, <4>3, <4>4
    <3>3. /\ ~Called({"request"})' <=> ~Called({"request"})
          /\ ~Called(Leaving)' <=> ~Called(Leaving)
      BY <2>2, <2>4, <2>6 DEF Tracked, Leaving
    <3>4. ChainStays'
      BY <1>1, <1>2, <2>2, <2>6, <3>2, <3>3 DEF ChainStays, Pending, Leaving
    <3>5. InStep'
      BY <1>1, <1>2 DEF InStep, Starting, Finishing
    <3>6. OneAnswer("ready")' /\ OneAnswer("release")'
      BY <1>1, <1>2, <2>6, <3>1, <3>2 DEF OneAnswer
    <3>7. actualState[ChainM] \in {"Waiting", "HandingOverR"}
      BY <1>2, <2>6, <3>1 DEF Unasked, NoneUnderWay
    <3>8. CASE actualState[ChainM] = "Waiting"
      <4>1. Asked'
        <5>1. CASE call[c] = "ready"
          <6>1. right = "ready" /\ NoneUnderWay("release")
            BY <1>2, <3>1, <3>8, <5>1 DEF Asked, NoneUnderWay
          <6> QED
            BY <1>1, <2>1, <3>1, <3>2, <5>1, <6>1 DEF Asked, NoneUnderWay, Pending
        <5>2. CASE call[c] = "release"
          <6>1. /\ right = "idle" /\ ~Called({"ready"}) /\ actualEvent # "release"
                /\ Pending({"ready"})
                /\ actualEvent = "ready" \/ Behind(queue, "ready", {"release"})
            BY <1>2, <3>1, <3>8, <5>2 DEF Asked, NoneUnderWay
          <6>2. Pending({"ready"})'
            BY <1>1, <3>2, <6>1 DEF Pending
          <6>3. actualEvent' = "ready" \/ Behind(queue', "ready", {"release"})
            BY <1>1, <3>2, <6>1 DEF Pending
          <6> QED
            BY <1>1, <2>1, <3>1, <6>1, <6>2, <6>3 DEF Asked
        <5> QED
          BY <2>6, <5>1, <5>2
      <4>2. Unasked' /\ TakingOver'
        BY <1>1, <3>8 DEF Unasked, TakingOver
      <4> QED
        BY <2>3, <3>4, <3>5, <3>6, <4>1, <4>2 DEF OrderInv
    <3>9. CASE actualState[ChainM] = "HandingOverR"
      <4>1. /\ call[c] = "release" /\ right = "idle" /\ NoneUnderWay("ready")
            /\ actualEvent = "release" => diagram = ChainM
        BY <1>2, <2>6, <3>1, <3>9 DEF TakingOver, NoneUnderWay
      <4>2. TakingOver'
        BY <1>1, <2>1, <3>1, <3>2, <4>1 DEF TakingOver, NoneUnderWay, Pending
      <4>3. Unasked' /\ Asked'
        BY <1>1, <3>9 DEF Unasked, Asked
      <4> QED
        BY <2>3, <3>4, <3>5, <3>6, <4>2, <4>3 DEF OrderInv
    <3> QED
      BY <3>7, <3>8, <3>9
  <2> QED
    BY <2>5, <2>6
<1> QED
  BY <1>3, <1>4, <1>5, <1>6, <1>7, <1>8, <1>9 DEF Asynchronous
LEMMA OrderTake ==
  ASSUME TypeInv, ModeInv, OrderInv, TakeEvent
  PROVE  OrderInv'
<1>1. /\ TypeOK /\ queue \in Seq(AllEvents) /\ NoEvent \notin Tracked \cup Leaving
      /\ actualEvent = NoEvent /\ queue # <<>> /\ queue' = Tail(queue)
      /\ actualState' = actualState /\ call' = call /\ right' = right
      /\ actualEvent' \in {Head(queue), NoEvent}
  BY TrackedAreEvents, HeadTaken DEF TypeInv, TypeOK, TakeEvent
<1>2. /\ ChainStays /\ InStep /\ OneAnswer("ready") /\ OneAnswer("release") /\ OnlyReader
      /\ Unasked /\ Asked /\ TakingOver
      /\ "ready" \in Tracked /\ "release" \in Tracked /\ "request" \in Tracked
  BY DEF OrderInv, Tracked
<1>3. /\ \A E : Holds(queue, E) <=> Head(queue) \in E \/ Holds(queue', E)
      /\ \A h, F : Behind(queue, h, F) =>
           Head(queue) \notin F /\ (Head(queue) # h => Behind(queue', h, F))
  <2>1. \A E : Holds(queue, E) <=> Head(queue) \in E \/ Holds(queue', E)
    BY <1>1, Taken
  <2>2. \A h, F : Behind(queue, h, F) =>
           Head(queue) \notin F /\ (Head(queue) # h => Behind(queue', h, F))
    BY <1>1, Taken
  <2> QED
    BY <2>1, <2>2
<1>4. /\ \A E : Keeps(E) /\ (Called(E)' <=> Called(E))
      /\ OnlyReader'
  BY <1>1, <1>2 DEF Keeps, Called, OnlyReader
<1>5. \A e \in {"ready", "release"} : NoneUnderWay(e) => NoneUnderWay(e)'
  BY <1>2, <1>4, NoneKept
<1>6. OneAnswer("ready")' /\ OneAnswer("release")'
  BY <1>2, <1>4, AnswerKept
<1>7. ChainStays'
  BY <1>1, <1>2, <1>4, StaysKept
(* The Chain-Mode diagram is the first to hear of an order's events. *)
<1>8. ASSUME NEW e \in Tracked, Head(queue) = e, actualState[ChainM] # "SelectChainMode",
             \/ actualState[ChainM] = "Idle" /\ e = "request"
             \/ actualState[ChainM] = "Waiting" /\ e = "ready"
             \/ actualState[ChainM] = "HandingOverR" /\ e = "release"
      PROVE  diagram' = ChainM /\ actualEvent' = e
  <2>1. Condition("ChainM", localMode, chainMode)
    BY <1>8, ChainActive DEF Condition
  <2>2. Matching(ChainM, e, actualState, localMode, chainMode) # {}
    BY <1>8, <2>1, ChainHears
  <2>3. ASSUME NEW k \in Diagrams, k < ChainM
        PROVE  Matching(k, e, actualState, localMode, chainMode) = {}
    <3>1. k = LocalM
      BY <2>3, DiagramsAre DEF Diagrams
    <3> QED
      BY <3>1, DiagramsAre, EventsAre, NoRow DEF Tracked
  <2> QED
    BY <1>1, <1>8, <2>2, <2>3, FirstDiagram, DiagramsAre
<1>9. ~Starting /\ ~Finishing
  BY <1>1 DEF Starting, Finishing, Tracked
<1>10. ~Starting'
  <2> SUFFICES ASSUME Starting' PROVE FALSE
    OBVIOUS
  <2>1. /\ actualEvent' = "request" /\ diagram' = PerformingM
        /\ actualState[PerformingM] = "startPerforming"
    BY <1>1 DEF Starting
  <2>2. Head(queue) = "request" /\ Pending({"request"})
    BY <1>1, <1>3, <2>1 DEF Pending, Tracked
  <2>3. actualState[ChainM] = "Idle"
    BY <1>1, <1>2, <1>9, <2>1, <2>2, StatesTyped DEF InStep, ChainStays, Transporting
  <2> QED
    BY <1>2, <1>8, <2>1, <2>2, <2>3, DiagramsAre
<1>11. ASSUME Head(queue) = "release"
       PROVE  actualState[ChainM] = "HandingOverR" /\ diagram' = ChainM
  <2>1. Holds(queue, {"release"}) /\ Pending({"release"})
    BY <1>3, <1>11 DEF Pending
  <2>2. actualState[ChainM] \in {"Waiting", "HandingOverR"}
    BY <1>2, <2>1 DEF Unasked
  <2>3. ~Behind(queue, "ready", {"release"})
    BY <1>3, <1>11
  <2>4. actualState[ChainM] # "Waiting"
    BY <1>1, <1>2, <2>1, <2>3 DEF Asked, NoneUnderWay, Tracked
  <2> QED
    BY <1>2, <1>8, <1>11, <2>2, <2>4
<1>12. ~Finishing'
  BY <1>1, <1>2, <1>11, DiagramsAre DEF Finishing
<1>13. InStep'
  BY <1>1, <1>2, <1>9, <1>10, <1>12 DEF InStep
<1>14. actualEvent' = "release" => Head(queue) = "release"
  BY <1>1, <1>2
<1>15. Unasked'
  <2> SUFFICES ASSUME actualState[ChainM] \notin {"Waiting", "HandingOverR"}
               PROVE  /\ right' = "idle" /\ NoneUnderWay("ready")'
                      /\ ~Called({"release"})' /\ ~Holds(queue', {"release"})
                      /\ actualEvent' = "release" => Finishing'
    BY <1>1 DEF Unasked
  <2> QED
    BY <1>1, <1>2, <1>3, <1>4, <1>5, <1>11, <1>14 DEF Unasked
<1>16. Asked'
  <2> SUFFICES ASSUME actualState[ChainM] = "Waiting"
               PROVE  Asked'
    BY <1>1 DEF Asked
  <2>1. CASE right \in {"asked", "waited"} /\ NoneUnderWay("ready") /\ NoneUnderWay("release")
    BY <1>1, <1>5, <2>1 DEF Asked
  <2>2. ASSUME Holds(queue, {"ready"})
        PROVE  actualEvent' = "ready" \/ Holds(queue', {"ready"})
    BY <1>2, <1>3, <1>8, <2>2
  <2>3. CASE /\ right = "ready" /\ NoneUnderWay("release")
             /\ Pending({"ready"}) \/ Called({"ready"})
    <3>1. Pending({"ready"})' \/ Called({"ready"})'
      BY <1>1, <1>4, <2>2, <2>3 DEF Pending, Tracked
    <3> QED
      BY <1>1, <1>5, <2>3, <3>1 DEF Asked
  <2>4. CASE /\ right = "idle" /\ ~Called({"ready"}) /\ actualEvent # "release"
             /\ Pending({"ready"})
             /\ actualEvent = "ready" \/ Behind(queue, "ready", {"release"})
    <3>1. Holds(queue, {"ready"}) /\ Behind(queue, "ready", {"release"})
      BY <1>1, <2>4 DEF Pending, Tracked
    <3>2. Pending({"ready"})'
      BY <2>2, <3>1 DEF Pending
    <3>3. Head(queue) # "release" /\ (Head(queue) # "ready" => Behind(queue', "ready", {"release"}))
      BY <1>3, <3>1
    <3>4. actualEvent' # "release"
      BY <1>14, <3>3
    <3>5. actualEvent' = "ready" \/ Behind(queue', "ready", {"release"})
      BY <1>2, <1>8, <3>3
    <3> QED
      BY <1>1, <1>4, <2>4, <3>2, <3>4, <3>5 DEF Asked
  <2> QED
    BY <1>2, <2>1, <2>3, <2>4 DEF Asked
<1>17. TakingOver'
  BY <1>1, <1>2, <1>5, <1>11, <1>14 DEF TakingOver
<1> QED
  BY <1>4, <1>6, <1>7, <1>13, <1>15, <1>16, <1>17 DEF OrderInv
(* Only myAction14 asks the right neighbour. *)
LEMMA ActionsAsk ==
  /\ Driveless \/ Drives \/ Stop => right' = right
  /\ myAction12 \/ myAction13 \/ myAction1617 \/ myAction18 \/ myAction36 => right' = right
  /\ Phase("RAMPUP") \/ Phase("CONSTANTVELOCITY") \/ Phase("RAMPDOWN") => right' = right
  /\ myAction14 => right' = IF right = "idle" THEN "asked" ELSE right
<1> USE DEF Outside
<1>1. Driveless => right' = right
  BY DEF Driveless, NoEffect, LeaveMode, myAction01, myAction02, myAction19, myAction41,
         myAction42, EntersChain, EntersLocal, EnterMode
<1>2. Stop \/ myAction12 \/ myAction13 \/ myAction1617 \/ myAction18 \/ myAction36
        => right' = right
  BY DEF Stop, myAction12, myAction13, myAction1617, myAction18, myAction36
<1>3. Drives \/ Phase("RAMPUP") \/ Phase("CONSTANTVELOCITY") \/ Phase("RAMPDOWN")
        => right' = right
  BY DEF Drives, myAction0304, Phase
<1>4. myAction14 => right' = IF right = "idle" THEN "asked" ELSE right
  BY DEF myAction14, AskRight
<1> QED
  BY <1>1, <1>2, <1>3, <1>4

LEMMA OrderTransition ==
  ASSUME NobodyInterferes, TypeInv, ModeInv, NoHand, OrderInv, Transition
  PROVE  OrderInv'
<1>1. /\ TypeOK /\ queue \in Seq(AllEvents) /\ diagram \in Diagrams
      /\ NoEvent \notin Tracked \cup Leaving
      /\ actualEvent' \in {actualEvent, NoEvent} /\ call' = call
      /\ ~localMode /\ actualEvent \notin {"LocalMode", "LocalModeC", "CancelOrder"}
  BY TrackedAreEvents, TransitionIs, HandsOn
  DEF TypeInv, TypeOK, NobodyInterferes, NoHand, Pending, OrderInv, ChainStays
<1>2. /\ ChainStays /\ InStep /\ OneAnswer("ready") /\ OneAnswer("release") /\ OnlyReader
      /\ Unasked /\ Asked /\ TakingOver
      /\ "ready" \in Tracked /\ "release" \in Tracked /\ "request" \in Tracked
  BY DEF OrderInv, Tracked
<1>3. LocalStep \/ ChainStep \/ SwitchStep \/ BeltStep \/ PerformingStep
  BY TransitionIs
<1>4. OnlyReader' /\ \A E : Called(E)' <=> Called(E)
  BY <1>1, <1>2 DEF Called, OnlyReader
<1>5. ASSUME actualState'[ChainM] = actualState[ChainM],
             actualState'[PerformingM] = actualState[PerformingM],
             right' = right, actualEvent \notin Tracked,
             \/ queue' = queue
             \/ \E e \in {"ChainModeS", "StopBelt", "ChainModeL", "LocalModeS"} : Adds(e)
      PROVE  OrderInv'
  <2>1. {"ChainModeS", "StopBelt", "ChainModeL", "LocalModeS"}
          \subseteq AllEvents \ ({"ready", "release", "request"} \cup Leaving)
    BY EventNames DEF Leaving
  <2> QED
    BY <1>1, <1>4, <1>5, <2>1, OrderKept
<1>6. CASE LocalStep \/ SwitchStep \/ BeltStep
  <2>1. /\ actualState'[ChainM] = actualState[ChainM]
        /\ actualState'[PerformingM] = actualState[PerformingM]
    <3>1. \E from, e, to : \/ Takes(LocalM, from, e, to) \/ Takes(SwitchM, from, e, to)
                           \/ Takes(BeltInMotionM, from, e, to)
      BY <1>6 DEF LocalStep, SwitchStep, BeltStep
    <3> QED
      BY <1>1, <3>1, Moved, DiagramsAre
  <2>2. actualEvent \notin Tracked
    BY <1>6 DEF LocalStep, SwitchStep, BeltStep, Takes, Tracked
  <2>3. \/ NoEffect \/ myAction01 \/ myAction02 \/ Drives \/ Stop \/ LeaveMode("ChainModeL")
        \/ EntersChain \/ EntersLocal \/ Phase("RAMPUP") \/ Phase("CONSTANTVELOCITY")
        \/ Phase("RAMPDOWN") \/ myAction36
    BY <1>6 DEF LocalStep, SwitchStep, BeltStep
  <2>4. /\ right' = right
        /\ \/ queue' = queue
           \/ \E e \in {"ChainModeS", "StopBelt", "ChainModeL", "LocalModeS"} : Adds(e)
    <3>1. right' = right
      BY <2>3, ActionsAsk DEF Driveless
    <3>2. \/ queue' = queue
          \/ \E e \in {"ChainModeS", "StopBelt", "ChainModeL", "LocalModeS"} : Adds(e)
      BY <2>3, ActionsQueue DEF Quiet
    <3> QED
      BY <3>1, <3>2
  <2> QED
    BY <1>5, <2>1, <2>2, <2>4
(* What the steps of the two diagrams have in common. *)
<1>7. ASSUME queue' = queue \/ Adds("BeltInMotionR") \/ Adds("request"),
             actualState'[ChainM] # "SelectChainMode"
      PROVE  /\ Keeps({"ready"}) /\ Keeps({"release"})
             /\ ChainStays' /\ OneAnswer("ready")' /\ OneAnswer("release")'
  <2>1. {"BeltInMotionR", "request"} \subseteq AllEvents \ ({"ready", "release"} \cup Leaving)
    BY EventNames DEF Leaving
  <2>2. Keeps({"ready"}) /\ Keeps({"release"}) /\ Keeps(Leaving)
    BY <1>1, <1>7, <2>1 DEF Keeps
  <2>3. OneAnswer("ready")' /\ OneAnswer("release")'
    BY <1>2, <1>4, <2>2, AnswerKept
  <2>4. ChainStays'
    BY <1>2, <1>4, <1>7, <2>2, StaysKept
  <2> QED
    BY <2>2, <2>3, <2>4
<1>8. \A e \in {"ready", "release"} : NoneUnderWay(e) /\ Keeps({e}) => NoneUnderWay(e)'
  BY <1>2, <1>4, NoneKept
<1>9. CASE PerformingStep
  <2>0. /\ diagram = PerformingM /\ actualState'[ChainM] = actualState[ChainM]
        /\ chainMode /\ actualEvent' = NoEvent
    <3>1. chainMode /\ \E from, e, to : Takes(PerformingM, from, e, to)
      BY <1>9 DEF PerformingStep
    <3>2. diagram = PerformingM /\ actualState'[ChainM] = actualState[ChainM]
      BY <1>1, <3>1, Moved, DiagramsAre
    <3>3. ~\E k \in Diagrams : k > diagram
      BY <3>2, DiagramsAre DEF Diagrams
    <3> QED
      BY <3>1, <3>2, <3>3, LastDiagram
  <2>1. CASE chainMode /\ Takes(PerformingM, "startPerforming", "request", "Performing")
             /\ NoEffect
    <3>1. /\ actualEvent = "request" /\ actualState[PerformingM] = "startPerforming"
          /\ actualState'[PerformingM] = "Performing"
      BY <1>1, <2>1, Moved, DiagramsAre
    <3>2. actualState[ChainM] = "HandingOverL"
      BY <1>2, <2>0, <3>1 DEF InStep, Starting
    <3>3. right' = right /\ queue' = queue
      BY <2>1, ActionsAsk, ActionsQueue DEF Driveless, Quiet
    <3>4. /\ Keeps({"ready"}) /\ Keeps({"release"})
          /\ ChainStays' /\ OneAnswer("ready")' /\ OneAnswer("release")'
      BY <1>7, <2>0, <3>2, <3>3
    <3>5. InStep'
      BY <1>1, <2>0, <3>1, <3>2 DEF InStep, Starting, Finishing, Transporting, Tracked
    <3>6. Unasked' /\ Asked' /\ TakingOver'
      BY <1>1, <1>2, <1>4, <1>8, <2>0, <3>2, <3>3, <3>4
      DEF Unasked, Asked, TakingOver
    <3> QED
      BY <1>4, <3>4, <3>5, <3>6 DEF OrderInv
  <2>2. CASE chainMode /\ Takes(PerformingM, "Performing", "request", "Performing")
             /\ myAction41
    <3>1. /\ actualEvent = "request" /\ actualState[PerformingM] = "Performing"
          /\ actualState'[PerformingM] = "Performing"
      BY <1>1, <2>2, Moved, DiagramsAre
    <3>2. actualState[ChainM] \in Transporting /\ ~Starting /\ ~Finishing
      BY <1>2, <3>1 DEF InStep, Starting, Finishing
    <3>3. right' = right /\ queue' = queue
      BY <2>2, ActionsAsk, ActionsQueue DEF Driveless, Quiet
    <3>4. /\ Keeps({"ready"}) /\ Keeps({"release"})
          /\ ChainStays' /\ OneAnswer("ready")' /\ OneAnswer("release")'
      BY <1>7, <2>0, <3>2, <3>3 DEF Transporting
    <3>5. InStep'
      BY <1>1, <2>0, <3>1, <3>2 DEF InStep, Starting, Finishing, Tracked
    <3>6. Unasked' /\ TakingOver'
      BY <1>1, <1>2, <1>4, <1>8, <2>0, <3>2, <3>3, <3>4 DEF Unasked, TakingOver, Tracked
    <3>7. Asked'
      <4>1. Pending({"ready"})' <=> Pending({"ready"})
        BY <1>1, <2>0, <3>1, <3>3 DEF Pending, Tracked
      <4> QED
        BY <1>1, <1>2, <1>4, <1>8, <2>0, <3>1, <3>3, <3>4, <4>1 DEF Asked, Tracked
    <3> QED
      BY <1>4, <3>4, <3>5, <3>6, <3>7 DEF OrderInv
  <2>3. CASE chainMode /\ Takes(PerformingM, "Performing", "release", "startPerforming")
             /\ myAction42
    <3>1. /\ actualEvent = "release" /\ actualState'[PerformingM] = "startPerforming"
      BY <1>1, <2>3, Moved, DiagramsAre
    <3>2. actualState[ChainM] = "Idle"
      BY <1>2, <2>0, <3>1 DEF InStep, Finishing
    <3>3. right' = right /\ (queue' = queue \/ Adds("request"))
      BY <2>3, ActionsAsk, ActionsQueue DEF Driveless
    <3>4. /\ Keeps({"ready"}) /\ Keeps({"release"})
          /\ ChainStays' /\ OneAnswer("ready")' /\ OneAnswer("release")'
      BY <1>7, <2>0, <3>2, <3>3
    <3>5. InStep'
      BY <1>1, <2>0, <3>1, <3>2 DEF InStep, Starting, Finishing, Transporting, Tracked
    <3>6. Unasked'
      <4>1. ~Holds(queue', {"release"})
        <5>1. ~Holds(queue, {"release"})
          BY <1>2, <3>2 DEF Unasked
        <5>2. queue' = queue \/ \E e \in AllEvents \ {"release"} : queue' = Append(queue, e)
          BY <3>3, EventNames DEF Adds
        <5>3. ASSUME NEW e \in AllEvents \ {"release"}, queue' = Append(queue, e)
              PROVE  ~Holds(queue', {"release"})
          <6>1. Holds(queue', {"release"}) <=> Holds(queue, {"release"}) \/ e \in {"release"}
            BY <1>1, <5>3, Appended
          <6> QED
            BY <5>1, <6>1
        <5> QED
          BY <5>1, <5>2, <5>3
      <4> QED
        BY <1>1, <1>2, <1>4, <1>8, <2>0, <3>2, <3>3, <3>4, <4>1 DEF Unasked
    <3>7. Asked' /\ TakingOver'
      BY <2>0, <3>2 DEF Asked, TakingOver
    <3> QED
      BY <1>4, <3>4, <3>5, <3>6, <3>7 DEF OrderInv
  <2> QED
    BY <1>9, <2>1, <2>2, <2>3 DEF PerformingStep
<1>10. CASE ChainStep
  <2>0. /\ diagram = ChainM /\ actualState'[PerformingM] = actualState[PerformingM]
        /\ ~Starting /\ ~Finishing
    <3>1. \E from, e, to : Takes(ChainM, from, e, to)
      BY <1>10 DEF ChainStep
    <3>2. diagram = ChainM /\ actualState'[PerformingM] = actualState[PerformingM]
      BY <1>1, <3>1, Moved, DiagramsAre
    <3> QED
      BY <3>2, DiagramsAre DEF Starting, Finishing
  <2>1. actualState[PerformingM] = "Performing" <=> actualState[ChainM] \in Transporting
    BY <1>2, <2>0 DEF InStep
(* The rows whose events the Performing diagram does not know. *)
  <2>2. ASSUME actualEvent \notin {"request", "release"},
               actualState'[ChainM] \in Transporting <=> actualState[ChainM] \in Transporting
        PROVE  InStep'
    BY <1>1, <2>0, <2>1, <2>2 DEF InStep, Starting, Finishing, Tracked
  <2>3. CASE Takes(ChainM, "SelectChainMode", "ChainModeS", "Idle") /\ NoEffect
    <3>1. /\ actualState[ChainM] = "SelectChainMode" /\ actualState'[ChainM] = "Idle"
          /\ actualEvent = "ChainModeS"
      BY <1>1, <2>3, Moved, DiagramsAre
    <3>2. right' = right /\ queue' = queue
      BY <2>3, ActionsAsk, ActionsQueue DEF Driveless, Quiet
    <3>3. /\ Keeps({"ready"}) /\ Keeps({"release"})
          /\ ChainStays' /\ OneAnswer("ready")' /\ OneAnswer("release")'
      BY <1>7, <3>1, <3>2
    <3>4. InStep'
      BY <2>2, <3>1 DEF Transporting
    <3>5. Unasked'
      BY <1>1, <1>2, <1>4, <1>8, <3>1, <3>2, <3>3 DEF Unasked, Tracked
    <3>6. Asked' /\ TakingOver'
      BY <3>1 DEF Asked, TakingOver
    <3> QED
      BY <1>4, <3>3, <3>4, <3>5, <3>6 DEF OrderInv
  <2>4. CASE \/ chainMode /\ Takes(ChainM, "Waiting", "wait", "Waiting") /\ NoEffect
             \/ chainMode /\ Takes(ChainM, "HandingOverR", "constf", "HandingOverR")
                /\ myAction1617
    <3>1. actualState'[ChainM] = actualState[ChainM] /\ actualEvent \notin Tracked
      BY <1>1, <2>4, Moved, DiagramsAre DEF Tracked
    <3>2. right' = right /\ queue' = queue
      BY <2>4, ActionsAsk, ActionsQueue DEF Driveless, Quiet
    <3> QED
      BY <1>5, <2>0, <3>1, <3>2
(* The rest of the rows are those of Chain-Mode; the Performing diagram    *)
(* comes last.                                                             *)
  <2>5. ASSUME NEW e \in {"request", "release"}, actualEvent = e, chainMode' = TRUE,
               \/ actualState[PerformingM] = "startPerforming" /\ e = "request"
               \/ actualState[PerformingM] = "Performing" /\ e = "release"
        PROVE  diagram' = PerformingM /\ actualEvent' = e
    <3>1. Goto(2, e)
      BY <2>0, <2>5, DiagramsAre DEF Transition
    <3>2. Condition("ChainM", localMode', chainMode')
      BY <2>5 DEF Condition
    <3>3. Matching(4, e, actualState', localMode', chainMode') # {}
      <4>1. /\ Condition("ChainM", localMode', chainMode')
            /\ \/ actualState'[PerformingM] = "startPerforming" /\ e = "request"
               \/ actualState'[PerformingM] = "Performing" /\ e \in {"request", "release"}
        BY <2>0, <2>5, <3>2
      <4>2. Matching(PerformingM, e, actualState', localMode', chainMode') # {}
        BY <4>1, PerformingHears
      <4> QED
        BY <4>2, DiagramsAre
    <3>4. /\ Matching(2, e, actualState', localMode', chainMode') = {}
          /\ Matching(3, e, actualState', localMode', chainMode') = {}
      BY <2>5, EventsAre, NoRow, DiagramsAre
    <3>5. /\ diagram' \in (2 .. 4) \cup {5}
          /\ diagram' # 5 => /\ actualEvent' = e
                             /\ Matching(diagram', e, actualState', localMode', chainMode') # {}
          /\ \A k \in 2 .. 4 :
               k < diagram' => Matching(k, e, actualState', localMode', chainMode') = {}
      BY <3>1, GoneTo
    <3>6. diagram' = 4
      BY <3>3, <3>4, <3>5
    <3> QED
      BY <3>5, <3>6, DiagramsAre
  <2>6. CASE chainMode /\ Takes(ChainM, "Idle", "request", "HandingOverL") /\ myAction12
    <3>1. /\ actualState[ChainM] = "Idle" /\ actualState'[ChainM] = "HandingOverL"
          /\ actualEvent = "request"
      BY <1>1, <2>6, Moved, DiagramsAre
    <3>2. right' = right /\ queue' = queue /\ UNCHANGED modes
      BY <2>6, ActionsAsk, ActionsQueue DEF Quiet
    <3>3. /\ Keeps({"ready"}) /\ Keeps({"release"})
          /\ ChainStays' /\ OneAnswer("ready")' /\ OneAnswer("release")'
      BY <1>7, <3>1, <3>2
    <3>4. actualState[PerformingM] = "startPerforming"
      BY <1>1, <2>1, <3>1, StatesTyped DEF Transporting
    <3>5. chainMode' = TRUE
      BY <1>1, <2>6, <3>2 DEF modes, TypeOK
    <3>6. diagram' = PerformingM /\ actualEvent' = "request"
      BY <2>5, <3>1, <3>4, <3>5
    <3>7. InStep'
      BY <2>0, <3>1, <3>4, <3>6 DEF InStep, Starting, Finishing
    <3>8. Unasked'
      BY <1>1, <1>2, <1>4, <1>8, <3>1, <3>2, <3>3, <3>6 DEF Unasked, Tracked
    <3>9. Asked' /\ TakingOver'
      BY <3>1 DEF Asked, TakingOver
    <3> QED
      BY <1>4, <3>3, <3>7, <3>8, <3>9 DEF OrderInv
  <2>7. CASE chainMode /\ Takes(ChainM, "HandingOverL", "constf", "BeltInMotion") /\ myAction13
    <3>1. /\ actualState[ChainM] = "HandingOverL" /\ actualState'[ChainM] = "BeltInMotion"
          /\ actualEvent = "constf"
      BY <1>1, <2>7, Moved, DiagramsAre
    <3>2. right' = right /\ Adds("BeltInMotionR")
      BY <2>7, ActionsAsk, ActionsQueue
    <3>3. /\ Keeps({"ready"}) /\ Keeps({"release"})
          /\ ChainStays' /\ OneAnswer("ready")' /\ OneAnswer("release")'
      BY <1>7, <3>1, <3>2
    <3>4. InStep'
      BY <2>2, <3>1 DEF Transporting
    <3>5. ~Holds(queue', {"release"})
      <4>1. "BeltInMotionR" \in AllEvents /\ ~Holds(queue, {"release"})
        BY <1>2, <3>1, EventNames DEF Unasked
      <4>2. Holds(queue', {"release"})
              <=> Holds(queue, {"release"}) \/ "BeltInMotionR" \in {"release"}
        BY <1>1, <3>2, <4>1, Appended DEF Adds
      <4> QED
        BY <4>1, <4>2
    <3>6. Unasked'
      BY <1>1, <1>2, <1>4, <1>8, <3>1, <3>2, <3>3, <3>5 DEF Unasked, Tracked
    <3>7. Asked' /\ TakingOver'
      BY <3>1 DEF Asked, TakingOver
    <3> QED
      BY <1>4, <3>3, <3>4, <3>6, <3>7 DEF OrderInv
  <2>8. CASE chainMode /\ Takes(ChainM, "BeltInMotion", "StopBelt", "Waiting") /\ myAction14
    <3>1. /\ actualState[ChainM] = "BeltInMotion" /\ actualState'[ChainM] = "Waiting"
          /\ actualEvent = "StopBelt"
      BY <1>1, <2>8, Moved, DiagramsAre
    <3>2. right' = "asked" /\ queue' = queue
      BY <1>2, <2>8, <3>1, ActionsAsk, ActionsQueue DEF Quiet, Unasked
    <3>3. /\ Keeps({"ready"}) /\ Keeps({"release"})
          /\ ChainStays' /\ OneAnswer("ready")' /\ OneAnswer("release")'
      BY <1>7, <3>1, <3>2
    <3>4. InStep'
      BY <2>2, <3>1 DEF Transporting
    <3>5. NoneUnderWay("ready") /\ NoneUnderWay("release")
      BY <1>2, <3>1 DEF Unasked, NoneUnderWay, Pending
    <3>6. Asked'
      BY <1>8, <3>2, <3>3, <3>5 DEF Asked
    <3>7. Unasked' /\ TakingOver'
      BY <3>1 DEF Unasked, TakingOver
    <3> QED
      BY <1>4, <3>3, <3>4, <3>6, <3>7 DEF OrderInv
  <2>9. CASE chainMode /\ Takes(ChainM, "Waiting", "ready", "HandingOverR") /\ myAction1617
    <3>1. /\ actualState[ChainM] = "Waiting" /\ actualState'[ChainM] = "HandingOverR"
          /\ actualEvent = "ready"
      BY <1>1, <2>9, Moved, DiagramsAre
    <3>2. right' = right /\ queue' = queue
      BY <2>9, ActionsAsk, ActionsQueue DEF Quiet
    <3>3. /\ Keeps({"ready"}) /\ Keeps({"release"})
          /\ ChainStays' /\ OneAnswer("ready")' /\ OneAnswer("release")'
      BY <1>7, <3>1, <3>2
    <3>4. InStep'
      BY <2>2, <3>1 DEF Transporting
    <3>5. actualEvent' = NoEvent
      <4>1. ASSUME NEW k \in Diagrams, k > diagram
            PROVE  Matching(k, actualEvent, actualState', localMode', chainMode') = {}
        <5>1. k \in {SwitchM, BeltInMotionM, PerformingM}
          BY <2>0, <4>1, DiagramsAre DEF Diagrams
        <5> QED
          BY <3>1, <5>1, EventsAre, DiagramsAre, NoRow
      <4> QED
        BY <4>1, LastDiagram
    <3>6. NoneUnderWay("ready")'
      <4>1. ~Holds(queue, {"ready"}) /\ ~Called({"ready"})
        BY <1>2, <3>1 DEF OneAnswer
      <4> QED
        BY <1>1, <1>2, <1>4, <3>2, <3>5, <4>1 DEF NoneUnderWay, Pending
    <3>7. /\ right \in {"idle", "ready"}
          /\ right = "ready" => NoneUnderWay("release")
      BY <1>2, <3>1 DEF Asked, NoneUnderWay, Pending
    <3>8. TakingOver'
      BY <1>1, <1>2, <1>8, <3>2, <3>3, <3>5, <3>6, <3>7 DEF TakingOver
    <3>9. Unasked' /\ Asked'
      BY <3>1 DEF Unasked, Asked
    <3> QED
      BY <1>4, <3>3, <3>4, <3>8, <3>9 DEF OrderInv
  <2>10. CASE chainMode /\ Takes(ChainM, "HandingOverR", "release", "Idle") /\ myAction18
    <3>1. /\ actualState[ChainM] = "HandingOverR" /\ actualState'[ChainM] = "Idle"
          /\ actualEvent = "release"
      BY <1>1, <2>10, Moved, DiagramsAre
    <3>2. right' = right /\ queue' = queue /\ UNCHANGED modes
      BY <2>10, ActionsAsk, ActionsQueue DEF Quiet
    <3>3. /\ Keeps({"ready"}) /\ Keeps({"release"})
          /\ ChainStays' /\ OneAnswer("ready")' /\ OneAnswer("release")'
      BY <1>7, <3>1, <3>2
    <3>4. actualState[PerformingM] = "Performing"
      BY <2>1, <3>1 DEF Transporting
    <3>5. chainMode' = TRUE
      BY <1>1, <2>10, <3>2 DEF modes, TypeOK
    <3>6. diagram' = PerformingM /\ actualEvent' = "release"
      BY <2>5, <3>1, <3>4, <3>5
    <3>7. InStep' /\ Finishing'
      BY <2>0, <3>1, <3>4, <3>6 DEF InStep, Starting, Finishing
    <3>8. Unasked'
      <4>1. right = "idle" /\ NoneUnderWay("ready")
        BY <1>2, <3>1 DEF TakingOver, NoneUnderWay, Pending
      <4>2. ~Holds(queue, {"release"}) /\ ~Called({"release"})
        BY <1>2, <3>1 DEF OneAnswer
      <4> QED
        BY <1>4, <1>8, <3>2, <3>3, <3>7, <4>1, <4>2 DEF Unasked
    <3>9. Asked' /\ TakingOver'
      BY <3>1 DEF Asked, TakingOver
    <3> QED
      BY <1>4, <3>3, <3>7, <3>8, <3>9 DEF OrderInv
  <2> QED
    <3>1. actualEvent \notin {"LocalMode", "CancelOrder"}
      BY <1>1
    <3> QED
      BY <1>10, <2>3, <2>4, <2>6, <2>7, <2>8, <2>9, <2>10, <3>1 DEF ChainStep, Takes
<1> QED
  BY <1>3, <1>6, <1>9, <1>10

LEMMA OrderStep ==
  ASSUME NobodyInterferes
  PROVE  TypeInv /\ ModeInv /\ DriveInv /\ OrderInv /\ [Next]_vars => OrderInv'
<1>1. OrderInv /\ UNCHANGED vars => OrderInv'
  BY DEF OrderInv, ChainStays, InStep, Starting, Finishing, OneAnswer, OnlyReader, NoneUnderWay,
         Unasked, Asked, TakingOver, Called, Pending, vars, machine
<1>2. Next => TakeEvent \/ Transition \/ Asynchronous
  BY DEF Next, Asynchronous
<1>3. DriveInv => NoHand
  BY DEF DriveInv
<1> QED
  BY <1>1, <1>2, <1>3, OrderTake, OrderTransition, OrderAsynchronous

(* As long as nobody cancels an order or leaves Chain-Mode, and the left   *)
(* neighbours order only once the belt is in Chain-Mode, the two diagrams  *)
(* of an order agree: with all events handled the belt is Performing       *)
(* exactly while the Chain-Mode diagram transports, however requests,      *)
(* Ready and Release fall between the transitions (systemManager.cpp:      *)
(* 39-46, 64-66, 409-472).                                                 *)
THEOREM PerformingFollows ==
  ASSUME NobodyInterferes
  PROVE  Safety => []PerformingMatchesTransport
<1>1. NobodyDrives
  BY DEF NobodyInterferes, NobodyDrives
<1>2. Init => TypeInv /\ ModeInv /\ DriveInv /\ OrderInv
  BY TypesInit, ModeInit, DriveInit, OrderInit
<1>3. (TypeInv /\ ModeInv /\ DriveInv /\ OrderInv) /\ [Next]_vars
        => (TypeInv /\ ModeInv /\ DriveInv /\ OrderInv)'
  BY <1>1, TypesStep, ModeStep, DriveStep, OrderStep
<1>4. TypeInv /\ OrderInv => PerformingMatchesTransport
  <2> SUFFICES ASSUME OrderInv, Quiescent
               PROVE  actualState[PerformingM] = "Performing"
                        <=> actualState[ChainM] \in Transporting
    BY DEF PerformingMatchesTransport
  <2>1. ~Starting /\ ~Finishing
    BY TrackedAreEvents DEF Quiescent, Starting, Finishing, Tracked
  <2> QED
    BY <2>1 DEF OrderInv, InStep
<1> QED
  BY <1>2, <1>3, <1>4, PTL DEF Safety
-----------------------------------------------------------------------------
(* The drive in Local-Mode *)

LEMMA LocalEvents ==
  /\ ChainEvents \subseteq AllEvents /\ Starts \subseteq AllEvents
  /\ NoEvent \notin ChainEvents \cup Starts \cup {"LocalModeS", "StopBelt"}
  BY EventNames, NoEventAssumption DEF ChainEvents, Starts

LEMMA LocalInit == Init => LocalInv
<1> SUFFICES ASSUME Init PROVE LocalInv
  OBVIOUS
<1>1. /\ queue = <<"InitSystem">> /\ actualEvent = NoEvent /\ \A c \in Callers : call[c] = NoEvent
      /\ ~localMode /\ ~chainMode
      /\ NoEvent \notin ChainEvents \cup Starts
  BY LocalEvents DEF Init
<1>2. "InitSystem" \notin ChainEvents \cup Starts
  BY DEF ChainEvents, Starts
<1>3. \A E \in {ChainEvents, Starts} : ~Called(E) /\ ~Pending(E)
  <2> SUFFICES ASSUME NEW E \in {ChainEvents, Starts}
               PROVE  ~Called(E) /\ ~Pending(E)
    OBVIOUS
  <2>1. ~Called(E) /\ actualEvent \notin E
    BY <1>1 DEF Called
  <2>2. ~Holds(queue, E)
    BY <1>1, <1>2 DEF Holds
  <2> QED
    BY <2>1, <2>2 DEF Pending
<1>4. /\ actualState[ChainM] = "SelectChainMode" /\ actualState[LocalM] = "SelectLocalMode"
      /\ actualState[BeltInMotionM] = "startBelt" /\ phase = "STOPMOTOR"
  BY FirstStates DEF Init
<1> QED
  BY <1>1, <1>3, <1>4 DEF LocalInv

(* A step that leaves the diagrams of Local-Mode alone. *)
LEMMA LocalKept ==
  ASSUME TypeInv, LocalInv, ~Called(ChainEvents)', Keeps(ChainEvents),
         ~chainMode', actualState'[ChainM] = "SelectChainMode",
         localMode' = localMode, actualState'[LocalM] = actualState[LocalM],
         actualState'[BeltInMotionM] = actualState[BeltInMotionM],
         phase' \in {phase, "STOPMOTOR"},
         ~localMode => ~Called(Starts)',
         ~localMode => Keeps(Starts),
         \/ actualEvent' = actualEvent /\ diagram' = diagram
         \/ /\ actualEvent' \in {actualEvent, NoEvent} /\ actualEvent # "LocalModeS"
            /\ actualState[LocalM] = "Idle"
                 => actualEvent \notin Starts /\ actualState[BeltInMotionM] = "startBelt",
         queue' = queue \/ \E e \in AllEvents : Adds(e) /\ (e \in Starts => localMode)
  PROVE  LocalInv'
<1>1. TypeOK /\ queue \in Seq(AllEvents) /\ ChainEvents \subseteq AllEvents
      /\ Starts \subseteq AllEvents
      /\ NoEvent \notin ChainEvents \cup Starts \cup {"LocalModeS", "StopBelt"}
  BY LocalEvents DEF TypeInv, TypeOK
<1>2. ~Pending(ChainEvents)'
  BY <1>1, Kept DEF LocalInv
<1>3. ~localMode' => ~Called(Starts)' /\ ~Pending(Starts)'
  BY <1>1, Kept DEF LocalInv
<1>4. ASSUME actualState[LocalM] = "SelectLocalMode"
      PROVE  /\ phase' = "STOPMOTOR" /\ actualState'[BeltInMotionM] = "startBelt"
             /\ actualEvent' \notin Starts
             /\ localMode' =>
                  /\ Pending({"LocalModeS"})'
                  /\ actualEvent' = "LocalModeS" \/ Behind(queue', "LocalModeS", Starts)
  <2>1. /\ phase' = "STOPMOTOR" /\ actualState'[BeltInMotionM] = "startBelt"
        /\ actualEvent' \notin Starts
    BY <1>1, <1>4 DEF LocalInv
  <2>2. ASSUME localMode
        PROVE  /\ Pending({"LocalModeS"})'
               /\ actualEvent' = "LocalModeS" \/ Behind(queue', "LocalModeS", Starts)
    <3>1. /\ Pending({"LocalModeS"})
          /\ actualEvent = "LocalModeS" \/ Behind(queue, "LocalModeS", Starts)
      BY <1>4, <2>2 DEF LocalInv
    <3>2. CASE actualEvent = "LocalModeS"
      BY <3>2 DEF Pending
    <3>3. CASE actualEvent # "LocalModeS"
      <4>1. Holds(queue, {"LocalModeS"}) /\ Behind(queue, "LocalModeS", Starts)
        BY <3>1, <3>3 DEF Pending
      <4>2. Holds(queue', {"LocalModeS"}) /\ Behind(queue', "LocalModeS", Starts)
        <5>1. CASE queue' = queue
          BY <4>1, <5>1
        <5>2. ASSUME NEW e \in AllEvents, queue' = Append(queue, e)
              PROVE  Holds(queue', {"LocalModeS"}) /\ Behind(queue', "LocalModeS", Starts)
          <6>1. Holds(queue', {"LocalModeS"})
            BY <1>1, <4>1, <5>2, Appended
          <6>2. Behind(queue', "LocalModeS", Starts)
            BY <1>1, <4>1, <5>2, Appended
          <6> QED
            BY <6>1, <6>2
        <5> QED
          BY <5>1, <5>2 DEF Adds
      <4> QED
        BY <4>2 DEF Pending
    <3> QED
      BY <3>2, <3>3
  <2> QED
    BY <2>1, <2>2
<1>5. ASSUME actualState[LocalM] = "Idle"
      PROVE  /\ phase' = "STOPMOTOR"
             /\ \/ actualState'[BeltInMotionM] = "startBelt"
                \/ actualEvent' = "StopBelt" /\ diagram' = BeltInMotionM
             /\ actualEvent' \in Starts => diagram' = LocalM
  BY <1>1, <1>5 DEF LocalInv
<1> QED
  BY <1>2, <1>3, <1>4, <1>5 DEF LocalInv

LEMMA LocalAsynchronous ==
  ASSUME NeverChain, TypeInv, LocalInv, Asynchronous
  PROVE  LocalInv'
<1>1. /\ TypeOK /\ call \in [Callers -> AllEvents \cup {NoEvent}]
      /\ NoEvent \notin ChainEvents \cup Starts
      /\ UNCHANGED <<actualEvent, diagram, actualState, localMode, chainMode>>
      /\ ~Called(ChainEvents) /\ (~localMode => ~Called(Starts))
      /\ actualState[ChainM] = "SelectChainMode" /\ ~chainMode
  BY LocalEvents, AsynchronousLeaves DEF TypeInv, TypeOK, LocalInv
<1>2. ASSUME NEW command \in Commands
      PROVE  /\ EventOf(command) \notin ChainEvents
             /\ ~localMode => EventOf(command) \notin Starts
  <2>1. command \in {"LOCALM", "PLUS", "MINUS", "LEFT", "RIGHT", "STOP", "NOTFOUND"}
    BY <1>2, BeltAssumption DEF NeverChain
  <2> QED
    BY <1>1, <2>1 DEF EventOf, ChainEvents, Starts
<1>3. ~Called(ChainEvents)' /\ (~localMode => ~Called(Starts)')
  <2>1. ASSUME NEW c \in Callers
        PROVE  call'[c] \notin ChainEvents /\ (~localMode => call'[c] \notin Starts)
    <3>1. {"request", "wait", "ready", "release"} \cap (ChainEvents \cup Starts) = {}
      BY DEF ChainEvents, Starts
    <3>2. call[c] \notin ChainEvents /\ (~localMode => call[c] \notin Starts)
      BY <1>1 DEF Called
    <3>3. \/ call'[c] \in {call[c], NoEvent, "request", "wait", "ready", "release"}
          \/ \E command \in Commands : call'[c] = EventOf(command)
      BY <1>1, CallsAre
    <3> QED
      BY <1>1, <1>2, <3>1, <3>2, <3>3
  <2> QED
    BY <2>1 DEF Called
<1>4. /\ Keeps(ChainEvents)
      /\ ~localMode => Keeps(Starts)
  BY <1>1, AsynchronousKeeps DEF ChainEvents, Starts
<1>5. phase' \in {phase, "STOPMOTOR"}
  BY DEF Asynchronous, Command, Request, GiveUp, RightWait, RightReady, RightRelease,
         RightAnswers, CallerSends, PhaseEnds, drive
<1>6. queue' = queue \/ \E e \in AllEvents : Adds(e) /\ (e \in Starts => localMode)
  <2>1. ASSUME phase # "STOPMOTOR"
        PROVE  Completion[phase] \in AllEvents \ Starts
    <3>1. Completion[phase] \in {"rampupf", "constf", "rampdownf"}
      BY <1>1, <2>1 DEF Completion, Phases, TypeOK
    <3> QED
      BY <3>1, EventNames DEF Starts
  <2>2. ASSUME NEW c \in Callers, call[c] # NoEvent
        PROVE  call[c] \in AllEvents /\ (call[c] \in Starts => localMode)
    BY <1>1, <2>2 DEF Called
  <2> QED
    BY <1>1, <2>1, <2>2, AsynchronousLeaves
<1> QED
  BY <1>1, <1>3, <1>4, <1>5, <1>6, LocalKept

LEMMA LocalTake ==
  ASSUME TypeInv, LocalInv, TakeEvent
  PROVE  LocalInv'
<1>1. /\ TypeOK /\ queue \in Seq(AllEvents) /\ ChainEvents \subseteq AllEvents
      /\ Starts \subseteq AllEvents
      /\ NoEvent \notin ChainEvents \cup Starts \cup {"LocalModeS", "StopBelt"}
      /\ actualEvent = NoEvent /\ queue # <<>> /\ queue' = Tail(queue)
      /\ actualState' = actualState /\ call' = call /\ phase' = phase
      /\ localMode' = localMode /\ chainMode' = chainMode
      /\ actualEvent' \in {Head(queue), NoEvent}
  BY LocalEvents, HeadTaken DEF TypeInv, TypeOK, TakeEvent, modes, drive
<1>2. \A E : Holds(queue, E) <=> Head(queue) \in E \/ Holds(queue', E)
  BY <1>1, Taken
<1>3. \A h, F : Behind(queue, h, F) =>
        Head(queue) \notin F /\ (Head(queue) # h => Behind(queue', h, F))
  BY <1>1, Taken
<1>4. \A E : Keeps(E) /\ (Called(E)' <=> Called(E))
  BY <1>1 DEF Keeps, Called
<1>5. ~Called(ChainEvents)' /\ ~Pending(ChainEvents)'
  BY <1>1, <1>4, Kept DEF LocalInv
<1>6. ~localMode => ~Called(Starts)' /\ ~Pending(Starts)'
  BY <1>1, <1>4, Kept DEF LocalInv
<1>7. Head(queue) \in Starts => localMode
  BY <1>2 DEF LocalInv, Pending
(* The Local-Mode diagram hears of them first. *)
<1>8. ASSUME NEW e, Head(queue) = e,
             \/ actualState[LocalM] = "SelectLocalMode" /\ e = "LocalModeS"
             \/ actualState[LocalM] = "Idle" /\ e \in Starts
      PROVE  diagram' = LocalM /\ actualEvent' = e
  <2>1. e \in Starts => Condition("LocalM", localMode, chainMode)
    BY <1>7, <1>8 DEF Condition
  <2>2. Matching(LocalM, e, actualState, localMode, chainMode) # {}
    BY <1>8, <2>1, LocalHears DEF Starts
  <2>3. \A k \in Diagrams : ~(k < LocalM)
    BY DiagramsAre DEF Diagrams
  <2> QED
    BY <1>1, <1>8, <2>2, <2>3, FirstDiagram, DiagramsAre
<1>9. ASSUME actualState[LocalM] = "SelectLocalMode"
      PROVE  /\ phase' = "STOPMOTOR" /\ actualState'[BeltInMotionM] = "startBelt"
             /\ actualEvent' \notin Starts
             /\ localMode' =>
                  /\ Pending({"LocalModeS"})'
                  /\ actualEvent' = "LocalModeS" \/ Behind(queue', "LocalModeS", Starts)
  <2>1. phase' = "STOPMOTOR" /\ actualState'[BeltInMotionM] = "startBelt"
    BY <1>1, <1>9 DEF LocalInv
  <2>2. ASSUME localMode
        PROVE  /\ Head(queue) \notin Starts /\ Pending({"LocalModeS"})'
               /\ actualEvent' = "LocalModeS" \/ Behind(queue', "LocalModeS", Starts)
    <3>1. Holds(queue, {"LocalModeS"}) /\ Behind(queue, "LocalModeS", Starts)
      BY <1>1, <1>9, <2>2 DEF LocalInv, Pending
    <3>2. /\ Head(queue) \notin Starts
          /\ Head(queue) # "LocalModeS" => Behind(queue', "LocalModeS", Starts)
      BY <1>3, <3>1
    <3>3. Head(queue) = "LocalModeS" => actualEvent' = "LocalModeS"
      BY <1>8, <1>9
    <3>4. Head(queue) # "LocalModeS" => Holds(queue', {"LocalModeS"})
      BY <1>2, <3>1
    <3> QED
      BY <3>2, <3>3, <3>4 DEF Pending
  <2> QED
    BY <1>1, <1>7, <2>1, <2>2
<1>10. ASSUME actualState[LocalM] = "Idle"
       PROVE  /\ phase' = "STOPMOTOR"
              /\ \/ actualState'[BeltInMotionM] = "startBelt"
                 \/ actualEvent' = "StopBelt" /\ diagram' = BeltInMotionM
              /\ actualEvent' \in Starts => diagram' = LocalM
  BY <1>1, <1>8, <1>10 DEF LocalInv
<1> QED
  BY <1>1, <1>5, <1>6, <1>9, <1>10 DEF LocalInv
(* The diagram that works on an event after the present one. *)
LEMMA NextDiagram ==
  ASSUME TypeInv, Transition, NEW d \in Diagrams, diagram < d,
         Matching(d, actualEvent, actualState', localMode', chainMode') # {},
         \A k \in Diagrams : diagram < k /\ k < d =>
           Matching(k, actualEvent, actualState', localMode', chainMode') = {}
  PROVE  diagram' = d /\ actualEvent' = actualEvent
<1>0. diagram \in Diagrams
  BY TransitionIs
<1>1. Goto(diagram + 1, actualEvent) /\ diagram + 1 \in 0 .. 5
  BY <1>0 DEF Transition, Diagrams
<1>2. /\ diagram' \in ((diagram + 1) .. 4) \cup {5}
      /\ diagram' # 5 =>
           /\ actualEvent' = actualEvent
           /\ Matching(diagram', actualEvent, actualState', localMode', chainMode') # {}
      /\ \A k \in (diagram + 1) .. 4 :
           k < diagram' => Matching(k, actualEvent, actualState', localMode', chainMode') = {}
  BY <1>1, GoneTo
<1>3. d \in (diagram + 1) .. 4 /\ diagram \in Nat /\ d \in Nat
  BY <1>0 DEF Diagrams
<1>4. diagram' <= d
  BY <1>2, <1>3
<1>5. diagram' \in Diagrams /\ diagram' # 5 /\ diagram < diagram' /\ ~(diagram' < d)
  BY <1>2, <1>3, <1>4 DEF Diagrams
<1> QED
  BY <1>2, <1>3, <1>4, <1>5

(* The transitions there are when the belt is never in Chain-Mode. *)
LEMMA LocalRowsOnly ==
  ASSUME TypeInv, ModeInv, LocalInv, Transition
  PROVE  /\ \/ LocalStep /\ ~Takes(LocalM, "Idle", "ChainMode", "SelectLocalMode")
            \/ Takes(SwitchM, "startSystem", "InitSystem", "Init") /\ NoEffect
            \/ Takes(SwitchM, "Init", "Error", "Init") /\ NoEffect
            \/ Takes(SwitchM, "Init", "LocalMode", "LocalMode") /\ EntersLocal
            \/ BeltStep
         /\ actualState'[ChainM] = "SelectChainMode" /\ ~chainMode'
         /\ queue' = queue \/ Adds("LocalModeS") \/ Adds("StopBelt")
<1>1. /\ TypeOK /\ actualState[ChainM] = "SelectChainMode" /\ ~chainMode
      /\ actualEvent \notin ChainEvents
      /\ LocalStep \/ ChainStep \/ SwitchStep \/ BeltStep \/ PerformingStep
  BY TransitionIs DEF TypeInv, LocalInv, Pending
<1>2. actualEvent \notin {"ChainMode", "ChainModeL", "ChainModeS"}
  BY <1>1 DEF ChainEvents
<1>3. ~ChainStep /\ ~PerformingStep
  BY <1>1, <1>2 DEF ChainStep, PerformingStep, Takes
<1>4. actualState[SwitchM] # "ChainMode"
  BY <1>1 DEF ModeInv, InChainMode
<1>5. /\ ~Takes(LocalM, "Idle", "ChainMode", "SelectLocalMode")
      /\ ~Takes(SwitchM, "Init", "ChainMode", "ChainMode")
      /\ ~Takes(SwitchM, "LocalMode", "ChainModeL", "ChainMode")
      /\ ~Takes(SwitchM, "ChainMode", "LocalModeC", "LocalMode")
  BY <1>2, <1>4 DEF Takes
<1>6. \/ LocalStep /\ ~Takes(LocalM, "Idle", "ChainMode", "SelectLocalMode")
      \/ Takes(SwitchM, "startSystem", "InitSystem", "Init") /\ NoEffect
      \/ Takes(SwitchM, "Init", "Error", "Init") /\ NoEffect
      \/ Takes(SwitchM, "Init", "LocalMode", "LocalMode") /\ EntersLocal
      \/ BeltStep
  BY <1>1, <1>3, <1>5 DEF SwitchStep
<1>7. \E d \in {LocalM, SwitchM, BeltInMotionM} : \E from, e, to : Takes(d, from, e, to)
  BY <1>6 DEF LocalStep, BeltStep
<1>8. actualState'[ChainM] = actualState[ChainM]
  BY <1>1, <1>7, Moved, DiagramsAre
<1>9. Quiet \/ EntersLocal \/ myAction36
  BY <1>6 DEF LocalStep, BeltStep, Quiet
<1>10. /\ ~chainMode'
       /\ queue' = queue \/ Adds("LocalModeS") \/ Adds("StopBelt")
  BY <1>1, <1>9, ActionsQueue DEF modes
<1> QED
  BY <1>1, <1>6, <1>8, <1>10

LEMMA LocalTransition ==
  ASSUME TypeInv, ModeInv, LocalInv, Transition
  PROVE  LocalInv'
<1>1. /\ TypeOK /\ queue \in Seq(AllEvents)
      /\ ChainEvents \subseteq AllEvents /\ Starts \subseteq AllEvents
      /\ NoEvent \notin ChainEvents \cup Starts
      /\ actualEvent' \in {actualEvent, NoEvent} /\ call' = call
  BY LocalEvents, TransitionIs, HandsOn DEF TypeInv, TypeOK
<1>2. /\ actualState'[ChainM] = "SelectChainMode" /\ ~chainMode'
      /\ queue' = queue \/ Adds("LocalModeS") \/ Adds("StopBelt")
  BY LocalRowsOnly
<1>3. Keeps(ChainEvents) /\ Keeps(Starts)
  BY <1>1, <1>2, EventNames DEF Keeps, ChainEvents, Starts
<1>4. ~Called(ChainEvents)' /\ ~Pending(ChainEvents)'
  BY <1>1, <1>3, Kept DEF LocalInv, Called
<1>5. ~localMode => ~Called(Starts)' /\ ~Pending(Starts)'
  BY <1>1, <1>3, Kept DEF LocalInv, Called
(* To a state of Local-Mode in which the belt is driven. *)
<1>6. ASSUME localMode' = localMode, actualState'[LocalM] = "BeltInMotion"
      PROVE  LocalInv'
  BY <1>2, <1>4, <1>5, <1>6 DEF LocalInv
(* To Idle. *)
<1>7. ASSUME localMode' = localMode, actualState'[LocalM] = "Idle", phase' = "STOPMOTOR",
             \/ actualState'[BeltInMotionM] = "startBelt"
             \/ actualEvent' = "StopBelt" /\ diagram' = BeltInMotionM,
             actualEvent' \notin Starts
      PROVE  LocalInv'
  BY <1>2, <1>4, <1>5, <1>7 DEF LocalInv
<1>8. CASE LocalStep /\ ~Takes(LocalM, "Idle", "ChainMode", "SelectLocalMode")
  <2>1. diagram = LocalM /\ actualState'[BeltInMotionM] = actualState[BeltInMotionM]
    <3>1. \E from, e, to : Takes(LocalM, from, e, to)
      BY <1>8 DEF LocalStep
    <3> QED
      BY <1>1, <3>1, Moved, DiagramsAre
  <2>2. CASE Takes(LocalM, "SelectLocalMode", "LocalModeS", "Idle") /\ NoEffect
    <3>1. /\ actualState[LocalM] = "SelectLocalMode" /\ actualState'[LocalM] = "Idle"
          /\ actualEvent = "LocalModeS"
      BY <1>1, <2>2, Moved, DiagramsAre
    <3>2. phase' = phase /\ localMode' = localMode
      BY <2>2, ActionsDrive, ActionsQueue DEF Driveless, Quiet, modes
    <3>3. phase = "STOPMOTOR" /\ actualState[BeltInMotionM] = "startBelt"
      BY <3>1 DEF LocalInv
    <3> QED
      BY <1>1, <1>7, <2>1, <3>1, <3>2, <3>3 DEF Starts
  <2>3. CASE \/ Takes(LocalM, "Idle", "SetSpeedLocalP", "Idle") /\ myAction01
             \/ Takes(LocalM, "Idle", "SetSpeedLocalM", "Idle") /\ myAction02
    <3>1. /\ actualState[LocalM] = "Idle" /\ actualState'[LocalM] = "Idle"
          /\ actualEvent \in {"SetSpeedLocalP", "SetSpeedLocalM"}
      BY <1>1, <2>3, Moved, DiagramsAre
    <3>2. phase' = phase /\ localMode' = localMode
      BY <2>3, ActionsDrive, ActionsQueue DEF Driveless, Quiet, modes
    <3>3. phase = "STOPMOTOR" /\ actualState[BeltInMotionM] = "startBelt"
      BY <3>1 DEF LocalInv
    <3> QED
      BY <1>1, <1>7, <2>1, <3>1, <3>2, <3>3 DEF Starts
  <2>4. CASE \/ Takes(LocalM, "Idle", "BeltInMotionL", "BeltInMotion") /\ Drives
             \/ Takes(LocalM, "Idle", "BeltInMotionR", "BeltInMotion") /\ Drives
    <3>1. actualState'[LocalM] = "BeltInMotion"
      BY <1>1, <2>4, Moved, DiagramsAre
    <3>2. localMode' = localMode
      BY <2>4, ActionsQueue DEF Quiet, modes
    <3> QED
      BY <1>6, <3>1, <3>2
  <2>5. CASE Takes(LocalM, "BeltInMotion", "StopBelt", "Idle") /\ Stop
    <3>1. actualState'[LocalM] = "Idle" /\ actualEvent = "StopBelt"
      BY <1>1, <2>5, Moved, DiagramsAre
    <3>2. phase' = "STOPMOTOR" /\ localMode' = localMode
      BY <2>5, ActionsDrive, ActionsQueue DEF Quiet, modes
    <3>3. ASSUME actualState[BeltInMotionM] # "startBelt"
          PROVE  actualEvent' = "StopBelt" /\ diagram' = BeltInMotionM
      <4>1. actualState[BeltInMotionM] \in {"RampUp", "ConstantVelocity", "RampDown"}
        BY <1>1, <3>3, StatesTyped
      <4>2. Matching(BeltInMotionM, "StopBelt", actualState', localMode', chainMode') # {}
        BY <2>1, <4>1, BeltHears
      <4>3. Matching(ChainM, "StopBelt", actualState', localMode', chainMode') = {}
        BY <1>2, ChainHears
      <4>4. Matching(SwitchM, "StopBelt", actualState', localMode', chainMode') = {}
        BY EventsAre, NoRow, DiagramsAre
      <4> QED
        BY <1>1, <2>1, <3>1, <4>2, <4>3, <4>4, NextDiagram, DiagramsAre
    <3> QED
      BY <1>1, <1>7, <2>1, <3>1, <3>2, <3>3 DEF Starts
  <2> QED
    BY <1>8, <2>2, <2>3, <2>4, <2>5 DEF LocalStep
<1>9. CASE \/ Takes(SwitchM, "startSystem", "InitSystem", "Init") /\ NoEffect
           \/ Takes(SwitchM, "Init", "Error", "Init") /\ NoEffect
  <2>1. /\ actualState'[LocalM] = actualState[LocalM] /\ actualState[SwitchM] # "LocalMode"
        /\ actualState'[BeltInMotionM] = actualState[BeltInMotionM]
        /\ actualState[SwitchM] \in {"startSystem", "Init"}
    BY <1>1, <1>9, Moved, DiagramsAre
  <2>2. phase' = phase /\ localMode' = localMode /\ queue' = queue
    BY <1>9, ActionsDrive, ActionsQueue DEF Driveless, Quiet, modes
  <2>3. actualState[LocalM] = "SelectLocalMode" /\ actualEvent # "LocalModeS"
    BY <1>1, <1>9, <2>1, Moved, DiagramsAre DEF ModeInv, BeforeModes
  <2>4. ~localMode
    BY <2>1 DEF ModeInv, BeforeModes
  <2>5. actualEvent' \notin Starts
    BY <1>1, <2>3 DEF LocalInv
  <2> QED
    BY <1>2, <1>4, <1>5, <2>1, <2>2, <2>3, <2>4, <2>5 DEF LocalInv
<1>10. CASE Takes(SwitchM, "Init", "LocalMode", "LocalMode") /\ EntersLocal
  <2>1. /\ actualState'[LocalM] = actualState[LocalM] /\ actualEvent = "LocalMode"
        /\ actualState'[BeltInMotionM] = actualState[BeltInMotionM]
        /\ actualState[SwitchM] = "Init"
    BY <1>1, <1>10, Moved, DiagramsAre
  <2>2. ~localMode /\ actualState[LocalM] = "SelectLocalMode"
    BY <2>1 DEF ModeInv, BeforeModes
  <2>3. /\ phase = "STOPMOTOR" /\ actualState[BeltInMotionM] = "startBelt"
        /\ ~Holds(queue, Starts)
    BY <2>2 DEF LocalInv, Pending
  <2>4. phase' = phase /\ localMode' /\ queue' = Append(queue, "LocalModeS")
    BY <1>10, ActionsDrive, ActionsQueue DEF Driveless, Adds
  <2>5. "LocalModeS" \in AllEvents /\ "LocalModeS" \notin Starts
    BY EventNames DEF Starts
  <2>6. Behind(queue, "LocalModeS", Starts)
    BY <2>3 DEF Behind, Holds
  <2>7. Holds(queue', {"LocalModeS"})
    BY <1>1, <2>4, <2>5, Appended
  <2>8. Behind(queue', "LocalModeS", Starts)
    BY <1>1, <2>4, <2>5, <2>6, Appended
  <2>9. Pending({"LocalModeS"})' /\ actualEvent' \notin Starts
    BY <1>1, <2>1, <2>7 DEF Pending, Starts
  <2> QED
    BY <1>2, <1>4, <2>1, <2>2, <2>3, <2>4, <2>8, <2>9 DEF LocalInv
<1>11. CASE BeltStep
  <2>1. diagram = BeltInMotionM /\ actualState'[LocalM] = actualState[LocalM]
    <3>1. \E from, e, to : Takes(BeltInMotionM, from, e, to)
      BY <1>11 DEF BeltStep
    <3> QED
      BY <1>1, <3>1, Moved, DiagramsAre
  <2>2. localMode' = localMode
    <3>1. Quiet \/ myAction36
      BY <1>11 DEF BeltStep, Quiet
    <3> QED
      BY <3>1, ActionsQueue DEF modes
  <2>3. actualState[LocalM] \in {"SelectLocalMode", "Idle", "BeltInMotion"}
    BY <1>1, StatesTyped
  <2>4. CASE actualState[LocalM] = "BeltInMotion"
    BY <1>6, <2>1, <2>2, <2>4
  <2>5. CASE actualState[LocalM] = "SelectLocalMode"
    <3>1. actualState[BeltInMotionM] = "startBelt" /\ actualEvent \notin Starts
      BY <2>5 DEF LocalInv
    <3> QED
      BY <1>11, <3>1 DEF BeltStep, Takes, Starts
  <2>6. CASE actualState[LocalM] = "Idle"
    <3>1. actualEvent \notin Starts
      BY <2>1, <2>6, DiagramsAre DEF LocalInv
    <3>2. actualState[BeltInMotionM] # "startBelt"
      BY <1>11, <3>1 DEF BeltStep, Takes, Starts
    <3>3. actualEvent = "StopBelt"
      BY <2>6, <3>2 DEF LocalInv
    <3>4. \E from : Takes(BeltInMotionM, from, "StopBelt", "startBelt") /\ Stop
      BY <1>11, <3>1, <3>3 DEF BeltStep, Takes, Starts
    <3>5. actualState'[BeltInMotionM] = "startBelt" /\ phase' = "STOPMOTOR"
      BY <1>1, <3>4, Moved, DiagramsAre, ActionsDrive
    <3> QED
      BY <1>1, <1>7, <2>1, <2>2, <2>6, <3>1, <3>5
  <2> QED
    BY <2>3, <2>4, <2>5, <2>6
<1> QED
  BY <1>8, <1>9, <1>10, <1>11, LocalRowsOnly

LEMMA LocalStepKeeps ==
  ASSUME NeverChain
  PROVE  TypeInv /\ ModeInv /\ LocalInv /\ [Next]_vars => LocalInv'
<1>1. LocalInv /\ UNCHANGED vars => LocalInv'
  BY DEF LocalInv, Called, Pending, vars, machine, modes, drive
<1>2. Next => TakeEvent \/ Transition \/ Asynchronous
  BY DEF Next, Asynchronous
<1> QED
  BY <1>1, <1>2, LocalAsynchronous, LocalTake, LocalTransition

(* As long as the belt is never in Chain-Mode: in Local-Mode, speed and    *)
(* direction change only while the belt stands still: no phase of the      *)
(* drive runs in Idle (systemManager.cpp:30-37, 349-388).                  *)
THEOREM LocalIdleIsStill ==
  ASSUME NeverChain
  PROVE  Safety => []LocalIdleStandsStill
<1>1. Init => TypeInv /\ ModeInv /\ LocalInv
  BY TypesInit, ModeInit, LocalInit
<1>2. (TypeInv /\ ModeInv /\ LocalInv) /\ [Next]_vars => (TypeInv /\ ModeInv /\ LocalInv)'
  BY TypesStep, ModeStep, LocalStepKeeps
<1>3. LocalInv => LocalIdleStandsStill
  BY DEF LocalInv, LocalIdleStandsStill
<1> QED
  BY <1>1, <1>2, <1>3, PTL DEF Safety
=============================================================================
