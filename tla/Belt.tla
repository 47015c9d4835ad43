-------------------------------- MODULE Belt --------------------------------
(***************************************************************************)
(* One conveyor belt: the state machine of the main task, the transition   *)
(* actions of the five diagrams, the order buffer, the requests of the     *)
(* other tasks, and the phases of the drive, between its left neighbours   *)
(* (which order) and its right neighbour (which answers).                  *)
(*                                                                         *)
(* The main task takes one event after the other and offers it to the      *)
(* diagrams 0..4 in turn; each transition is one step, so that the other   *)
(* tasks run between the transitions of one event.  A task that requests   *)
(* an event evaluates requestEvent in one step and puts the event into the *)
(* queue in a later one.                                                   *)
(***************************************************************************)
EXTENDS StateTable, OrderBuffer, Sequences, FiniteSets

CONSTANTS
  Operator,     \* the keyboard or telnet task
  RightReader,  \* the TCP client's reader task
  NoEvent,      \* no event
  Commands,     \* the commands the operator gives
  MaxCommands,  \* how many of them at most (bound)
  TypeAhead,    \* no command is given with this many events queued (bound)
  EarlyOrders   \* TRUE: left neighbours order before Chain-Mode is entered

ASSUME BeltAssumption ==
  /\ Operator \notin Sfds /\ RightReader \notin Sfds /\ Operator # RightReader
  /\ Commands \subseteq {"CHAIN", "LOCALM", "PLUS", "MINUS", "LEFT", "RIGHT", "STOP",
                  "NOTFOUND"}
  /\ MaxCommands \in Nat /\ TypeAhead \in Nat
  /\ EarlyOrders \in BOOLEAN

Callers == Sfds \cup {Operator, RightReader}
AllEvents == UNION {{r.myEvent : r \in tab[d]} : d \in Diagrams}

ASSUME NoEventAssumption == NoEvent \notin AllEvents

VARIABLES
  queue,         \* the state machine's event queue
  actualEvent,   \* the event the main task is working on, or NoEvent
  diagram,       \* the next diagram with a row for it, or 5
  actualState,   \* the state of each diagram
  localMode, chainMode,
  myBufferSfd,   \* the order buffer
  call,          \* the event each calling task is about to send, or NoEvent
  profile,       \* the velocity profile the controller uses
  direction,     \* the direction of myVelocityLocal, TRUE is left
  localA,        \* the maximum speed of myVelocityLocal
  phase,         \* myProfileState of the controller
  client,        \* what each left neighbour believes about its order
  right,         \* the right neighbour: idle, asked, waited, ready
  commandsLeft

machine == <<queue, actualEvent, diagram, actualState>>
modes == <<localMode, chainMode>>
drive == <<profile, direction, localA, phase>>
left == client
vars == <<machine, modes, myBufferSfd, call, drive, left, right, commandsLeft>>

Init == /\ queue = <<"InitSystem">>
        /\ actualEvent = NoEvent
        /\ diagram = 5
        /\ actualState = FirstState
        /\ localMode = FALSE /\ chainMode = FALSE
        /\ myBufferSfd \in NewBuffers
        /\ call = [c \in Callers |-> NoEvent]
        /\ profile = "none"
        /\ direction = FALSE
        /\ localA = 1600
        /\ phase = "STOPMOTOR"
        /\ client = [s \in Sfds |-> "idle"]
        /\ right = "idle"
        /\ commandsLeft = MaxCommands

-----------------------------------------------------------------------------
(* The left neighbour s is a belt too: it asks once, then waits for Ready  *)
(* and after that for Release; any other answer finds no row in its table. *)
Awaited == {<<"READY", "asked">>, <<"RELEASE", "ready">>,
            <<"WAIT", "asked">>, <<"NOTFOUND", "asked">>}

After(answer, was) == CASE answer = "READY" -> "ready"
                        [] answer = "RELEASE" -> "idle"
                        [] answer = "WAIT" -> was
                        [] answer = "NOTFOUND" -> "refused"

(* TcpServer::send: only a descriptor in use gets the answer. *)
Send(answer, s) ==
  \/ /\ s \notin Sfds
     /\ UNCHANGED left
  \/ /\ s \in Sfds /\ <<answer, client[s]>> \in Awaited
     /\ client' = [client EXCEPT ![s] = After(answer, client[s])]
  \/ /\ s \in Sfds /\ <<answer, client[s]>> \notin Awaited
     /\ UNCHANGED client

(* TcpClient::send(REQUEST): the right neighbour takes one order at a time.*)
AskRight == right' = IF right = "idle" THEN "asked" ELSE right

sendEvent(e) == queue' = Append(queue, e)
NoSend == UNCHANGED queue

(* Controller: setProfile with one of the set* calls that choose a phase.  *)
SetPhase(p) == phase' = p /\ UNCHANGED <<profile, direction, localA>>
setSpeedToZero == SetPhase("STOPMOTOR")
Run(prof, p) == profile' = prof /\ phase' = p /\ UNCHANGED <<direction, localA>>

(* The setters of the velocity profile that are used. *)
setA(a) == localA' = a /\ UNCHANGED <<profile, direction, phase>>
setDirection(toLeft) == direction' = toLeft /\ UNCHANGED localA

Outside == UNCHANGED <<myBufferSfd, left, right>>

-----------------------------------------------------------------------------
(* The transition actions, by their numbers in the code.  What only the    *)
(* display shows is left out.                                              *)

(* 00, 10, 15, 20, 21, 40: the display, or nothing.  (20 starts the other  *)
(* tasks: they act only after it.)                                         *)
NoEffect == NoSend /\ UNCHANGED <<modes, drive>> /\ Outside

myAction01 == /\ setA(IF localA + 100 > 2200 THEN 2200 ELSE localA + 100)
              /\ UNCHANGED modes /\ NoSend /\ Outside

(* Mutant: the lower limit is not enforced. *)
myAction02Unclamped ==
              /\ setA(localA - 100)
              /\ UNCHANGED modes /\ NoSend /\ Outside

myAction02 == /\ setA(IF localA - 100 < 1000 THEN 1000 ELSE localA - 100)
              /\ UNCHANGED modes /\ NoSend /\ Outside

(* 03 and 04: direction and profile; diagram 3 starts the motion. *)
myAction0304(toLeft) ==
  /\ setDirection(toLeft)
  /\ profile' = "local"
  /\ UNCHANGED <<phase, modes>> /\ NoSend /\ Outside

(* Mutant: the controller is not stopped. *)
StopIgnored == NoSend /\ UNCHANGED <<modes, drive>> /\ Outside

(* 05, 31, 33, 35: stop. *)
Stop == setSpeedToZero /\ NoSend /\ UNCHANGED modes /\ Outside

(* Mutant: the other mode is not asked to start. *)
LeaveModeSilently(e) == NoSend /\ UNCHANGED <<modes, drive>> /\ Outside

(* 06 and 11: leave the mode. *)
LeaveMode(e) == sendEvent(e) /\ UNCHANGED <<modes, drive>> /\ Outside

(* 12: Ready to the oldest order, slow motion. *)
myAction12 == /\ Send("READY", ActualSfd(myBufferSfd))
              /\ Run("handingOver", "CONSTANTVELOCITY")
              /\ NoSend
              /\ UNCHANGED <<modes, myBufferSfd, right>>

(* 13: Release to the oldest order, the chain's profile; the motion itself *)
(* starts with the event that is sent here.                                *)
myAction13 == /\ Send("RELEASE", ActualSfd(myBufferSfd))
              /\ Run("chain", "STOPMOTOR")
              /\ sendEvent("BeltInMotionR")
              /\ UNCHANGED <<modes, myBufferSfd, right>>

myAction14 == /\ AskRight
              /\ setSpeedToZero
              /\ NoSend
              /\ UNCHANGED <<modes, myBufferSfd, left>>

(* Mutant: the profile of the drive's last run stays in use. *)
myAction1617KeepsProfile == /\ SetPhase("CONSTANTVELOCITY")
                            /\ NoSend /\ UNCHANGED modes /\ Outside

(* 16 and 17: hand over to the right, as long as it takes. *)
myAction1617 == /\ Run("handingOver", "CONSTANTVELOCITY")
                /\ NoSend /\ UNCHANGED modes /\ Outside

(* Mutant: the drive keeps handing over. *)
myAction18KeepsMoving == NoSend /\ UNCHANGED <<modes, drive>> /\ Outside

myAction18 == setSpeedToZero /\ NoSend /\ UNCHANGED modes /\ Outside

(* 19: the operator has cancelled; diagram 4 gets the release that the     *)
(* right neighbour has not given.                                          *)
myAction19 == sendEvent("release") /\ UNCHANGED <<modes, drive>> /\ Outside

(* Mutant: the other mode's flag is not cleared. *)
EnterModeAlso(isLocal, e) == /\ localMode' = (isLocal \/ localMode)
                             /\ chainMode' = (~isLocal \/ chainMode)
                             /\ sendEvent(e)
                             /\ UNCHANGED drive /\ Outside

(* 22 and 24, 23 and 25: enter a mode. *)
EnterMode(isLocal, e) == /\ localMode' = isLocal /\ chainMode' = ~isLocal
                         /\ sendEvent(e)
                         /\ UNCHANGED drive /\ Outside

(* 30, 32, 34: the phases of the profile. *)
Phase(p) == SetPhase(p) /\ NoSend /\ UNCHANGED modes /\ Outside

(* 36: the profile is complete: requestEvent(FINISHED). *)
myAction36 == /\ setSpeedToZero
              /\ sendEvent("StopBelt")
              /\ UNCHANGED modes /\ Outside

(* 41: Wait to the first order that has not had one. *)
myAction41 == /\ Send("WAIT", WaitingSfd(myBufferSfd))
              /\ myBufferSfd' = ClearWaiting(myBufferSfd)
              /\ NoSend
              /\ UNCHANGED <<modes, drive, right>>

(* Mutant: an order left in the buffer is not announced again. *)
myAction42Silent == /\ myBufferSfd' = Shift(myBufferSfd)
                    /\ NoSend
                    /\ UNCHANGED <<modes, drive, left, right>>

(* 42: remove the oldest order; requestEvent(REQUEST) if there is another. *)
myAction42 == /\ myBufferSfd' = Shift(myBufferSfd)
              /\ IF ActualSfd(Shift(myBufferSfd)) # Nobody
                 THEN sendEvent("request") ELSE NoSend
              /\ UNCHANGED <<modes, drive, left, right>>

Perform(action) ==
  \/ action \in {0, 10, 15, 20, 21, 40} /\ NoEffect
  \/ action = 1 /\ myAction01
  \/ action = 2 /\ myAction02
  \/ action = 3 /\ myAction0304(TRUE)
  \/ action = 4 /\ myAction0304(FALSE)
  \/ action \in {5, 31, 33, 35} /\ Stop
  \/ action = 6 /\ LeaveMode("ChainModeL")
  \/ action = 11 /\ LeaveMode("LocalModeC")
  \/ action = 12 /\ myAction12
  \/ action = 13 /\ myAction13
  \/ action = 14 /\ myAction14
  \/ action \in {16, 17} /\ myAction1617
  \/ action = 18 /\ myAction18
  \/ action = 19 /\ myAction19
  \/ action \in {22, 24} /\ EnterMode(FALSE, "ChainModeS")
  \/ action \in {23, 25} /\ EnterMode(TRUE, "LocalModeS")
  \/ action = 30 /\ Phase("RAMPUP")
  \/ action = 32 /\ Phase("CONSTANTVELOCITY")
  \/ action = 34 /\ Phase("RAMPDOWN")
  \/ action = 36 /\ myAction36
  \/ action = 41 /\ myAction41
  \/ action = 42 /\ myAction42

-----------------------------------------------------------------------------
(* runToCompletion: the rows of diagram d that match event e when the      *)
(* diagrams are in these states and the modes have these values.           *)
Condition(c, isLocal, isChain) == \/ c = "True"
                                  \/ c = "LocalM" /\ isLocal
                                  \/ c = "ChainM" /\ isChain

Matching(d, e, states, isLocal, isChain) ==
  {r \in tab[d] : /\ r.actState = states[d]
                  /\ r.myEvent = e
                  /\ Condition(r.condition, isLocal, isChain)}

(* The first diagram from d on that has a row for e, or 5.  Only the main  *)
(* task writes what the rows are matched with, so the search for the next  *)
(* row is part of the step before it.                                      *)
Goto(d, e) ==
  LET offered == {k \in d .. 4 : Matching(k, e, actualState', localMode', chainMode') # {}}
  IN  /\ diagram' \in offered \cup {5}
      /\ \A k \in offered : diagram' <= k
      /\ actualEvent' = IF diagram' = 5 THEN NoEvent ELSE e

(* semTake(semEvent) and getEvent. *)
TakeEvent ==
  /\ actualEvent = NoEvent
  /\ queue # <<>>
  /\ queue' = Tail(queue)
  /\ UNCHANGED <<actualState, modes, myBufferSfd, call, drive, left, right, commandsLeft>>
  /\ Goto(0, Head(queue))

(* One transition of one diagram. *)
Transition ==
  /\ actualEvent # NoEvent
  /\ \E r \in Matching(diagram, actualEvent, actualState, localMode, chainMode) :
       /\ actualState' = [actualState EXCEPT ![diagram] = r.nextState]
       /\ Perform(r.action)
  /\ UNCHANGED <<call, commandsLeft>>
  /\ Goto(diagram + 1, actualEvent)

-----------------------------------------------------------------------------
(* The other tasks exist once myAction20 has run. *)
Started == actualState[SwitchM] # "startSystem"

Calls(c, e) == call[c] = NoEvent /\ call' = [call EXCEPT ![c] = e]

(* requestEvent(command) of the keyboard and of telnet: the mode is read   *)
(* here, the event is queued by CallerSends.                               *)
EventOf(command) ==
  CASE command = "CHAIN" -> "ChainMode"
    [] command = "LOCALM" -> "LocalMode"
    [] command = "PLUS" -> "SetSpeedLocalP"
    [] command = "MINUS" -> "SetSpeedLocalM"
    [] command = "NOTFOUND" -> "Error"
    [] command = "LEFT" -> IF localMode THEN "BeltInMotionL" ELSE NoEvent
    [] command = "RIGHT" -> IF localMode THEN "BeltInMotionR" ELSE NoEvent
    [] command = "STOP" -> IF localMode THEN "StopBelt" ELSE "CancelOrder"

Command(command) ==
  /\ Started
  /\ commandsLeft > 0 /\ Len(queue) < TypeAhead
  /\ commandsLeft' = commandsLeft - 1
  /\ Calls(Operator, EventOf(command))
  /\ UNCHANGED <<machine, modes, myBufferSfd, drive, left, right>>

(* A Request of the left neighbour s: its worker task runs                 *)
(* requestEvent(REQUEST, s), the search and the insertion under semOrder.  *)
(* In Local-Mode the order is not stored, the event is sent all the same.  *)
Request(s) ==
  /\ Started
  /\ client[s] = "idle"
  /\ EarlyOrders \/ actualState[ChainM] # "SelectChainMode"
  /\ LET turnedAway == ~localMode /\ Refused(myBufferSfd, s)
     IN  /\ myBufferSfd' = IF localMode THEN myBufferSfd ELSE Insert(myBufferSfd, s)
         /\ client' = [client EXCEPT ![s] = IF turnedAway THEN "refused" ELSE "asked"]
         /\ Calls(s, IF turnedAway THEN NoEvent ELSE "request")
  /\ UNCHANGED <<machine, modes, drive, right, commandsLeft>>

(* The operator of the left belt cancels an order that was refused.        *)
GiveUp(s) ==
  /\ client[s] = "refused"
  /\ client' = [client EXCEPT ![s] = "idle"]
  /\ UNCHANGED <<machine, modes, myBufferSfd, call, drive, right, commandsLeft>>

(* A task between the return of requestEvent's tests and sendEvent needs   *)
(* microseconds, a phase of the drive and an answer of the right neighbour *)
(* at least a second: no worker is still there when these end.             *)
WorkersCaughtUp == \A s \in Sfds : call[s] = NoEvent

(* The right neighbour's answers, read by the TCP client's reader task.    *)
RightAnswers(from, to, e) ==
  /\ right \in from
  /\ right' = to
  /\ Calls(RightReader, e)
  /\ UNCHANGED <<machine, modes, myBufferSfd, drive, left, commandsLeft>>
RightWait == RightAnswers({"asked"}, "waited", "wait")
RightReady == RightAnswers({"asked", "waited"}, "ready", "ready")
RightRelease == WorkersCaughtUp /\ RightAnswers({"ready"}, "idle", "release")

CallerSends(c) ==
  /\ call[c] # NoEvent
  /\ queue' = Append(queue, call[c])
  /\ call' = [call EXCEPT ![c] = NoEvent]
  /\ UNCHANGED <<actualEvent, diagram, actualState, modes, myBufferSfd, drive, left, right,
                 commandsLeft>>

(* The controller's tick finds the phase complete. *)
Completion == [RAMPUP |-> "rampupf", CONSTANTVELOCITY |-> "constf", RAMPDOWN |-> "rampdownf"]

(* Mutant: the end of a phase is not reported. *)
PhaseEndsUnreported ==
  /\ phase # "STOPMOTOR"
  /\ WorkersCaughtUp
  /\ phase' = "STOPMOTOR"
  /\ UNCHANGED <<profile, direction, localA, machine, modes, myBufferSfd, call, left, right,
                 commandsLeft>>

PhaseEnds ==
  /\ phase # "STOPMOTOR"
  /\ WorkersCaughtUp
  /\ phase' = "STOPMOTOR"
  /\ queue' = Append(queue, Completion[phase])
  /\ UNCHANGED <<profile, direction, localA, actualEvent, diagram, actualState, modes,
                 myBufferSfd, call, left, right, commandsLeft>>

-----------------------------------------------------------------------------
Next == \/ TakeEvent \/ Transition
        \/ \E command \in Commands : Command(command)
        \/ \E s \in Sfds : Request(s) \/ GiveUp(s)
        \/ RightWait \/ RightReady \/ RightRelease
        \/ \E c \in Callers : CallerSends(c)
        \/ PhaseEnds

Safety == Init /\ [][Next]_vars

(* The main task and a task inside requestEvent go on; the drive's phases  *)
(* end; the right neighbour answers an order in the end.                   *)
Fairness == /\ WF_vars(TakeEvent) /\ WF_vars(Transition)
            /\ \A c \in Callers : WF_vars(CallerSends(c))
            /\ SF_vars(PhaseEnds)
            /\ WF_vars(RightReady) /\ SF_vars(RightRelease)

Spec == Safety /\ Fairness

-----------------------------------------------------------------------------
Phases == {"STOPMOTOR", "RAMPUP", "CONSTANTVELOCITY", "RAMPDOWN"}

TypeOK ==
  /\ queue \in Seq(AllEvents)
  /\ actualEvent \in AllEvents \cup {NoEvent}
  /\ diagram \in 0 .. 5
  /\ actualState \in [Diagrams -> UNION {StatesOf(d) : d \in Diagrams}]
  /\ \A d \in Diagrams : actualState[d] \in StatesOf(d)
  /\ localMode \in BOOLEAN /\ chainMode \in BOOLEAN
  /\ myBufferSfd \in Buffer
  /\ call \in [Callers -> AllEvents \cup {NoEvent}]
  /\ profile \in {"none", "local", "chain", "handingOver"}
  /\ direction \in BOOLEAN
  /\ localA \in {100 * k : k \in 10 .. 22}
  /\ phase \in Phases
  /\ client \in [Sfds -> {"idle", "asked", "ready", "refused"}]
  /\ right \in {"idle", "asked", "waited", "ready"}
  /\ commandsLeft \in 0 .. MaxCommands

(* Nothing is under way in the machine: whatever happens next comes from   *)
(* the drive, a neighbour or the operator.                                 *)
Quiescent == /\ queue = <<>>
             /\ actualEvent = NoEvent
             /\ \A c \in Callers : call[c] = NoEvent

Transporting == {"HandingOverL", "BeltInMotion", "Waiting", "HandingOverR"}
HandingOver == {"HandingOverL", "HandingOverR"}

-----------------------------------------------------------------------------
(* Orders (systemManager.cpp:161-216, 409-433, 574-598) *)

(* The two diagrams that follow an order agree once all events are         *)
(* handled: the belt is Performing exactly when the Chain-Mode diagram     *)
(* transports (systemManager.cpp:39-46, 64-66).                            *)
PerformingMatchesTransport ==
  Quiescent => (actualState[PerformingM] = "Performing"
                  <=> actualState[ChainM] \in Transporting)

(* An accepted order gets its Ready in the end.                            *)
AcceptedIsServed ==
  \A s \in Sfds : (\E j \in Slots : myBufferSfd[j].sfd = s /\ client[s] = "asked")
                   ~> client[s] = "ready"

-----------------------------------------------------------------------------
(* The drive *)

(* In Chain-Mode the belt stands still unless it moves its package or      *)
(* hands one over (Controller.cpp:211-225 and the callers of it).          *)
StillUnlessTransporting ==
  chainMode /\ actualState[ChainM] \in {"Idle", "Waiting"} => phase = "STOPMOTOR"

(* Packages are handed over at the slow speed, in both directions of the   *)
(* hand-over, whatever profile the drive used before (systemManager.cpp:   *)
(* 416-417, 448-449, 458-459).                                             *)
SlowWhenHandingOver ==
  actualState[ChainM] \in HandingOver /\ phase # "STOPMOTOR"
    => profile = "handingOver" /\ phase = "CONSTANTVELOCITY"

(* The drive and the diagrams keep pace: once all events are handled the   *)
(* phase of the drive is the one its diagram stands for, so the completion *)
(* that the diagram waits for is still to come (Controller.cpp:227-274).   *)
PhaseOf == [startBelt |-> "STOPMOTOR", RampUp |-> "RAMPUP",
            ConstantVelocity |-> "CONSTANTVELOCITY", RampDown |-> "RAMPDOWN"]
DriveFollowsDiagram ==
  Quiescent => phase = IF actualState[ChainM] \in HandingOver
                       THEN "CONSTANTVELOCITY" ELSE PhaseOf[actualState[BeltInMotionM]]

(* In Local-Mode the speed and the direction change only while the belt    *)
(* stands still: in Idle no phase is running (systemManager.cpp:349-388).  *)
LocalIdleStandsStill ==
  localMode /\ actualState[LocalM] = "Idle" => phase = "STOPMOTOR"

-----------------------------------------------------------------------------
(* The modes *)

(* The two mode diagrams are never active together, and each is active     *)
(* only while its mode is set (systemManager.cpp:29-46, 389-408, 506-533). *)
ModeIsolation ==
  /\ actualState[LocalM] # "SelectLocalMode" => localMode
  /\ actualState[ChainM] # "SelectChainMode" => chainMode
  /\ ~(localMode /\ chainMode)

(* A change of mode is never lost: the operator's choice ends in the       *)
(* mode's Idle state (systemManager.cpp:389-408, 506-533).                 *)
ModeSettles ==
  /\ localMode ~> actualState[LocalM] = "Idle" \/ chainMode
  /\ chainMode ~> actualState[ChainM] # "SelectChainMode" \/ localMode

=============================================================================
