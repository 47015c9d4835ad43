----------------------------- MODULE EventQueue -----------------------------
(***************************************************************************)
(* The event queue of class StateMachine (Statemachine/stateMachine.cpp).  *)
(* Every task of the belt calls sendEvent: the keyboard, the telnet and    *)
(* TCP worker tasks, the TCP client's reader, the controller's tick, and   *)
(* the main task itself from inside the transition actions.  The main task *)
(* runs runToCompletion.  Two semaphores are involved: the binary semQueue *)
(* guards the std::queue, the counting semEvent wakes the main task.       *)
(* Each semaphore call and each access to the queue is a step of its own.  *)
(***************************************************************************)
EXTENDS Naturals, Sequences, FiniteSets

CONSTANTS Producers,   \* the tasks other than the main task
          Main,        \* the main task, which runs runToCompletion
          Events,      \* the event names
          NoEvent,     \* the empty string, which is no event
          Free,        \* semQueue when no task holds it
          InitSystem,  \* the event main() sends before runToCompletion
          QueueBound   \* no sendEvent is started with this many events queued

ASSUME QueueAssumption ==
  /\ IsFiniteSet(Producers)
  /\ Main \notin Producers
  /\ Free \notin Producers \cup {Main}
  /\ NoEvent \notin Events
  /\ InitSystem \in Events
  /\ QueueBound \in Nat

Tasks == Producers \cup {Main}

VARIABLES queue,        \* std::queue<std::string> queue
          semQueue,     \* the task holding the binary semaphore, or Free
          semEvent,     \* the count of the counting semaphore
          pc,           \* where each task is in sendEvent / runToCompletion
          myEvent,      \* the argument of the sendEvent in progress
          actualEvent   \* the main task's event

vars == <<queue, semQueue, semEvent, pc, myEvent, actualEvent>>

(* A task outside sendEvent; for the main task that is inside an action.   *)
Rest(t) == IF t = Main THEN "dispatch" ELSE "running"

Sending == {"putTake", "push", "putGive", "signal"}
Reading == {"wait", "getTake", "pop", "getGive"}

Init == /\ queue = <<>>
        /\ semQueue = Free
        /\ semEvent = 0
        /\ pc = [t \in Tasks |-> IF t = Main THEN "putTake" ELSE "running"]
        /\ myEvent = [t \in Tasks |-> IF t = Main THEN InitSystem ELSE NoEvent]
        /\ actualEvent = NoEvent

-----------------------------------------------------------------------------
(* sendEvent(e) by task t: putEvent (lock, push, unlock), then semGive.    *)
SendEvent(t, e) ==
  /\ pc[t] = Rest(t)
  /\ Len(queue) < QueueBound
  /\ pc' = [pc EXCEPT ![t] = "putTake"]
  /\ myEvent' = [myEvent EXCEPT ![t] = e]
  /\ UNCHANGED <<queue, semQueue, semEvent, actualEvent>>

(* Mutant: putEvent forgets to take semQueue. *)
PutTakeUnlocked(t) ==
  /\ pc[t] = "putTake"
  /\ semQueue' = t
  /\ pc' = [pc EXCEPT ![t] = "push"]
  /\ UNCHANGED <<queue, semEvent, myEvent, actualEvent>>

PutTake(t) ==
  /\ pc[t] = "putTake"
  /\ semQueue = Free
  /\ semQueue' = t
  /\ pc' = [pc EXCEPT ![t] = "push"]
  /\ UNCHANGED <<queue, semEvent, myEvent, actualEvent>>

(* Mutant: a stack instead of a queue: the newest event first. *)
PushFront(t) ==
  /\ pc[t] = "push"
  /\ queue' = <<myEvent[t]>> \o queue
  /\ pc' = [pc EXCEPT ![t] = "putGive"]
  /\ UNCHANGED <<semQueue, semEvent, myEvent, actualEvent>>

Push(t) ==
  /\ pc[t] = "push"
  /\ queue' = Append(queue, myEvent[t])
  /\ pc' = [pc EXCEPT ![t] = "putGive"]
  /\ UNCHANGED <<semQueue, semEvent, myEvent, actualEvent>>

PutGive(t) ==
  /\ pc[t] = "putGive"
  /\ semQueue' = Free
  /\ pc' = [pc EXCEPT ![t] = "signal"]
  /\ UNCHANGED <<queue, semEvent, myEvent, actualEvent>>

(* Mutant: semEvent created with semBCreate, so that gives do not add up. *)
SignalBinary(t) ==
  /\ pc[t] = "signal"
  /\ semEvent' = 1
  /\ pc' = [pc EXCEPT ![t] = Rest(t)]
  /\ myEvent' = [myEvent EXCEPT ![t] = NoEvent]
  /\ UNCHANGED <<queue, semQueue, actualEvent>>

Signal(t) ==
  /\ pc[t] = "signal"
  /\ semEvent' = semEvent + 1
  /\ pc' = [pc EXCEPT ![t] = Rest(t)]
  /\ myEvent' = [myEvent EXCEPT ![t] = NoEvent]
  /\ UNCHANGED <<queue, semQueue, actualEvent>>

-----------------------------------------------------------------------------
(* runToCompletion: wait for a token, getEvent (lock, pop, unlock), then   *)
(* dispatch the event; Done is the end of the loop body.                   *)
Wait ==
  /\ pc[Main] = "wait"
  /\ semEvent > 0
  /\ semEvent' = semEvent - 1
  /\ pc' = [pc EXCEPT ![Main] = "getTake"]
  /\ UNCHANGED <<queue, semQueue, myEvent, actualEvent>>

GetTake ==
  /\ pc[Main] = "getTake"
  /\ semQueue = Free
  /\ semQueue' = Main
  /\ pc' = [pc EXCEPT ![Main] = "pop"]
  /\ UNCHANGED <<queue, semEvent, myEvent, actualEvent>>

(* getEvent returns the empty string when it finds the queue empty.        *)
Pop ==
  /\ pc[Main] = "pop"
  /\ actualEvent' = IF queue = <<>> THEN NoEvent ELSE Head(queue)
  /\ queue' = IF queue = <<>> THEN queue ELSE Tail(queue)
  /\ pc' = [pc EXCEPT ![Main] = "getGive"]
  /\ UNCHANGED <<semQueue, semEvent, myEvent>>

GetGive ==
  /\ pc[Main] = "getGive"
  /\ semQueue' = Free
  /\ pc' = [pc EXCEPT ![Main] = "dispatch"]
  /\ UNCHANGED <<queue, semEvent, myEvent, actualEvent>>

Done ==
  /\ pc[Main] = "dispatch"
  /\ pc' = [pc EXCEPT ![Main] = "wait"]
  /\ UNCHANGED <<queue, semQueue, semEvent, myEvent, actualEvent>>

-----------------------------------------------------------------------------
(* The steps a task takes by itself once it is inside sendEvent.           *)
SendStep(t) == PutTake(t) \/ Push(t) \/ PutGive(t) \/ Signal(t)

Run == Wait \/ GetTake \/ Pop \/ GetGive \/ Done

Next == \/ \E t \in Tasks, e \in Events : SendEvent(t, e)
        \/ \E t \in Tasks : SendStep(t)
        \/ Run

Safety == Init /\ [][Next]_vars

(* No task is obliged to send, but a task inside sendEvent goes on, and so *)
(* does the main task: no other task of the belt holds the processor for   *)
(* ever.  semQueue is a queueing semaphore: SF for the tasks that take it. *)
Fairness == /\ \A t \in Tasks : SF_vars(PutTake(t)) /\ WF_vars(SendStep(t))
            /\ SF_vars(GetTake) /\ WF_vars(Run)

Spec == Safety /\ Fairness

-----------------------------------------------------------------------------
TypeOK == /\ queue \in Seq(Events)
          /\ semQueue \in Tasks \cup {Free}
          /\ semEvent \in Nat
          /\ pc \in [Tasks -> Sending \cup Reading \cup {"running", "dispatch"}]
          /\ myEvent \in [Tasks -> Events \cup {NoEvent}]
          /\ actualEvent \in Events \cup {NoEvent}

(* The tasks inside the part of putEvent/getEvent that semQueue guards.    *)
Guarded(t) == pc[t] \in {"push", "putGive", "pop", "getGive"}

(* The std::queue is not thread-safe: at most one task is between the      *)
(* semTake and the semGive of putEvent or getEvent, and it is the holder   *)
(* of semQueue (stateMachine.cpp:32-34, 40-45).                            *)
QueueGuarded == \A t \in Tasks : Guarded(t) <=> semQueue = t

(* The tasks that have pushed and not yet given the token (between lines   *)
(* 26 and 27), the token the main task holds before its pop.               *)
Unsignalled == {t \in Tasks : pc[t] \in {"putGive", "signal"}}
TokenInHand == IF pc[Main] \in {"getTake", "pop"} THEN 1 ELSE 0

(* Every queued event has exactly one token: in the semaphore, owed by the *)
(* task that pushed the event, or in the hand of the main task.  Whatever  *)
(* the order of pushes and gives, none is lost and none is left over.      *)
TokensMatchEvents ==
  Len(queue) = semEvent + Cardinality(Unsignalled) + TokenInHand

(* A main task that got a token finds an event: getEvent never returns the *)
(* empty string it returns for an empty queue (stateMachine.cpp:39-46).    *)
PopFindsEvent == pc[Main] = "pop" => queue # <<>>

(* Each event pushed is dispatched some time later (stateMachine.cpp:25).  *)
EveryEventDispatched ==
  \A e \in Events :
    (\E i \in DOMAIN queue : queue[i] = e)
       ~> (pc[Main] = "dispatch" /\ actualEvent = e)

(* The queue implements EventFifo: the event in hand is actualEvent from   *)
(* the pop to the end of the dispatch.                                     *)
InHand == IF pc[Main] \in {"wait", "getTake", "pop"} THEN NoEvent ELSE actualEvent

Fifo == INSTANCE EventFifo WITH fifo <- queue, inHand <- InHand

(* Events are taken in the order in which they were put, one at a time,    *)
(* with none lost, duplicated or invented (stateMachine.cpp:25-47).        *)
ImplementsFifo == Fifo!Spec
=============================================================================
