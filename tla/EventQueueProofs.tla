-------------------------- MODULE EventQueueProofs --------------------------
(***************************************************************************)
(* Proofs about EventQueue for every set of tasks, every set of events and *)
(* every queue bound: the std::queue is guarded, tokens match events, the  *)
(* main task never pops an empty queue, and the queue implements the       *)
(* safety part of EventFifo.                                               *)
(***************************************************************************)
EXTENDS EventQueue, FiniteSetTheorems, TLAPS

(* Producers only send; the main task is never outside its loop; a task    *)
(* inside sendEvent, before the give, carries an event.                    *)
Places ==
  /\ \A t \in Producers : pc[t] \in Sending \cup {"running"}
  /\ pc[Main] \in Sending \cup Reading \cup {"dispatch"}
  /\ \A t \in Tasks : pc[t] \in Sending => myEvent[t] \in Events

(* The inductive invariant. *)
IInv == TypeOK /\ Places /\ QueueGuarded /\ TokensMatchEvents

LEMMA TasksFinite == IsFiniteSet(Tasks) /\ Main \in Tasks /\ Free \notin Tasks
BY QueueAssumption, FS_Union, FS_Singleton DEF Tasks

LEMMA UnsignalledFinite == IsFiniteSet(Unsignalled) /\ Cardinality(Unsignalled) \in Nat
BY TasksFinite, FS_Subset, FS_CardinalityType DEF Unsignalled

(* A task that pushes an event owes one token more. *)
LEMMA OweOne ==
  ASSUME NEW t \in Tasks, t \notin Unsignalled, Unsignalled' = Unsignalled \cup {t}
  PROVE  Cardinality(Unsignalled') = Cardinality(Unsignalled) + 1
BY UnsignalledFinite, FS_AddElement

(* A task that gives its token owes one token less. *)
LEMMA PayOne ==
  ASSUME NEW t \in Tasks, t \in Unsignalled, Unsignalled' = Unsignalled \ {t}
  PROVE  Cardinality(Unsignalled') = Cardinality(Unsignalled) - 1
BY UnsignalledFinite, FS_RemoveElement

LEMMA InitIInv == Init => IInv
<1> SUFFICES ASSUME Init PROVE IInv
  OBVIOUS
<1> USE TasksFinite, QueueAssumption
<1>1. TypeOK
  BY DEF Init, TypeOK, Sending, Reading
<1>2. Places
  BY DEF Init, Places, Sending, Reading, Tasks
<1>3. QueueGuarded
  BY DEF Init, QueueGuarded, Guarded, Tasks
<1>4. TokensMatchEvents
  <2>1. Unsignalled = {}
    BY DEF Init, Unsignalled
  <2>2. Cardinality(Unsignalled) = 0
    BY <2>1, FS_EmptySet
  <2>3. TokenInHand = 0
    BY DEF Init, TokenInHand
  <2> QED
    BY <2>2, <2>3 DEF Init, TokensMatchEvents
<1> QED
  BY <1>1, <1>2, <1>3, <1>4 DEF IInv

(* Type correctness and the program places are kept by every step. *)
LEMMA NextTypes == IInv /\ [Next]_vars => TypeOK' /\ Places'
<1> SUFFICES ASSUME IInv, [Next]_vars PROVE TypeOK' /\ Places'
  OBVIOUS
<1> USE TasksFinite, QueueAssumption DEF IInv, TypeOK, Places, Sending, Reading, Rest
<1>1. CASE UNCHANGED vars
  BY <1>1 DEF vars
<1>2. ASSUME NEW t \in Tasks, NEW e \in Events, SendEvent(t, e) PROVE TypeOK' /\ Places'
  BY <1>2 DEF SendEvent, Tasks
<1>3. ASSUME NEW t \in Tasks, SendStep(t) PROVE TypeOK' /\ Places'
  <2>1. CASE PutTake(t)
    BY <2>1 DEF PutTake, Tasks
  <2>2. CASE Push(t)
    <3>1. myEvent[t] \in Events
      BY <2>2 DEF Push
    <3> QED
      BY <2>2, <3>1 DEF Push, Tasks
  <2>3. CASE PutGive(t)
    BY <2>3 DEF PutGive, Tasks
  <2>4. CASE Signal(t)
    BY <2>4 DEF Signal, Tasks
  <2> QED
    BY <1>3, <2>1, <2>2, <2>3, <2>4 DEF SendStep
<1>4. CASE Run
  <2>1. CASE Wait
    BY <2>1 DEF Wait, Tasks
  <2>2. CASE GetTake
    BY <2>2 DEF GetTake, Tasks
  <2>3. CASE Pop
    BY <2>3 DEF Pop, Tasks
  <2>4. CASE GetGive
    BY <2>4 DEF GetGive, Tasks
  <2>5. CASE Done
    BY <2>5 DEF Done, Tasks
  <2> QED
    BY <1>4, <2>1, <2>2, <2>3, <2>4, <2>5 DEF Run
<1> QED
  BY <1>1, <1>2, <1>3, <1>4 DEF Next

(* semQueue is held by exactly the task inside the guarded part. *)
LEMMA NextGuarded == IInv /\ [Next]_vars => QueueGuarded'
<1> SUFFICES ASSUME IInv, [Next]_vars PROVE QueueGuarded'
  OBVIOUS
<1> USE TasksFinite DEF IInv, TypeOK, QueueGuarded, Guarded, Rest
<1>1. CASE UNCHANGED vars
  BY <1>1 DEF vars
<1>2. ASSUME NEW t \in Tasks, NEW e \in Events, SendEvent(t, e) PROVE QueueGuarded'
  BY <1>2 DEF SendEvent
<1>3. ASSUME NEW t \in Tasks, SendStep(t) PROVE QueueGuarded'
  BY <1>3 DEF SendStep, PutTake, Push, PutGive, Signal
<1>4. CASE Run
  BY <1>4 DEF Run, Wait, GetTake, Pop, GetGive, Done
<1> QED
  BY <1>1, <1>2, <1>3, <1>4 DEF Next

(* Each step keeps the balance of tokens and events. *)
LEMMA NextTokens == IInv /\ [Next]_vars => TokensMatchEvents'
<1> SUFFICES ASSUME IInv, [Next]_vars PROVE TokensMatchEvents'
  OBVIOUS
<1> USE TasksFinite, UnsignalledFinite, QueueAssumption
     DEF IInv, TypeOK, TokensMatchEvents
<1>1. CASE UNCHANGED vars
  BY <1>1 DEF vars, Unsignalled, TokenInHand
<1>2. ASSUME NEW t \in Tasks, NEW e \in Events, SendEvent(t, e) PROVE TokensMatchEvents'
  <2>1. Unsignalled' = Unsignalled /\ TokenInHand' = TokenInHand
    BY <1>2 DEF SendEvent, Rest, Unsignalled, TokenInHand
  <2> QED
    BY <1>2, <2>1 DEF SendEvent
<1>3. ASSUME NEW t \in Tasks, SendStep(t) PROVE TokensMatchEvents'
  <2>1. CASE PutTake(t)
    <3>1. Unsignalled' = Unsignalled /\ TokenInHand' = TokenInHand
      BY <2>1 DEF PutTake, Unsignalled, TokenInHand
    <3> QED
      BY <2>1, <3>1 DEF PutTake
  <2>2. CASE Push(t)
    <3>1. t \notin Unsignalled /\ Unsignalled' = Unsignalled \cup {t}
      BY <2>2 DEF Push, Unsignalled
    <3>2. TokenInHand' = TokenInHand
      BY <2>2 DEF Push, TokenInHand
    <3>3. myEvent[t] \in Events
      BY <2>2 DEF Push, Places, Sending
    <3>4. Len(queue') = Len(queue) + 1
      BY <2>2, <3>3 DEF Push
    <3>5. Cardinality(Unsignalled') = Cardinality(Unsignalled) + 1
      BY <3>1, OweOne
    <3>6. semEvent' = semEvent
      BY <2>2 DEF Push
    <3> QED
      BY <3>2, <3>4, <3>5, <3>6 DEF TokenInHand
  <2>3. CASE PutGive(t)
    <3>1. Unsignalled' = Unsignalled /\ TokenInHand' = TokenInHand
      BY <2>3 DEF PutGive, Unsignalled, TokenInHand
    <3> QED
      BY <2>3, <3>1 DEF PutGive
  <2>4. CASE Signal(t)
    <3>1. t \in Unsignalled /\ Unsignalled' = Unsignalled \ {t}
      BY <2>4 DEF Signal, Rest, Unsignalled
    <3>2. TokenInHand' = TokenInHand
      BY <2>4 DEF Signal, Rest, TokenInHand
    <3>3. Cardinality(Unsignalled') = Cardinality(Unsignalled) - 1
      BY <3>1, PayOne
    <3>4. semEvent' = semEvent + 1 /\ queue' = queue
      BY <2>4 DEF Signal
    <3> QED
      BY <3>2, <3>3, <3>4 DEF TokenInHand
  <2> QED
    BY <1>3, <2>1, <2>2, <2>3, <2>4 DEF SendStep
<1>4. CASE Run
  <2>1. Unsignalled' = Unsignalled
    BY <1>4 DEF Run, Wait, GetTake, Pop, GetGive, Done, Unsignalled
  <2>2. CASE Wait
    BY <2>1, <2>2 DEF Wait, TokenInHand
  <2>3. CASE GetTake
    BY <2>1, <2>3 DEF GetTake, TokenInHand
  <2>4. CASE Pop
    <3>1. Len(queue) > 0
      BY <2>4 DEF Pop, TokenInHand
    <3>2. Len(queue') = Len(queue) - 1
      BY <2>4, <3>1 DEF Pop
    <3>3. TokenInHand = 1 /\ TokenInHand' = 0 /\ semEvent' = semEvent
      BY <2>4 DEF Pop, TokenInHand
    <3> QED
      BY <2>1, <3>2, <3>3
  <2>5. CASE GetGive
    BY <2>1, <2>5 DEF GetGive, TokenInHand
  <2>6. CASE Done
    BY <2>1, <2>6 DEF Done, TokenInHand
  <2> QED
    BY <1>4, <2>2, <2>3, <2>4, <2>5, <2>6 DEF Run
<1> QED
  BY <1>1, <1>2, <1>3, <1>4 DEF Next

THEOREM Invariant == Safety => []IInv
<1>1. IInv /\ [Next]_vars => IInv'
  BY NextTypes, NextGuarded, NextTokens DEF IInv
<1> QED
  BY InitIInv, <1>1, PTL DEF Safety

(* Type correctness of the event queue. *)
THEOREM TypeCorrect == Spec => []TypeOK
<1>1. IInv => TypeOK
  BY DEF IInv
<1> QED
  BY Invariant, <1>1, PTL DEF Spec

(* The std::queue is touched by at most one task at a time, the holder of  *)
(* semQueue (stateMachine.cpp:32-34, 40-45).                               *)
THEOREM MutualExclusion == Spec => []QueueGuarded
<1>1. IInv => QueueGuarded
  BY DEF IInv
<1> QED
  BY Invariant, <1>1, PTL DEF Spec

(* No token is lost or left over (stateMachine.cpp:26-27, 52-53).          *)
THEOREM TokenBalance == Spec => []TokensMatchEvents
<1>1. IInv => TokensMatchEvents
  BY DEF IInv
<1> QED
  BY Invariant, <1>1, PTL DEF Spec

LEMMA PopHasEvent == IInv => PopFindsEvent
<1> SUFFICES ASSUME IInv, pc[Main] = "pop" PROVE queue # <<>>
  BY DEF PopFindsEvent
<1>1. Len(queue) >= 1
  BY UnsignalledFinite DEF IInv, TypeOK, TokensMatchEvents, TokenInHand
<1> QED
  BY <1>1

(* The main task never dispatches the empty string (stateMachine.cpp:41).  *)
THEOREM NeverPopsEmpty == Spec => []PopFindsEvent
BY Invariant, PopHasEvent, PTL DEF Spec

-----------------------------------------------------------------------------
(* The safety part of the refinement: every step of the two-semaphore      *)
(* queue is a step of the FIFO buffer or leaves it unchanged.              *)
LEMMA StepRefines == IInv /\ [Next]_vars => [Fifo!Next]_(Fifo!vars)
<1> SUFFICES ASSUME IInv, [Next]_vars PROVE [Fifo!Next]_(Fifo!vars)
  OBVIOUS
<1> USE TasksFinite, QueueAssumption
     DEF IInv, TypeOK, Places, Sending, Reading, InHand, Rest
<1>1. CASE UNCHANGED vars
  BY <1>1 DEF vars, Fifo!vars
<1>2. ASSUME NEW t \in Tasks, NEW e \in Events, SendEvent(t, e)
      PROVE  UNCHANGED Fifo!vars
  BY <1>2 DEF SendEvent, Fifo!vars
<1>3. ASSUME NEW t \in Tasks, SendStep(t) PROVE [Fifo!Next]_(Fifo!vars)
  <2>1. CASE PutTake(t) \/ PutGive(t) \/ Signal(t)
    BY <2>1 DEF PutTake, PutGive, Signal, Fifo!vars
  <2>2. CASE Push(t)
    <3>1. myEvent[t] \in Events
      BY <2>2 DEF Push
    <3>2. Fifo!Put(myEvent[t])
      BY <2>2 DEF Push, Fifo!Put
    <3> QED
      BY <3>1, <3>2 DEF Fifo!Next
  <2> QED
    BY <1>3, <2>1, <2>2 DEF SendStep
<1>4. CASE Run
  <2>1. CASE Wait \/ GetTake \/ GetGive
    BY <2>1 DEF Wait, GetTake, GetGive, Fifo!vars
  <2>2. CASE Pop
    <3>1. queue # <<>>
      BY <2>2, PopHasEvent DEF PopFindsEvent, Pop
    <3>2. Fifo!Take
      BY <2>2, <3>1 DEF Pop, Fifo!Take
    <3> QED
      BY <3>2 DEF Fifo!Next
  <2>3. CASE Done
    <3>1. CASE actualEvent = NoEvent
      BY <2>3, <3>1 DEF Done, Fifo!vars
    <3>2. CASE actualEvent # NoEvent
      <4>1. Fifo!Finish
        BY <2>3, <3>2 DEF Done, Fifo!Finish
      <4> QED
        BY <4>1 DEF Fifo!Next
    <3> QED
      BY <3>1, <3>2
  <2> QED
    BY <1>4, <2>1, <2>2, <2>3 DEF Run
<1> QED
  BY <1>1, <1>2, <1>3, <1>4 DEF Next

(* Events are taken in the order in which they were put, none twice, none  *)
(* invented (stateMachine.cpp:25-47).                                      *)
THEOREM RefinesFifo == Spec => Fifo!Safety
<1>1. Init => Fifo!Init
  BY QueueAssumption, TasksFinite DEF Init, Fifo!Init, InHand
<1> QED
  BY <1>1, Invariant, StepRefines, PTL DEF Spec, Safety, Fifo!Safety
=============================================================================
