------------------------------ MODULE OrderDesk -----------------------------
(***************************************************************************)
(* How orders of the left neighbours are taken, announced, answered and    *)
(* completed: the worker task of each connection runs requestEvent(REQUEST,*)
(* sFd), the main task runs the transitions of the Performing diagram and  *)
(* of the Chain-Mode diagram that touch the order buffer.  The workers     *)
(* write a slot field by field under semOrder; the main task, which has    *)
(* the higher priority, may run between any two of these writes and reads  *)
(* the buffer without semOrder, except when it removes an order.           *)
(* The drive is reduced to the stages of one transport.  The belt is in    *)
(* Chain-Mode all the time.                                                *)
(***************************************************************************)
EXTENDS OrderBuffer, Sequences, FiniteSets

CONSTANT Free     \* semOrder when no task holds it

(* Two slots at least: with a single one a refused Request is announced    *)
(* and would start a transport that nobody has ordered.                    *)
ASSUME DeskAssumption == Free \notin Sfds /\ N > 1

VARIABLES
  myBufferSfd,  \* the order buffer
  semOrder,     \* the worker holding the mutex, or Free
  pc,           \* where each worker is in requestEvent
  at,           \* the slot each worker has chosen (its local j)
  events,       \* the queued "request" and "release" events
  performing,   \* the Performing diagram is in state Performing
  stage,        \* the transport: none, fromLeft (READY sent), onBelt
                \* (RELEASE sent), gone (the right neighbour has released)
  client,       \* what each left neighbour believes about its order
  strays        \* the kinds of answers that reached a client out of place

vars == <<myBufferSfd, semOrder, pc, at, events, performing, stage, client, strays>>
workerVars == <<semOrder, pc, at>>
mainVars == <<performing, stage>>
clientVars == <<client, strays>>

Init == /\ myBufferSfd \in NewBuffers
        /\ semOrder = Free
        /\ pc = [c \in Sfds |-> "idle"]
        /\ at = [c \in Sfds |-> 0]
        /\ events = <<>>
        /\ performing = FALSE
        /\ stage = "none"
        /\ client = [c \in Sfds |-> "idle"]
        /\ strays = {}

-----------------------------------------------------------------------------
(* The left neighbour c, which is a belt too: it asks once and then waits  *)
(* in its state Waiting for Ready and in HandingOverR for Release; any     *)
(* other answer finds no row in its table.  NOTFOUND is not a command its  *)
(* parser knows for this source; only its operator can end the wait.       *)
Hears(c, answer) ==
  IF c \notin Sfds THEN UNCHANGED clientVars
  ELSE \/ /\ answer = "READY" /\ client[c] = "asked"
          /\ client' = [client EXCEPT ![c] = "ready"]
          /\ UNCHANGED strays
       \/ /\ answer = "RELEASE" /\ client[c] = "ready"
          /\ client' = [client EXCEPT ![c] = "idle"]
          /\ UNCHANGED strays
       \/ /\ answer = "WAIT" /\ client[c] = "asked"
          /\ UNCHANGED clientVars
       \/ /\ answer = "NOTFOUND" /\ client[c] = "asked"
          /\ client' = [client EXCEPT ![c] = "refused"]
          /\ UNCHANGED strays
       \/ /\ <<answer, client[c]>> \notin {<<"READY", "asked">>, <<"RELEASE", "ready">>,
                                           <<"WAIT", "asked">>, <<"NOTFOUND", "asked">>}
          /\ strays' = strays \cup {answer}
          /\ UNCHANGED client

(* A REQUEST of client c arrives and its worker enters requestEvent. *)
Request(c) ==
  /\ pc[c] = "idle"
  /\ client[c] = "idle"
  /\ client' = [client EXCEPT ![c] = "asked"]
  /\ pc' = [pc EXCEPT ![c] = "search"]
  /\ UNCHANGED <<myBufferSfd, semOrder, at, events, mainVars, strays>>

(* The operator of the left belt cancels an order that was refused. *)
GiveUp(c) ==
  /\ client[c] = "refused"
  /\ client' = [client EXCEPT ![c] = "idle"]
  /\ UNCHANGED <<myBufferSfd, workerVars, events, mainVars, strays>>

-----------------------------------------------------------------------------
(* Mutants: the worker does not wait for semOrder; it stores in the first  *)
(* slot.                                                                   *)
SearchUnlocked(c) ==
  /\ pc[c] = "search"
  /\ Accepted(myBufferSfd, c)
  /\ at' = [at EXCEPT ![c] = Place(myBufferSfd, c)]
  /\ pc' = [pc EXCEPT ![c] = "sfd"]
  /\ UNCHANGED <<myBufferSfd, semOrder, events, mainVars, clientVars>>

SearchAtHead(c) ==
  /\ pc[c] = "search"
  /\ semOrder = Free
  /\ semOrder' = c
  /\ Accepted(myBufferSfd, c)
  /\ at' = [at EXCEPT ![c] = 0]
  /\ pc' = [pc EXCEPT ![c] = "sfd"]
  /\ UNCHANGED <<myBufferSfd, events, mainVars, clientVars>>

(* semTake(semOrder) and the search; only the holder of semOrder writes    *)
(* what the search reads.                                                  *)
Search(c) ==
  /\ pc[c] = "search"
  /\ semOrder = Free
  /\ semOrder' = c
  /\ \/ /\ Refused(myBufferSfd, c)
        /\ Hears(c, "NOTFOUND")
        /\ pc' = [pc EXCEPT ![c] = "giveUp"]
        /\ UNCHANGED at
     \/ /\ Accepted(myBufferSfd, c)
        /\ at' = [at EXCEPT ![c] = Place(myBufferSfd, c)]
        /\ pc' = [pc EXCEPT ![c] = "sfd"]
        /\ UNCHANGED clientVars
     \/ /\ Full(myBufferSfd, c)
        /\ pc' = [pc EXCEPT ![c] = "give"]
        /\ UNCHANGED <<at, clientVars>>
  /\ UNCHANGED <<myBufferSfd, events, mainVars>>

WriteSfd(c) ==
  /\ pc[c] = "sfd"
  /\ myBufferSfd' = [myBufferSfd EXCEPT ![at[c]].sfd = c]
  /\ pc' = [pc EXCEPT ![c] = "wait"]
  /\ UNCHANGED <<semOrder, at, events, mainVars, clientVars>>

WriteWait(c) ==
  /\ pc[c] = "wait"
  /\ myBufferSfd' = [myBufferSfd EXCEPT ![at[c]].wait = (at[c] # 0)]
  /\ pc' = [pc EXCEPT ![c] = "ip"]
  /\ UNCHANGED <<semOrder, at, events, mainVars, clientVars>>

WriteIp(c) ==
  /\ pc[c] = "ip"
  /\ myBufferSfd' = [myBufferSfd EXCEPT ![at[c]].ip = IpOf[c]]
  /\ pc' = [pc EXCEPT ![c] = "give"]
  /\ UNCHANGED <<semOrder, at, events, mainVars, clientVars>>

(* Mutant: a refused request is announced too. *)
GiveAlways(c) ==
  /\ pc[c] \in {"give", "giveUp"}
  /\ semOrder' = Free
  /\ pc' = [pc EXCEPT ![c] = "announce"]
  /\ UNCHANGED <<myBufferSfd, at, events, mainVars, clientVars>>

(* semGive(semOrder); a refused request ends here ("breakIt"). *)
Give(c) ==
  /\ pc[c] \in {"give", "giveUp"}
  /\ semOrder' = Free
  /\ pc' = [pc EXCEPT ![c] = IF pc[c] = "give" THEN "announce" ELSE "idle"]
  /\ UNCHANGED <<myBufferSfd, at, events, mainVars, clientVars>>

(* requestEvent(REQUEST): the event is queued after the mutex is given.    *)
Announce(c) ==
  /\ pc[c] = "announce"
  /\ events' = Append(events, "request")
  /\ pc' = [pc EXCEPT ![c] = "idle"]
  /\ UNCHANGED <<myBufferSfd, semOrder, at, mainVars, clientVars>>

-----------------------------------------------------------------------------
Event(e) == events # <<>> /\ Head(events) = e

(* "request" on an idle belt: myAction12 answers Ready to the head of the  *)
(* buffer, myAction40 enters Performing.                                   *)
StartOrder ==
  /\ Event("request")
  /\ ~performing
  /\ events' = Tail(events)
  /\ performing' = TRUE
  /\ stage' = "fromLeft"
  /\ Hears(ActualSfd(myBufferSfd), "READY")
  /\ UNCHANGED <<myBufferSfd, workerVars>>

(* "request" while performing: myAction41 answers Wait to the first order  *)
(* that has not had one.                                                   *)
AnswerWait ==
  /\ Event("request")
  /\ performing
  /\ events' = Tail(events)
  /\ myBufferSfd' = ClearWaiting(myBufferSfd)
  /\ Hears(WaitingSfd(myBufferSfd), "WAIT")
  /\ UNCHANGED <<workerVars, mainVars>>

(* A stage of a transport takes a second or more, a worker needs           *)
(* microseconds to store and announce an order: none is at it when a stage *)
(* ends.                                                                   *)
Storing == {"sfd", "wait", "ip", "give", "announce"}
WorkersCaughtUp == \A c \in Sfds : pc[c] \notin Storing

(* The handing over has lasted t_t: myAction13 sends Release to the head.  *)
TakeOver ==
  /\ stage = "fromLeft"
  /\ WorkersCaughtUp
  /\ stage' = "onBelt"
  /\ Hears(ActualSfd(myBufferSfd), "RELEASE")
  /\ UNCHANGED <<myBufferSfd, workerVars, events, performing>>

(* The package has passed to the right neighbour, whose Release arrives.   *)
HandedOn ==
  /\ stage = "onBelt"
  /\ WorkersCaughtUp
  /\ stage' = "gone"
  /\ events' = Append(events, "release")
  /\ UNCHANGED <<myBufferSfd, workerVars, performing, clientVars>>

(* Mutant: the oldest order stays in the buffer. *)
CompleteWithoutShift ==
  /\ Event("release")
  /\ performing
  /\ semOrder = Free
  /\ performing' = FALSE
  /\ stage' = "none"
  /\ events' = IF ActualSfd(myBufferSfd) # Nobody
               THEN Append(Tail(events), "request") ELSE Tail(events)
  /\ UNCHANGED <<myBufferSfd, workerVars, clientVars>>

(* Mutant: the next order is not announced. *)
CompleteSilently ==
  /\ Event("release")
  /\ performing
  /\ semOrder = Free
  /\ myBufferSfd' = Shift(myBufferSfd)
  /\ performing' = FALSE
  /\ stage' = "none"
  /\ events' = Tail(events)
  /\ UNCHANGED <<workerVars, clientVars>>

(* "release" while performing: myAction18 ends the transport, myAction42   *)
(* removes the oldest order under semOrder and announces the next one.     *)
Complete ==
  /\ Event("release")
  /\ performing
  /\ semOrder = Free
  /\ myBufferSfd' = Shift(myBufferSfd)
  /\ performing' = FALSE
  /\ stage' = "none"
  /\ events' = IF ActualSfd(Shift(myBufferSfd)) # Nobody
               THEN Append(Tail(events), "request") ELSE Tail(events)
  /\ UNCHANGED <<workerVars, clientVars>>

-----------------------------------------------------------------------------
WorkerStep(c) == \/ Search(c) \/ WriteSfd(c) \/ WriteWait(c) \/ WriteIp(c)
                 \/ Give(c) \/ Announce(c)

MainStep == StartOrder \/ AnswerWait \/ Complete

Next == \/ \E c \in Sfds : Request(c) \/ GiveUp(c) \/ WorkerStep(c)
        \/ MainStep
        \/ TakeOver \/ HandedOn

Safety == Init /\ [][Next]_vars

(* Started work goes on; transports end; semOrder is a queueing mutex.     *)
Fairness == /\ \A c \in Sfds : SF_vars(Search(c)) /\ WF_vars(WorkerStep(c))
            /\ SF_vars(Complete) /\ WF_vars(MainStep)
            /\ SF_vars(TakeOver) /\ SF_vars(HandedOn)

Spec == Safety /\ Fairness

-----------------------------------------------------------------------------
Places == {"idle", "search", "sfd", "wait", "ip", "give", "giveUp", "announce"}
Answers == {"READY", "RELEASE", "WAIT", "NOTFOUND"}

TypeOK == /\ myBufferSfd \in Buffer
          /\ semOrder \in Sfds \cup {Free}
          /\ pc \in [Sfds -> Places]
          /\ at \in [Sfds -> Slots]
          /\ events \in Seq({"request", "release"})
          /\ performing \in BOOLEAN
          /\ stage \in {"none", "fromLeft", "onBelt", "gone"}
          /\ client \in [Sfds -> {"idle", "asked", "ready", "refused"}]
          /\ strays \in SUBSET Answers

(* The orders fill the buffer from the front: the search, which stops at   *)
(* the first free slot, never overlooks an order (systemManager.cpp:196),  *)
(* and the head is the oldest (218-220, 588-590).                          *)
BufferIsPrefix == PrefixOccupied(myBufferSfd)

(* The buffer never holds two orders of one host, whatever the workers do  *)
(* at the same time (systemManager.cpp:182-189).                           *)
OneOrderPerHost == semOrder = Free => DistinctHosts(myBufferSfd)

(* The belt does not run a transport nobody has ordered: READY and RELEASE *)
(* have an addressee (systemManager.cpp:414, 427).                         *)
NoPhantomTransport == performing => ActualSfd(myBufferSfd) # Nobody

(* Ready reaches a client that waits for it, Release one that has had its  *)
(* Ready: no answer of a transport goes to the wrong client, whatever is   *)
(* ordered, refused or completed meanwhile (systemManager.cpp:409-433).    *)
TransportAnswersInPlace == strays \cap {"READY", "RELEASE", "NOTFOUND"} = {}

(* While its package is handed over the client at the head stays there.    *)
HeadStays == [][stage = "fromLeft" =>
                  ActualSfd(myBufferSfd)' = ActualSfd(myBufferSfd)]_vars

(* The buffer implements a waiting line without duplicates that always     *)
(* moves on: whoever is in it is served (systemManager.cpp:175-211,        *)
(* 584-598).                                                               *)
Orders == [i \in 1 .. Cardinality(Occupied(myBufferSfd)) |-> myBufferSfd[i - 1].sfd]
Line == INSTANCE OrderFifo WITH orders <- Orders, serving <- performing
ImplementsLine == Line!Spec

-----------------------------------------------------------------------------
(* What a comment says, and the code does not do.                          *)

(* systemManager.cpp:208-211: a request that finds the buffer full is      *)
(* dropped ("Auftragspuffer voll!"), no event is sent for it.              *)
FullIsNotAnnounced ==
  \A c \in Sfds : pc[c] = "announce" =>
    \E j \in Slots : myBufferSfd[j].sfd = c
=============================================================================
