----------------------------- MODULE EventFifo -----------------------------
(***************************************************************************)
(* What the event queue of the state machine promises to the tasks that    *)
(* send events: a first-in first-out buffer with one reader.  An event is  *)
(* taken only when there is one, events are taken in the order in which    *)
(* they were put, none is lost, duplicated or invented, and the reader     *)
(* finishes each one before it takes the next (run to completion).         *)
(***************************************************************************)
EXTENDS Sequences

CONSTANTS Events,     \* the event names of the state table
          NoEvent     \* what the reader holds between two events

VARIABLES fifo,       \* the events put and not yet taken, oldest first
          inHand      \* the event being processed, or NoEvent

vars == <<fifo, inHand>>

Init == fifo = <<>> /\ inHand = NoEvent

Put(e) == fifo' = Append(fifo, e) /\ UNCHANGED inHand

Take == /\ inHand = NoEvent
        /\ fifo # <<>>
        /\ inHand' = Head(fifo)
        /\ fifo' = Tail(fifo)

Finish == inHand # NoEvent /\ inHand' = NoEvent /\ UNCHANGED fifo

Next == (\E e \in Events : Put(e)) \/ Take \/ Finish

Safety == Init /\ [][Next]_vars

Spec == Safety /\ WF_vars(Take) /\ WF_vars(Finish)
=============================================================================
