----------------------------- MODULE PtpClient -----------------------------
(***************************************************************************)
(* The clock of a belt and the task tPtpClient, which sets it to the       *)
(* master's by SYNC, FOLLOW-UP, DELAY-REQUEST and DELAY-RESPONSE over UDP. *)
(* Times are whole seconds, as in the code, and are kept relative to the   *)
(* master's present time; what is stored therefore grows older by Period   *)
(* from one SYNC to the next.  Within a period messages take less than a   *)
(* second.  Nothing but the task sets the clock, and it does not drift.    *)
(***************************************************************************)
EXTENDS Integers, Sequences, SequencesExt

CONSTANTS
  Offsets,      \* the possible errors of the clock at the start
  MaxError,     \* a bound on those that are below the threshold
  Threshold,    \* an error above it is corrected at once; 1000 in the code
  Period,       \* seconds from one SYNC to the next; the master's 4
  MaxFaults     \* bound on lost messages and failed calls

Abs(x) == IF x < 0 THEN -x ELSE x

ASSUME PtpAssumption ==
  /\ Period \in Nat \ {0} /\ MaxFaults \in Nat /\ Threshold \in Nat
  /\ MaxError \in 0..Threshold
  /\ Offsets \subseteq Int
  /\ \A o \in Offsets : Abs(o) <= MaxError \/ Abs(o) > Threshold

VARIABLES
  clock,      \* CLOCK_REALTIME, relative to the master's time
  step,       \* the receiveUDP the task is in: "sync", "followUp", "response"
  measured,   \* i # 0: t2 and t3 of an earlier round are used again
  myRequest,  \* type and seconds of the message read last
  t1,         \* the clock at the SYNC (and time_val)
  lag,        \* t1 - t0
  t2,         \* the clock at the DELAY-REQUEST, while its answer is awaited
  delay,      \* t2 - t3; they age together
  due,        \* messages on their way to the belt
  faults,     \* lost messages and failed calls so far
  paired      \* every message of this round was what it was taken for

vars == <<clock, step, measured, myRequest, t1, lag, t2, delay, due, faults, paired>>

Message(type) == [type |-> type, seconds |-> 0]

Init == /\ clock \in Offsets
        /\ step = "sync"
        /\ measured = FALSE
        /\ myRequest = Message("none")
        /\ t1 = 0 /\ lag = 0 /\ t2 = 0 /\ delay = 0
        /\ due = <<>>
        /\ faults = 0
        /\ paired = TRUE

-----------------------------------------------------------------------------
(* Mutants: the sum of both differences; the offset added.                 *)
HalfForgotten(x) == x

(* Division of a long by 2, which truncates towards zero. *)
Half(x) == IF x < 0 THEN -((-x) \div 2) ELSE x \div 2

SetClockAdds(at, difference10, difference23) ==
  /\ clock' = at + Half(difference10 + difference23)
  /\ step' = "sync"
  /\ t1' = 0 /\ lag' = 0 /\ t2' = 0
  /\ delay' = difference23

(* clock_settime with the offset computed from two differences; the task   *)
(* then waits for the next SYNC and the times of this round are dead.      *)
SetClock(at, difference10, difference23) ==
  /\ clock' = at - Half(difference10 + difference23)
  /\ step' = "sync"
  /\ t1' = 0 /\ lag' = 0 /\ t2' = 0
  /\ delay' = difference23

(* What follows a return of receiveUDP, m being what myRequest then holds: *)
(* the loop that waits for a SYNC,                                         *)
OtherThanSync(m) ==
  /\ step = "sync"
  /\ m.type # "SYNC"
  /\ myRequest' = m
  /\ UNCHANGED <<clock, step, measured, t1, lag, t2, delay, paired>>

(* a clock that is badly wrong,                                            *)
Jump(m) ==
  /\ step = "sync"
  /\ m.type = "SYNC"
  /\ Abs(m.seconds - clock) > Threshold
  /\ clock' = m.seconds
  /\ myRequest' = m
  /\ UNCHANGED <<step, measured, t1, lag, t2, delay, paired>>

(* t1,                                                                     *)
Sync(m) ==
  /\ step = "sync"
  /\ m.type = "SYNC"
  /\ Abs(m.seconds - clock) <= Threshold
  /\ step' = "followUp"
  /\ t1' = clock
  /\ myRequest' = m
  /\ paired' = TRUE
  /\ UNCHANGED <<clock, measured, lag, t2, delay>>

(* t0 in a round that measures the delay: the request is sent,             *)
Ask(m) ==
  /\ step = "followUp"
  /\ ~measured
  /\ measured' = TRUE
  /\ lag' = t1 - m.seconds
  /\ t2' = clock
  /\ step' = "response"
  /\ myRequest' = [m EXCEPT !.type = "DELAY_REQ"]
  /\ paired' = (paired /\ m.type = "FOLLOW_UP")
  /\ UNCHANGED <<clock, t1, delay>>

(* Mutant: i is never reset. *)
ReuseForEver(m, again) ==
  /\ step = "followUp"
  /\ measured
  /\ UNCHANGED measured
  /\ SetClock(t1, t1 - m.seconds, delay)
  /\ myRequest' = m
  /\ paired' = (paired /\ m.type = "FOLLOW_UP")

(* t0 in a round that does not; again is rand() % 13 == 0,                 *)
Reuse(m, again) ==
  /\ step = "followUp"
  /\ measured
  /\ measured' = ~again
  /\ SetClock(t1, t1 - m.seconds, delay)
  /\ myRequest' = m
  /\ paired' = (paired /\ m.type = "FOLLOW_UP")

(* and t3.                                                                 *)
Response(m) ==
  /\ step = "response"
  /\ SetClock(t1, lag, t2 - m.seconds)
  /\ myRequest' = m
  /\ paired' = (paired /\ m.type = "DELAY_RESP")
  /\ UNCHANGED measured

(* The answer to a DELAY-REQUEST comes before or after what is on its way. *)
Returned(m, rest) ==
  \/ /\ \/ OtherThanSync(m) \/ Jump(m) \/ Sync(m) \/ Response(m)
        \/ \E again \in BOOLEAN : Reuse(m, again)
     /\ due' = rest
  \/ /\ Ask(m)
     /\ \E k \in 1..(Len(rest) + 1) : due' = InsertAt(rest, k, Message("DELAY_RESP"))

(* A message arrives while the task is in recvfrom. *)
Receive ==
  /\ due # <<>>
  /\ Returned(Head(due), Tail(due))
  /\ UNCHANGED faults

(* socket, bind or recvfrom fails: nothing is read. *)
ReceiveFails ==
  /\ faults < MaxFaults
  /\ faults' = faults + 1
  /\ Returned(myRequest, due)

(* The network loses a message, or it comes while no socket is open, since *)
(* receiveUDP closes its socket after each message; a lost answer also     *)
(* stands for a request that sendUDP could not send.                       *)
Lose ==
  /\ due # <<>>
  /\ faults < MaxFaults
  /\ faults' = faults + 1
  /\ due' = Tail(due)
  /\ UNCHANGED <<clock, step, measured, myRequest, t1, lag, t2, delay, paired>>

(* The next SYNC of the master: what is stored grows older. *)
NextPeriod ==
  /\ due = <<>>
  /\ due' = <<Message("SYNC"), Message("FOLLOW_UP")>>
  /\ myRequest' = [myRequest EXCEPT !.seconds = IF myRequest.type = "none" THEN 0 ELSE @ - Period]
  /\ t1' = IF step = "sync" THEN t1 ELSE t1 - Period
  /\ t2' = IF step = "response" THEN t2 - Period ELSE t2
  /\ paired' = (paired /\ step = "sync")
  /\ UNCHANGED <<clock, step, measured, lag, delay, faults>>

Next == Receive \/ ReceiveFails \/ Lose \/ NextPeriod

(* The master keeps sending, and rand() keeps returning multiples of 13. *)
Fairness ==
  /\ WF_vars(NextPeriod)
  /\ WF_vars(Receive)
  /\ SF_vars(Receive /\ measured /\ ~measured')

Safety == Init /\ [][Next]_vars
Spec == Safety /\ Fairness

-----------------------------------------------------------------------------
(* Every variable holds a value of its type.                               *)
TypeOK ==
  /\ {clock, t1, lag, t2, delay} \subseteq Int
  /\ step \in {"sync", "followUp", "response"}
  /\ measured \in BOOLEAN /\ paired \in BOOLEAN
  /\ faults \in 0..MaxFaults

(* A round that measures the delay and pairs its messages rightly sets the *)
(* clock to the master's time, whatever rounds and losses came before.     *)
MeasuredRoundSetsClock ==
  [][step = "response" /\ step' = "sync" /\ paired' => clock' = 0]_vars

(* Each lost message, and each failed call, adds at most one period to the *)
(* error; without them the clock is never worse than at the start.         *)
ErrorBounded == Abs(clock) <= Threshold => Abs(clock) <= MaxError + Period * faults

(* However many messages were lost, the clock is right again and again.    *)
ClockIsRightAgain == []<>(clock = 0)

(* Must fail: once the master's time has been taken it is kept, as nothing *)
(* else sets the clock.                                                    *)
ClockStaysSet == [][clock = 0 /\ paired /\ faults = 0 => clock' = 0]_vars
=============================================================================
